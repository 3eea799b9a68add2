------------------------------ MODULE MCNetwork ------------------------------
(***************************************************************************)
(* The network services of a running machine, each in its own environment: *)
(* they share no variable, so a behaviour runs one of them, picked by      *)
(* part.                                                                   *)
(* Proxy: three connections for two permits, one that never says hello, a  *)
(* domain of a provider and another; the swap of the policy tightens it    *)
(* for the one and loosens it for the other.  Telemetry: on one connection *)
(* the second request answers the call of the first and asks for a call of *)
(* the same name, the other connection asks for none.  Stream: a message   *)
(* of each provider with thoughts, text and interleaved calls, with each   *)
(* kind of line end, with and without a last empty line; a body that is    *)
(* one document, whole and too long for the preview, and one too large.    *)
(***************************************************************************)
EXTENDS MitmProxy, Telemetry, Vpn, LlmStream

CONSTANTS a, b, c, ai, git, one, two

VARIABLE part
networkVars == <<part, proxyVars, telemetryVars, vpnVars, llmVars>>

MCNames == (a :> {ai}) @@ (b :> {ai, git}) @@ (c :> {})
MCMaxRequests == (a :> 2) @@ (b :> 0) @@ (c :> 0)
Verdict(read, write) == [read |-> read, write |-> write]
MCPolicySet == {[d \in {ai, git} |-> Verdict(TRUE, d = ai)],
                [d \in {ai, git} |-> Verdict(TRUE, d = git)]}

MCTurns == {<<a, 1>>, <<a, 2>>, <<b, 1>>}
MCCalls == [ex \in MCTurns |-> IF ex[1] = a THEN {"tool"} ELSE {}]
MCResults == [ex \in MCTurns |-> IF ex = <<a, 2>> THEN {"tool"} ELSE {}]

Peer(allowed) == <<Header("Peer"), Setting("PublicKey", "good"), Setting("Endpoint", "good"),
                   Setting("AllowedIPs", allowed)>>
Interface == <<Header("Interface"), Setting("PrivateKey", "good"), Setting("Address", "good"),
               Setting("MTU", "bad"), Setting("DNS", "empty")>>
MCConfigs == {Interface \o Peer("good"), Peer("good") \o Interface, Interface \o Peer("empty"),
              Interface \o Peer("bad"), Tail(Interface) \o Peer("good"), Peer("good"),
              Interface \o <<Neither>> \o Peer("good"), <<Header("Peers")>> \o Interface}

\* Documents: the word that stands for them, and what they say.
Doc == [index |-> 0, kind |-> "", text |-> "", id |-> "m", usage |-> {}, stop |-> {}, parts |-> << >>]
Piece(kind, index, text) == [Doc EXCEPT !.index = index, !.kind = kind, !.text = text]
Begin(kind, index, id) == [Doc EXCEPT !.index = index, !.kind = kind, !.id = id]
Part(kind, index, id, text) == [kind |-> kind, index |-> index, id |-> id, text |-> text]
Chunk(parts) == [Doc EXCEPT !.parts = parts]
Figures == [Doc EXCEPT !.usage = {<<"input", 5>>, <<"output", 9>>, <<"thinking", 2>>}]
MCJson ==
    ("start" :> [Doc EXCEPT !.usage = {<<"input", 5>>, <<"output", 1>>, <<"thinking", 2>>}]) @@ ("empty" :> Doc)
    @@ ("think0" :> Begin("thinking", 0, "")) @@ ("text1" :> Begin("text", 1, ""))
    @@ ("call2" :> Begin("call", 2, "A")) @@ ("call3" :> Begin("call", 3, "B"))
    @@ ("t1" :> Piece("thinking", 0, "t1")) @@ ("t2" :> Piece("thinking", 0, "t2"))
    @@ ("x1" :> Piece("text", 1, "x1")) @@ ("x2" :> Piece("text", 1, "x2"))
    @@ ("a1" :> Piece("args", 2, "a1")) @@ ("b1" :> Piece("args", 3, "b1")) @@ ("a2" :> Piece("args", 2, "a2"))
    @@ ("reason" :> [Doc EXCEPT !.usage = {<<"output", 9>>}, !.stop = {"tool_use"}]) @@ ("figures" :> Figures)
    @@ ("say1" :> Chunk(<<Part("text", 0, "", "x1")>>)) @@ ("say2" :> Chunk(<<Part("text", 0, "", "x2")>>))
    @@ ("ask2" :> Chunk(<<Part("call", 2, "A", "a1")>>)) @@ ("ask3" :> Chunk(<<Part("call", 3, "B", "")>>))
    @@ ("more" :> Chunk(<<Part("call", 3, "", "b1"), Part("call", 2, "", "a2")>>))
    @@ ("done" :> [Doc EXCEPT !.stop = {"tool_use"}])
    @@ ("gem1" :> Chunk(<<Part("thinking", 0, "", "t1"), Part("text", 0, "", "x1")>>))
    @@ ("gem2" :> Chunk(<<Part("call", 0, "A", "a1"), Part("text", 0, "", "x2"), Part("call", 0, "B", "b1")>>))
    @@ ("gem3" :> [Figures EXCEPT !.stop = {"end_turn"}])

Typed(type, name) == [type |-> type, name |-> name]
BlockStart == <<"content_block_start">>
BlockDelta == <<"content_block_delta">>
BlockStop == <<"content_block_stop">>
ArgsDelta == <<"response.", "function_call_arguments.delta">>
AnthropicMessage ==
    <<Typed(<<"message_start">>, "start"), Typed(BlockStart, "think0"), Typed(BlockDelta, "t1"), Typed(BlockDelta, "t2"),
      Typed(BlockStop, "think0"), Typed(<<"ping">>, "empty"), Typed(BlockStart, "text1"), Typed(BlockDelta, "x1"),
      Typed(BlockDelta, "x2"), Typed(BlockStop, "text1"), Typed(BlockStart, "call2"), Typed(BlockDelta, "a1"),
      Typed(BlockStart, "call3"), Typed(BlockDelta, "b1"), Typed(BlockDelta, "a2"), Typed(BlockStop, "call3"),
      Typed(BlockStop, "call2"), Typed(<<"message_delta">>, "reason"), Typed(<<"message_stop">>, "empty")>>
ChatMessage ==
    <<Typed(<< >>, "say1"), Typed(<< >>, "say2"), Typed(<< >>, "ask2"), Typed(<< >>, "ask3"), Typed(<< >>, "more"),
      Typed(<< >>, "done"), Typed(<< >>, "figures"), Typed(<< >>, "[DONE]")>>
ResponsesMessage ==
    <<Typed(<<"response.", "created">>, "empty"), Typed(<<"response.", "in_progress">>, "empty"),
      Typed(<<"response.", "reasoning_summary_text.delta">>, "t1"), Typed(<<"response.", "output_item.added">>, "text1"),
      Typed(<<"response.", "output_text.delta">>, "x1"), Typed(<<"response.", "output_item.done">>, "text1"),
      Typed(<<"response.", "output_item.added">>, "call3"), Typed(<<"response.", "output_item.added">>, "call2"),
      Typed(ArgsDelta, "a1"), Typed(ArgsDelta, "b1"), Typed(ArgsDelta, "a2"),
      Typed(<<"response.", "output_item.done">>, "call3"), Typed(<<"response.", "output_item.done">>, "call2"),
      Typed(<<"response.", "completed">>, "figures")>>
GoogleMessage == <<Typed(<< >>, "gem1"), Typed(<< >>, "gem2"), Typed(<< >>, "gem3")>>

\* The words of a message, with a comment line before each event.
Words(message, eol, last) ==
    LET data(name) == <<"data", ":", " ", name>> \o IF name = "[DONE]" THEN << >> ELSE <<"}">>
        event(e) == <<":", "comment">> \o eol \o (IF e.type = << >> THEN << >> ELSE <<"event", ":">> \o e.type \o eol)
                    \o data(e.name)
    IN FlattenSeq([i \in DOMAIN message |->
           event(message[i]) \o IF i < Len(message) \/ last THEN eol \o eol ELSE << >>])

Call(index, id, args) == [index |-> index, id |-> id, args |-> args]
Said(thinking, text, calls, usage, stop) ==
    [text |-> text, thinking |-> thinking, open |-> << >>, calls |-> calls, usage |-> usage, stop |-> stop]
TwoCalls == <<Call(2, "A", <<"a1", "a2">>), Call(3, "B", <<"b1">>)>>
Stream(api, message, said) ==
    {[api |-> api, status |-> 200, words |-> Words(message, eol, last), said |-> said, plain |-> {}] :
        eol \in {<<"lf">>, <<"cr", "lf">>, <<"cr">>}, last \in BOOLEAN}
Plain(words, said, status) ==
    [api |-> "openai", status |-> status, words |-> words, plain |-> Figures.usage,
     said |-> Said(<< >>, << >>, << >>, said, {})]
OneDocument == Plain(<<"{", "usage", ":", "n", "}">>, Figures.usage, 200)
MCBodies ==
    Stream("anthropic", AnthropicMessage, Said(<<"t1", "t2">>, <<"x1", "x2">>, TwoCalls, Figures.usage, {"tool_use"}))
    \cup Stream("openai", ChatMessage, Said(<< >>, <<"x1", "x2">>, TwoCalls, Figures.usage, {"tool_use"}))
    \cup Stream("openai", ResponsesMessage, Said(<<"t1">>, <<"x1">>, TwoCalls, Figures.usage, {"end_turn"}))
    \cup Stream("google", GoogleMessage,
                Said(<<"t1">>, <<"x1", "x2">>, <<Call(0, "A", <<"a1">>), Call(1, "B", <<"b1">>)>>, Figures.usage, {"end_turn"}))
    \cup {OneDocument, Plain(<<"{", "usage", ":", "n", "}">>, {}, 500),
          Plain([i \in 1..9 |-> "x"], {}, 200), Plain([i \in 1..(MaxBody + 1) |-> "x"], {}, 200)}

Init ==
    /\ part \in {"proxy", "telemetry", "vpn", "stream"}
    /\ ProxyInit /\ TelemetryInit /\ VpnInit /\ LlmInit
    /\ part # "proxy" => enabled
    /\ policy = CHOOSE p \in PolicySet : TRUE
    /\ part # "stream" => body = OneDocument

Next ==
    \/ part = "proxy" /\ ProxyNext /\ UNCHANGED <<part, telemetryVars, vpnVars, llmVars>>
    \/ part = "telemetry" /\ TelemetryNext /\ UNCHANGED <<part, proxyVars, vpnVars, llmVars>>
    \/ part = "vpn" /\ VpnNext /\ UNCHANGED <<part, proxyVars, telemetryVars, llmVars>>
    \/ part = "stream" /\ LlmNext /\ UNCHANGED <<part, proxyVars, telemetryVars, vpnVars>>

Spec == Init /\ [][Next]_networkVars /\ ProxyFairness /\ TelemetryFairness /\ VpnFairness

\* Nothing waits for ever: a connection of the proxy ends and gives its permit
\* back, the writer thread ends when the session lets go of it, and connect of
\* the VPN returns, whatever guest, servers and network do.
WaitsEnd == ConnectionsEnd /\ WriterEnds /\ ConnectReturns
==============================================================================
