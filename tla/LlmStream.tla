------------------------------ MODULE LlmStream ------------------------------
(***************************************************************************)
(* The answer of a language model on its way through the proxy: the body   *)
(* comes in chunks that are forwarded as they are and fed to the SSE       *)
(* parser, whose events a parser for the interface of the provider turns   *)
(* into the events that collect_summary puts together for the telemetry.   *)
(* A chunk is a sequence of words; line ends, colons and spaces are words  *)
(* of their own, so that a chunk may end anywhere between them.            *)
(***************************************************************************)
EXTENDS Naturals, Sequences, FiniteSets, SequencesExt, TLC

CONSTANTS
    Bodies,     \* [api, status, words, said, plain]: what is sent, and what it says
    Json,       \* word -> the JSON document it and a closing brace stand for
    MaxChunk,   \* bound: words in a chunk
    MaxBody,    \* max_body_size
    MaxPreview  \* the part of the body that is kept as it is

ASSUME LlmAssumption == \A b \in Bodies : b.words \in Seq(STRING)

VARIABLES
    body,       \* the body that is sent
    delivered,  \* words that arrived
    sse,        \* SseParser: [line, type, data, cr]
    parser,     \* the parser of the provider: [blocks, started, index, stop]
    llm,        \* the events so far
    stream      \* "open", "ended", "failed" or "dropped"

llmVars == <<body, delivered, sse, parser, llm, stream>>

LlmInit ==
    /\ body \in Bodies /\ delivered = 0 /\ llm = << >> /\ stream = "open"
    /\ sse = [line |-> << >>, type |-> {}, data |-> << >>, cr |-> FALSE]
    /\ parser = [blocks |-> {}, started |-> FALSE, index |-> 0, stop |-> {}]

------------------------------------------------------------------------------
(* sse.rs.  An operation returns the parser and the SSE events it emits.   *)

Emits(p, events) == [p |-> p, events |-> events]

\* The end of an event: its type if it has one, its lines of data.
DispatchEvent(p) ==
    LET cleared == [p EXCEPT !.type = {}, !.data = << >>]
    IN IF (p.data = << >> /\ p.type = {}) \/ p.data = << <<"[DONE]">> >> THEN Emits(cleared, << >>)
       ELSE Emits(cleared, << [type |-> p.type, data |-> p.data] >>)

ProcessLine(p) ==
    LET line == p.line
        colons == {i \in DOMAIN line : line[i] = ":"}
        colon == IF colons = {} THEN Len(line) + 1 ELSE CHOOSE i \in colons : \A j \in colons : i <= j
        from == IF colon < Len(line) /\ line[colon + 1] = " " THEN colon + 2 ELSE colon + 1
        value == SubSeq(line, from, Len(line))
        rest == [p EXCEPT !.line = << >>]
    IN IF line = << >> THEN DispatchEvent(rest)
       ELSE CASE SubSeq(line, 1, colon - 1) = <<"event">> -> Emits([rest EXCEPT !.type = {value}], << >>)
              [] SubSeq(line, 1, colon - 1) = <<"data">> -> Emits([rest EXCEPT !.data = Append(@, value)], << >>)
              [] OTHER -> Emits(rest, << >>)

FeedByte(p, w) ==
    CASE w = "lf" /\ p.cr -> Emits([p EXCEPT !.cr = FALSE], << >>)
      [] w = "cr" -> ProcessLine([p EXCEPT !.cr = TRUE])
      [] w = "lf" /\ ~p.cr -> ProcessLine(p)
      [] OTHER -> Emits([p EXCEPT !.line = Append(@, w), !.cr = FALSE], << >>)

Feed(p, words) ==
    LET fed[i \in 0..Len(words)] ==
            IF i = 0 THEN Emits(p, << >>)
            ELSE LET acc == fed[i - 1]
                     r == FeedByte(acc.p, words[i])
                 IN Emits(r.p, acc.events \o r.events)
    IN fed[Len(words)]

\* Dispatches only what an empty line has ended.
FlushNothing(p) == Emits(p, << >>)

Flush(p) == DispatchEvent(IF p.line = << >> THEN p ELSE ProcessLine(p).p)

------------------------------------------------------------------------------
(* The parsers of the providers: SSE event -> LlmEvents, and their state.  *)

\* The document that is the data of an event, if it is one; it came in one line.
Document(e) ==
    IF Len(e.data) = 1 /\ Len(e.data[1]) = 2 /\ e.data[1][2] = "}" /\ e.data[1][1] \in DOMAIN Json
    THEN {Json[e.data[1][1]]} ELSE {}

Event(kind, index, text) == [kind |-> kind, index |-> index, text |-> text, usage |-> {}, stop |-> {}]
Usage(d) == IF d.usage = {} THEN << >> ELSE << [Event("usage", 0, "") EXCEPT !.usage = d.usage] >>
MessageEnd(stop) == << [Event("end", 0, "") EXCEPT !.stop = stop] >>
Delta(kind, index, text) == IF text = "" THEN << >> ELSE <<Event(kind, index, text)>>
Gives(p, events) == [p |-> p, events |-> events]

\* Blocks are told apart by their index; the reason to stop is kept until the
\* message stops.
Anthropic(p, type, d) ==
    CASE type = {<<"message_start">>} -> Gives(p, <<Event("start", 0, d.id)>> \o Usage(d))
      [] type = {<<"content_block_start">>} ->
            Gives([p EXCEPT !.blocks = {b \in @ : b[1] # d.index} \cup {<<d.index, d.kind>>}],
                  IF d.kind = "call" THEN <<Event("call", d.index, d.id)>> ELSE << >>)
      [] type = {<<"content_block_delta">>} -> Gives(p, <<Event(d.kind, d.index, d.text)>>)
      [] type = {<<"content_block_stop">>} ->
            Gives([p EXCEPT !.blocks = {b \in @ : b[1] # d.index}],
                  (IF <<d.index, "call">> \in p.blocks THEN <<Event("call_end", d.index, "")>> ELSE << >>)
                  \o <<Event("block_end", d.index, "")>>)
      [] type = {<<"message_delta">>} -> Gives([p EXCEPT !.stop = IF d.stop = {} THEN @ ELSE d.stop], Usage(d))
      [] OTHER -> Gives(p, << >>)

AnthropicStop(p) == Gives([p EXCEPT !.stop = {}], MessageEnd(p.stop))

Start(p, d) == IF p.started THEN << >> ELSE <<Event("start", 0, d.id)>>

\* A part of a chunk of Chat Completions: text, or a piece of a tool call,
\* whose first piece has the id.
ChatPart(part) ==
    IF part.kind = "text" THEN Delta("text", 0, part.text)
    ELSE (IF part.id = "" THEN << >> ELSE <<Event("call", part.index, part.id)>>)
         \o Delta("args", part.index, part.text)

OpenAiChat(p, type, d) ==
    Gives([p EXCEPT !.started = TRUE],
          Start(p, d) \o FlattenSeq([i \in DOMAIN d.parts |-> ChatPart(d.parts[i])])
          \o (IF d.stop = {} THEN << >> ELSE MessageEnd(d.stop)) \o Usage(d))

\* The Responses API names its events; a response that is complete ends the turn.
OpenAiResponses(p, type, d) ==
    CASE type = {<<"response.", "created">>} -> Gives([p EXCEPT !.started = TRUE], <<Event("start", 0, d.id)>>)
      [] type = {<<"response.", "output_item.added">>} ->
            Gives(p, IF d.kind = "call" THEN <<Event("call", d.index, d.id)>> ELSE << >>)
      [] type = {<<"response.", "output_text.delta">>} -> Gives(p, Delta("text", d.index, d.text))
      [] type = {<<"response.", "reasoning_summary_text.delta">>} -> Gives(p, Delta("thinking", d.index, d.text))
      [] type = {<<"response.", "function_call_arguments.delta">>} -> Gives(p, Delta("args", d.index, d.text))
      [] type = {<<"response.", "output_item.done">>} ->
            Gives(p, IF d.kind = "call" THEN <<Event("call_end", d.index, "")>> ELSE << >>)
      [] type = {<<"response.", "completed">>} -> Gives(p, Usage(d) \o MessageEnd({"end_turn"}))
      [] OTHER -> Gives(p, << >>)

\* A part of a chunk of Gemini: a whole call has the next index.
GooglePart(acc, part) ==
    LET i == acc.p.index
    IN IF part.kind = "call"
       THEN Gives([acc.p EXCEPT !.index = i + 1],
                  acc.events \o <<Event("call", i, part.id), Event("args", i, part.text), Event("call_end", i, "")>>)
       ELSE Gives(acc.p, acc.events \o Delta(part.kind, i, part.text))

Google(p, type, d) ==
    LET parts == FoldLeft(GooglePart, Gives([p EXCEPT !.started = TRUE], Start(p, d)), d.parts)
    IN Gives(parts.p, parts.events \o (IF d.stop = {} THEN << >> ELSE MessageEnd(d.stop)) \o Usage(d))

\* The type of an event of the Responses API begins with "response."; the
\* chunks of Chat Completions have none.
OpenAi(p, type, d) ==
    IF \E t \in type : t # << >> /\ t[1] = "response." THEN OpenAiResponses(p, type, d) ELSE OpenAiChat(p, type, d)

\* parse_event; data that is no document is passed over.
ParseEvent(api, p, e) ==
    IF api = "anthropic" /\ e.type = {<<"message_stop">>} THEN AnthropicStop(p)
    ELSE IF Document(e) = {} THEN Gives(p, << >>)
    ELSE LET d == CHOOSE x \in Document(e) : TRUE
         IN CASE api = "anthropic" -> Anthropic(p, e.type, d)
              [] api = "openai" -> OpenAi(p, e.type, d)
              [] api = "google" -> Google(p, e.type, d)

\* Goes on from the parser and the events so far.
Parse(api, before, events) ==
    LET parsed[i \in 0..Len(events)] ==
            IF i = 0 THEN before
            ELSE LET acc == parsed[i - 1]
                     r == ParseEvent(api, acc.p, events[i])
                 IN Gives(r.p, acc.events \o r.events)
    IN parsed[Len(events)]

------------------------------------------------------------------------------
(* collect_summary                                                         *)

NoSummary == [text |-> << >>, thinking |-> << >>, open |-> << >>, calls |-> << >>, usage |-> {}, stop |-> {}]

\* The open call of an index that was begun last.
Builder(s, index) == {i \in DOMAIN s.open : s.open[i].index = index /\ \A j \in DOMAIN s.open : s.open[j].index = index => j <= i}
Complete(s, index) ==
    IF Builder(s, index) = {} THEN s
    ELSE LET i == CHOOSE x \in Builder(s, index) : TRUE
         IN [s EXCEPT !.open = RemoveAt(@, i), !.calls = Append(@, s.open[i])]

AddArgs(s, e) ==
    IF Builder(s, e.index) = {} THEN s
    ELSE [s EXCEPT !.open[CHOOSE i \in Builder(s, e.index) : TRUE].args = Append(@, e.text)]

\* The last figure of each kind counts.
Merge(old, new) == {u \in old : \A n \in new : n[1] # u[1]} \cup new

CollectEvent(s, e) ==
    CASE e.kind = "text" -> [s EXCEPT !.text = Append(@, e.text)]
      [] e.kind = "thinking" -> [s EXCEPT !.thinking = Append(@, e.text)]
      [] e.kind = "call" -> [s EXCEPT !.open = Append(@, [index |-> e.index, id |-> e.text, args |-> << >>])]
      [] e.kind = "args" -> AddArgs(s, e)
      [] e.kind \in {"call_end", "block_end"} -> Complete(s, e.index)
      [] e.kind = "usage" -> [s EXCEPT !.usage = Merge(@, e.usage)]
      [] e.kind = "end" -> [s EXCEPT !.stop = e.stop]
      [] OTHER -> s

CollectSummary(events) ==
    LET s == FoldLeft(CollectEvent, NoSummary, events)
    IN [s EXCEPT !.open = << >>, !.calls = SortSeq(@ \o s.open, LAMBDA x, y : x.index < y.index)]

\* parse_non_streaming_usage: a body that is one document has figures of its
\* own, if the preview holds all of it.
NonStreamingUsage(b, n) ==
    IF b.status = 200 /\ Len(b.words) <= MaxPreview /\ n = Len(b.words) THEN b.plain ELSE {}

Counts(usage) == {u \in usage : u[1] \in {"input", "output"}}

\* The summary after n words of a body.  A stream that did not give the tokens of
\* the input leaves the others to its document.
Summary(b, events, n) ==
    LET s == CollectSummary(events)
        plain == NonStreamingUsage(b, n)
    IN IF \E u \in s.usage : u[1] = "input" THEN s
       ELSE [s EXCEPT !.usage = Merge(IF @ \subseteq Counts(@) THEN plain ELSE Counts(plain), @)]

------------------------------------------------------------------------------
(* AiResponseBody                                                          *)

Deliver(fed, sends) ==
    LET parsed == Parse(body.api, Gives(parser, llm), fed.events)
    IN sse' = fed.p /\ parser' = parsed.p /\ llm' = parsed.events /\ delivered' = sends

\* poll_frame: a chunk.  A body that is too large ends with an error.
PollFrame ==
    /\ stream = "open"
    /\ \E n \in 1..MaxChunk :
          /\ delivered + n <= Len(body.words)
          /\ IF delivered + n > MaxBody
             THEN stream' = "failed" /\ UNCHANGED <<delivered, sse, parser, llm>>
             ELSE Deliver(Feed(sse, SubSeq(body.words, delivered + 1, delivered + n)), delivered + n) /\ UNCHANGED stream
    /\ UNCHANGED body

\* poll_frame: the end of the body.
AnswerEnds ==
    /\ stream = "open" /\ delivered = Len(body.words) /\ stream' = "ended"
    /\ Deliver(Flush(sse), delivered)
    /\ UNCHANGED body

\* The connection breaks, the guest goes away, or the server knows from the
\* length that this was all: the body is dropped.
AnswerDropped ==
    /\ stream = "open" /\ stream' \in {"failed", "dropped"}
    /\ UNCHANGED <<body, delivered, sse, parser, llm>>

LlmNext == PollFrame \/ AnswerEnds \/ AnswerDropped

LlmSpec == LlmInit /\ [][LlmNext]_llmVars

------------------------------------------------------------------------------
(* Properties.                                                             *)

\* What is summarised was said, although the body may go on.
SaidSoFar(b, s) ==
    /\ IsPrefix(s.text, b.said.text) /\ IsPrefix(s.thinking, b.said.thinking)
    /\ \A i \in DOMAIN s.calls :
          \E c \in Range(b.said.calls) :
              s.calls[i].index = c.index /\ s.calls[i].id = c.id /\ IsPrefix(s.calls[i].args, c.args)
    /\ s.stop \subseteq b.said.stop

\* A body that was read to its end is summarised as what it says, however it
\* was cut into chunks and whichever line ends it uses: text, thoughts, calls
\* with their arguments, figures and the reason to stop.  At any moment, also
\* when the body broke off, what is summarised was said: a beginning of the text
\* and of the thoughts, calls that were made with a beginning of their
\* arguments, and no reason but the right one.
SummaryExact ==
    LET s == Summary(body, llm, delivered)
    IN (stream = "ended" => s = body.said) /\ SaidSoFar(body, s)
==============================================================================
