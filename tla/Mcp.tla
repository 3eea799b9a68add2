--------------------------------- MODULE Mcp ---------------------------------
(***************************************************************************)
(* The MCP gateway: one task per connection of the guest reads a request,  *)
(* answers it, logs it and sends the answer.  Requests for the servers of  *)
(* the host go over their stdin and stdout, under the one lock of          *)
(* McpServerManager, which is held until the answer is read.  The built-in *)
(* tools fetch a page over HTTP and return a part of it.                   *)
(* The application passes no server definitions; the manager is modelled   *)
(* as it behaves when it has some.                                         *)
(***************************************************************************)
EXTENDS Naturals, Sequences, FiniteSets

CONSTANTS
    Agents,         \* connections of the guest
    Servers,        \* names of the defined servers: sequences of words
    Lines,          \* connection -> what the guest may send there: [method, name, wide]
    Policies,       \* McpPolicy: [blocked, allowed, decisions, default]
    Page,           \* the text of the fetched page: the widths of its characters in bytes
    MaxLines,       \* bound: connection -> lines sent there
    MaxNoise        \* bound: lines a server writes unasked

\* Names are sequences of words, and a server has one.
ASSUME McpAssumption ==
    /\ Page \in Seq(Nat)
    /\ Servers \subseteq Seq(STRING) /\ << >> \notin Servers
    /\ \A a \in Agents : \A line \in Lines[a] : line.name \in Seq(STRING)

VARIABLES
    mcpPolicy,  \* the policy of the gateway
    agent,      \* connection -> [pc, n, line, answer, row, next, got, done]
    manager,    \* connections that hold or wait for the lock, the holder first
    server,     \* name -> [state, stdin, stdout]
    noise,      \* lines written unasked
    noisy       \* a server wrote a request of its own, a blank line or no JSON

mcpVars == <<mcpPolicy, agent, manager, server, noise, noisy>>

Sep == "__"
NoAnswer == [kind |-> "none", for |-> << >>]
NoLine == [method |-> "none", name |-> << >>, wide |-> FALSE]

McpInit ==
    /\ mcpPolicy \in Policies
    /\ agent = [a \in Agents |-> [pc |-> "read", n |-> 0, line |-> NoLine, answer |-> NoAnswer, row |-> "none",
                                  next |-> 0, got |-> 0, done |-> FALSE]]
    /\ manager = << >>
    /\ server = [v \in Servers |-> [state |-> "off", stdin |-> << >>, stdout |-> << >>]]
    /\ noise = 0 /\ noisy = FALSE

------------------------------------------------------------------------------
(* Names and policy.                                                       *)

NamespaceName(v, name) == v \o <<Sep>> \o name

SepsAt(name) == {i \in DOMAIN name : name[i] = Sep}
NoName == [server |-> << >>, local |-> << >>]

\* parse_namespaced splits at the first one.
ParseNamespaced(name) ==
    IF SepsAt(name) = {} THEN NoName
    ELSE LET i == CHOOSE j \in SepsAt(name) : \A k \in SepsAt(name) : j <= k
         IN [server |-> SubSeq(name, 1, i - 1), local |-> SubSeq(name, i + 1, Len(name))]

\* The decision for the tool comes before the lists of servers.
EvaluateToolFirst(v, name) ==
    CASE name \in DOMAIN mcpPolicy.decisions -> mcpPolicy.decisions[name]
      [] v \in mcpPolicy.blocked -> "block"
      [] mcpPolicy.allowed # {} /\ v \notin mcpPolicy.allowed -> "block"
      [] OTHER -> mcpPolicy.default

Evaluate(v, name) ==
    CASE v \in mcpPolicy.blocked -> "block"
      [] v \notin mcpPolicy.blocked /\ mcpPolicy.allowed # {} /\ v \notin mcpPolicy.allowed -> "block"
      [] OTHER -> IF name \in DOMAIN mcpPolicy.decisions THEN mcpPolicy.decisions[name] ELSE mcpPolicy.default

Builtin == {<<"fetch_http">>, <<"grep_http">>, <<"http_headers">>}
ServerOf(name) == IF name \in Builtin THEN <<"builtin">> ELSE ParseNamespaced(name).server

------------------------------------------------------------------------------
(* A connection.                                                           *)

Reply(kind, for) == [kind |-> kind, for |-> for]
Me(a) == <<a, agent[a].n>>
Answered(a, kind) == agent' = [agent EXCEPT ![a].pc = "log", ![a].answer = Reply(kind, Me(a))]

\* The next line: end of file, a blank line, one that is too long or is no
\* JSON (answered and not logged), or a request.
ReadLine(a) ==
    /\ agent[a].pc = "read"
    /\ \/ agent' = [agent EXCEPT ![a].pc = "ended"]
       \/ /\ agent[a].n < MaxLines[a]
          /\ \E line \in Lines[a] :
                agent' = [agent EXCEPT ![a].n = @ + 1, ![a].line = line, ![a].row = "none",
                                       ![a].pc = IF line.method \in {"blank", "bad"} THEN "read" ELSE "handle"]
    /\ UNCHANGED <<mcpPolicy, manager, server, noise, noisy>>

Named == {"tools/call", "resources/read", "prompts/get"}
NeedsLock == {"tools/list", "resources/list", "prompts/list", "resources/read", "prompts/get"}

\* handle_json_rpc up to the lock, for everything but built-in tools.  A request
\* that must name something and does not is answered; only tools/call asks the policy.
Handle(a) ==
    LET line == agent[a].line
        blocked == Evaluate(ServerOf(line.name), line.name) = "block"
        missing == line.method \in Named /\ line.name = << >>
        waits == line.method \in NeedsLock \/ (line.method = "tools/call" /\ ~blocked)
    IN /\ agent[a].pc = "handle" /\ line.name \notin Builtin
       /\ CASE line.method = "notifications/initialized" -> agent' = [agent EXCEPT ![a].pc = "read"]
            [] missing -> Answered(a, "error")
            [] line.method = "tools/call" /\ ~missing /\ blocked -> Answered(a, "blocked")
            [] waits /\ ~missing -> agent' = [agent EXCEPT ![a].pc = "lock"]
            [] line.method = "initialize" -> Answered(a, "result")
            [] OTHER -> Answered(a, "error")
       /\ manager' = IF agent'[a].pc = "lock" THEN Append(manager, a) ELSE manager
       /\ UNCHANGED <<mcpPolicy, server, noise, noisy>>

------------------------------------------------------------------------------
(* The built-in tools.                                                     *)

Bytes[i \in 0..Len(Page)] == IF i = 0 THEN 0 ELSE Bytes[i - 1] + Page[i]
Total == Bytes[Len(Page)]
Boundaries == {Bytes[i] : i \in 0..Len(Page)}
Smaller(x, y) == IF x < y THEN x ELSE y

\* Counts the end of the part among the rest.
PaginateLate(start, max) ==
    IF start >= Total THEN [from |-> start, to |-> start, more |-> FALSE]
    ELSE [from |-> start, to |-> Smaller(start + max, Total), more |-> start + max + 1 < Total]

\* paginate: the part [from, to) of the text, and whether there is more.
Paginate(start, max) ==
    IF start >= Total THEN [from |-> start, to |-> start, more |-> FALSE]
    ELSE [from |-> start, to |-> Smaller(start + max, Total), more |-> start + max < Total]

\* A slice that does not begin and end between two characters panics.
Panics(part) == part.from < Total /\ ~({part.from, part.to} \subseteq Boundaries)

\* tool_error, which is a result for JSON-RPC: the domain policy of the moment
\* denies the host, the request fails, or its content is binary.
ToolError(a) == Answered(a, "result")

\* The part of the text the guest asked for.  A guest that is told how to
\* continue goes on where the part ended.
ReturnPart(a, told) ==
    \E max \in 1..2 :
        LET part == Paginate(agent[a].next, max)
            sent == [agent[a] EXCEPT !.pc = "log", !.answer = Reply("result", Me(a))]
        IN agent' = [agent EXCEPT ![a] =
               CASE Panics(part) -> [@ EXCEPT !.pc = "ended"]
                 [] ~Panics(part) /\ told -> [sent EXCEPT !.next = part.to, !.got = @ + part.to - part.from,
                                                          !.done = ~part.more]
                 [] OTHER -> sent]

\* The three tools.  What is left of the headers is not mentioned.
FetchHttp(a) == agent[a].line.name = <<"fetch_http">> /\ (ToolError(a) \/ ReturnPart(a, TRUE))
GrepHttp(a) == agent[a].line.name = <<"grep_http">> /\ (ToolError(a) \/ ReturnPart(a, TRUE))
HttpHeaders(a) == agent[a].line.name = <<"http_headers">> /\ (ToolError(a) \/ ReturnPart(a, FALSE))

\* Built-in tools take no lock.
NoLockNeeded(a) == TRUE

CallBuiltin(a) ==
    LET line == agent[a].line
    IN /\ agent[a].pc = "handle" /\ line.method = "tools/call" /\ line.name \in Builtin /\ NoLockNeeded(a)
       /\ IF Evaluate(<<"builtin">>, line.name) = "block" THEN Answered(a, "blocked")
          ELSE FetchHttp(a) \/ GrepHttp(a) \/ HttpHeaders(a)
       /\ UNCHANGED <<mcpPolicy, manager, server, noise, noisy>>

------------------------------------------------------------------------------
(* The servers.                                                            *)

\* initialize_all, under the lock: each server starts, or is left out.
Initialize ==
    /\ \A v \in Servers : server[v].state = "off"
    /\ manager = << >>
    /\ \E up \in SUBSET Servers :
          server' = [v \in Servers |-> [server[v] EXCEPT !.state = IF v \in up THEN "running" ELSE "absent"]]
    /\ UNCHANGED <<mcpPolicy, agent, manager, noise, noisy>>

HoldsManager(a) == manager # << >> /\ Head(manager) = a
Unlock == manager' = Tail(manager)

\* The guard is dropped with the call.
Release(a) == manager' = IF HoldsManager(a) THEN Tail(manager) ELSE manager

\* The lock is kept until the answer is read.
KeepLock(a) == UNCHANGED manager

\* With the lock: a list is answered from the catalogue, a request is written
\* to its server, or fails when that does not run.
WithManager(a) ==
    LET line == agent[a].line
        v == ParseNamespaced(line.name).server
    IN /\ agent[a].pc = "lock" /\ HoldsManager(a)
       /\ CASE line.method \in {"tools/list", "resources/list", "prompts/list"} ->
                    Answered(a, "result") /\ Unlock /\ UNCHANGED server
            [] line.method \in {"tools/call", "resources/read", "prompts/get"}
                 /\ (v \notin Servers \/ server[v].state \notin {"running", "dead"}) ->
                    Answered(a, "error") /\ Unlock /\ UNCHANGED server
            [] OTHER ->
                    /\ agent' = [agent EXCEPT ![a].pc = "await"] /\ KeepLock(a)
                    /\ server' = [server EXCEPT ![v].stdin = Append(@, [for |-> Me(a), name |-> line.name])]
       /\ UNCHANGED <<mcpPolicy, noise, noisy>>

Target(a) == ParseNamespaced(agent[a].line.name).server

\* Takes what comes, notification or not.
TakesAll(reply) == TRUE

\* A line with an id is taken for the answer; notifications are skipped.
HasId(reply) == reply.kind # "notification"

\* RunningServer::call reads a line.
ReadReply(a) ==
    LET v == Target(a)  line == Head(server[v].stdout)
    IN /\ agent[a].pc = "await" /\ server[v].stdout # << >>
       /\ server' = [server EXCEPT ![v].stdout = Tail(@)]
       /\ IF ~HasId(line) THEN UNCHANGED <<agent, manager>>
          ELSE /\ Release(a)
               /\ agent' = [agent EXCEPT ![a].pc = "log",
                                         ![a].answer = IF line.kind = "blank" THEN Reply("error", Me(a)) ELSE line]
       /\ UNCHANGED <<mcpPolicy, noise, noisy>>

\* The end of stdout, or a write that fails.
ReplyFails(a) ==
    LET v == Target(a)
    IN /\ agent[a].pc = "await" /\ server[v].state = "dead" /\ server[v].stdout = << >>
       /\ Answered(a, "error") /\ Release(a)
       /\ UNCHANGED <<mcpPolicy, server, noise, noisy>>

\* A server answers in the order it was asked, writes something unasked, or dies.
ServerAnswers(v) ==
    /\ server[v].state = "running" /\ server[v].stdin # << >>
    /\ server' = [server EXCEPT ![v].stdin = Tail(@), ![v].stdout = Append(@, Reply("result", Head(server[v].stdin).for))]
    /\ UNCHANGED <<mcpPolicy, agent, manager, noise, noisy>>

ServerNoise(v) ==
    /\ server[v].state = "running" /\ noise < MaxNoise /\ noise' = noise + 1
    /\ \E kind \in {"notification", "request", "blank"} :
          /\ server' = [server EXCEPT ![v].stdout = Append(@, Reply(kind, << >>))]
          /\ noisy' = (noisy \/ kind # "notification")
    /\ UNCHANGED <<mcpPolicy, agent, manager>>

ServerDies(v) ==
    /\ server[v].state = "running" /\ server' = [server EXCEPT ![v].state = "dead"]
    /\ UNCHANGED <<mcpPolicy, agent, manager, noise, noisy>>

------------------------------------------------------------------------------
(* The end of a request.                                                   *)

Decision(a) ==
    CASE agent[a].answer.kind = "blocked" -> "denied"
      [] agent[a].answer.kind = "error" -> "error"
      [] OTHER -> "allowed"

\* log_mcp_call and the answer to the guest.  A preview that is cut inside a
\* character panics: the connection ends without a row and without the answer.
LogAndAnswer(a) ==
    /\ agent[a].pc = "log"
    /\ IF agent[a].line.wide
       THEN agent' = [agent EXCEPT ![a].pc = "ended"]
       ELSE agent' = [agent EXCEPT ![a].pc = "read", ![a].line = NoLine, ![a].answer = NoAnswer, ![a].row = Decision(a)]
    /\ UNCHANGED <<mcpPolicy, manager, server, noise, noisy>>

AgentStep(a) ==
    Handle(a) \/ CallBuiltin(a) \/ WithManager(a) \/ ReadReply(a) \/ ReplyFails(a) \/ LogAndAnswer(a)

McpNext ==
    \/ \E a \in Agents : ReadLine(a) \/ AgentStep(a)
    \/ \E v \in Servers : ServerAnswers(v) \/ ServerNoise(v) \/ ServerDies(v)
    \/ Initialize

McpSpec == McpInit /\ [][McpNext]_mcpVars

\* The tasks are scheduled, and an HTTP request ends within its 30 seconds.
McpFairness == \A a \in Agents : WF_mcpVars(AgentStep(a))

------------------------------------------------------------------------------
(* Properties.                                                             *)

\* The lock is waited for once by each connection that needs it, and a
\* connection that waits for a server holds it.
McpTypeOK ==
    /\ \A i, j \in DOMAIN manager : manager[i] = manager[j] => i = j
    /\ \A a \in Agents : (\E i \in DOMAIN manager : manager[i] = a) <=> agent[a].pc \in {"lock", "await"}
    /\ \A a \in Agents : agent[a].pc = "await" => HoldsManager(a)

\* Each connection gets the answer to its own request although all share the
\* stdout of a server, as long as the server writes only answers and
\* notifications there: over errors, servers that die and connections that end.
AnswersOwn == ~noisy => \A a \in Agents : agent[a].pc = "log" => agent[a].answer.for = Me(a)

\* The name is one of this server, whatever separators the rest of it holds.
Has(v, name) == \E k \in 1..Len(name) + 1 : NamespaceName(v, SubSeq(name, k, Len(name))) = name

Permitted(v, name) ==
    /\ v \notin mcpPolicy.blocked /\ (mcpPolicy.allowed = {} \/ v \in mcpPolicy.allowed)
    /\ name \in DOMAIN mcpPolicy.decisions => mcpPolicy.decisions[name] # "block"

Wants(a) == agent[a].pc = "lock" /\ agent[a].line.method \notin {"tools/list", "resources/list", "prompts/list"}

\* What the connection a asks for reaches the server v if that has it, and no
\* other; a call reaches v only if the policy lets it through.
Reaches(a, v) ==
    LET has == SepsAt(v) = {} /\ Has(v, agent[a].line.name)
        sent == Len(server'[v].stdin) > Len(server[v].stdin)
        asked == Wants(a) /\ agent'[a].pc = "await" /\ sent
    IN /\ Wants(a) /\ has /\ server[v].state = "running" /\ agent'[a].pc # "lock" => sent
       /\ asked => has
       /\ asked /\ agent[a].line.method = "tools/call" => Permitted(v, agent[a].line.name)

\* A server is sent only calls that the policy lets through: no blocked server,
\* none outside a list of allowed ones, no blocked tool.  A request for what a
\* running server has reaches that server, whatever the tool is called, as long
\* as no name of a server holds the separator, and no other server gets it.
CallsRouted == [][\A a \in Agents, v \in Servers : Reaches(a, v)]_mcpVars

\* A guest that follows the start_index of each part has the whole page when it
\* is told that there is no more, and nothing twice.
PagesWhole == \A a \in Agents : agent[a].got = Smaller(agent[a].next, Total) /\ (agent[a].done => agent[a].got = Total)

\* A built-in tool is answered, or its connection ends, also while a server
\* never answers the connection that holds the lock.
BuiltinsServed ==
    \A a \in Agents : agent[a].pc = "handle" /\ agent[a].line.name \in Builtin ~> agent[a].pc \in {"read", "ended"}
==============================================================================
