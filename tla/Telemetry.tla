------------------------------ MODULE Telemetry ------------------------------
(***************************************************************************)
(* The telemetry of a session: the reports of the proxy's exchanges, the   *)
(* trace state that links the model calls of one agent turn, the bounded   *)
(* channel and the writer thread of DbWriter, and a reader that looks at   *)
(* the database while it is written.  MitmProxy shows that an exchange the *)
(* guest got an answer for is reported once; Finish is that report.        *)
(***************************************************************************)
EXTENDS Naturals, FiniteSets, Sequences, SequencesExt, TLC

CONSTANTS
    Turns,  \* pairs <<connection, number>>
    Results,    \* exchange -> tool calls whose results the request carries
    Calls,      \* model call -> tool calls its answer asks for
    Cap,        \* bound: capacity of the channel
    BatchMax,   \* bound: operations of one transaction (128)
    MaxReads    \* bound: queries of the reader

ASSUME TelemetryAssumption == BatchMax \in Nat \ {0}

VARIABLES
    finished,   \* exchanges that were reported
    tasks,      \* reports under way: [ex, stage]
    pending,    \* TraceState: tool call -> trace
    traced,     \* model calls in the order they looked up their trace
    queue,      \* the channel
    batch,      \* what the writer took from it
    db,         \* net_events and model_calls, in the order of their ids
    tools,      \* tool_calls: pairs of a model call and a tool call
    lost,       \* operations of a transaction that failed
    writer,     \* "open", "closing" once the last DbWriter is dropped, "ended"
    reading     \* a query of the reader in progress, and its result

telemetryVars == <<finished, tasks, pending, traced, queue, batch, db, tools, lost, writer, reading>>

NoQuery == [stage |-> "idle", calls |-> {}, tools |-> {}, n |-> 0]

TelemetryInit ==
    /\ finished = {} /\ tasks = {} /\ pending = << >> /\ traced = << >>
    /\ queue = << >> /\ batch = << >> /\ db = << >> /\ tools = {} /\ lost = {}
    /\ writer = "open" /\ reading = NoQuery

NetEvent(ex) == [kind |-> "net", ex |-> ex]
ModelCall(ex, trace) == [kind |-> "model", ex |-> ex, trace |-> trace]

\* write: waits while the channel is full.
Write(op) == Len(queue) < Cap /\ queue' = Append(queue, op)

------------------------------------------------------------------------------
(* TelemetryEmitter::emit, a task for each response body that ends or is   *)
(* dropped; the tasks hold the writer open.                                *)

Finish(ex) ==
    /\ writer = "open" /\ ex \notin finished
    /\ \A e \in Turns : e[1] = ex[1] /\ e[2] < ex[2] => e \in finished
    /\ finished' = finished \cup {ex}
    /\ tasks' = tasks \cup {[ex |-> ex, stage |-> "net"]}
    /\ UNCHANGED <<pending, traced, queue, batch, db, tools, lost, writer, reading>>

\* Requests to a provider go on to their model call.
EmitNet(t) ==
    /\ t.stage = "net"
    /\ Write(NetEvent(t.ex))
    /\ tasks' = (tasks \ {t}) \cup (IF t.ex \in DOMAIN Calls THEN {[t EXCEPT !.stage = "trace"]} ELSE {})
    /\ UNCHANGED <<finished, pending, traced, batch, db, tools, lost, writer, reading>>

Lookup(ex) ==
    LET known == {pending[k] : k \in Results[ex] \cap DOMAIN pending}
    IN IF known = {} THEN {ex} ELSE known

\* register_tool_calls.
Register(calls, trace) == [k \in calls \cup DOMAIN pending |-> IF k \in calls THEN trace ELSE pending[k]]

\* Forgets the calls that other turns wait for.
CompleteAll(trace) == << >>

CompleteTrace(trace) ==
    LET kept == {k \in DOMAIN pending : pending[k] # trace} IN [k \in kept |-> pending[k]]

\* emit_model_call: the trace of a turn is the one of the call it answers, or a
\* new one, which the exchange itself stands for.  A reason to stop that names
\* tools leaves the trace as it is, although nothing was asked for.
EmitTrace(t) ==
    /\ t.stage = "trace"
    /\ \E trace \in Lookup(t.ex) :
        /\ pending' \in IF Calls[t.ex] # {} THEN {Register(Calls[t.ex], trace)} ELSE {CompleteTrace(trace), pending}
        /\ traced' = Append(traced, ModelCall(t.ex, trace))
    /\ tasks' = (tasks \ {t}) \cup {[t EXCEPT !.stage = "model"]}
    /\ UNCHANGED <<finished, queue, batch, db, tools, lost, writer, reading>>

TraceOf(ex) == (CHOOSE m \in Range(traced) : m.ex = ex).trace

EmitModel(t) ==
    /\ t.stage = "model"
    /\ Write(ModelCall(t.ex, TraceOf(t.ex)))
    /\ tasks' = tasks \ {t}
    /\ UNCHANGED <<finished, pending, traced, batch, db, tools, lost, writer, reading>>

------------------------------------------------------------------------------
(* The writer thread: it blocks for one operation and takes what else is   *)
(* there, in one transaction.                                              *)

Drain ==
    /\ writer # "ended" /\ batch = << >> /\ queue # << >>
    /\ LET n == IF Len(queue) < BatchMax THEN Len(queue) ELSE BatchMax
       IN batch' = SubSeq(queue, 1, n) /\ queue' = SubSeq(queue, n + 1, Len(queue))
    /\ UNCHANGED <<finished, tasks, pending, traced, db, tools, lost, writer, reading>>

ToolRows(ops) == UNION {{op} \X Calls[op.ex] : op \in {o \in Range(ops) : o.kind = "model"}}

\* The tool calls of a model call are left for the next transaction.
InsertLate(ops) == tools' = tools \cup ToolRows(db)

\* insert_model_call and its tool calls; the tool_responses of the call, which the
\* same transaction inserts, are left out.
Insert(ops) == tools' = tools \cup ToolRows(ops)

\* One insert that fails takes the whole transaction with it.
ExecuteBatch ==
    /\ batch # << >>
    /\ \/ db' = db \o batch /\ Insert(batch) /\ UNCHANGED lost
       \/ lost' = lost \cup Range(batch) /\ UNCHANGED <<db, tools>>
    /\ batch' = << >>
    /\ UNCHANGED <<finished, tasks, pending, traced, queue, writer, reading>>

\* The last DbWriter is dropped when no task holds one.
Close ==
    /\ writer = "open" /\ tasks = {} /\ writer' = "closing"
    /\ UNCHANGED <<finished, tasks, pending, traced, queue, batch, db, tools, lost, reading>>

\* Ends at the next receive, whatever the channel still holds.
ThreadStops == writer = "closing" /\ batch = << >>

\* blocking_recv returns None: no sender is left and the channel is empty.
ThreadEnds == writer = "closing" /\ batch = << >> /\ queue = << >>

Join ==
    /\ ThreadEnds /\ writer' = "ended"
    /\ UNCHANGED <<finished, tasks, pending, traced, queue, batch, db, tools, lost, reading>>

------------------------------------------------------------------------------
(* DbReader::trace_detail, queries that are not in one transaction, so     *)
(* that the second may see more than the first; the rows it adds belong to *)
(* no call of the answer and are dropped.  The third query, over           *)
(* tool_responses, is like the second and is left out.                     *)

ReadCalls(trace) ==
    /\ reading.stage = "idle" /\ reading.n < MaxReads
    /\ \E r \in Range(db) : r.kind = "model" /\ r.trace = trace
    /\ reading' = [stage |-> "calls", tools |-> {}, n |-> reading.n + 1,
                   calls |-> {r \in Range(db) : r.kind = "model" /\ r.trace = trace}]
    /\ UNCHANGED <<finished, tasks, pending, traced, queue, batch, db, tools, lost, writer>>

ReadTools ==
    /\ reading.stage = "calls"
    /\ reading' = [reading EXCEPT !.stage = "done",
                     !.tools = {row \in tools : row[1] \in reading.calls}]
    /\ UNCHANGED <<finished, tasks, pending, traced, queue, batch, db, tools, lost, writer>>

Answer ==
    /\ reading.stage = "done" /\ reading' = [NoQuery EXCEPT !.n = reading.n]
    /\ UNCHANGED <<finished, tasks, pending, traced, queue, batch, db, tools, lost, writer>>

EmitStep == \E t \in tasks : EmitNet(t) \/ EmitTrace(t) \/ EmitModel(t)
WriterStep == Drain \/ ExecuteBatch \/ Join

TelemetryNext ==
    \/ \E ex \in Turns : Finish(ex)
    \/ EmitStep \/ WriterStep \/ Close
    \/ (\E trace \in Turns : ReadCalls(trace)) \/ ReadTools \/ Answer

\* The runtime runs the tasks and the writer its thread.
TelemetryFairness == WF_telemetryVars(EmitStep) /\ WF_telemetryVars(WriterStep)

TelemetrySpec == TelemetryInit /\ [][TelemetryNext]_telemetryVars /\ TelemetryFairness

------------------------------------------------------------------------------
(* Properties.                                                             *)

Is(op, kind, ex) == op.kind = kind /\ op.ex = ex

\* The operations on their way, the oldest first.
Written == db \o batch \o queue

\* How often the report of an exchange exists between its task and the database.
Reports(ex) ==
    Cardinality({t \in tasks : t.ex = ex /\ t.stage = "net"})
    + Cardinality({j \in DOMAIN Written : Is(Written[j], "net", ex)})
    + Cardinality({op \in lost : Is(op, "net", ex)})

\* A finished exchange has exactly one report, in its task, the channel, the
\* batch or the database, or in a transaction that failed; when the writer
\* thread has ended none is left behind in the channel.  Although connections
\* share the channel and the batches, the row of a model call comes after the row
\* of the request it belongs to, unless the transaction of that row failed.
EveryReportKept ==
    /\ \A ex \in finished : Reports(ex) = 1
    /\ writer = "ended" => queue = << >> /\ batch = << >>
    /\ \A i \in DOMAIN db : db[i].kind = "model" =>
          \/ NetEvent(db[i].ex) \in lost
          \/ \E j \in 1..(i - 1) : db[j] = NetEvent(db[i].ex)

\* The trace of the i-th model call may have been completed when the n-th looked
\* up its own.
Ended(i, n) == \E c \in i..n : traced[c].trace = traced[i].trace /\ Calls[traced[c].ex] = {}

\* Of the first n, the i-th is the last that asked for tool call k.
LastAsked(k, i, n) == k \in Calls[traced[i].ex] /\ \A c \in (i + 1)..n : k \notin Calls[traced[c].ex]

\* Turns are linked as the calls say, however the reports of connections
\* interleave, also when clients send the results of a whole conversation again
\* and providers use a name as the id of every call: a model call has the trace
\* of an earlier one whose calls it answers, or one of its own, and never one of
\* its own if a call that it answers was asked for in a trace that still goes on.
TracesFollow ==
    \A j \in DOMAIN traced :
        LET answers == Results[traced[j].ex]
            linked == \E i \in 1..(j - 1) : answers \cap Calls[traced[i].ex] # {} /\ traced[j].trace = traced[i].trace
        IN /\ traced[j].trace = traced[j].ex \/ linked
           /\ (\E k \in answers : \E i \in 1..(j - 1) : LastAsked(k, i, j - 1) /\ ~Ended(i, j - 1)) => linked

\* Every call of a trace that the reader returns comes with all its tool calls,
\* although the two queries see different states of the database.
DetailWhole ==
    reading.stage = "done" =>
        \A m \in reading.calls : {m} \X Calls[m.ex] \subseteq reading.tools

\* Once the session lets go of its writer, the thread ends and the drop returns.
WriterEnds == writer = "closing" ~> writer = "ended"
==============================================================================
