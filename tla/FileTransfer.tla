---------------------------- MODULE FileTransfer ----------------------------
(***************************************************************************)
(* Files read from, listed in and saved to the guest over the control      *)
(* connection.  The host registers a pending request, the agent answers    *)
(* it with one message or, for a large file, with chunks, which the host   *)
(* puts together; the command that waits may time out first.  A frame has  *)
(* a largest size, and what ends a connection ends it for every request.   *)
(***************************************************************************)
EXTENDS Integers, Sequences

CONSTANTS
    Ids,            \* download ids: the requests that are made
    Sizes,          \* bound: the file sizes that occur
    Wide,           \* which file contents occur: {FALSE}: text, {TRUE}: binary
    ChunkSize,      \* FILE_CHUNK_SIZE
    FrameSize,      \* MAX_FRAME_SIZE
    MaxDownload,    \* MAX_DOWNLOAD_SIZE
    MaxEdit,        \* bound: the largest file that is edited, within MAX_EDIT_SIZE
    MaxListing,     \* bound: the largest directory listing
    Overhead,       \* the bytes of a message besides its data
    Handshaking,    \* a command may come before the machine is Running
    MayDie          \* the machine may end

ASSUME TransferAssumption ==
    /\ Sizes \subseteq Nat /\ Wide \subseteq BOOLEAN
    /\ {ChunkSize, FrameSize, MaxDownload, MaxEdit, MaxListing, Overhead} \subseteq Nat
    /\ ChunkSize > 0
    /\ Handshaking \in BOOLEAN /\ MayDie \in BOOLEAN

VARIABLES
    request,    \* the commands: where they are and what they got
    pending,    \* AppState::pending_downloads: the ids that have a sender
    partial,    \* AppState::partial_downloads: the bytes put together so far, or None
    length,     \* the length that the agent found for each file
    changed,    \* the files that changed while they were sent
    toGuest,    \* control messages to the guest
    toHost,     \* control messages to the host
    agent,      \* control_loop: idle, sending a file, or gone
    reader,     \* the host's reader thread runs
    running     \* the host's state machine is in Running

vars == <<request, pending, partial, length, changed, toGuest, toHost, agent, reader, running>>

None == -1
Idle == [pc |-> "idle", id |-> 0, size |-> 0, offset |-> 0, wide |-> FALSE]

Init ==
    /\ request = [i \in Ids |-> [pc |-> "new", kind |-> "none", got |-> None]]
    /\ pending = {}
    /\ partial = [i \in Ids |-> None]
    /\ length = [i \in Ids |-> None]
    /\ changed = {}
    /\ toGuest = << >>
    /\ toHost = << >>
    /\ agent = Idle
    /\ reader = TRUE
    /\ running = ~Handshaking

\* The size of a frame: each byte of data is an integer of its own, of two bytes
\* from 128 on, which half of the bytes of a binary file are.
Encoded(n, wide) == n + Overhead + (IF wide THEN n \div 2 ELSE 0)

Fits(msg) == Encoded(msg.n, msg.wide) <= FrameSize

------------------------------------------------------------------------------
(* The commands: download_file, read_file, list_dir and save_file.         *)

Msg(t, i, n, wide) == [t |-> t, id |-> i, n |-> n, wide |-> wide, offset |-> 0]

\* The id is registered, the message validated and written.
Send(i, t, n) ==
    /\ request[i].pc = "new" /\ running
    /\ request' = [request EXCEPT ![i].pc = "waiting", ![i].kind = t]
    /\ pending' = pending \cup {i}
    /\ toGuest' = IF agent.pc = "gone" THEN toGuest ELSE Append(toGuest, Msg(t, i, n, FALSE))
    /\ UNCHANGED <<partial, length, changed, toHost, agent, reader, running>>

ReadFile(i) == Send(i, "read", 0)
ListDir(i) == Send(i, "list", 0)
\* A file to save was read for editing before.
SaveFile(i, n) == n <= MaxEdit /\ Send(i, "save", n)

\* The id is registered, and the message is not allowed yet or cannot be
\* written: the command returns.
Refuse(i) ==
    /\ request[i].pc = "new" /\ (~running \/ agent.pc = "gone")
    /\ request' = [request EXCEPT ![i].pc = "error"]
    /\ pending' = pending \cup {i}
    /\ UNCHANGED <<partial, length, changed, toGuest, toHost, agent, reader, running>>

\* The command has waited long enough.
Timeout(i) ==
    /\ request[i].pc = "waiting"
    /\ request' = [request EXCEPT ![i].pc = "timeout"]
    /\ pending' = pending \ {i}
    /\ UNCHANGED <<partial, length, changed, toGuest, toHost, agent, reader, running>>

EnterRunning ==
    /\ ~running
    /\ running' = TRUE
    /\ UNCHANGED <<request, pending, partial, length, changed, toGuest, toHost, agent, reader>>

------------------------------------------------------------------------------
(* The agent's control_loop.                                               *)

Asked(t) == agent.pc = "idle" /\ toGuest # << >> /\ Head(toGuest).t \in t /\ Fits(Head(toGuest))
Id == Head(toGuest).id

Reply(msg) ==
    /\ toHost' = Append(toHost, msg)
    /\ UNCHANGED <<request, pending, partial, changed, reader, running>>

\* The path is invalid, the file cannot be read or written, or is too large.
Fail ==
    /\ Asked({"read", "save", "list"})
    /\ toGuest' = Tail(toGuest)
    /\ Reply(Msg("error", Id, 0, FALSE))
    /\ UNCHANGED <<length, agent>>

\* FileSave, and ListDir with its entries.
SaveOrList(n) ==
    /\ Asked({"save", "list"}) /\ n <= MaxListing
    /\ toGuest' = Tail(toGuest)
    /\ Reply(Msg("content", Id, IF Head(toGuest).t = "list" THEN n ELSE 0, FALSE))
    /\ UNCHANGED <<length, agent>>

\* FileRead of a file that goes into one message.
ReadSmall(n, wide) ==
    /\ Asked({"read"}) /\ n <= ChunkSize
    /\ toGuest' = Tail(toGuest)
    /\ length' = [length EXCEPT ![Id] = n]
    /\ Reply(Msg("content", Id, n, wide))
    /\ UNCHANGED agent

\* FileRead of a larger file: it is opened.
ReadLarge(n, wide) ==
    /\ Asked({"read"}) /\ n > ChunkSize /\ n <= MaxDownload
    /\ toGuest' = Tail(toGuest)
    /\ length' = [length EXCEPT ![Id] = n]
    /\ agent' = [pc |-> "sending", id |-> Id, size |-> n, offset |-> 0, wide |-> wide]
    /\ UNCHANGED <<request, pending, partial, changed, toHost, reader, running>>

\* The bytes that the next read returns.
ChunkLength ==
    LET left == agent.size - agent.offset IN IF left > ChunkSize THEN ChunkSize ELSE left

SendChunk ==
    /\ agent.pc = "sending" /\ ChunkLength > 0
    /\ Reply([Msg("chunk", agent.id, ChunkLength, agent.wide) EXCEPT !.offset = agent.offset])
    /\ agent' = [agent EXCEPT !.offset = @ + ChunkLength]
    /\ UNCHANGED <<length, toGuest>>

\* The end of the file: one that was truncated is reported.
EndOfFile ==
    /\ agent.pc = "sending" /\ ChunkLength <= 0
    /\ agent' = Idle
    /\ IF agent.offset # length[agent.id]
       THEN Reply(Msg("error", agent.id, 0, FALSE))
       ELSE UNCHANGED <<request, pending, partial, changed, toHost, reader, running>>
    /\ UNCHANGED <<length, toGuest>>

\* A read of the file fails.
ReadError ==
    /\ agent.pc = "sending"
    /\ agent' = Idle
    /\ Reply(Msg("error", agent.id, 0, FALSE))
    /\ UNCHANGED <<length, toGuest>>

\* A program in the guest writes to the file that is being sent.
FileChanges(n) ==
    /\ agent.pc = "sending" /\ n # agent.size
    /\ agent' = [agent EXCEPT !.size = n]
    /\ changed' = changed \cup {agent.id}
    /\ UNCHANGED <<request, pending, partial, length, toGuest, toHost, reader, running>>

\* A frame that is too large ends the control loop.
AgentDrops ==
    /\ agent.pc = "idle" /\ toGuest # << >> /\ ~Fits(Head(toGuest))
    /\ agent' = [Idle EXCEPT !.pc = "gone"]
    /\ toGuest' = << >>
    /\ UNCHANGED <<request, pending, partial, length, changed, toHost, reader, running>>

------------------------------------------------------------------------------
(* The host's reader thread and vsock_control_handler.                     *)

Got(t) == reader /\ toHost # << >> /\ Fits(Head(toHost)) /\ Head(toHost).t = t

\* The sender of id i is taken out, and the command gets n bytes, or an error.
Answer(i, n) ==
    /\ pending' = pending \ {i}
    /\ request' = IF i \notin pending THEN request
                  ELSE [request EXCEPT ![i].pc = IF n = None THEN "error" ELSE "done", ![i].got = n]

HandleContent ==
    /\ Got("content")
    /\ Answer(Head(toHost).id, Head(toHost).n)
    /\ toHost' = Tail(toHost)
    /\ UNCHANGED <<partial, length, changed, toGuest, agent, reader, running>>

\* An error that leaves what was put together so far.
HandleErrorOnly ==
    /\ Got("error")
    /\ Answer(Head(toHost).id, None)
    /\ toHost' = Tail(toHost)
    /\ UNCHANGED <<partial, length, changed, toGuest, agent, reader, running>>

HandleError ==
    /\ Got("error")
    /\ partial' = [partial EXCEPT ![Head(toHost).id] = None]
    /\ Answer(Head(toHost).id, None)
    /\ toHost' = Tail(toHost)
    /\ UNCHANGED <<length, changed, toGuest, agent, reader, running>>

\* A file that is taken for complete one chunk early, or late.
CompleteShort(msg) == msg.offset + msg.n + ChunkSize >= length[msg.id]
\* Every chunk carries the length of the file (total_size).
Complete(msg) == msg.offset + msg.n >= length[msg.id]

HandleChunk ==
    /\ Got("chunk")
    /\ LET msg == Head(toHost)
           have == IF partial[msg.id] = None THEN msg.n ELSE partial[msg.id] + msg.n
       IN IF Complete(msg)
          THEN /\ partial' = [partial EXCEPT ![msg.id] = None]
               /\ Answer(msg.id, have)
          ELSE /\ partial' = [partial EXCEPT ![msg.id] = have]
               /\ UNCHANGED <<pending, request>>
    /\ toHost' = Tail(toHost)
    /\ UNCHANGED <<length, changed, toGuest, agent, reader, running>>

\* "frame too large (...), dropping connection": the reader thread ends.
ReaderDrops ==
    /\ reader /\ toHost # << >> /\ ~Fits(Head(toHost))
    /\ reader' = FALSE
    /\ UNCHANGED <<request, pending, partial, length, changed, toGuest, toHost, agent, running>>

\* The machine ends.
Dies ==
    /\ MayDie /\ agent.pc # "gone"
    /\ agent' = [Idle EXCEPT !.pc = "gone"]
    /\ toGuest' = << >> /\ toHost' = << >>
    /\ reader' = FALSE
    /\ UNCHANGED <<request, pending, partial, length, changed, running>>

------------------------------------------------------------------------------
Agent ==
    \/ Fail \/ SendChunk \/ EndOfFile \/ ReadError \/ AgentDrops
    \/ \E n \in Sizes : SaveOrList(n)
    \/ \E n \in Sizes, wide \in Wide : ReadSmall(n, wide) \/ ReadLarge(n, wide)

Host == HandleContent \/ HandleError \/ HandleChunk \/ ReaderDrops

Next ==
    \/ \E i \in Ids :
          \/ ReadFile(i) \/ ListDir(i) \/ \E n \in Sizes : SaveFile(i, n)
          \/ Refuse(i) \/ Timeout(i)
    \/ EnterRunning
    \/ Agent \/ Host
    \/ \E n \in Sizes : FileChanges(n)
    \/ Dies

\* The agent's loop and the host's threads run.
Spec == Init /\ [][Next]_vars /\ WF_vars(Agent) /\ WF_vars(Host) /\ WF_vars(EnterRunning)

------------------------------------------------------------------------------
(* Properties.                                                             *)

\* The state has its type, and what is put together of a file is shorter than the file.
TypeOK ==
    /\ request \in [Ids -> [pc : {"new", "waiting", "done", "error", "timeout"},
                            kind : {"none", "read", "list", "save"}, got : Nat \cup {None}]]
    /\ pending \subseteq Ids /\ changed \subseteq Ids
    /\ partial \in [Ids -> Nat \cup {None}]
    /\ \A i \in Ids : partial[i] = None \/ partial[i] < length[i]
    /\ length \in [Ids -> Nat \cup {None}]
    /\ agent.pc \in {"idle", "sending", "gone"}
    /\ reader \in BOOLEAN /\ running \in BOOLEAN

\* A file that is handed over is whole: as long as the agent found it, and no
\* longer unless it grew; one that was truncated meanwhile is an error.
DownloadWhole ==
    \A i \in Ids :
        request[i].pc = "done" /\ request[i].kind = "read" =>
            /\ request[i].got >= length[i]
            /\ i \notin changed => request[i].got = length[i]

\* A request leaves nothing behind.  A command that got its answer or gave up has
\* no sender in pending_downloads, whichever of the answer and the time-out comes
\* first.  What was put together of a file does not stay, whether the file was
\* completed, reported truncated, or the command had timed out, unless the
\* connection ends.
NothingLeftBehind ==
    /\ [](\A i \in pending : request[i].pc \notin {"done", "timeout"})
    /\ \A i \in Ids : (partial[i] # None) ~> (partial[i] = None \/ ~reader \/ agent.pc = "gone")
==============================================================================
