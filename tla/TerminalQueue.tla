---------------------------- MODULE TerminalQueue ----------------------------
(***************************************************************************)
(* TerminalOutputQueue, the queue between the guest's terminal and the     *)
(* frontend, and its users: serial_to_events and vsock_terminal_to_events  *)
(* push, terminal_poll polls, gui_boot_vm resets, stop_vm closes.  Every   *)
(* step is one critical section or one atomic operation of the code, so    *)
(* that the flag, the deque and the Notify can be seen out of step.        *)
(***************************************************************************)
EXTENDS Naturals, Sequences

CONSTANTS
    Pollers,        \* calls of terminal_poll that may be in flight at once
    Producers,      \* the tasks that push
    Serial,         \* the one that forwards the boot log
    Capacity,       \* TERMINAL_QUEUE_CAPACITY
    MaxChunk,       \* bound: chunks produced
    OffMainThread   \* gui_boot_vm runs in the download task, beside stop_vm

ASSUME QueueAssumption ==
    /\ Serial \in Producers
    /\ Capacity \in Nat \ {0}
    /\ MaxChunk \in Nat
    /\ OffMainThread \in BOOLEAN

VARIABLES
    queue,      \* data: the chunks not yet taken, oldest first
    closed,     \* closed: the AtomicBool
    permit,     \* notify: a stored notification
    waiters,    \* notify: the polls parked in it, oldest first
    poll,       \* where each poll is
    push,       \* where each producer is: the chunk it holds and its next step
    next,       \* chunks produced so far
    active,     \* the producers that may begin a push
    boot,       \* what gui_boot_vm does next
    close       \* what stop_vm does next

notify == <<permit, waiters>>
vars == <<queue, closed, permit, waiters, poll, push, next, active, boot, close>>

Idle == [pc |-> "idle", chunk |-> 0]

Init ==
    /\ queue = << >>
    /\ closed = FALSE
    /\ permit = FALSE
    /\ waiters = << >>
    /\ poll = [p \in Pollers |-> "idle"]
    /\ push = [w \in Producers |-> Idle]
    /\ next = 0
    /\ active = {}
    /\ boot = "reset"
    /\ close = "store"

\* A notification that is not kept when nobody waits for it.
NotifyParked ==
    IF waiters = << >> THEN UNCHANGED <<notify, poll>>
    ELSE /\ waiters' = Tail(waiters)
         /\ poll' = [poll EXCEPT ![Head(waiters)] = "check"]
         /\ UNCHANGED permit

\* Notify::notify_one: wakes the poll that waits longest, or else keeps one
\* permit for the next; a second permit is not kept.
NotifyOne ==
    IF waiters = << >>
    THEN permit' = TRUE /\ UNCHANGED <<waiters, poll>>
    ELSE /\ waiters' = Tail(waiters)
         /\ poll' = [poll EXCEPT ![Head(waiters)] = "check"]
         /\ UNCHANGED permit

------------------------------------------------------------------------------
(* Producers: push().                                                      *)

\* No limit.
AdmitAlways(q, x) == Append(q, x)

\* Under backpressure the oldest chunk makes room.
Admit(q, x) == Append(IF Len(q) >= Capacity THEN Tail(q) ELSE q, x)

\* push: the closed flag is read before the lock is taken.
PushBegin(w) ==
    /\ w \in active /\ push[w] = Idle
    /\ next < MaxChunk
    /\ next' = next + 1
    /\ push' = IF closed THEN push
               ELSE [push EXCEPT ![w] = [pc |-> "enqueue", chunk |-> next + 1]]
    /\ UNCHANGED <<queue, closed, notify, poll, active, boot, close>>

PushEnqueue(w) ==
    /\ push[w].pc = "enqueue"
    /\ queue' = Admit(queue, push[w].chunk)
    /\ push' = [push EXCEPT ![w].pc = "notify"]
    /\ UNCHANGED <<closed, notify, poll, next, active, boot, close>>

PushNotify(w) ==
    /\ push[w].pc = "notify"
    /\ NotifyOne
    /\ push' = [push EXCEPT ![w] = Idle]
    /\ UNCHANGED <<queue, closed, next, active, boot, close>>

------------------------------------------------------------------------------
(* Consumers: terminal_poll, poll().                                       *)

Poll(p) ==
    /\ poll[p] = "idle"
    /\ poll' = [poll EXCEPT ![p] = "check"]
    /\ UNCHANGED <<queue, closed, notify, push, next, active, boot, close>>

\* poll, under the lock: the next chunk.
PollChunk(p) ==
    /\ poll[p] = "check" /\ queue # << >>
    /\ queue' = Tail(queue)
    /\ poll' = [poll EXCEPT ![p] = "idle"]
    /\ UNCHANGED <<closed, notify, push, next, active, boot, close>>

\* Looks at the closed flag before the chunks that are left.
PollNoneEarly(p) ==
    /\ poll[p] = "check" /\ closed
    /\ poll' = [poll EXCEPT ![p] = "idle"]
    /\ UNCHANGED <<queue, closed, notify, push, next, active, boot, close>>

\* poll, under the lock: nothing is left, and nothing will come.
PollNone(p) ==
    /\ poll[p] = "check" /\ queue = << >> /\ closed
    /\ poll' = [poll EXCEPT ![p] = "idle"]
    /\ UNCHANGED <<queue, closed, notify, push, next, active, boot, close>>

\* poll, under the lock: wait, once the lock is released.
PollEmpty(p) ==
    /\ poll[p] = "check" /\ queue = << >> /\ ~closed
    /\ poll' = [poll EXCEPT ![p] = "await"]
    /\ UNCHANGED <<queue, closed, notify, push, next, active, boot, close>>

\* notified().await: a stored permit is used up, otherwise the poll is parked.
PollAwait(p) ==
    /\ poll[p] = "await"
    /\ IF permit
       THEN /\ permit' = FALSE
            /\ poll' = [poll EXCEPT ![p] = "check"]
            /\ UNCHANGED waiters
       ELSE /\ waiters' = Append(waiters, p)
            /\ poll' = [poll EXCEPT ![p] = "parked"]
            /\ UNCHANGED permit
    /\ UNCHANGED <<queue, closed, push, next, active, boot, close>>

------------------------------------------------------------------------------
(* The boot and the stop of the virtual machine.                           *)

\* gui_boot_vm: reset().  On the main thread it runs before any stop_vm.
Reset ==
    /\ boot = "reset"
    /\ OffMainThread \/ close = "store"
    /\ queue' = << >>
    /\ closed' = FALSE
    /\ boot' = "spawn"
    /\ UNCHANGED <<notify, poll, push, next, active, close>>

\* gui_boot_vm: serial_to_events is given the queue, unless stop_vm has taken
\* the map out of terminal_outputs.
SpawnSerial ==
    /\ boot = "spawn"
    /\ boot' = "booted"
    /\ active' = IF close = "store" THEN {Serial} ELSE {}
    /\ UNCHANGED <<queue, closed, notify, poll, push, next, close>>

\* setup_vsock: the serial task is aborted, which a push under way survives,
\* and vsock_terminal_to_events takes over, if the map is still there.
Attach ==
    /\ boot = "booted" /\ Serial \in active
    /\ active' = IF close = "store" THEN Producers \ {Serial} ELSE {}
    /\ UNCHANGED <<queue, closed, notify, poll, push, next, boot, close>>

\* stop_vm (close_all) or the end of a shell (remove): close().
CloseStore ==
    /\ close = "store"
    /\ OffMainThread \/ boot = "booted"
    /\ closed' = TRUE
    /\ close' = "notify"
    /\ UNCHANGED <<queue, notify, poll, push, next, active, boot>>

CloseNotify ==
    /\ close = "notify"
    /\ NotifyOne
    /\ close' = "done"
    /\ UNCHANGED <<queue, closed, push, next, active, boot>>

PushStep(w) == PushBegin(w) \/ PushEnqueue(w) \/ PushNotify(w)
PollStep(p) == PollChunk(p) \/ PollNone(p) \/ PollEmpty(p) \/ PollAwait(p)

Next ==
    \/ \E w \in Producers : PushStep(w)
    \/ \E p \in Pollers : Poll(p) \/ PollStep(p)
    \/ Reset \/ SpawnSerial \/ Attach
    \/ CloseStore \/ CloseNotify

\* A push or a poll that has begun runs to its next wait, and so does close():
\* they hold no lock across an await and the runtime schedules every ready
\* task.  Nobody promises that output is produced, that the frontend polls or
\* that the machine is stopped.
Fairness ==
    /\ \A w \in Producers : WF_vars(PushEnqueue(w) \/ PushNotify(w))
    /\ \A p \in Pollers : WF_vars(PollStep(p))
    /\ WF_vars(CloseNotify)

Spec == Init /\ [][Next]_vars /\ Fairness

------------------------------------------------------------------------------
(* Properties.                                                             *)

\* The state has its type, and the queue never outgrows its capacity
\* (state.rs: "to prevent OOM when the frontend stops polling").
TypeOK ==
    /\ queue \in Seq(1..MaxChunk) /\ Len(queue) <= Capacity
    /\ closed \in BOOLEAN
    /\ permit \in BOOLEAN
    /\ waiters \in Seq(Pollers)
    /\ poll \in [Pollers -> {"idle", "check", "await", "parked"}]
    /\ push \in [Producers -> [pc : {"idle", "enqueue", "notify"}, chunk : 0..MaxChunk]]
    /\ next \in 0..MaxChunk
    /\ active \subseteq Producers
    /\ boot \in {"reset", "spawn", "booted"}
    /\ close \in {"store", "notify", "done"}

NotificationDue == close = "notify" \/ \E w \in Producers : push[w].pc = "notify"

\* A poll is never parked beside output it should return, or on a closed queue,
\* unless the notification that will wake it is still to come: push and close
\* change the queue first and notify afterwards, and poll looks before it waits.
NoLostWakeup ==
    (queue # << >> \/ closed) =>
        \A p \in Pollers : poll[p] = "parked" => NotificationDue

\* The queue is the bounded FIFO that TerminalChannel describes, and answers
\* every poll that can be answered.
Channel == INSTANCE TerminalChannel
    WITH chan <- queue, shut <- closed, pending <- {p \in Pollers : poll[p] # "idle"}
IsChannel == Channel!Spec
==============================================================================
