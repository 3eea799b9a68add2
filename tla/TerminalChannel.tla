--------------------------- MODULE TerminalChannel ---------------------------
(***************************************************************************)
(* What a terminal output queue promises to the frontend: a bounded FIFO   *)
(* of output chunks that forgets the oldest one under backpressure, and    *)
(* answers every call of terminal_poll with the next chunk or, once it is  *)
(* closed and drained, with "terminal closed".  TerminalQueue implements   *)
(* it with a lock, a flag and a tokio Notify.                              *)
(***************************************************************************)
EXTENDS Naturals, Sequences

CONSTANTS
    Pollers,    \* calls of terminal_poll that may be in flight at once
    Capacity,   \* TERMINAL_QUEUE_CAPACITY
    MaxChunk    \* bound: chunks produced

VARIABLES
    chan,       \* the chunks not yet taken, oldest first
    shut,       \* the terminal was closed
    pending     \* the polls that have no answer yet

vars == <<chan, shut, pending>>

Init == chan = << >> /\ shut = FALSE /\ pending = {}

\* The newest chunk always fits: the oldest makes room for it.  The doc of push
\* (state.rs:171) says that at capacity the new chunk is dropped; its body, and the
\* comment in it, say the oldest, which is what is promised here.
Admit(q, x) == Append(IF Len(q) >= Capacity THEN Tail(q) ELSE q, x)

Put(x) == chan' = Admit(chan, x) /\ UNCHANGED <<shut, pending>>

Ask(p) ==
    /\ p \notin pending
    /\ pending' = pending \cup {p}
    /\ UNCHANGED <<chan, shut>>

Take(p) ==
    /\ p \in pending
    /\ chan # << >>
    /\ chan' = Tail(chan)
    /\ pending' = pending \ {p}
    /\ UNCHANGED shut

End(p) ==
    /\ p \in pending
    /\ chan = << >> /\ shut
    /\ pending' = pending \ {p}
    /\ UNCHANGED <<chan, shut>>

Close == shut' = TRUE /\ UNCHANGED <<chan, pending>>

Next ==
    \/ \E x \in 1..MaxChunk : Put(x)
    \/ \E p \in Pollers : Ask(p) \/ Take(p) \/ End(p)
    \/ Close

Safety == Init /\ [][Next]_vars

\* A poll that can be answered is answered.
Spec == Safety /\ \A p \in Pollers : WF_vars(Take(p) \/ End(p))
==============================================================================
