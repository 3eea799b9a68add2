------------------------ MODULE TerminalQueue_proof -------------------------
(***************************************************************************)
(* The terminal queue keeps its bound, loses no wakeup and implements      *)
(* TerminalChannel, for any number of producers and chunks, as long as     *)
(* there is one poll at a time and gui_boot_vm shares the main thread with *)
(* stop_vm.  With two polls, or a boot beside stop_vm, IsChannel fails.    *)
(* And the input reaches the shell it was typed for, for any number of     *)
(* environments, shells, inputs and boots.                                 *)
(***************************************************************************)
EXTENDS TerminalQueue, TerminalInput, FiniteSetTheorems, SequenceTheorems, NaturalsInduction,
        WellFoundedInduction, TLAPS

OnePoll == \A p, q \in Pollers : p = q

\* A producer that is about to enqueue holds a chunk.
HoldsChunk == \A w \in Producers : push[w].pc = "enqueue" => push[w].chunk \in 1..MaxChunk

\* The Notify knows every parked poll, once.
ParkedIsWaiter ==
    /\ Len(waiters) <= 1
    /\ \A i \in 1..Len(waiters) : poll[waiters[i]] = "parked"
    /\ \A p \in Pollers : poll[p] = "parked" => waiters # << >>

\* A poll that looked and is about to wait will not sleep through what happened
\* since: a permit is stored, or will be.
AwaitCovered ==
    (queue # << >> \/ closed) =>
        \A p \in Pollers : poll[p] = "await" => permit \/ NotificationDue

\* Until the machine boots nothing is pushed and nothing is closed.
Fresh ==
    /\ boot # "booted" => queue = << >> /\ ~closed
    /\ boot # "booted" => active = {} /\ \A w \in Producers : push[w] = Idle
    /\ close = "store" => ~closed

IInv == TypeOK /\ HoldsChunk /\ ParkedIsWaiter /\ AwaitCovered /\ NoLostWakeup /\ Fresh

\* Admit keeps the type and the bound of the queue.
LEMMA AdmitTyped ==
    ASSUME Capacity \in Nat \ {0}, NEW S, NEW q \in Seq(S), NEW x \in S, Len(q) <= Capacity
    PROVE  Admit(q, x) \in Seq(S) /\ Len(Admit(q, x)) <= Capacity /\ Admit(q, x) # << >>
  <1>1. CASE Len(q) >= Capacity
    <2>1. q # << >> BY <1>1
    <2>2. Tail(q) \in Seq(S) /\ Len(Tail(q)) = Len(q) - 1 BY <2>1
    <2>3. Append(Tail(q), x) \in Seq(S) /\ Len(Append(Tail(q), x)) = Len(q) BY <2>2
    <2>4. Append(Tail(q), x) # << >> BY <2>3, <1>1
    <2> QED BY <1>1, <2>3, <2>4 DEF Admit
  <1>2. CASE ~(Len(q) >= Capacity)
    <2>1. Append(q, x) \in Seq(S) /\ Len(Append(q, x)) = Len(q) + 1 OBVIOUS
    <2>2. Len(q) \in Nat OBVIOUS
    <2>3. Len(q) + 1 <= Capacity BY <2>2, <1>2
    <2>4. Append(q, x) # << >> BY <2>1, <2>2
    <2> QED BY <1>2, <2>1, <2>3, <2>4 DEF Admit
  <1> QED BY <1>1, <1>2

\* The invariant holds initially.
LEMMA InitInvariant == Init => IInv
  <1> SUFFICES ASSUME Init PROVE IInv OBVIOUS
  <1>1. TypeOK
    <2>1. /\ queue \in Seq(1..MaxChunk) /\ Len(queue) <= Capacity
          /\ next \in 0..MaxChunk
      BY QueueAssumption DEF Init
    <2>2. push \in [Producers -> [pc : {"idle", "enqueue", "notify"}, chunk : 0..MaxChunk]]
      BY QueueAssumption DEF Init, Idle
    <2>3. /\ poll \in [Pollers -> {"idle", "check", "await", "parked"}]
          /\ active \subseteq Producers
      BY DEF Init
    <2>4. waiters \in Seq(Pollers) BY DEF Init
    <2>5. closed \in BOOLEAN /\ permit \in BOOLEAN BY DEF Init
    <2> QED BY <2>1, <2>2, <2>3, <2>4, <2>5 DEF Init, TypeOK
  <1>2. HoldsChunk BY DEF Init, HoldsChunk, Idle
  <1>3. ParkedIsWaiter BY DEF Init, ParkedIsWaiter
  <1>4. AwaitCovered /\ NoLostWakeup BY DEF Init, AwaitCovered, NoLostWakeup
  <1>5. Fresh BY DEF Init, Fresh
  <1> QED BY <1>1, <1>2, <1>3, <1>4, <1>5 DEF IInv

\* A notification leaves no poll parked, and leaves a permit to one that is
\* about to wait.
LEMMA NotifyWakes ==
    ASSUME OnePoll, TypeOK, ParkedIsWaiter, NotifyOne
    PROVE  /\ permit' \in BOOLEAN /\ waiters' \in Seq(Pollers)
           /\ poll' \in [Pollers -> {"idle", "check", "await", "parked"}]
           /\ ParkedIsWaiter'
           /\ \A p \in Pollers : poll'[p] # "parked"
           /\ \A p \in Pollers : poll'[p] = "await" => permit'
           /\ \A p \in Pollers : poll'[p] = "idle" <=> poll[p] = "idle"
  <1>t. waiters \in Seq(Pollers) /\ permit \in BOOLEAN
        /\ poll \in [Pollers -> {"idle", "check", "await", "parked"}] BY DEF TypeOK
  <1>1. CASE waiters = << >>
    BY <1>1, <1>t DEF NotifyOne, ParkedIsWaiter
  <1>2. CASE waiters # << >>
    <2>1. /\ Head(waiters) \in Pollers /\ Head(waiters) = waiters[1]
          /\ Tail(waiters) \in Seq(Pollers) /\ 1 \in 1..Len(waiters)
      BY <1>2, <1>t
    <2>2. /\ waiters' = Tail(waiters) /\ permit' = permit
          /\ poll' = [poll EXCEPT ![Head(waiters)] = "check"]
      BY <1>2 DEF NotifyOne
    <2>3. \A p \in Pollers : p = Head(waiters) BY <2>1 DEF OnePoll
    <2>4. \A p \in Pollers : poll'[p] = "check" BY <2>2, <2>3, <1>t
    <2>5. poll[Head(waiters)] = "parked" BY <2>1 DEF ParkedIsWaiter
    <2>6. Tail(waiters) = << >> BY <1>2, <1>t DEF ParkedIsWaiter
    <2> QED BY <2>1, <2>2, <2>3, <2>4, <2>5, <2>6, <1>t DEF ParkedIsWaiter
  <1> QED BY <1>1, <1>2

\* Every step keeps the invariant.
LEMMA StepInvariant ==
    ASSUME OnePoll, ~OffMainThread, IInv, [Next]_vars
    PROVE  IInv'
  <1>i. /\ TypeOK /\ HoldsChunk /\ ParkedIsWaiter /\ AwaitCovered
        /\ NoLostWakeup /\ Fresh BY DEF IInv
  <1>t. /\ queue \in Seq(1..MaxChunk) /\ Len(queue) <= Capacity
        /\ closed \in BOOLEAN /\ permit \in BOOLEAN
        /\ waiters \in Seq(Pollers) /\ next \in 0..MaxChunk
        /\ poll \in [Pollers -> {"idle", "check", "await", "parked"}]
        /\ push \in [Producers -> [pc : {"idle", "enqueue", "notify"}, chunk : 0..MaxChunk]]
    BY <1>i DEF TypeOK
  <1>c. Capacity \in Nat \ {0} /\ MaxChunk \in Nat BY QueueAssumption
  <1>1. ASSUME NEW w \in Producers, PushBegin(w) PROVE IInv'
    <2> USE <1>1 DEF PushBegin
    <2>1. next + 1 \in 1..MaxChunk BY <1>t, <1>c
    <2>2. push' \in [Producers -> [pc : {"idle", "enqueue", "notify"}, chunk : 0..MaxChunk]]
      BY <2>1, <1>t
    <2>3. TypeOK' BY <2>1, <2>2, <1>i DEF TypeOK, notify
    <2>4. HoldsChunk' BY <2>1, <1>t, <1>i DEF HoldsChunk
    <2>5. ParkedIsWaiter' BY <1>i DEF ParkedIsWaiter, notify
    <2>6. NotificationDue => NotificationDue' BY <1>t DEF NotificationDue, Idle
    <2>7. AwaitCovered' /\ NoLostWakeup' BY <2>6, <1>i DEF AwaitCovered, NoLostWakeup, notify
    <2>8. Fresh' BY <1>i DEF Fresh
    <2> QED BY <2>3, <2>4, <2>5, <2>7, <2>8 DEF IInv
  <1>2. ASSUME NEW w \in Producers, PushEnqueue(w) PROVE IInv'
    <2> USE <1>2 DEF PushEnqueue
    <2>1. push[w].chunk \in 1..MaxChunk BY <1>i DEF HoldsChunk
    <2>2. queue' \in Seq(1..MaxChunk) /\ Len(queue') <= Capacity
      BY <2>1, <1>t, <1>c, AdmitTyped
    <2>3. push' \in [Producers -> [pc : {"idle", "enqueue", "notify"}, chunk : 0..MaxChunk]]
      BY <1>t
    <2>4. TypeOK' BY <2>2, <2>3, <1>i DEF TypeOK, notify
    <2>5. HoldsChunk' BY <1>t, <1>i DEF HoldsChunk
    <2>6. ParkedIsWaiter' BY <1>i DEF ParkedIsWaiter, notify
    <2>7. NotificationDue' BY <1>t DEF NotificationDue
    <2>8. AwaitCovered' /\ NoLostWakeup' BY <2>7 DEF AwaitCovered, NoLostWakeup
    <2>9. boot = "booted" BY <1>i DEF Fresh, Idle
    <2>10. Fresh' BY <2>9, <1>i DEF Fresh
    <2> QED BY <2>4, <2>5, <2>6, <2>8, <2>10 DEF IInv
  <1>3. ASSUME NEW w \in Producers, PushNotify(w) PROVE IInv'
    <2> USE <1>3 DEF PushNotify
    <2>1. push' \in [Producers -> [pc : {"idle", "enqueue", "notify"}, chunk : 0..MaxChunk]]
      BY <1>t, <1>c DEF Idle
    <2>2. /\ permit' \in BOOLEAN /\ waiters' \in Seq(Pollers)
          /\ poll' \in [Pollers -> {"idle", "check", "await", "parked"}]
          /\ ParkedIsWaiter'
          /\ \A p \in Pollers : poll'[p] # "parked"
          /\ \A p \in Pollers : poll'[p] = "await" => permit'
      BY <1>i, NotifyWakes
    <2>3. TypeOK' BY <2>1, <2>2, <1>i DEF TypeOK
    <2>4. HoldsChunk' BY <1>t, <1>i DEF HoldsChunk, Idle
    <2>5. AwaitCovered' /\ NoLostWakeup' BY <2>2 DEF AwaitCovered, NoLostWakeup
    <2>6. boot = "booted" BY <1>i DEF Fresh, Idle
    <2>7. Fresh' BY <2>6, <1>i DEF Fresh
    <2> QED BY <2>2, <2>3, <2>4, <2>5, <2>7 DEF IInv
  <1>4. ASSUME NEW p \in Pollers, Poll(p) \/ PollNone(p) \/ PollEmpty(p) PROVE IInv'
    <2> USE <1>4 DEF Poll, PollNone, PollEmpty
    <2>1. poll' \in [Pollers -> {"idle", "check", "await", "parked"}] BY <1>t
    <2>2. TypeOK' BY <2>1, <1>i DEF TypeOK, notify
    <2>3. HoldsChunk' BY <1>i DEF HoldsChunk
    <2>4. \A q \in Pollers : poll'[q] # "parked" /\ poll[q] # "parked"
      BY <1>t DEF OnePoll
    <2>5. waiters = << >>
      <3>1. SUFFICES ASSUME waiters # << >> PROVE FALSE OBVIOUS
      <3>2. 1 \in 1..Len(waiters) /\ waiters[1] \in Pollers BY <3>1, <1>t
      <3> QED BY <3>2, <2>4, <1>i DEF ParkedIsWaiter
    <2>6. ParkedIsWaiter' BY <2>4, <2>5 DEF ParkedIsWaiter, notify
    <2>7. \A q \in Pollers : poll'[q] = "await" => queue = << >> /\ ~closed
      BY <1>t DEF OnePoll
    <2>8. AwaitCovered' /\ NoLostWakeup' BY <2>4, <2>7 DEF AwaitCovered, NoLostWakeup
    <2>9. Fresh' BY <1>i DEF Fresh
    <2> QED BY <2>2, <2>3, <2>6, <2>8, <2>9 DEF IInv
  <1>5. ASSUME NEW p \in Pollers, PollChunk(p) PROVE IInv'
    <2> USE <1>5 DEF PollChunk
    <2>1. poll' \in [Pollers -> {"idle", "check", "await", "parked"}] BY <1>t
    <2>2. queue' \in Seq(1..MaxChunk) /\ Len(queue') <= Capacity BY <1>t, <1>c
    <2>3. TypeOK' BY <2>1, <2>2, <1>i DEF TypeOK, notify
    <2>4. HoldsChunk' BY <1>i DEF HoldsChunk
    <2>5. \A q \in Pollers : poll'[q] = "idle" /\ poll[q] = "check"
      BY <1>t DEF OnePoll
    <2>6. waiters = << >>
      <3>1. SUFFICES ASSUME waiters # << >> PROVE FALSE OBVIOUS
      <3>2. 1 \in 1..Len(waiters) /\ waiters[1] \in Pollers BY <3>1, <1>t
      <3> QED BY <3>2, <2>5, <1>i DEF ParkedIsWaiter
    <2>7. ParkedIsWaiter' BY <2>5, <2>6 DEF ParkedIsWaiter, notify
    <2>8. AwaitCovered' /\ NoLostWakeup' BY <2>5 DEF AwaitCovered, NoLostWakeup
    <2>9. Fresh' BY <1>i DEF Fresh
    <2> QED BY <2>3, <2>4, <2>7, <2>8, <2>9 DEF IInv
  <1>6. ASSUME NEW p \in Pollers, PollAwait(p) PROVE IInv'
    <2> USE <1>6 DEF PollAwait
    <2>1. waiters = << >>
      <3>1. SUFFICES ASSUME waiters # << >> PROVE FALSE OBVIOUS
      <3>2. 1 \in 1..Len(waiters) /\ waiters[1] \in Pollers BY <3>1, <1>t
      <3>3. waiters[1] = p BY <3>2 DEF OnePoll
      <3> QED BY <3>2, <3>3, <1>i DEF ParkedIsWaiter
    <2>2. HoldsChunk' BY <1>i DEF HoldsChunk
    <2>3. Fresh' BY <1>i DEF Fresh
    <2>4. CASE permit
      <3>1. /\ poll' = [poll EXCEPT ![p] = "check"] /\ waiters' = waiters
            /\ permit' = FALSE BY <2>4
      <3>2. \A q \in Pollers : poll'[q] = "check" BY <3>1, <1>t DEF OnePoll
      <3>3. poll' \in [Pollers -> {"idle", "check", "await", "parked"}] BY <3>1, <1>t
      <3>4. TypeOK' BY <3>1, <3>3, <1>i DEF TypeOK
      <3>5. ParkedIsWaiter' BY <3>1, <3>2, <2>1 DEF ParkedIsWaiter
      <3>6. AwaitCovered' /\ NoLostWakeup' BY <3>2 DEF AwaitCovered, NoLostWakeup
      <3> QED BY <2>2, <2>3, <3>4, <3>5, <3>6 DEF IInv
    <2>5. CASE ~permit
      <3>1. /\ poll' = [poll EXCEPT ![p] = "parked"] /\ waiters' = Append(waiters, p)
            /\ permit' = permit BY <2>5
      <3>2. \A q \in Pollers : poll'[q] = "parked" BY <3>1, <1>t DEF OnePoll
      <3>3. poll' \in [Pollers -> {"idle", "check", "await", "parked"}] BY <3>1, <1>t
      <3>4. /\ waiters' \in Seq(Pollers) /\ Len(waiters') = 1 /\ waiters'[1] = p
        BY <3>1, <2>1, <1>t
      <3>5. TypeOK' BY <3>1, <3>3, <3>4, <1>i DEF TypeOK
      <3>6. ParkedIsWaiter' BY <3>2, <3>4 DEF ParkedIsWaiter
      <3>7. (queue # << >> \/ closed) => NotificationDue
        BY <2>5, <1>i DEF AwaitCovered
      <3>8. NoLostWakeup' BY <3>7 DEF NoLostWakeup, NotificationDue
      <3>9. AwaitCovered' BY <3>2 DEF AwaitCovered
      <3> QED BY <2>2, <2>3, <3>5, <3>6, <3>8, <3>9 DEF IInv
    <2> QED BY <2>4, <2>5, <1>t
  <1>7. ASSUME Reset PROVE IInv'
    <2> USE <1>7 DEF Reset
    <2>0. queue' \in Seq(1..MaxChunk) /\ Len(queue') <= Capacity BY <1>c
    <2>1. TypeOK' BY <2>0, <1>i DEF TypeOK, notify
    <2>2. HoldsChunk' /\ ParkedIsWaiter' BY <1>i DEF HoldsChunk, ParkedIsWaiter, notify
    <2>3. AwaitCovered' /\ NoLostWakeup' BY DEF AwaitCovered, NoLostWakeup
    <2>4. Fresh' BY <1>i DEF Fresh
    <2> QED BY <2>1, <2>2, <2>3, <2>4 DEF IInv
  <1>8. ASSUME SpawnSerial \/ Attach PROVE IInv'
    <2> USE <1>8 DEF SpawnSerial, Attach
    <2>1. active' \subseteq Producers BY QueueAssumption
    <2>2. TypeOK' BY <2>1, <1>i DEF TypeOK, notify
    <2>3. HoldsChunk' /\ ParkedIsWaiter' BY <1>i DEF HoldsChunk, ParkedIsWaiter, notify
    <2>4. AwaitCovered' /\ NoLostWakeup'
      BY <1>i DEF AwaitCovered, NoLostWakeup, NotificationDue, notify
    <2>5. Fresh' BY <1>i DEF Fresh
    <2> QED BY <2>2, <2>3, <2>4, <2>5 DEF IInv
  <1>9. ASSUME CloseStore PROVE IInv'
    <2> USE <1>9 DEF CloseStore
    <2>1. TypeOK' BY <1>i DEF TypeOK, notify
    <2>2. HoldsChunk' /\ ParkedIsWaiter' BY <1>i DEF HoldsChunk, ParkedIsWaiter, notify
    <2>3. AwaitCovered' /\ NoLostWakeup' BY DEF AwaitCovered, NoLostWakeup, NotificationDue
    <2>4. Fresh' BY <1>i DEF Fresh
    <2> QED BY <2>1, <2>2, <2>3, <2>4 DEF IInv
  <1>10. ASSUME CloseNotify PROVE IInv'
    <2> USE <1>10 DEF CloseNotify
    <2>1. /\ permit' \in BOOLEAN /\ waiters' \in Seq(Pollers)
          /\ poll' \in [Pollers -> {"idle", "check", "await", "parked"}]
          /\ ParkedIsWaiter'
          /\ \A p \in Pollers : poll'[p] # "parked"
          /\ \A p \in Pollers : poll'[p] = "await" => permit'
      BY <1>i, NotifyWakes
    <2>2. TypeOK' BY <2>1, <1>i DEF TypeOK
    <2>3. HoldsChunk' BY <1>i DEF HoldsChunk
    <2>4. AwaitCovered' /\ NoLostWakeup' BY <2>1 DEF AwaitCovered, NoLostWakeup
    <2>5. Fresh' BY <1>i DEF Fresh
    <2> QED BY <2>1, <2>2, <2>3, <2>4, <2>5 DEF IInv
  <1>11. ASSUME UNCHANGED vars PROVE IInv'
    BY <1>i, <1>11 DEF vars, IInv, TypeOK, HoldsChunk, ParkedIsWaiter, AwaitCovered,
       NoLostWakeup, NotificationDue, Fresh
  <1> QED BY <1>1, <1>2, <1>3, <1>4, <1>5, <1>6, <1>7, <1>8, <1>9, <1>10, <1>11
      DEF Next, PushStep, PollStep

\* The queue stays within TERMINAL_QUEUE_CAPACITY whatever the producers do.
THEOREM QueueBounded == ASSUME OnePoll, ~OffMainThread PROVE Spec => []TypeOK
  <1>1. Init => IInv BY InitInvariant
  <1>2. IInv /\ [Next]_vars => IInv' BY StepInvariant
  <1>3. IInv => TypeOK BY DEF IInv
  <1> QED BY <1>1, <1>2, <1>3, PTL DEF Spec

\* No poll sleeps beside output or on a closed queue: the Notify protocol of
\* push, poll and close loses no wakeup.
THEOREM WakeupNeverLost == ASSUME OnePoll, ~OffMainThread PROVE Spec => []NoLostWakeup
  <1>1. Init => IInv BY InitInvariant
  <1>2. IInv /\ [Next]_vars => IInv' BY StepInvariant
  <1>3. IInv => NoLostWakeup BY DEF IInv
  <1> QED BY <1>1, <1>2, <1>3, PTL DEF Spec

\* Every step of the queue is a step of the bounded FIFO, or none.
LEMMA StepRefines ==
    ASSUME OnePoll, ~OffMainThread, IInv, [Next]_vars
    PROVE  [Channel!Next]_Channel!vars
  <1>i. TypeOK /\ HoldsChunk /\ ParkedIsWaiter /\ Fresh BY DEF IInv
  <1>t. poll \in [Pollers -> {"idle", "check", "await", "parked"}] BY <1>i DEF TypeOK
  <1> DEFINE Pending == {p \in Pollers : poll[p] # "idle"}
  <1>1. ASSUME NEW w \in Producers, PushBegin(w) PROVE UNCHANGED Channel!vars
    BY <1>1 DEF PushBegin, Channel!vars
  <1>2. ASSUME NEW w \in Producers, PushEnqueue(w) PROVE Channel!Next
    <2>1. push[w].chunk \in 1..MaxChunk BY <1>2, <1>i DEF HoldsChunk, PushEnqueue
    <2>2. Channel!Put(push[w].chunk)
      BY <1>2 DEF PushEnqueue, Channel!Put, Channel!Admit, Admit
    <2> QED BY <2>1, <2>2 DEF Channel!Next
  <1>3. ASSUME NEW w \in Producers, PushNotify(w) PROVE UNCHANGED Channel!vars
    <2>1. \A p \in Pollers : poll'[p] = "idle" <=> poll[p] = "idle"
      BY <1>3, <1>i, NotifyWakes DEF PushNotify
    <2> QED BY <2>1, <1>3 DEF PushNotify, Channel!vars
  <1>4. ASSUME NEW p \in Pollers, Poll(p) PROVE Channel!Next
    <2>1. p \notin Pending /\ Pending' = Pending \cup {p} BY <1>4, <1>t DEF Poll
    <2>2. Channel!Ask(p) BY <2>1, <1>4 DEF Poll, Channel!Ask
    <2> QED BY <2>2 DEF Channel!Next
  <1>5. ASSUME NEW p \in Pollers, PollChunk(p) PROVE Channel!Next
    <2>1. p \in Pending /\ Pending' = Pending \ {p} BY <1>5, <1>t DEF PollChunk
    <2>2. Channel!Take(p) BY <2>1, <1>5 DEF PollChunk, Channel!Take
    <2> QED BY <2>2 DEF Channel!Next
  <1>6. ASSUME NEW p \in Pollers, PollNone(p) PROVE Channel!Next
    <2>1. p \in Pending /\ Pending' = Pending \ {p} BY <1>6, <1>t DEF PollNone
    <2>2. Channel!End(p) BY <2>1, <1>6 DEF PollNone, Channel!End
    <2> QED BY <2>2 DEF Channel!Next
  <1>7. ASSUME NEW p \in Pollers, PollEmpty(p) \/ PollAwait(p) PROVE UNCHANGED Channel!vars
    <2>1. Pending' = Pending BY <1>7, <1>t DEF PollEmpty, PollAwait
    <2> QED BY <2>1, <1>7 DEF PollEmpty, PollAwait, Channel!vars
  <1>8. ASSUME Reset PROVE UNCHANGED Channel!vars
    <2>1. queue = << >> /\ closed = FALSE BY <1>8, <1>i DEF Reset, Fresh, TypeOK
    <2> QED BY <2>1, <1>8 DEF Reset, Channel!vars
  <1>9. ASSUME SpawnSerial \/ Attach PROVE UNCHANGED Channel!vars
    BY <1>9 DEF SpawnSerial, Attach, Channel!vars
  <1>10. ASSUME CloseStore PROVE Channel!Next
    BY <1>10 DEF CloseStore, Channel!Close, Channel!Next
  <1>11. ASSUME CloseNotify PROVE UNCHANGED Channel!vars
    <2>1. \A p \in Pollers : poll'[p] = "idle" <=> poll[p] = "idle"
      BY <1>11, <1>i, NotifyWakes DEF CloseNotify
    <2> QED BY <2>1, <1>11 DEF CloseNotify, Channel!vars
  <1>12. ASSUME UNCHANGED vars PROVE UNCHANGED Channel!vars
    BY <1>12 DEF vars, Channel!vars
  <1> QED
    BY <1>1, <1>2, <1>3, <1>4, <1>5, <1>6, <1>7, <1>8, <1>9, <1>10, <1>11, <1>12
    DEF Next, PushStep, PollStep

\* The queue implements the bounded FIFO that terminal_poll reads from: chunks
\* come out in order, only the oldest are lost, and "terminal closed" is
\* answered only when nothing is left.
THEOREM QueueImplementsChannel ==
    ASSUME OnePoll, ~OffMainThread PROVE Spec => Channel!Safety
  <1>1. Init => IInv BY InitInvariant
  <1>2. IInv /\ [Next]_vars => IInv' BY StepInvariant
  <1>3. Init => Channel!Init BY DEF Init, Channel!Init
  <1>4. IInv /\ [Next]_vars => [Channel!Next]_Channel!vars BY StepRefines
  <1> QED BY <1>1, <1>2, <1>3, <1>4, PTL DEF Spec, Channel!Safety

------------------------------------------------------------------------------
(* The input.                                                              *)

Vm == [machine : Nat, serial : Nat, terminal : Nat]
Input == [machine : Nat, fd : Descriptors, session : InputSessions]
Arrival == [input : Nat, machine : Nat, session : InputSessions]

InputTypes ==
    /\ vms \in [InputVenvs -> Vm] /\ booted \in Nat /\ files \in [Descriptors -> Nat]
    /\ typed \in Seq(Input) /\ channel \in Seq(Nat) /\ arrived \in Seq(Arrival)
    /\ thread \in [pc : {"recv", "coalesce", "write"}, buf : Seq(Nat)]
    /\ current \in [fd : Nat, file : Nat]

OpenFds == {d \in Descriptors : files[d] # 0}
Unattached == {v \in InputVenvs : vms[v] # NoVm /\ vms[v].terminal = 0}

\* A machine in the map has its descriptors open, and they are its own; there is a
\* number for every descriptor that may still be asked for.
MachinesOpen ==
    /\ \A v \in InputVenvs : vms[v] # NoVm =>
          /\ vms[v].machine \in 1..booted
          /\ vms[v].serial \in Descriptors /\ files[vms[v].serial] = vms[v].machine
          /\ vms[v].terminal # 0 =>
                vms[v].terminal \in Descriptors /\ files[vms[v].terminal] = vms[v].machine
    /\ \A v, w \in InputVenvs : vms[v] # NoVm /\ vms[v].machine = vms[w].machine => v = w
    /\ \A d \in Descriptors : files[d] <= booted
    /\ booted <= MaxBoots /\ IsFiniteSet(Unattached)
    /\ Cardinality(OpenFds) + Cardinality(Unattached) <= 2 * booted

\* The number an input was typed for leads to its machine as long as that lives,
\* and so does the number of the file the thread keeps.
NumbersLead ==
    /\ \A n \in 1..Len(typed) :
          /\ typed[n].machine \in 1..booted
          /\ typed[n].machine \in Live => files[typed[n].fd] = typed[n].machine
    /\ current.file <= booted
    /\ current.file \in Live => current.fd \in Descriptors /\ files[current.fd] = current.file

\* The first input that is still in the channel is the one after this.
Base == Len(typed) - Len(channel)

\* Inputs go through channel and buffer without a gap and in their order.
InOrder ==
    /\ Len(channel) <= Len(typed) /\ \A i \in 1..Len(channel) : channel[i] = Base + i
    /\ (thread.pc = "recv") <=> (thread.buf = << >>)
    /\ thread.buf # << >> =>
          /\ thread.buf[1] >= 1
          /\ \A i \in 1..Len(thread.buf) :
                /\ thread.buf[i] = thread.buf[1] + (i - 1)
                /\ Key(thread.buf[i]) = Key(thread.buf[1])
          /\ thread.buf[1] + (Len(thread.buf) - 1) <= Base
          /\ thread.pc = "coalesce" => thread.buf[1] + (Len(thread.buf) - 1) = Base
          /\ \A i \in 1..Len(arrived) : arrived[i].input < thread.buf[1]
    /\ \A i \in 1..Len(arrived) : arrived[i].input \in 1..Base
    /\ \A i, j \in 1..Len(arrived) : i < j => arrived[i].input < arrived[j].input

\* What arrived is for the session, and for the machine unless it stopped.
ArrivedRight ==
    \A i \in 1..Len(arrived) :
        /\ arrived[i].session = typed[arrived[i].input].session
        /\ arrived[i].machine = typed[arrived[i].input].machine \/ typed[arrived[i].input].machine \notin Live

AllLive == 1..booted \subseteq Live

\* What became of an input.
Accounted(n) ==
    \/ n > Base
    \/ \E i \in 1..Len(thread.buf) : thread.buf[i] = n
    \/ \E i \in 1..Len(arrived) : arrived[i].input = n
    \/ n > 1 /\ Key(n - 1) # Key(n)

\* As long as no machine stopped, the file of the thread leads to one, and every
\* input is accounted for.
NoneLost ==
    AllLive => /\ current.fd # 0 => current.file \in 1..booted
               /\ \A n \in 1..Len(typed) : Accounted(n)

InputInv == InputTypes /\ MachinesOpen /\ NumbersLead /\ InOrder /\ ArrivedRight /\ NoneLost

\* The kernel finds a free number where there is one.
LEMMA LowestFreeIs ==
    ASSUME InputTypes, NEW d \in Descriptors, files[d] = 0
    PROVE  LowestFree \in Descriptors /\ files[LowestFree] = 0
<1> DEFINE S == {e \in Descriptors : files[e] = 0}
           R == {ss \in Nat \X Nat : ss[1] < ss[2]}
<1>1. IsWellFoundedOn(R, Nat)
  BY NatLessThanWellFounded, Zenon DEF OpToRel
<1>2. S \subseteq Nat /\ d \in S
  BY InputAssumption DEF Descriptors
<1>3. PICK f \in S : \A e \in S : ~(<<e, f>> \in R)
  <2>1. \E x \in S : \A y \in S : ~(<<y, x>> \in R)
    BY <1>1, <1>2, WFMin
  <2> QED BY <2>1
<1>4. \A e \in S : f <= e
  <2> SUFFICES ASSUME NEW e \in S PROVE f <= e
    OBVIOUS
  <2>1. f \in Nat /\ e \in Nat /\ ~(<<e, f>> \in R)
    BY <1>2, <1>3
  <2> QED BY <2>1
<1>5. \E h \in Descriptors : files[h] = 0 /\ \A e \in Descriptors : files[e] = 0 => h <= e
  BY <1>3, <1>4
<1> QED BY <1>5 DEF LowestFree

\* There is one as long as not all are open.
LEMMA SomeFree ==
    ASSUME InputTypes, MachinesOpen, Cardinality(OpenFds) < 2 * MaxBoots
    PROVE  LowestFree \in Descriptors /\ files[LowestFree] = 0 /\ LowestFree \in Nat \ {0}
<1>1. IsFiniteSet(Descriptors) /\ Cardinality(Descriptors) = 2 * MaxBoots
  <2> DEFINE N == 2 * MaxBoots
  <2>1. N \in Nat
    BY InputAssumption
  <2>2. Descriptors = 1..N
    BY DEF Descriptors
  <2> HIDE DEF N
  <2>3. IsFiniteSet(1..N) /\ Cardinality(1..N) = N
    BY <2>1, FS_Interval
  <2>4. IsFiniteSet(Descriptors) /\ Cardinality(Descriptors) = N
    BY <2>2, <2>3
  <2> QED BY <2>4 DEF N
<1>2. OpenFds # Descriptors
  <2>1. 2 * MaxBoots \in Nat
    BY InputAssumption
  <2> QED BY <1>1, <2>1
<1>3. PICK d \in Descriptors : files[d] = 0
  BY <1>2 DEF OpenFds
<1> QED BY <1>3, LowestFreeIs, InputAssumption DEF Descriptors

\* What the steps of machines mean for the rest: machines do not come back, and a
\* number that leads to a machine that lives on leads there still.
MachineStep ==
    /\ UNCHANGED <<typed, channel, thread, current, arrived>>
    /\ booted' \in Nat /\ booted <= booted'
    /\ \A m \in 1..booted : m \in Live' => m \in Live
    /\ \A d \in Descriptors : files'[d] = files[d] \/ files[d] = 0 \/ files[d] \notin Live'
    /\ AllLive' => AllLive

LEMMA LiveIs == \A m : m \in Live <=> m # 0 /\ \E v \in InputVenvs : vms[v].machine = m
  BY DEF Live

\* The sets of open numbers and of machines without a terminal are finite.
LEMMA CountsFinite ==
    ASSUME InputTypes, MachinesOpen
    PROVE  /\ IsFiniteSet(OpenFds) /\ Cardinality(OpenFds) \in Nat
           /\ IsFiniteSet(Unattached) /\ Cardinality(Unattached) \in Nat
<1>1. IsFiniteSet(1..(2 * MaxBoots))
  <2>1. 2 * MaxBoots \in Nat
    BY InputAssumption
  <2> QED BY <2>1, FS_Interval
<1>2. OpenFds \in SUBSET (1..(2 * MaxBoots))
  BY DEF OpenFds, Descriptors
<1>3. IsFiniteSet(OpenFds)
  BY <1>1, <1>2, FS_Subset
<1> QED BY <1>3, FS_CardinalityType DEF MachinesOpen

\* A machine boots: it gets the next number and a free descriptor.
LEMMA BootsOpen ==
    ASSUME InputTypes, MachinesOpen, NEW v \in InputVenvs, MachineBoots(v)
    PROVE  vms' \in [InputVenvs -> Vm] /\ files' \in [Descriptors -> Nat] /\ MachinesOpen' /\ MachineStep
<1> DEFINE m == booted + 1
           d == LowestFree
<1> USE InputAssumption
<1>0. vms \in [InputVenvs -> Vm] /\ booted \in Nat /\ files \in [Descriptors -> Nat]
  BY DEF InputTypes
<1>1. /\ vms[v] = NoVm /\ booted < MaxBoots /\ booted' = m
      /\ UNCHANGED <<typed, channel, thread, current, arrived>>
  BY DEF MachineBoots
<1>2. vms' = [vms EXCEPT ![v] = [machine |-> m, serial |-> d, terminal |-> 0]] /\ files' = [files EXCEPT ![d] = m]
  BY <1>1 DEF MachineBoots
<1>3. /\ IsFiniteSet(OpenFds) /\ Cardinality(OpenFds) \in Nat
      /\ IsFiniteSet(Unattached) /\ Cardinality(Unattached) \in Nat
      /\ Cardinality(OpenFds) + Cardinality(Unattached) <= 2 * booted
  BY CountsFinite DEF MachinesOpen
<1>4. d \in Descriptors /\ files[d] = 0 /\ d \in Nat \ {0}
  <2>1. Cardinality(OpenFds) < 2 * MaxBoots
    BY <1>0, <1>1, <1>3
  <2> QED BY <2>1, SomeFree
<1> HIDE DEF m, d
<1>5. m \in Nat /\ m = booted + 1 /\ m # 0
  BY <1>0 DEF m
<1>6. /\ vms' \in [InputVenvs -> Vm] /\ files' \in [Descriptors -> Nat]
  BY <1>0, <1>2, <1>4, <1>5 DEF Vm
<1>7. /\ vms'[v] = [machine |-> m, serial |-> d, terminal |-> 0] /\ vms'[v] # NoVm
      /\ \A w \in InputVenvs \ {v} : vms'[w] = vms[w]
      /\ files'[d] = m /\ \A e \in Descriptors \ {d} : files'[e] = files[e]
  BY <1>0, <1>2, <1>4, <1>5 DEF NoVm
<1>8. \A w \in InputVenvs \ {v} : vms'[w] # NoVm =>
          /\ vms'[w].machine \in 1..booted
          /\ vms'[w].serial \in Descriptors \ {d} /\ files[vms'[w].serial] = vms'[w].machine
          /\ vms'[w].terminal # 0 =>
                vms'[w].terminal \in Descriptors \ {d} /\ files[vms'[w].terminal] = vms'[w].machine
  BY <1>4, <1>7 DEF MachinesOpen
<1>9. MachinesOpen'
  <2>1. \A w \in InputVenvs : vms'[w] # NoVm =>
          /\ vms'[w].machine \in 1..booted'
          /\ vms'[w].serial \in Descriptors /\ files'[vms'[w].serial] = vms'[w].machine
          /\ vms'[w].terminal # 0 =>
                vms'[w].terminal \in Descriptors /\ files'[vms'[w].terminal] = vms'[w].machine
    <3> SUFFICES ASSUME NEW w \in InputVenvs, vms'[w] # NoVm
                 PROVE  /\ vms'[w].machine \in 1..booted'
                        /\ vms'[w].serial \in Descriptors /\ files'[vms'[w].serial] = vms'[w].machine
                        /\ vms'[w].terminal # 0 =>
                              vms'[w].terminal \in Descriptors /\ files'[vms'[w].terminal] = vms'[w].machine
      OBVIOUS
    <3>1. CASE w = v
      BY <1>0, <1>1, <1>4, <1>5, <1>7, <3>1
    <3>2. CASE w # v
      BY <1>0, <1>1, <1>5, <1>7, <1>8, <3>2
    <3> QED BY <3>1, <3>2
  <2>2. \A w, x \in InputVenvs : vms'[w] # NoVm /\ vms'[w].machine = vms'[x].machine => w = x
    <3> SUFFICES ASSUME NEW w \in InputVenvs, NEW x \in InputVenvs, vms'[w] # NoVm,
                        vms'[w].machine = vms'[x].machine
                 PROVE  w = x
      OBVIOUS
    <3>1. \A y \in InputVenvs \ {v} : vms'[y].machine # m
      <4> SUFFICES ASSUME NEW y \in InputVenvs \ {v} PROVE vms'[y].machine # m
        OBVIOUS
      <4>1. CASE vms'[y] # NoVm
        BY <1>0, <1>5, <1>8, <4>1
      <4>2. CASE vms'[y] = NoVm
        BY <1>5, <4>2 DEF NoVm
      <4> QED BY <4>1, <4>2
    <3>2. CASE w = v \/ x = v
      BY <1>7, <3>1, <3>2
    <3>3. CASE w # v /\ x # v
      BY <1>7, <3>3 DEF MachinesOpen
    <3> QED BY <3>2, <3>3
  <2>3. \A e \in Descriptors : files'[e] <= booted'
    <3> SUFFICES ASSUME NEW e \in Descriptors PROVE files'[e] <= booted'
      OBVIOUS
    <3>1. files[e] \in Nat /\ files[e] <= booted
      BY <1>0 DEF MachinesOpen
    <3> QED BY <1>0, <1>1, <1>5, <1>7, <3>1
  <2>4. OpenFds' = OpenFds \cup {d} /\ d \notin OpenFds
    BY <1>4, <1>5, <1>7 DEF OpenFds
  <2>5. Unattached' = Unattached \cup {v} /\ v \notin Unattached
    BY <1>1, <1>7 DEF Unattached, NoVm
  <2>6. /\ Cardinality(OpenFds') = Cardinality(OpenFds) + 1
        /\ IsFiniteSet(Unattached') /\ Cardinality(Unattached') = Cardinality(Unattached) + 1
    BY <1>3, <2>4, <2>5, FS_AddElement
  <2>7. Cardinality(OpenFds') + Cardinality(Unattached') <= 2 * booted' /\ booted' <= MaxBoots
    BY <1>0, <1>1, <1>3, <1>5, <2>6
  <2> QED BY <2>1, <2>2, <2>3, <2>6, <2>7 DEF MachinesOpen
<1>10. \A n : n \in Live' <=> n \in Live \/ n = m
  <2> SUFFICES ASSUME NEW n PROVE n \in Live' <=> n \in Live \/ n = m
    OBVIOUS
  <2>1. n \in Live' <=> n # 0 /\ \E w \in InputVenvs : vms'[w].machine = n
    BY DEF Live
  <2>2. vms[v].machine = 0 /\ vms'[v].machine = m
    BY <1>1, <1>7 DEF NoVm
  <2> QED BY <1>5, <1>7, <2>1, <2>2, LiveIs
<1>11. MachineStep
  <2>1. \A e \in Descriptors : files'[e] = files[e] \/ files[e] = 0 \/ files[e] \notin Live'
    BY <1>4, <1>7
  <2>2. \A n \in 1..booted : n \in Live' => n \in Live
    BY <1>0, <1>5, <1>10
  <2>3. AllLive' => AllLive
    BY <1>0, <1>1, <1>5, <2>2 DEF AllLive
  <2> QED BY <1>0, <1>1, <1>5, <2>1, <2>2, <2>3 DEF MachineStep
<1> QED BY <1>6, <1>9, <1>11

\* The terminal connects: the machine's second descriptor.
LEMMA AttachOpens ==
    ASSUME InputTypes, MachinesOpen, NEW v \in InputVenvs, TerminalAttaches(v)
    PROVE  vms' \in [InputVenvs -> Vm] /\ files' \in [Descriptors -> Nat] /\ MachinesOpen' /\ MachineStep
<1> DEFINE m == vms[v].machine
           d == LowestFree
<1> USE InputAssumption
<1>0. vms \in [InputVenvs -> Vm] /\ booted \in Nat /\ files \in [Descriptors -> Nat]
  BY DEF InputTypes
<1>1. /\ vms[v] # NoVm /\ vms[v].terminal = 0 /\ booted' = booted
      /\ UNCHANGED <<typed, channel, thread, current, arrived>>
  BY DEF TerminalAttaches
<1>2. vms' = [vms EXCEPT ![v].terminal = d] /\ files' = [files EXCEPT ![d] = m]
  BY DEF TerminalAttaches
<1>3. /\ IsFiniteSet(OpenFds) /\ Cardinality(OpenFds) \in Nat
      /\ IsFiniteSet(Unattached) /\ Cardinality(Unattached) \in Nat
      /\ Cardinality(OpenFds) + Cardinality(Unattached) <= 2 * booted /\ booted <= MaxBoots
  BY CountsFinite DEF MachinesOpen
<1>4. v \in Unattached /\ IsFiniteSet(Unattached \ {v})
      /\ Cardinality(Unattached \ {v}) = Cardinality(Unattached) - 1 /\ Cardinality(Unattached \ {v}) \in Nat
  <2>1. v \in Unattached
    BY <1>1 DEF Unattached
  <2>2. IsFiniteSet(Unattached \ {v}) /\ Cardinality(Unattached \ {v}) = Cardinality(Unattached) - 1
    BY <1>3, <2>1, FS_RemoveElement
  <2> QED BY <2>1, <2>2, FS_CardinalityType
<1>5. d \in Descriptors /\ files[d] = 0 /\ d \in Nat \ {0}
  <2>1. Cardinality(OpenFds) < 2 * MaxBoots
    BY <1>0, <1>3, <1>4
  <2> QED BY <2>1, SomeFree
<1> HIDE DEF m, d
<1>6. m \in 1..booted /\ m = vms[v].machine /\ vms[v].serial \in Descriptors \ {d} /\ files[vms[v].serial] = m
  BY <1>0, <1>1, <1>5 DEF m, MachinesOpen
<1>7. vms' \in [InputVenvs -> Vm] /\ files' \in [Descriptors -> Nat]
  BY <1>0, <1>2, <1>5, <1>6 DEF Vm
<1>8. /\ vms'[v].machine = m /\ vms'[v].serial = vms[v].serial /\ vms'[v].terminal = d
      /\ \A w \in InputVenvs \ {v} : vms'[w] = vms[w]
      /\ files'[d] = m /\ \A e \in Descriptors \ {d} : files'[e] = files[e]
  BY <1>0, <1>2, <1>5, <1>6 DEF Vm
<1>9. vms'[v] # NoVm
  BY <1>0, <1>6, <1>8 DEF NoVm
<1>10. \A w \in InputVenvs : vms'[w].machine = vms[w].machine
  BY <1>6, <1>8
<1>11. MachinesOpen'
  <2>1. \A w \in InputVenvs : vms'[w] # NoVm =>
          /\ vms'[w].machine \in 1..booted'
          /\ vms'[w].serial \in Descriptors /\ files'[vms'[w].serial] = vms'[w].machine
          /\ vms'[w].terminal # 0 =>
                vms'[w].terminal \in Descriptors /\ files'[vms'[w].terminal] = vms'[w].machine
    <3> SUFFICES ASSUME NEW w \in InputVenvs, vms'[w] # NoVm
                 PROVE  /\ vms'[w].machine \in 1..booted'
                        /\ vms'[w].serial \in Descriptors /\ files'[vms'[w].serial] = vms'[w].machine
                        /\ vms'[w].terminal # 0 =>
                              vms'[w].terminal \in Descriptors /\ files'[vms'[w].terminal] = vms'[w].machine
      OBVIOUS
    <3>1. CASE w = v
      BY <1>1, <1>5, <1>6, <1>8, <3>1
    <3>2. CASE w # v
      <4>1. /\ vms'[w] = vms[w] /\ vms[w].machine \in 1..booted
            /\ vms[w].serial \in Descriptors /\ files[vms[w].serial] = vms[w].machine
            /\ vms[w].terminal # 0 =>
                  vms[w].terminal \in Descriptors /\ files[vms[w].terminal] = vms[w].machine
        BY <1>8, <3>2 DEF MachinesOpen
      <4>2. vms[w].machine # 0
        BY <1>0, <4>1
      <4>3. \A e \in Descriptors : files[e] # 0 => files'[e] = files[e]
        BY <1>5, <1>8
      <4> QED BY <1>1, <4>1, <4>2, <4>3
    <3> QED BY <3>1, <3>2
  <2>2. \A w, x \in InputVenvs : vms'[w] # NoVm /\ vms'[w].machine = vms'[x].machine => w = x
    <3> SUFFICES ASSUME NEW w \in InputVenvs, NEW x \in InputVenvs, vms'[w] # NoVm,
                        vms'[w].machine = vms'[x].machine
                 PROVE  w = x
      OBVIOUS
    <3>1. vms[w] # NoVm
      BY <1>1, <1>8
    <3> QED BY <1>10, <3>1 DEF MachinesOpen
  <2>3. \A e \in Descriptors : files'[e] <= booted'
    BY <1>0, <1>1, <1>6, <1>8 DEF MachinesOpen
  <2>4. OpenFds' = OpenFds \cup {d} /\ d \notin OpenFds
    BY <1>0, <1>5, <1>6, <1>8 DEF OpenFds
  <2>5. Unattached' = Unattached \ {v}
    BY <1>1, <1>5, <1>8 DEF Unattached
  <2>6. Cardinality(OpenFds') = Cardinality(OpenFds) + 1
    BY <1>3, <2>4, FS_AddElement
  <2>7. /\ IsFiniteSet(Unattached')
        /\ Cardinality(OpenFds') + Cardinality(Unattached') <= 2 * booted' /\ booted' <= MaxBoots
    BY <1>0, <1>1, <1>3, <1>4, <2>5, <2>6
  <2> QED BY <2>1, <2>2, <2>3, <2>7 DEF MachinesOpen
<1>12. Live' = Live
  BY <1>10 DEF Live
<1>13. MachineStep
  <2>1. \A e \in Descriptors : files'[e] = files[e] \/ files[e] = 0
    BY <1>5, <1>8
  <2> QED BY <1>0, <1>1, <1>12, <2>1 DEF MachineStep, AllLive
<1> QED BY <1>7, <1>11, <1>13

\* A machine stops: its descriptors are closed, or its serial console only.
LEMMA StopCloses ==
    ASSUME InputTypes, MachinesOpen, NEW v \in InputVenvs, MachineStops(v)
    PROVE  vms' \in [InputVenvs -> Vm] /\ files' \in [Descriptors -> Nat] /\ MachinesOpen' /\ MachineStep
<1> DEFINE m == vms[v].machine
<1> USE InputAssumption
<1>0. vms \in [InputVenvs -> Vm] /\ booted \in Nat /\ files \in [Descriptors -> Nat]
  BY DEF InputTypes
<1>1. /\ vms[v] # NoVm /\ booted' = booted /\ vms' = [vms EXCEPT ![v] = NoVm]
      /\ UNCHANGED <<typed, channel, thread, current, arrived>>
  BY DEF MachineStops
<1>2. PICK ends \in {{vms[v].serial}, {vms[v].serial, vms[v].terminal}} :
          files' = [d \in Descriptors |-> IF d \in ends THEN 0 ELSE files[d]]
  BY DEF MachineStops
<1> HIDE DEF m
<1>3. m \in 1..booted /\ m = vms[v].machine /\ \A d \in Descriptors : d \in ends => files[d] = m
  <2>1. /\ m \in 1..booted /\ m = vms[v].machine /\ files[vms[v].serial] = m
        /\ vms[v].terminal # 0 => files[vms[v].terminal] = m
    BY <1>1 DEF m, MachinesOpen
  <2>2. \A d \in Descriptors : d # 0
    BY DEF Descriptors
  <2>3. \A d \in ends : d = vms[v].serial \/ d = vms[v].terminal
    BY <1>2
  <2> QED BY <2>1, <2>2, <2>3
<1>4. vms' \in [InputVenvs -> Vm] /\ files' \in [Descriptors -> Nat]
  BY <1>0, <1>1, <1>2 DEF Vm, NoVm
<1>5. /\ vms'[v] = NoVm /\ \A w \in InputVenvs \ {v} : vms'[w] = vms[w]
      /\ \A d \in Descriptors : files'[d] = files[d] \/ (files'[d] = 0 /\ files[d] = m)
  BY <1>0, <1>1, <1>2, <1>3
<1>6. \A w \in InputVenvs \ {v} : vms[w].machine # m
  BY <1>1, <1>3 DEF MachinesOpen
<1>7. MachinesOpen'
  <2>1. \A w \in InputVenvs : vms'[w] # NoVm =>
          /\ vms'[w].machine \in 1..booted'
          /\ vms'[w].serial \in Descriptors /\ files'[vms'[w].serial] = vms'[w].machine
          /\ vms'[w].terminal # 0 =>
                vms'[w].terminal \in Descriptors /\ files'[vms'[w].terminal] = vms'[w].machine
    <3> SUFFICES ASSUME NEW w \in InputVenvs, vms'[w] # NoVm
                 PROVE  /\ vms'[w].machine \in 1..booted'
                        /\ vms'[w].serial \in Descriptors /\ files'[vms'[w].serial] = vms'[w].machine
                        /\ vms'[w].terminal # 0 =>
                              vms'[w].terminal \in Descriptors /\ files'[vms'[w].terminal] = vms'[w].machine
      OBVIOUS
    <3>1. w # v /\ vms'[w] = vms[w] /\ vms[w].machine # m
      BY <1>5, <1>6
    <3>2. /\ vms[w].machine \in 1..booted
          /\ vms[w].serial \in Descriptors /\ files[vms[w].serial] = vms[w].machine
          /\ vms[w].terminal # 0 =>
                vms[w].terminal \in Descriptors /\ files[vms[w].terminal] = vms[w].machine
      BY <3>1 DEF MachinesOpen
    <3> QED BY <1>1, <1>5, <3>1, <3>2
  <2>2. \A w, x \in InputVenvs : vms'[w] # NoVm /\ vms'[w].machine = vms'[x].machine => w = x
    <3> SUFFICES ASSUME NEW w \in InputVenvs, NEW x \in InputVenvs, vms'[w] # NoVm,
                        vms'[w].machine = vms'[x].machine
                 PROVE  w = x
      OBVIOUS
    <3>1. w # v /\ vms'[w] = vms[w] /\ vms'[w].machine \in 1..booted'
      BY <1>5, <2>1
    <3>2. CASE x = v
      BY <1>0, <1>1, <1>5, <3>1, <3>2 DEF NoVm
    <3>3. CASE x # v
      BY <1>5, <3>1, <3>3 DEF MachinesOpen
    <3> QED BY <3>2, <3>3
  <2>3. \A e \in Descriptors : files'[e] <= booted'
    <3> SUFFICES ASSUME NEW e \in Descriptors PROVE files'[e] <= booted'
      OBVIOUS
    <3>1. files[e] <= booted
      BY DEF MachinesOpen
    <3> QED BY <1>0, <1>1, <1>5, <3>1
  <2>4. OpenFds' \in SUBSET OpenFds
    BY <1>0, <1>3, <1>5 DEF OpenFds
  <2>5. Unattached' \in SUBSET Unattached
    BY <1>5 DEF Unattached
  <2>6. /\ IsFiniteSet(OpenFds) /\ Cardinality(OpenFds) \in Nat
        /\ IsFiniteSet(Unattached) /\ Cardinality(Unattached) \in Nat
    BY CountsFinite
  <2>7. IsFiniteSet(OpenFds') /\ Cardinality(OpenFds') <= Cardinality(OpenFds)
    BY <2>4, <2>6, FS_Subset
  <2>8. IsFiniteSet(Unattached') /\ Cardinality(Unattached') <= Cardinality(Unattached)
    BY <2>5, <2>6, FS_Subset
  <2>9. Cardinality(OpenFds') \in Nat /\ Cardinality(Unattached') \in Nat
    BY <2>7, <2>8, FS_CardinalityType
  <2>10. Cardinality(OpenFds') + Cardinality(Unattached') <= 2 * booted'
    <3>1. Cardinality(OpenFds) + Cardinality(Unattached) <= 2 * booted
      BY DEF MachinesOpen
    <3> QED BY <1>0, <1>1, <2>6, <2>7, <2>8, <2>9, <3>1
  <2>11. booted' <= MaxBoots
    BY <1>1 DEF MachinesOpen
  <2> QED BY <2>1, <2>2, <2>3, <2>8, <2>10, <2>11 DEF MachinesOpen
<1>8. \A n : n \in Live' <=> n \in Live /\ n # m
  <2> SUFFICES ASSUME NEW n PROVE n \in Live' <=> n \in Live /\ n # m
    OBVIOUS
  <2>1. n \in Live' <=> n # 0 /\ \E w \in InputVenvs : vms'[w].machine = n
    BY DEF Live
  <2>2. vms'[v].machine = 0
    BY <1>5 DEF NoVm
  <2> QED BY <1>3, <1>5, <1>6, <2>1, <2>2, LiveIs
<1>9. MachineStep
  <2>1. ~AllLive'
    BY <1>1, <1>3, <1>8 DEF AllLive
  <2>2. \A e \in Descriptors : files'[e] = files[e] \/ files[e] = 0 \/ files[e] \notin Live'
    BY <1>5, <1>8
  <2> QED BY <1>0, <1>1, <1>8, <2>1, <2>2 DEF MachineStep
<1> QED BY <1>4, <1>7, <1>9

\* The numbers in the buffer and of what arrived are those of inputs.
LEMMA NumbersTyped ==
    ASSUME InputTypes, InOrder
    PROVE  /\ Base \in Nat /\ Base <= Len(typed) /\ Len(typed) \in Nat /\ Len(channel) \in Nat
           /\ \A i \in 1..Len(arrived) : arrived[i].input \in 1..Len(typed)
           /\ \A i \in 1..Len(thread.buf) : thread.buf[i] \in 1..Base /\ thread.buf[i] \in 1..Len(typed)
           /\ thread.buf \in Seq(Nat) /\ (thread.buf # << >> => 1 \in 1..Len(thread.buf))
<1>1. /\ Len(typed) \in Nat /\ Len(channel) \in Nat /\ Len(channel) <= Len(typed)
      /\ thread.buf \in Seq(Nat) /\ Len(thread.buf) \in Nat
  BY DEF InputTypes, InOrder
<1>2. Base \in Nat /\ Base <= Len(typed)
  BY <1>1 DEF Base
<1>3. ASSUME NEW i \in 1..Len(arrived) PROVE arrived[i].input \in 1..Len(typed)
  <2>1. arrived[i].input \in 1..Base
    BY DEF InOrder
  <2> QED BY <1>1, <1>2, <2>1
<1>4. ASSUME NEW i \in 1..Len(thread.buf) PROVE thread.buf[i] \in 1..Base /\ thread.buf[i] \in 1..Len(typed)
  <2> DEFINE b == thread.buf[1]
             l == Len(thread.buf)
             c == thread.buf[i]
  <2>1. thread.buf # << >> /\ b \in Nat /\ l \in Nat /\ l >= 1
    BY <1>1
  <2>2. c = b + (i - 1) /\ b >= 1 /\ b + (l - 1) <= Base /\ i \in 1..l
    BY <2>1 DEF InOrder
  <2> HIDE DEF b, c, l
  <2>3. c \in 1..Base /\ c \in 1..Len(typed)
    BY <1>1, <1>2, <2>1, <2>2
  <2> QED BY <2>3 DEF c
<1>5. thread.buf # << >> => 1 \in 1..Len(thread.buf)
  BY <1>1
<1> QED BY <1>1, <1>2, <1>3, <1>4, <1>5

\* A step of the machines leaves the inputs as they are.
LEMMA MachineStepKeeps ==
    ASSUME InputInv, MachineStep, vms' \in [InputVenvs -> Vm], files' \in [Descriptors -> Nat], MachinesOpen'
    PROVE  InputInv'
<1>0. /\ InputTypes /\ MachinesOpen /\ NumbersLead /\ InOrder /\ ArrivedRight /\ NoneLost
  BY DEF InputInv
<1>1. /\ typed' = typed /\ channel' = channel /\ thread' = thread /\ current' = current /\ arrived' = arrived
      /\ booted' \in Nat /\ booted <= booted' /\ (AllLive' => AllLive)
      /\ \A m \in 1..booted : m \in Live' => m \in Live
      /\ \A d \in Descriptors : files'[d] = files[d] \/ files[d] = 0 \/ files[d] \notin Live'
  BY DEF MachineStep
<1>2. booted \in Nat /\ typed \in Seq(Input) /\ arrived \in Seq(Arrival) /\ current \in [fd : Nat, file : Nat]
  BY <1>0 DEF InputTypes
<1>3. InputTypes'
  BY <1>0, <1>1 DEF InputTypes
<1>4. NumbersLead'
  <2>1. \A n \in 1..Len(typed) : /\ typed[n].machine \in 1..booted'
                                 /\ typed[n].machine \in Live' => files'[typed[n].fd] = typed[n].machine
    <3> SUFFICES ASSUME NEW n \in 1..Len(typed)
                 PROVE  /\ typed[n].machine \in 1..booted'
                        /\ typed[n].machine \in Live' => files'[typed[n].fd] = typed[n].machine
      OBVIOUS
    <3>1. typed[n].machine \in 1..booted /\ (typed[n].machine \in Live => files[typed[n].fd] = typed[n].machine)
      BY <1>0 DEF NumbersLead
    <3>2. typed[n] \in Input
      BY <1>2
    <3>3. typed[n].fd \in Descriptors
      BY <3>2 DEF Input
    <3> QED BY <1>1, <1>2, <3>1, <3>3
  <2>2. current.file <= booted' /\ (current.file \in Live' => current.fd \in Descriptors /\ files'[current.fd] = current.file)
    <3>1. /\ current.file \in Nat /\ current.file <= booted
          /\ current.file \in Live => current.fd \in Descriptors /\ files[current.fd] = current.file
      BY <1>0, <1>2 DEF NumbersLead
    <3>2. current.file \in Live' => current.file # 0
      BY DEF Live
    <3> QED BY <1>1, <1>2, <3>1, <3>2
  <2> QED BY <1>1, <2>1, <2>2 DEF NumbersLead
<1>5. InOrder'
  BY <1>0, <1>1 DEF InOrder, Base, Key
<1>6. ArrivedRight'
  <2> SUFFICES ASSUME NEW i \in 1..Len(arrived)
               PROVE  /\ arrived[i].session = typed[arrived[i].input].session
                      /\ \/ arrived[i].machine = typed[arrived[i].input].machine
                         \/ typed[arrived[i].input].machine \notin Live'
    BY <1>1 DEF ArrivedRight
  <2>1. arrived[i].input \in 1..Len(typed)
    BY <1>0, NumbersTyped
  <2>2. typed[arrived[i].input].machine \in 1..booted
    BY <1>0, <2>1 DEF NumbersLead
  <2> QED BY <1>0, <1>1, <2>2 DEF ArrivedRight
<1>7. NoneLost'
  <2>1. \A n : Accounted(n)' <=> Accounted(n)
    BY <1>1 DEF Accounted, Base, Key
  <2> QED BY <1>0, <1>1, <1>2, <2>1 DEF NoneLost
<1> QED BY <1>3, <1>4, <1>5, <1>6, <1>7 DEF InputInv

\* The input thread and serial_input leave the machines alone.
LEMMA MachinesStay ==
    ASSUME MachinesOpen, UNCHANGED <<vms, booted, files>>
    PROVE  MachinesOpen' /\ Live' = Live /\ (AllLive' <=> AllLive)
<1>1. vms' = vms /\ booted' = booted /\ files' = files
  OBVIOUS
<1>2. OpenFds' = OpenFds /\ Unattached' = Unattached /\ Live' = Live
  BY <1>1 DEF OpenFds, Unattached, Live
<1>3. MachinesOpen'
  BY <1>1, <1>2 DEF MachinesOpen
<1> QED BY <1>1, <1>2, <1>3 DEF AllLive

\* What is typed joins the end of the channel, under a number that leads to the
\* machine in the focus.
LEMMA InputTyped ==
    ASSUME InputInv, NEW v \in InputVenvs, NEW s \in InputSessions, SerialInput(v, s)
    PROVE  InputInv'
<1> DEFINE x == [machine |-> vms[v].machine, fd |-> TerminalFd(v), session |-> s]
           k == Len(typed) + 1
<1> USE InputAssumption
<1>0. InputTypes /\ MachinesOpen /\ NumbersLead /\ InOrder /\ ArrivedRight /\ NoneLost
  BY DEF InputInv
<1>1. /\ vms[v] # NoVm /\ typed' = Append(typed, x) /\ channel' = Append(channel, Len(typed'))
      /\ vms' = vms /\ booted' = booted /\ files' = files
      /\ thread' = thread /\ current' = current /\ arrived' = arrived
  BY DEF SerialInput
<1>2. /\ x.machine \in 1..booted /\ x.fd \in Descriptors /\ x.session = s
      /\ files[x.fd] = x.machine /\ x \in Input
  <2>1. /\ vms[v].machine \in 1..booted
        /\ vms[v].serial \in Descriptors /\ files[vms[v].serial] = vms[v].machine
        /\ vms[v].terminal # 0 =>
              vms[v].terminal \in Descriptors /\ files[vms[v].terminal] = vms[v].machine
    BY <1>0, <1>1 DEF MachinesOpen
  <2>2. TerminalFd(v) \in Descriptors /\ files[TerminalFd(v)] = vms[v].machine
    BY <2>1 DEF TerminalFd
  <2> QED BY <2>1, <2>2 DEF Input
<1>3. /\ vms \in [InputVenvs -> Vm] /\ booted \in Nat /\ files \in [Descriptors -> Nat]
      /\ typed \in Seq(Input) /\ channel \in Seq(Nat) /\ arrived \in Seq(Arrival)
      /\ thread \in [pc : {"recv", "coalesce", "write"}, buf : Seq(Nat)]
      /\ current \in [fd : Nat, file : Nat]
  BY <1>0 DEF InputTypes
<1> HIDE DEF x
<1>4. /\ typed' \in Seq(Input) /\ Len(typed') = k /\ typed'[k] = x /\ k \in Nat
      /\ \A n \in 1..Len(typed) : typed'[n] = typed[n]
  BY <1>1, <1>2, <1>3
<1>5. /\ channel' \in Seq(Nat) /\ Len(channel') = Len(channel) + 1 /\ channel'[Len(channel) + 1] = k
      /\ \A n \in 1..Len(channel) : channel'[n] = channel[n]
  BY <1>1, <1>3, <1>4
<1>6. /\ Base' = Base /\ Base \in Int /\ Base <= Len(typed) /\ Len(channel) \in Nat /\ Len(typed) \in Nat
      /\ Base = Len(typed) - Len(channel)
  BY <1>3, <1>4, <1>5 DEF Base
<1>7. InputTypes'
  BY <1>1, <1>3, <1>4, <1>5 DEF InputTypes
<1>8. MachinesOpen' /\ Live' = Live /\ (AllLive' <=> AllLive)
  BY <1>0, <1>1, MachinesStay
<1>9. NumbersLead'
  <2>1. \A n \in 1..Len(typed') : /\ typed'[n].machine \in 1..booted
                                  /\ typed'[n].machine \in Live => files[typed'[n].fd] = typed'[n].machine
    <3> SUFFICES ASSUME NEW n \in 1..Len(typed')
                 PROVE  /\ typed'[n].machine \in 1..booted
                        /\ typed'[n].machine \in Live => files[typed'[n].fd] = typed'[n].machine
      OBVIOUS
    <3>1. CASE n = k
      BY <1>2, <1>4, <3>1
    <3>2. CASE n # k
      <4>1. n \in 1..Len(typed)
        BY <1>4, <1>6, <3>2
      <4> QED BY <1>0, <1>4, <4>1 DEF NumbersLead
    <3> QED BY <3>1, <3>2
  <2> QED BY <1>0, <1>1, <1>8, <2>1 DEF NumbersLead
<1>10. \A n \in 1..Len(typed) : Key(n)' = Key(n)
  BY <1>4 DEF Key
<1>11. InOrder'
  <2>1. Len(channel') <= Len(typed') /\ \A i \in 1..Len(channel') : channel'[i] = Base' + i
    <3> SUFFICES ASSUME NEW i \in 1..Len(channel')
                 PROVE  Len(channel') <= Len(typed') /\ channel'[i] = Base' + i
      BY <1>0, <1>4, <1>5, <1>6 DEF InOrder
    <3>1. Len(channel) <= Len(typed) /\ \A j \in 1..Len(channel) : channel[j] = Base + j
      BY <1>0 DEF InOrder
    <3>2. CASE i = Len(channel) + 1
      BY <1>4, <1>5, <1>6, <3>1, <3>2
    <3>3. CASE i # Len(channel) + 1
      <4>1. i \in 1..Len(channel)
        BY <1>5, <1>6, <3>3
      <4> QED BY <1>4, <1>5, <1>6, <3>1, <4>1
    <3> QED BY <3>2, <3>3
  <2>2. (thread'.pc = "recv") <=> (thread'.buf = << >>)
    BY <1>0, <1>1 DEF InOrder
  <2>3. thread'.buf # << >> =>
          /\ thread'.buf[1] >= 1
          /\ \A i \in 1..Len(thread'.buf) :
                /\ thread'.buf[i] = thread'.buf[1] + (i - 1)
                /\ Key(thread.buf[i])' = Key(thread.buf[1])'
          /\ thread'.buf[1] + (Len(thread'.buf) - 1) <= Base'
          /\ thread'.pc = "coalesce" => thread'.buf[1] + (Len(thread'.buf) - 1) = Base'
          /\ \A i \in 1..Len(arrived') : arrived'[i].input < thread'.buf[1]
    <3> SUFFICES ASSUME thread.buf # << >>
                 PROVE  \A i \in 1..Len(thread.buf) : Key(thread.buf[i])' = Key(thread.buf[1])'
      BY <1>0, <1>1, <1>6 DEF InOrder
    <3> SUFFICES ASSUME NEW i \in 1..Len(thread.buf)
                 PROVE  Key(thread.buf[i])' = Key(thread.buf[1])'
      OBVIOUS
    <3>1. Key(thread.buf[i]) = Key(thread.buf[1])
      BY <1>0 DEF InOrder
    <3>3. thread.buf[i] \in 1..Len(typed) /\ thread.buf[1] \in 1..Len(typed)
      BY <1>0, NumbersTyped
    <3>4. Key(thread.buf[i])' = <<typed'[thread.buf[i]].fd, typed'[thread.buf[i]].session>>
          /\ Key(thread.buf[1])' = <<typed'[thread.buf[1]].fd, typed'[thread.buf[1]].session>>
      BY <1>1 DEF Key
    <3> QED BY <1>4, <3>1, <3>3, <3>4 DEF Key
  <2>4. \A i \in 1..Len(arrived') : arrived'[i].input \in 1..Base'
    BY <1>0, <1>1, <1>6 DEF InOrder
  <2>5. \A i, j \in 1..Len(arrived') : i < j => arrived'[i].input < arrived'[j].input
    BY <1>0, <1>1 DEF InOrder
  <2> QED BY <2>1, <2>2, <2>3, <2>4, <2>5 DEF InOrder
<1>12. ArrivedRight'
  <2> SUFFICES ASSUME NEW i \in 1..Len(arrived)
               PROVE  /\ arrived[i].session = typed'[arrived[i].input].session
                      /\ \/ arrived[i].machine = typed'[arrived[i].input].machine
                         \/ typed'[arrived[i].input].machine \notin Live
    BY <1>1, <1>8 DEF ArrivedRight
  <2>1. arrived[i].input \in 1..Len(typed)
    BY <1>0, NumbersTyped
  <2> QED BY <1>0, <1>4, <2>1 DEF ArrivedRight
<1>13. NoneLost'
  <2> SUFFICES ASSUME AllLive', NEW n \in 1..Len(typed') PROVE Accounted(n)'
    BY <1>0, <1>1, <1>8 DEF NoneLost
  <2>1. CASE n = k
    <3>1. n > Base'
      BY <1>6, <2>1
    <3> QED BY <3>1 DEF Accounted
  <2>2. CASE n # k
    <3>1. n \in 1..Len(typed)
      BY <1>4, <1>6, <2>2
    <3>2. Accounted(n)
      BY <1>0, <1>8, <3>1 DEF NoneLost
    <3>3. n > 1 => Key(n - 1)' = Key(n - 1) /\ Key(n)' = Key(n)
      <4>1. n > 1 => n - 1 \in 1..Len(typed)
        BY <1>6, <3>1
      <4> QED BY <1>10, <3>1, <4>1
    <3> QED BY <1>1, <1>6, <3>2, <3>3 DEF Accounted
  <2> QED BY <2>1, <2>2
<1> QED BY <1>7, <1>8, <1>9, <1>11, <1>12, <1>13 DEF InputInv

\* The thread takes the first input of a batch.
LEMMA BatchStarted ==
    ASSUME InputInv, ThreadReceives
    PROVE  InputInv'
<1> DEFINE h == Head(channel)
           B == Base
<1>0. InputTypes /\ MachinesOpen /\ NumbersLead /\ InOrder /\ ArrivedRight /\ NoneLost
  BY DEF InputInv
<1>1. /\ thread.pc = "recv" /\ channel # << >> /\ thread' = [pc |-> "coalesce", buf |-> <<h>>]
      /\ channel' = Tail(channel) /\ vms' = vms /\ booted' = booted /\ files' = files
      /\ typed' = typed /\ current' = current /\ arrived' = arrived
  BY DEF ThreadReceives
<1>2. /\ B \in Nat /\ B <= Len(typed) /\ Len(typed) \in Nat /\ Len(channel) \in Nat
      /\ B = Len(typed) - Len(channel) /\ channel \in Seq(Nat)
  BY <1>0, NumbersTyped DEF Base, InputTypes
<1>3. /\ channel' \in Seq(Nat) /\ Len(channel') = Len(channel) - 1 /\ h = B + 1 /\ Len(channel) >= 1
      /\ \A i \in 1..Len(channel') : channel'[i] = channel[i + 1]
  <2>1. Len(channel) >= 1 /\ h = channel[1] /\ 1 \in 1..Len(channel)
    BY <1>1, <1>2
  <2>2. h = B + 1
    BY <1>0, <2>1 DEF InOrder
  <2> QED BY <1>1, <1>2, <2>1, <2>2
<1>4. Base' = B + 1
  BY <1>1, <1>2, <1>3 DEF Base
<1>5. MachinesOpen' /\ Live' = Live /\ (AllLive' <=> AllLive) /\ \A n : Key(n)' = Key(n)
  BY <1>0, <1>1, MachinesStay DEF Key
<1> HIDE DEF h, B
<1>6. thread'.pc = "coalesce" /\ thread'.buf = <<h>> /\ thread'.buf # << >> /\ Len(thread'.buf) = 1 /\ thread'.buf[1] = h
  BY <1>1
<1>7. InputTypes'
  BY <1>0, <1>1, <1>2, <1>3 DEF InputTypes
<1>8. NumbersLead' /\ ArrivedRight'
  BY <1>0, <1>1, <1>5 DEF NumbersLead, ArrivedRight
<1>9. InOrder'
  <2>1. Len(channel') <= Len(typed') /\ \A i \in 1..Len(channel') : channel'[i] = Base' + i
    <3>1. \A i \in 1..Len(channel) : channel[i] = B + i
      BY <1>0 DEF InOrder, B
    <3> QED BY <1>1, <1>2, <1>3, <1>4, <3>1
  <2>2. \A i \in 1..Len(arrived) : arrived[i].input \in 1..B
    BY <1>0 DEF InOrder, B
  <2>3. thread'.buf # << >> =>
          /\ thread'.buf[1] >= 1
          /\ \A i \in 1..Len(thread'.buf) :
                /\ thread'.buf[i] = thread'.buf[1] + (i - 1)
                /\ Key(thread.buf[i])' = Key(thread.buf[1])'
          /\ thread'.buf[1] + (Len(thread'.buf) - 1) <= Base'
          /\ thread'.pc = "coalesce" => thread'.buf[1] + (Len(thread'.buf) - 1) = Base'
          /\ \A i \in 1..Len(arrived') : arrived'[i].input < thread'.buf[1]
    <3>1. \A i \in 1..Len(thread'.buf) : i = 1
      BY <1>6
    <3>2. h >= 1 /\ h \in Nat /\ h + (1 - 1) = Base' /\ h <= Base'
      BY <1>2, <1>3, <1>4
    <3>3. \A i \in 1..Len(arrived') : arrived'[i].input < h
      BY <1>1, <1>2, <1>3, <2>2
    <3> QED BY <1>6, <3>1, <3>2, <3>3
  <2>4. \A i \in 1..Len(arrived') : arrived'[i].input \in 1..Base'
    BY <1>1, <1>2, <1>4, <2>2
  <2>5. \A i, j \in 1..Len(arrived') : i < j => arrived'[i].input < arrived'[j].input
    BY <1>0, <1>1 DEF InOrder
  <2> QED BY <1>6, <2>1, <2>3, <2>4, <2>5 DEF InOrder
<1>10. NoneLost'
  <2> SUFFICES ASSUME AllLive', NEW n \in 1..Len(typed) PROVE Accounted(n)'
    BY <1>0, <1>1, <1>5 DEF NoneLost
  <2>1. Accounted(n)
    BY <1>0, <1>5 DEF NoneLost
  <2>2. thread.buf = << >> /\ Len(thread.buf) = 0
    BY <1>0, <1>1 DEF InOrder
  <2>3. CASE n = B + 1
    <3>1. 1 \in 1..Len(thread'.buf) /\ thread'.buf[1] = n
      BY <1>3, <1>6, <2>3
    <3> QED BY <3>1 DEF Accounted
  <2>4. CASE n # B + 1
    <3>1. n > Base => n > Base'
      BY <1>2, <1>4, <2>4 DEF B
    <3>2. ~ \E i \in 1..Len(thread.buf) : thread.buf[i] = n
      BY <2>2
    <3>3. Key(n - 1)' = Key(n - 1) /\ Key(n)' = Key(n)
      BY <1>1 DEF Key
    <3> QED BY <1>1, <2>1, <3>1, <3>2, <3>3 DEF Accounted
  <2> QED BY <2>3, <2>4
<1> QED BY <1>5, <1>7, <1>8, <1>9, <1>10 DEF InputInv

\* The batch goes to be written.
LEMMA BatchClosed ==
    ASSUME InputInv, BatchReady
    PROVE  InputInv'
<1>0. InputTypes /\ MachinesOpen /\ NumbersLead /\ InOrder /\ ArrivedRight /\ NoneLost
  BY DEF InputInv
<1>1. /\ thread.pc = "coalesce" /\ thread' = [thread EXCEPT !.pc = "write"]
      /\ channel' = channel /\ vms' = vms /\ booted' = booted /\ files' = files
      /\ typed' = typed /\ current' = current /\ arrived' = arrived
  BY DEF BatchReady
<1>2. thread \in [pc : {"recv", "coalesce", "write"}, buf : Seq(Nat)]
  BY <1>0 DEF InputTypes
<1>3. /\ thread' \in [pc : {"recv", "coalesce", "write"}, buf : Seq(Nat)]
      /\ thread'.pc = "write" /\ thread'.buf = thread.buf
  BY <1>1, <1>2
<1>4. MachinesOpen' /\ Live' = Live /\ (AllLive' <=> AllLive) /\ Base' = Base /\ \A n : Key(n)' = Key(n)
  BY <1>0, <1>1, MachinesStay DEF Key, Base
<1>5. InputTypes'
  BY <1>0, <1>1, <1>3 DEF InputTypes
<1>6. NumbersLead' /\ ArrivedRight'
  BY <1>0, <1>1, <1>4 DEF NumbersLead, ArrivedRight
<1>7. InOrder'
  <2>1. \A i \in 1..Len(thread.buf) : Key(thread.buf[i])' = Key(thread.buf[i]) /\ Key(thread.buf[1])' = Key(thread.buf[1])
    BY <1>1, <1>3 DEF Key
  <2> QED BY <1>0, <1>1, <1>3, <1>4, <2>1 DEF InOrder
<1>8. NoneLost'
  <2>1. \A n : Accounted(n)' <=> Accounted(n)
    BY <1>1, <1>3, <1>4 DEF Accounted
  <2> QED BY <1>0, <1>1, <1>4, <2>1 DEF NoneLost
<1> QED BY <1>4, <1>5, <1>6, <1>7, <1>8 DEF InputInv

\* The thread joins an input to the batch, or drops it: that one came directly
\* after the last of the batch, and was for another session or descriptor.
LEMMA BatchGrows ==
    ASSUME InputInv, Coalesce
    PROVE  InputInv'
<1> DEFINE h == Head(channel)
           B == Base
           buf == thread.buf
           l == Len(thread.buf)
           b == thread.buf[1]
<1>0. InputTypes /\ MachinesOpen /\ NumbersLead /\ InOrder /\ ArrivedRight /\ NoneLost
  BY DEF InputInv
<1>1. /\ thread.pc = "coalesce" /\ channel # << >> /\ channel' = Tail(channel)
      /\ vms' = vms /\ booted' = booted /\ files' = files
      /\ typed' = typed /\ current' = current /\ arrived' = arrived
      /\ thread' = IF Joins(h) THEN [thread EXCEPT !.buf = Append(@, h)] ELSE [thread EXCEPT !.pc = "write"]
  BY DEF Coalesce
<1>2. /\ B \in Nat /\ B <= Len(typed) /\ Len(typed) \in Nat /\ Len(channel) \in Nat
      /\ B = Len(typed) - Len(channel) /\ l \in Nat
  <2>1. thread.buf \in Seq(Nat)
    BY <1>0 DEF InputTypes
  <2> QED BY <1>0, <2>1, NumbersTyped DEF Base
<1>15. /\ channel \in Seq(Nat) /\ thread \in [pc : {"recv", "coalesce", "write"}, buf : Seq(Nat)]
       /\ buf \in Seq(Nat)
  BY <1>0 DEF InputTypes
<1>3. /\ channel' \in Seq(Nat) /\ Len(channel') = Len(channel) - 1 /\ h = B + 1 /\ Len(channel) >= 1
      /\ \A i \in 1..Len(channel') : channel'[i] = channel[i + 1]
  <2>1. Len(channel) >= 1 /\ h = channel[1] /\ 1 \in 1..Len(channel)
    BY <1>1, <1>15
  <2>2. h = B + 1
    BY <1>0, <2>1 DEF InOrder
  <2> QED BY <1>1, <1>2, <1>15, <2>1, <2>2
<1>4. Base' = B + 1
  BY <1>1, <1>2, <1>3 DEF Base
<1>5. MachinesOpen' /\ Live' = Live /\ (AllLive' <=> AllLive)
  BY <1>0, <1>1, MachinesStay
<1>6. /\ buf # << >> /\ l >= 1 /\ buf[1] \in Nat /\ buf[1] >= 1 /\ buf[1] + (l - 1) = B
      /\ \A i \in 1..l : buf[i] = buf[1] + (i - 1) /\ Key(buf[i]) = Key(buf[1])
      /\ \A i \in 1..Len(arrived) : arrived[i].input < buf[1]
  <2>1. buf # << >>
    BY <1>0, <1>1 DEF InOrder
  <2>2. l >= 1 /\ buf[1] \in Nat
    BY <1>15, <2>1
  <2> QED BY <1>0, <1>1, <2>1, <2>2 DEF InOrder
<1>7. /\ \A i \in 1..Len(arrived) : arrived[i].input \in 1..B
      /\ \A i, j \in 1..Len(arrived) : i < j => arrived[i].input < arrived[j].input
      /\ \A i \in 1..Len(channel) : channel[i] = B + i
  BY <1>0 DEF InOrder
<1>16. b = buf[1]
  OBVIOUS
<1> HIDE DEF h, B, buf, l, b
<1>8. Len(channel') <= Len(typed') /\ \A i \in 1..Len(channel') : channel'[i] = Base' + i
  <2>1. typed' = typed
    BY <1>1
  <2>2. \A i \in 1..Len(channel') : i + 1 \in 1..Len(channel) /\ i \in Int
    BY <1>2, <1>3
  <2>3. \A i \in 1..Len(channel') : channel'[i] = B + (i + 1)
    BY <1>3, <1>7, <2>2
  <2> QED BY <1>2, <1>3, <1>4, <2>1, <2>2, <2>3
<1>9. /\ \A i \in 1..Len(arrived') : arrived'[i].input \in 1..Base'
      /\ \A i, j \in 1..Len(arrived') : i < j => arrived'[i].input < arrived'[j].input
  BY <1>1, <1>2, <1>4, <1>7
<1>10. NumbersLead' /\ ArrivedRight'
  BY <1>0, <1>1, <1>5 DEF NumbersLead, ArrivedRight
<1>11. AllLive' => /\ current'.fd # 0 => current'.file \in 1..booted'
                   /\ \A n \in 1..Len(typed) : Accounted(n)
  BY <1>0, <1>1, <1>5 DEF NoneLost
<1>12. \A n : Accounted(n) <=>
          \/ n > B
          \/ \E i \in 1..l : buf[i] = n
          \/ \E i \in 1..Len(arrived) : arrived[i].input = n
          \/ n > 1 /\ Key(n - 1) # Key(n)
  BY DEF Accounted, B, buf, l
<1>13. CASE Joins(h)
  <2>1. thread' = [thread EXCEPT !.buf = Append(buf, h)]
    BY <1>1, <1>13 DEF buf
  <2>2. /\ thread'.pc = "coalesce" /\ thread'.buf = Append(buf, h)
        /\ thread' \in [pc : {"recv", "coalesce", "write"}, buf : Seq(Nat)]
    <3>1. h \in Nat
      BY <1>2, <1>3
    <3>2. Append(buf, h) \in Seq(Nat)
      BY <1>15, <3>1
    <3>3. thread.pc = "coalesce"
      BY <1>1
    <3> QED BY <1>15, <2>1, <3>2, <3>3
  <2>3. /\ Len(thread'.buf) = l + 1 /\ thread'.buf[l + 1] = h /\ thread'.buf # << >>
        /\ \A i \in 1..l : thread'.buf[i] = buf[i]
    <3>1. h \in Nat /\ l = Len(buf)
      BY <1>2, <1>3 DEF l, buf
    <3>2. /\ Len(Append(buf, h)) = Len(buf) + 1 /\ Append(buf, h)[Len(buf) + 1] = h /\ Append(buf, h) # << >>
          /\ \A i \in 1..Len(buf) : Append(buf, h)[i] = buf[i]
      <4>1. buf \in Seq(Nat) /\ h \in Nat
        BY <1>15, <3>1
      <4>2. Len(Append(buf, h)) = Len(buf) + 1 /\ Append(buf, h)[Len(buf) + 1] = h /\ Append(buf, h) # << >>
        BY <4>1
      <4>3. ASSUME NEW i \in 1..Len(buf) PROVE Append(buf, h)[i] = buf[i]
        BY <4>1
      <4> QED BY <4>2, <4>3
    <3> QED BY <2>2, <3>1, <3>2
  <2>4. Key(h) = Key(buf[1])
    BY <1>13 DEF Joins, buf
  <2>5. thread'.buf[1] = buf[1]
    BY <1>2, <1>6, <2>3
  <2>6. \A i \in 1..(l + 1) : thread'.buf[i] = thread'.buf[1] + (i - 1)
    <3> SUFFICES ASSUME NEW i \in 1..(l + 1) PROVE thread'.buf[i] = buf[1] + (i - 1)
      BY <2>5
    <3>1. CASE i = l + 1
      <4>1. thread'.buf[i] = B + 1 /\ i - 1 = l
        BY <1>2, <1>3, <2>3, <3>1
      <4>2. b \in Nat /\ b + (l - 1) = B
        BY <1>6, <1>16
      <4>3. B + 1 = b + l
        BY <1>2, <4>2
      <4> QED BY <1>16, <4>1, <4>3
    <3>2. CASE i # l + 1
      <4>1. i \in 1..l
        BY <1>2, <3>2
      <4> QED BY <1>6, <2>3, <4>1
    <3> QED BY <3>1, <3>2
  <2>7. \A i \in 1..(l + 1) : Key(thread.buf[i])' = Key(thread.buf[1])'
    <3> SUFFICES ASSUME NEW i \in 1..(l + 1) PROVE Key(thread.buf[i])' = Key(thread.buf[1])'
      OBVIOUS
    <3>1. /\ Key(thread.buf[i])' = <<typed[thread'.buf[i]].fd, typed[thread'.buf[i]].session>>
          /\ Key(thread.buf[1])' = <<typed[thread'.buf[1]].fd, typed[thread'.buf[1]].session>>
      BY <1>1 DEF Key
    <3>2. CASE i = l + 1
      BY <2>3, <2>4, <2>5, <3>1, <3>2 DEF Key
    <3>3. CASE i # l + 1
      <4>1. i \in 1..l
        BY <1>2, <3>3
      <4>2. thread'.buf[i] = buf[i] /\ Key(buf[i]) = Key(buf[1])
        BY <1>6, <2>3, <4>1
      <4> QED BY <2>5, <3>1, <4>2 DEF Key
    <3> QED BY <3>2, <3>3
  <2>8. thread'.buf[1] >= 1 /\ thread'.buf[1] + (Len(thread'.buf) - 1) = Base'
        /\ thread'.buf[1] + (Len(thread'.buf) - 1) <= Base'
    <3>1. b \in Nat /\ b >= 1 /\ b + (l - 1) = B
      BY <1>6, <1>16
    <3>2. b + ((l + 1) - 1) = B + 1
      BY <1>2, <3>1
    <3>3. thread'.buf[1] = b /\ Len(thread'.buf) = l + 1
      BY <1>16, <2>3, <2>5
    <3> QED BY <1>2, <1>4, <3>1, <3>2, <3>3
  <2>9. InOrder'
    <3>1. \A i \in 1..Len(arrived') : arrived'[i].input < thread'.buf[1]
      BY <1>1, <1>6, <2>5
    <3> QED BY <1>8, <1>9, <2>2, <2>3, <2>6, <2>7, <2>8, <3>1 DEF InOrder
  <2>10. NoneLost'
    <3> SUFFICES ASSUME AllLive', NEW n \in 1..Len(typed) PROVE Accounted(n)'
      BY <1>1, <1>11 DEF NoneLost
    <3>1. Accounted(n)
      BY <1>11
    <3>2. Accounted(n)' <=>
          \/ n > Base'
          \/ \E i \in 1..Len(thread'.buf) : thread'.buf[i] = n
          \/ \E i \in 1..Len(arrived) : arrived[i].input = n
          \/ n > 1 /\ Key(n - 1) # Key(n)
      BY <1>1 DEF Accounted, Key
    <3>3. CASE n = B + 1
      <4>1. l + 1 \in 1..Len(thread'.buf) /\ thread'.buf[l + 1] = n
        BY <1>2, <1>3, <2>3, <3>3
      <4> QED BY <3>2, <4>1
    <3>4. CASE n # B + 1
      <4>1. n > B => n > Base'
        BY <1>2, <1>4, <3>4
      <4>2. (\E i \in 1..l : buf[i] = n) => \E i \in 1..Len(thread'.buf) : thread'.buf[i] = n
        BY <1>2, <2>3
      <4> QED BY <1>12, <3>1, <3>2, <4>1, <4>2
    <3> QED BY <3>3, <3>4
  <2>11. InputTypes'
    BY <1>0, <1>1, <1>3, <2>2 DEF InputTypes
  <2> QED BY <1>5, <1>10, <2>9, <2>10, <2>11 DEF InputInv
<1>14. CASE ~Joins(h)
  <2>1. thread' = [thread EXCEPT !.pc = "write"]
    BY <1>1, <1>14
  <2>2. /\ thread'.pc = "write" /\ thread'.buf = buf /\ Len(thread'.buf) = l
        /\ thread' \in [pc : {"recv", "coalesce", "write"}, buf : Seq(Nat)]
    BY <1>15, <2>1 DEF buf, l
  <2>3. Key(h) # Key(buf[1])
    BY <1>14 DEF Joins, buf
  <2>4. InOrder'
    <3>1. \A i \in 1..l : Key(thread.buf[i])' = Key(thread.buf[1])'
      <4> SUFFICES ASSUME NEW i \in 1..l PROVE Key(thread.buf[i])' = Key(thread.buf[1])'
        OBVIOUS
      <4>1. /\ Key(thread.buf[i])' = <<typed[thread'.buf[i]].fd, typed[thread'.buf[i]].session>>
            /\ Key(thread.buf[1])' = <<typed[thread'.buf[1]].fd, typed[thread'.buf[1]].session>>
        BY <1>1 DEF Key
      <4> QED BY <1>6, <2>2, <4>1 DEF Key
    <3>2. \A i \in 1..Len(arrived') : arrived'[i].input < thread'.buf[1]
      BY <1>1, <1>6, <2>2
    <3>3. thread'.buf[1] >= 1 /\ thread'.buf[1] + (Len(thread'.buf) - 1) <= Base'
      BY <1>2, <1>4, <1>6, <2>2
    <3>4. thread'.buf # << >> /\ \A i \in 1..Len(thread'.buf) : thread'.buf[i] = thread'.buf[1] + (i - 1)
      BY <1>6, <2>2
    <3> QED BY <1>8, <1>9, <2>2, <3>1, <3>2, <3>3, <3>4 DEF InOrder
  <2>5. NoneLost'
    <3> SUFFICES ASSUME AllLive', NEW n \in 1..Len(typed) PROVE Accounted(n)'
      BY <1>1, <1>11 DEF NoneLost
    <3>1. Accounted(n)
      BY <1>11
    <3>2. Accounted(n)' <=>
          \/ n > Base'
          \/ \E i \in 1..l : buf[i] = n
          \/ \E i \in 1..Len(arrived) : arrived[i].input = n
          \/ n > 1 /\ Key(n - 1) # Key(n)
      BY <1>1, <2>2 DEF Accounted, Key
    <3>3. CASE n = B + 1
      <4>1. n = h /\ n - 1 = B /\ n > 1 /\ l \in 1..l /\ buf[l] = B
        BY <1>2, <1>3, <1>6, <3>3
      <4>2. Key(n - 1) = Key(buf[1])
        BY <1>6, <4>1
      <4> QED BY <2>3, <3>2, <4>1, <4>2
    <3>4. CASE n # B + 1
      <4>1. n > B => n > Base'
        BY <1>2, <1>4, <3>4
      <4> QED BY <1>12, <3>1, <3>2, <4>1
    <3> QED BY <3>3, <3>4
  <2>6. InputTypes'
    BY <1>0, <1>1, <1>3, <2>2 DEF InputTypes
  <2> QED BY <1>5, <1>10, <2>4, <2>5, <2>6 DEF InputInv
<1> QED BY <1>13, <1>14

\* An element of a concatenation is one of the first part or of the second.
LEMMA ConcatIs ==
    ASSUME NEW S, NEW p \in Seq(S), NEW q \in Seq(S)
    PROVE  /\ p \o q \in Seq(S) /\ Len(p \o q) = Len(p) + Len(q)
           /\ \A i \in 1..Len(p) : (p \o q)[i] = p[i]
           /\ \A j \in 1..Len(q) : (p \o q)[Len(p) + j] = q[j]
           /\ \A i \in 1..Len(p \o q) : i \in 1..Len(p) \/ \E j \in 1..Len(q) : i = Len(p) + j
<1>1. Len(p) \in Nat /\ Len(q) \in Nat /\ p \o q \in Seq(S) /\ Len(p \o q) = Len(p) + Len(q)
  OBVIOUS
<1>2. \A i \in 1..Len(p) : (p \o q)[i] = p[i]
  OBVIOUS
<1>3. \A j \in 1..Len(q) : (p \o q)[Len(p) + j] = q[j]
  <2> SUFFICES ASSUME NEW j \in 1..Len(q) PROVE (p \o q)[Len(p) + j] = q[j]
    OBVIOUS
  <2>1. Len(p) + j \in 1..(Len(p) + Len(q)) /\ Len(p) + j > Len(p) /\ (Len(p) + j) - Len(p) = j
    BY <1>1
  <2> QED BY <2>1
<1>4. \A i \in 1..Len(p \o q) : i \in 1..Len(p) \/ \E j \in 1..Len(q) : i = Len(p) + j
  <2> SUFFICES ASSUME NEW i \in 1..Len(p \o q), i \notin 1..Len(p) PROVE \E j \in 1..Len(q) : i = Len(p) + j
    OBVIOUS
  <2>1. i - Len(p) \in 1..Len(q) /\ i = Len(p) + (i - Len(p))
    BY <1>1
  <2> QED BY <2>1
<1> QED BY <1>1, <1>2, <1>3, <1>4

\* The thread writes the batch: to the machine it was typed for, as long as that
\* one lives.
LEMMA BatchWritten ==
    ASSUME InputInv, ThreadWrites
    PROVE  InputInv'
<1> DEFINE buf == thread.buf
           l == Len(thread.buf)
           b == thread.buf[1]
           first == typed[thread.buf[1]]
           file == IF current.fd = first.fd THEN current.file ELSE files[first.fd]
           frame == [i \in DOMAIN buf |-> [input |-> buf[i], machine |-> file, session |-> first.session]]
           A == Len(arrived)
<1>0. InputTypes /\ MachinesOpen /\ NumbersLead /\ InOrder /\ ArrivedRight /\ NoneLost
  BY DEF InputInv
<1>1. /\ thread.pc = "write" /\ current' = [fd |-> first.fd, file |-> file]
      /\ arrived' = (IF file \in Live THEN arrived \o frame ELSE arrived)
      /\ thread' = [pc |-> "recv", buf |-> << >>]
      /\ vms' = vms /\ booted' = booted /\ files' = files /\ typed' = typed /\ channel' = channel
  BY DEF ThreadWrites
<1>2. /\ typed \in Seq(Input) /\ arrived \in Seq(Arrival) /\ buf \in Seq(Nat) /\ A \in Nat /\ l \in Nat
      /\ booted \in Nat /\ files \in [Descriptors -> Nat] /\ current \in [fd : Nat, file : Nat]
  BY <1>0 DEF InputTypes
<1>3. /\ Base \in Nat /\ Base <= Len(typed) /\ Len(typed) \in Nat
      /\ \A i \in 1..A : arrived[i].input \in 1..Len(typed)
      /\ \A i \in 1..l : buf[i] \in 1..Base /\ buf[i] \in 1..Len(typed)
      /\ l >= 1 /\ b \in 1..Len(typed) /\ b \in Nat
  <2>1. buf # << >>
    BY <1>0, <1>1 DEF InOrder
  <2>2. 1 \in 1..l
    BY <1>0, <2>1, NumbersTyped
  <2>3. b \in 1..Len(typed) /\ l >= 1 /\ b \in Nat
    BY <1>0, <1>2, <2>2, NumbersTyped
  <2> QED BY <1>0, <2>3, NumbersTyped
<1>4. /\ \A i \in 1..l : buf[i] = b + (i - 1) /\ Key(buf[i]) = Key(b)
      /\ \A i \in 1..A : arrived[i].input < b
      /\ \A i \in 1..A : arrived[i].input \in 1..Base
      /\ \A i, j \in 1..A : i < j => arrived[i].input < arrived[j].input
  <2>1. buf # << >>
    BY <1>0, <1>1 DEF InOrder
  <2> QED BY <1>0, <2>1 DEF InOrder
<1>5. /\ first \in Input /\ first.fd \in Descriptors /\ first.session \in InputSessions
      /\ first.machine \in 1..booted /\ (first.machine \in Live => files[first.fd] = first.machine)
  <2>1. first \in Input
    BY <1>2, <1>3
  <2> QED BY <1>0, <1>3, <2>1 DEF NumbersLead, Input
<1>6. \A d \in Descriptors : d \in Nat \ {0}
  BY InputAssumption DEF Descriptors
<1>7. file \in Nat /\ file <= booted /\ (file \in Live => files[first.fd] = file)
  <2>1. /\ current.file \in Nat /\ current.file <= booted
        /\ current.file \in Live => files[current.fd] = current.file
    BY <1>0, <1>2 DEF NumbersLead
  <2>2. files[first.fd] \in Nat /\ files[first.fd] <= booted
    BY <1>0, <1>2, <1>5 DEF MachinesOpen
  <2> QED BY <2>1, <2>2
<1>8. AllLive => file \in Live
  <2> SUFFICES ASSUME AllLive PROVE file \in Live
    OBVIOUS
  <2>1. CASE current.fd = first.fd
    <3>1. current.fd # 0
      BY <1>5, <1>6, <2>1
    <3>2. current.file \in 1..booted
      BY <1>0, <3>1 DEF NoneLost
    <3> QED BY <2>1, <3>2 DEF AllLive
  <2>2. CASE current.fd # first.fd
    <3>1. first.machine \in Live
      BY <1>5 DEF AllLive
    <3> QED BY <1>5, <2>2, <3>1
  <2> QED BY <2>1, <2>2
<1>9. \A i \in 1..l : /\ typed[buf[i]].session = first.session
                      /\ typed[buf[i]].machine \in Live /\ file \in Live => typed[buf[i]].machine = file
  <2> SUFFICES ASSUME NEW i \in 1..l
               PROVE  /\ typed[buf[i]].session = first.session
                      /\ typed[buf[i]].machine \in Live /\ file \in Live => typed[buf[i]].machine = file
    OBVIOUS
  <2>1. Key(buf[i]) = Key(b)
    BY <1>4
  <2>2. typed[buf[i]].session = first.session /\ typed[buf[i]].fd = first.fd
    BY <2>1 DEF Key
  <2>3. buf[i] \in 1..Len(typed)
    BY <1>3
  <2>4. typed[buf[i]].machine \in Live => files[typed[buf[i]].fd] = typed[buf[i]].machine
    BY <1>0, <2>3 DEF NumbersLead
  <2> HIDE DEF file, first
  <2> QED BY <1>7, <2>2, <2>4
<1>10. DOMAIN buf = 1..l
  BY <1>2
<1> HIDE DEF file, first, b, buf, l
<1>11. /\ Len(frame) = l /\ frame \in Seq(Arrival)
       /\ \A i \in 1..l : /\ frame[i].input = buf[i] /\ frame[i].machine = file
                          /\ frame[i].session = first.session
  <2>1. frame = [i \in 1..l |-> [input |-> buf[i], machine |-> file, session |-> first.session]]
    BY <1>10
  <2>2. \A i \in 1..l : buf[i] \in Nat
    BY <1>3
  <2>3. \A i \in 1..l : [input |-> buf[i], machine |-> file, session |-> first.session] \in Arrival
    BY <1>5, <1>7, <2>2 DEF Arrival
  <2>4. frame \in Seq(Arrival) /\ Len(frame) = l
    BY <1>2, <2>1, <2>3
  <2> QED BY <2>1, <2>4
<1> HIDE DEF frame, A
<1>12. arrived' \in Seq(Arrival)
  <2>1. arrived \o frame \in Seq(Arrival)
    BY <1>2, <1>11
  <2> QED BY <1>1, <1>2, <2>1
<1>13. /\ A <= Len(arrived') /\ Len(arrived') \in Nat
       /\ \A i \in 1..A : arrived'[i] = arrived[i]
       /\ \A i \in 1..Len(arrived') : i \in 1..A \/ \E j \in 1..l : i = A + j
       /\ file \in Live => \A j \in 1..l : A + j \in 1..Len(arrived')
       /\ \A j \in 1..l : A + j \in 1..Len(arrived') =>
             /\ file \in Live /\ arrived'[A + j].input = buf[j]
             /\ arrived'[A + j].machine = file /\ arrived'[A + j].session = first.session
  <2>1. CASE file \in Live
    <3> DEFINE both == arrived \o frame
    <3>1. arrived' = both
      BY <1>1, <2>1
    <3>2. /\ Len(both) = A + l
          /\ \A i \in 1..A : both[i] = arrived[i]
          /\ \A j \in 1..l : both[A + j] = frame[j]
          /\ \A i \in 1..Len(both) : i \in 1..A \/ \E j \in 1..l : i = A + j
      <4>1. arrived \in Seq(Arrival) /\ frame \in Seq(Arrival) /\ Len(frame) = l /\ Len(arrived) = A
        BY <1>2, <1>11 DEF A
      <4>2. /\ Len(arrived \o frame) = Len(arrived) + Len(frame)
            /\ \A i \in 1..Len(arrived) : (arrived \o frame)[i] = arrived[i]
            /\ \A j \in 1..Len(frame) : (arrived \o frame)[Len(arrived) + j] = frame[j]
            /\ \A i \in 1..Len(arrived \o frame) :
                  i \in 1..Len(arrived) \/ \E j \in 1..Len(frame) : i = Len(arrived) + j
        <5>1. \A q \in Seq(Arrival), r \in Seq(Arrival) :
                /\ Len(q \o r) = Len(q) + Len(r)
                /\ \A i \in 1..Len(q) : (q \o r)[i] = q[i]
                /\ \A j \in 1..Len(r) : (q \o r)[Len(q) + j] = r[j]
                /\ \A i \in 1..Len(q \o r) : i \in 1..Len(q) \/ \E j \in 1..Len(r) : i = Len(q) + j
          BY ConcatIs
        <5> QED BY <4>1, <5>1, Zenon
      <4> QED BY <4>1, <4>2
    <3> HIDE DEF both
    <3>3. Len(both) \in Nat /\ A <= Len(both) /\ \A j \in 1..l : A + j \in 1..Len(both)
      BY <1>2, <3>2
    <3> QED BY <1>11, <2>1, <3>1, <3>2, <3>3
  <2>2. CASE file \notin Live
    <3>1. arrived' = arrived /\ Len(arrived') = A
      BY <1>1, <2>2 DEF A
    <3>2. \A j \in 1..l : A + j \notin 1..A
      BY <1>2
    <3> QED BY <1>2, <2>2, <3>1, <3>2
  <2> QED BY <2>1, <2>2
<1>14. MachinesOpen' /\ Live' = Live /\ (AllLive' <=> AllLive) /\ Base' = Base /\ \A n : Key(n)' = Key(n)
  BY <1>0, <1>1, MachinesStay DEF Base, Key
<1>15. thread'.pc = "recv" /\ thread'.buf = << >> /\ Len(thread'.buf) = 0
       /\ thread' \in [pc : {"recv", "coalesce", "write"}, buf : Seq(Nat)]
  BY <1>1
<1>16. current'.fd = first.fd /\ current'.file = file /\ current' \in [fd : Nat, file : Nat]
  BY <1>1, <1>5, <1>6, <1>7
<1>17. InputTypes'
  BY <1>0, <1>1, <1>12, <1>15, <1>16 DEF InputTypes
<1>18. NumbersLead'
  BY <1>0, <1>1, <1>5, <1>7, <1>14, <1>16 DEF NumbersLead
<1>19. \A i \in 1..Len(arrived') : arrived'[i].input \in 1..Base
  <2> SUFFICES ASSUME NEW i \in 1..Len(arrived') PROVE arrived'[i].input \in 1..Base
    OBVIOUS
  <2>1. CASE i \in 1..A
    BY <1>4, <1>13, <2>1
  <2>2. CASE i \notin 1..A
    <3>1. PICK j \in 1..l : i = A + j
      BY <1>13, <2>2
    <3> QED BY <1>3, <1>13, <3>1
  <2> QED BY <2>1, <2>2
<1>20. \A i, j \in 1..Len(arrived') : i < j => arrived'[i].input < arrived'[j].input
  <2> SUFFICES ASSUME NEW i \in 1..Len(arrived'), NEW j \in 1..Len(arrived'), i < j
               PROVE  arrived'[i].input < arrived'[j].input
    OBVIOUS
  <2>1. CASE j \in 1..A
    <3>1. i \in 1..A
      BY <1>2, <2>1
    <3> QED BY <1>4, <1>13, <2>1, <3>1
  <2>2. CASE j \notin 1..A
    <3>1. PICK y \in 1..l : j = A + y
      BY <1>13, <2>2
    <3>2. arrived'[j].input = b + (y - 1)
      BY <1>4, <1>13, <3>1
    <3>3. CASE i \in 1..A
      <4>1. arrived'[i].input < b /\ arrived'[i].input \in 1..Base
        BY <1>4, <1>13, <1>19, <3>3
      <4> QED BY <1>2, <1>3, <3>2, <4>1
    <3>4. CASE i \notin 1..A
      <4>1. PICK x \in 1..l : i = A + x
        BY <1>13, <3>4
      <4>2. arrived'[i].input = b + (x - 1)
        BY <1>4, <1>13, <4>1
      <4>3. x < y
        BY <1>2, <3>1, <4>1
      <4> QED BY <1>2, <1>3, <3>2, <4>2, <4>3
    <3> QED BY <3>3, <3>4
  <2> QED BY <2>1, <2>2
<1>21. InOrder'
  <2>1. Len(channel') <= Len(typed') /\ \A i \in 1..Len(channel') : channel'[i] = Base' + i
    BY <1>0, <1>1, <1>14 DEF InOrder
  <2> QED BY <1>14, <1>15, <1>19, <1>20, <2>1 DEF InOrder
<1>22. ArrivedRight'
  <2> SUFFICES ASSUME NEW i \in 1..Len(arrived')
               PROVE  /\ arrived'[i].session = typed[arrived'[i].input].session
                      /\ \/ arrived'[i].machine = typed[arrived'[i].input].machine
                         \/ typed[arrived'[i].input].machine \notin Live
    BY <1>1, <1>14 DEF ArrivedRight
  <2>1. CASE i \in 1..A
    BY <1>0, <1>13, <2>1 DEF ArrivedRight, A
  <2>2. CASE i \notin 1..A
    <3>1. PICK j \in 1..l : i = A + j
      BY <1>13, <2>2
    <3>2. /\ file \in Live /\ arrived'[i].input = buf[j]
          /\ arrived'[i].machine = file /\ arrived'[i].session = first.session
      BY <1>13, <3>1
    <3> QED BY <1>9, <3>2
  <2> QED BY <2>1, <2>2
<1>23. NoneLost'
  <2> SUFFICES ASSUME AllLive
               PROVE  /\ current'.fd # 0 => current'.file \in 1..booted
                      /\ \A n \in 1..Len(typed) : Accounted(n)'
    BY <1>1, <1>14 DEF NoneLost
  <2>1. file \in Live
    BY <1>8
  <2>2. current'.file \in 1..booted
    <3>1. file # 0
      BY <2>1 DEF Live
    <3> QED BY <1>2, <1>7, <1>16, <3>1
  <2>3. ASSUME NEW n \in 1..Len(typed) PROVE Accounted(n)'
    <3>1. \/ n > Base
          \/ \E i \in 1..l : buf[i] = n
          \/ \E i \in 1..A : arrived[i].input = n
          \/ n > 1 /\ Key(n - 1) # Key(n)
      BY <1>0 DEF NoneLost, Accounted, l, buf, A
    <3>2. (\E i \in 1..Len(arrived') : arrived'[i].input = n) => Accounted(n)'
      BY DEF Accounted
    <3>3. CASE \E i \in 1..l : buf[i] = n
      <4>1. PICK i \in 1..l : buf[i] = n
        BY <3>3
      <4>2. A + i \in 1..Len(arrived') /\ arrived'[A + i].input = n
        BY <1>13, <2>1, <4>1
      <4> QED BY <3>2, <4>2
    <3>4. CASE \E i \in 1..A : arrived[i].input = n
      <4>1. PICK i \in 1..A : arrived[i].input = n
        BY <3>4
      <4>2. i \in 1..Len(arrived') /\ arrived'[i].input = n
        BY <1>2, <1>13, <4>1
      <4> QED BY <3>2, <4>2
    <3>5. CASE n > Base \/ (n > 1 /\ Key(n - 1) # Key(n))
      <4>1. n > Base' \/ (n > 1 /\ Key(n - 1)' # Key(n)')
        BY <1>1, <1>14, <3>5 DEF Key
      <4> QED BY <4>1 DEF Accounted
    <3> QED BY <3>1, <3>3, <3>4, <3>5
  <2> QED BY <2>2, <2>3
<1> QED BY <1>14, <1>17, <1>18, <1>21, <1>22, <1>23 DEF InputInv

\* No machine, and nothing typed.
LEMMA InputStarts == InputInit => InputInv
<1> SUFFICES ASSUME InputInit PROVE InputInv
  OBVIOUS
<1> USE InputAssumption
<1>1. /\ vms = [v \in InputVenvs |-> NoVm] /\ booted = 0 /\ files = [d \in Descriptors |-> 0]
      /\ typed = << >> /\ channel = << >> /\ arrived = << >>
      /\ thread = [pc |-> "recv", buf |-> << >>] /\ current = [fd |-> 0, file |-> 0]
  BY DEF InputInit
<1>2. InputTypes
  BY <1>1 DEF InputTypes, Vm, NoVm
<1>3. MachinesOpen
  <2>1. OpenFds = {} /\ Unattached = {}
    BY <1>1 DEF OpenFds, Unattached
  <2>2. IsFiniteSet({}) /\ Cardinality({}) = 0
    BY FS_EmptySet
  <2>3. IsFiniteSet(Unattached) /\ Cardinality(OpenFds) + Cardinality(Unattached) <= 2 * booted
    BY <1>1, <2>1, <2>2
  <2> QED BY <1>1, <2>3 DEF MachinesOpen
<1>4. Live = {}
  BY <1>1 DEF Live, NoVm
<1>5. NumbersLead /\ ArrivedRight
  BY <1>1, <1>4 DEF NumbersLead, ArrivedRight
<1>6. InOrder
  BY <1>1 DEF InOrder, Base
<1>7. NoneLost
  BY <1>1 DEF NoneLost
<1> QED BY <1>2, <1>3, <1>5, <1>6, <1>7 DEF InputInv

\* What the run checks follows.
LEMMA DeliveredFollows == InputInv => InputDelivered
<1> SUFFICES ASSUME InputInv PROVE InputDelivered
  OBVIOUS
<1>0. InputTypes /\ MachinesOpen /\ NumbersLead /\ InOrder /\ ArrivedRight /\ NoneLost
  BY DEF InputInv
<1>1. /\ booted \in Nat /\ typed \in Seq(Input) /\ channel \in Seq(Nat) /\ arrived \in Seq(Arrival)
      /\ thread.buf \in Seq(Nat) /\ vms \in [InputVenvs -> Vm]
  BY <1>0 DEF InputTypes
<1>2. DOMAIN arrived = 1..Len(arrived) /\ DOMAIN typed = 1..Len(typed)
      /\ DOMAIN channel = 1..Len(channel) /\ DOMAIN thread.buf = 1..Len(thread.buf)
  BY <1>1
<1>3. \A i, j \in DOMAIN arrived : i < j => arrived[i].input < arrived[j].input
  BY <1>0, <1>2 DEF InOrder
<1>4. \A i \in DOMAIN arrived :
          /\ arrived[i].session = typed[arrived[i].input].session
          /\ arrived[i].machine = typed[arrived[i].input].machine \/ typed[arrived[i].input].machine \notin Live
  BY <1>0, <1>2 DEF ArrivedRight
<1>5. ASSUME booted = Cardinality(Live) PROVE AllLive
  <2>1. Live \in SUBSET (1..booted)
    <3> SUFFICES ASSUME NEW m \in Live PROVE m \in 1..booted
      OBVIOUS
    <3>1. PICK v \in InputVenvs : vms[v].machine = m /\ m # 0
      BY LiveIs
    <3>2. vms[v] # NoVm
      BY <3>1 DEF NoVm
    <3> QED BY <1>0, <3>1, <3>2 DEF MachinesOpen
  <2>2. IsFiniteSet(1..booted) /\ Cardinality(1..booted) = booted
    BY <1>1, FS_Interval
  <2>3. Live = 1..booted
    BY <1>5, <2>1, <2>2, FS_Subset
  <2> QED BY <2>3 DEF AllLive
<1>6. ASSUME booted = Cardinality(Live), NEW n \in DOMAIN typed
      PROVE  \/ n \in Range(channel) \cup Range(thread.buf)
             \/ \E i \in DOMAIN arrived : arrived[i].input = n
             \/ n > 1 /\ Key(n - 1) # Key(n)
  <2>1. Accounted(n)
    BY <1>0, <1>2, <1>5, <1>6 DEF NoneLost
  <2>2. CASE n > Base
    <3>1. Base \in Nat /\ Len(typed) \in Nat /\ Len(channel) \in Nat /\ Base = Len(typed) - Len(channel)
          /\ n \in 1..Len(typed)
      BY <1>0, <1>2, NumbersTyped DEF Base
    <3>2. n - Base \in 1..Len(channel) /\ Base + (n - Base) = n
      BY <2>2, <3>1
    <3>3. channel[n - Base] = n
      BY <1>0, <3>2 DEF InOrder
    <3>4. n \in Range(channel)
      BY <1>2, <3>2, <3>3 DEF Range
    <3> QED BY <3>4
  <2>3. CASE \E i \in 1..Len(thread.buf) : thread.buf[i] = n
    <3>1. n \in Range(thread.buf)
      BY <1>2, <2>3 DEF Range
    <3> QED BY <3>1
  <2> QED BY <1>2, <2>1, <2>2, <2>3 DEF Accounted
<1> QED BY <1>3, <1>4, <1>6 DEF InputDelivered

\* For any number of environments, shells, inputs, boots and any size of a batch,
\* what a shell gets was typed for it, once and in order, and for its machine
\* unless that stopped; and until a machine stops an input is lost only directly
\* after one with another key.
THEOREM InputArrives == InputSpec => []InputDelivered
<1>1. InputInit => InputInv
  BY InputStarts
<1>2. InputInv /\ [InputNext]_inputVars => InputInv'
  <2> SUFFICES ASSUME InputInv, [InputNext]_inputVars PROVE InputInv'
    OBVIOUS
  <2>0. InputTypes /\ MachinesOpen
    BY DEF InputInv
  <2>1. ASSUME NEW v \in InputVenvs, MachineBoots(v) PROVE InputInv'
    BY <2>0, <2>1, BootsOpen, MachineStepKeeps
  <2>2. ASSUME NEW v \in InputVenvs, TerminalAttaches(v) PROVE InputInv'
    BY <2>0, <2>2, AttachOpens, MachineStepKeeps
  <2>3. ASSUME NEW v \in InputVenvs, MachineStops(v) PROVE InputInv'
    BY <2>0, <2>3, StopCloses, MachineStepKeeps
  <2>4. ASSUME NEW v \in InputVenvs, NEW s \in InputSessions, SerialInput(v, s) PROVE InputInv'
    BY <2>4, InputTyped
  <2>5. CASE ThreadReceives
    BY <2>5, BatchStarted
  <2>6. CASE Coalesce
    BY <2>6, BatchGrows
  <2>7. CASE BatchReady
    BY <2>7, BatchClosed
  <2>8. CASE ThreadWrites
    BY <2>8, BatchWritten
  <2>9. CASE UNCHANGED inputVars
    <3>1. /\ vms' = vms /\ booted' = booted /\ files' = files /\ typed' = typed
          /\ channel' = channel /\ thread' = thread /\ current' = current /\ arrived' = arrived
      BY <2>9 DEF inputVars
    <3>2. MachinesOpen' /\ Live' = Live /\ (AllLive' <=> AllLive)
      BY <2>0, <3>1, MachinesStay
    <3>3. MachineStep
      BY <2>0, <3>1, <3>2 DEF MachineStep, InputTypes
    <3>4. vms' \in [InputVenvs -> Vm] /\ files' \in [Descriptors -> Nat]
      BY <2>0, <3>1 DEF InputTypes
    <3> QED BY <3>2, <3>3, <3>4, MachineStepKeeps
  <2> QED BY <2>1, <2>2, <2>3, <2>4, <2>5, <2>6, <2>7, <2>8, <2>9 DEF InputNext
<1>3. InputInv => InputDelivered
  BY DeliveredFollows
<1> QED BY <1>1, <1>2, <1>3, PTL DEF InputSpec

==============================================================================
