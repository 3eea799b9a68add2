---------------------------- MODULE Channels_proof ----------------------------
(***************************************************************************)
(* Proofs about the two protocols between guest and host: BootHandshake    *)
(* and Mcp, each for any values of its constants.  They share no variable. *)
(***************************************************************************)
EXTENDS BootHandshake, Mcp, NaturalsInduction, WellFoundedInduction, SequenceTheorems, TLAPS

------------------------------------------------------------------------------
(* The boot handshake.                                                     *)

BootTypes == {"bootconfig", "setenv", "filewrite", "bootconfigdone"}
Late == {"bridge", "deaf", "dead"}

\* The connections carry messages; there is one to send while the host sends the
\* configuration.
BootShape ==
    /\ config \in Configs
    /\ toHost \in Seq({"ready", "bootready", "event"})
    /\ toGuest \in Seq([t : BootTypes \cup {"resize"}, size : Nat])
    /\ outbox \in Seq([t : BootTypes, size : Nat])
    /\ host = "config" => outbox # << >>

\* What the host has done tells how far the agent can be.
GuestStage ==
    /\ host \in {"accept", "ready", "returned"} =>
          /\ toGuest = << >> /\ guest \in {"terminal", "control", "ready", "bootconfig", "dead"}
          /\ \A i \in 1..Len(toHost) : toHost[i] = "ready"
    /\ \A i \in 1..Len(toHost) : toHost[i] # "ready" => guest \in Late
    /\ \A i \in 1..Len(toGuest) : toGuest[i].t = "resize" => guest \in Late
    /\ link /\ host \in {"running", "anyway", "serving"} => guest \in Late
    /\ hasFds => host = "serving"

\* The connection broke before the host read Ready: nothing but that may still come.
Missed == hostState = "VsockConnected" /\ ~link /\ \A i \in 1..Len(toHost) : toHost[i] = "ready"

\* The state machine follows the task while the machine has its instance.
HostStage ==
    instance =>
        /\ host = "accept" => hostState = "Booting"
        /\ host = "ready" => hostState = "VsockConnected"
        /\ host \in {"config", "bootready", "running", "anyway"} => hostState = "Handshaking" \/ Missed
        /\ host = "serving" => hostState = "Running" \/ Missed

BootInv == BootShape /\ GuestStage /\ HostStage /\ FALSE \notin verdicts

\* The files taken are defined by their recursion: the function exists for 0 files,
\* and a number without one would have a predecessor without one.
LEMMA KeptUnfolds ==
    ASSUME NEW files \in Seq(Nat)
    PROVE  Kept(files) = [i \in 0..Len(files) |-> IF i = 0 THEN [sizes |-> << >>, bytes |-> 0]
                                                  ELSE Keeps(Kept(files)[i - 1], files[i])]
<1> DEFINE Body(f, i) == IF i = 0 THEN [sizes |-> << >>, bytes |-> 0] ELSE Keeps(f[i - 1], files[i])
           Unfolds(f, n) == f = [i \in 0..n |-> Body(f, i)]
           R == {ss \in Nat \X Nat : ss[1] < ss[2]}
           Bad == {n \in Nat : \A f : ~Unfolds(f, n)}
<1>1. Bad = {}
  <2> SUFFICES ASSUME Bad # {} PROVE FALSE
    OBVIOUS
  <2>1. IsWellFoundedOn(R, Nat)
    BY NatLessThanWellFounded, Zenon DEF OpToRel
  <2>2. PICK n \in Bad : \A m \in Bad : ~(<<m, n>> \in R)
    BY <2>1, WFMin
  <2>3. CASE n = 0
    <3> DEFINE f == [i \in 0..0 |-> [sizes |-> << >>, bytes |-> 0]]
    <3>1. Unfolds(f, 0)
      OBVIOUS
    <3> QED BY <2>2, <2>3, <3>1
  <2>4. CASE n # 0
    <3>0. n \in Nat /\ n - 1 \in Nat /\ <<n - 1, n>> \in R
      BY <2>4
    <3>1. n - 1 \notin Bad
      BY <2>2, <3>0, Zenon
    <3>2. PICK f : Unfolds(f, n - 1)
      BY <3>0, <3>1
    <3> DEFINE g == [i \in 0..n |-> IF i = n THEN Body(f, n) ELSE f[i]]
    <3>3. ASSUME NEW i \in 0..n PROVE g[i] = Body(g, i)
      <4>1. CASE i = 0
        BY <2>4, <3>2, <4>1
      <4>2. CASE i # 0
        <5>1. i - 1 \in 0..(n - 1) /\ g[i - 1] = f[i - 1]
          BY <2>2, <4>2
        <5> QED BY <2>2, <3>2, <4>2, <5>1
      <4> QED BY <4>1, <4>2
    <3>4. Unfolds(g, n)
      BY <3>3
    <3> QED BY <2>2, <3>4
  <2> QED BY <2>3, <2>4
<1>2. \E f : Unfolds(f, Len(files))
  BY <1>1
<1>3. Kept(files) = CHOOSE f : Unfolds(f, Len(files))
  BY Zenon DEF Kept
<1>4. Unfolds(CHOOSE f : Unfolds(f, Len(files)), Len(files))
  BY <1>2, Zenon
<1>5. Unfolds(Kept(files), Len(files))
  BY <1>3, <1>4, Zenon
<1> QED BY <1>5, Zenon

\* What is taken is a sequence of sizes.
LEMMA HostFilesType ==
    ASSUME NEW files \in Seq(Nat)
    PROVE  HostFiles(files) \in Seq(Nat)
<1> DEFINE R == {ss \in Nat \X Nat : ss[1] < ss[2]}
           Good(i) == Kept(files)[i].sizes \in Seq(Nat)
           Bad == {i \in Nat : i <= Len(files) /\ ~Good(i)}
<1>1. Kept(files)[0] = [sizes |-> << >>, bytes |-> 0]
  BY KeptUnfolds
<1>2. \A i \in 1..Len(files) : Kept(files)[i] = Keeps(Kept(files)[i - 1], files[i])
  BY KeptUnfolds
<1>3. Good(0)
  BY <1>1
<1>4. Bad = {}
  <2> SUFFICES ASSUME Bad # {} PROVE FALSE
    OBVIOUS
  <2>1. IsWellFoundedOn(R, Nat)
    BY NatLessThanWellFounded, Zenon DEF OpToRel
  <2>2. PICK n \in Bad : \A m \in Bad : ~(<<m, n>> \in R)
    BY <2>1, WFMin
  <2>3. n # 0
    BY <1>3, <2>2
  <2>4. n \in Nat /\ n - 1 \in Nat /\ n - 1 <= Len(files) /\ n \in 1..Len(files) /\ <<n - 1, n>> \in R
    BY <2>2, <2>3
  <2>5. n - 1 \notin Bad
    BY <2>2, <2>4, Zenon
  <2>6. Good(n - 1) /\ files[n] \in Nat
    BY <2>4, <2>5
  <2>7. PICK k : k = Kept(files)[n - 1]
    OBVIOUS
  <2>8. k.sizes \in Seq(Nat) /\ Append(k.sizes, files[n]) \in Seq(Nat)
    BY <2>6, <2>7
  <2>9. Keeps(k, files[n]).sizes \in Seq(Nat)
    BY <2>8 DEF Keeps
  <2>10. Good(n)
    BY <1>2, <2>4, <2>7, <2>9
  <2> QED BY <2>2, <2>10
<1> QED BY <1>4 DEF HostFiles

\* The boot configuration is a sequence of boot messages, and not empty.
LEMMA BootMessagesType ==
    ASSUME NEW c \in Configs
    PROVE  BootMessages(c) \in Seq([t : BootTypes, size : Nat]) /\ BootMessages(c) # << >>
<1> DEFINE M == [t : BootTypes, size : Nat]
           files == HostFiles(c.files)
           env == Least(c.env, MaxBootEnvVars)
           parts == <<[i \in 1..env |-> Msg("setenv")], [i \in 1..Len(files) |-> FileWrite(files[i])],
                      IF c.setup THEN <<FileWrite(1), FileWrite(1)>> ELSE << >> >>
<1>1. c.env \in Nat /\ c.files \in Seq(Nat) /\ MaxBootEnvVars \in Nat
  BY HandshakeAssumption
<1>2. env \in Nat /\ files \in Seq(Nat)
  BY <1>1, HostFilesType DEF Least
<1> HIDE DEF env, files
<1>3. Msg("setenv") \in M /\ Msg("bootconfig") \in M /\ Msg("bootconfigdone") \in M
  BY DEF Msg, BootTypes
<1>4. \A size \in Nat : FileWrite(size) \in M
  BY DEF FileWrite, BootTypes
<1> HIDE DEF M
<1>5. parts[1] \in Seq(M)
  BY <1>2, <1>3
<1>6. parts[2] \in Seq(M)
  <2>1. Len(files) \in Nat /\ \A i \in 1..Len(files) : files[i] \in Nat
    BY <1>2
  <2>2. \A i \in 1..Len(files) : FileWrite(files[i]) \in M
    BY <1>4, <2>1
  <2> QED BY <2>1, <2>2
<1>7. parts[3] \in Seq(M)
  BY <1>4
<1>8. <<Msg("bootconfig")>> \in Seq(M) /\ <<Msg("bootconfigdone")>> \in Seq(M)
  BY <1>3
<1>9. BootMessages(c) = <<Msg("bootconfig")>> \o parts[1] \o parts[2] \o parts[3] \o <<Msg("bootconfigdone")>>
  BY DEF BootMessages, env, files
<1> HIDE DEF parts
<1>10. \A p, q \in Seq(M) : p \o q \in Seq(M) /\ Len(p \o q) = Len(p) + Len(q) /\ Len(p) \in Nat
  OBVIOUS
<1>11. Len(<<Msg("bootconfigdone")>>) = 1
  OBVIOUS
<1>12. BootMessages(c) \in Seq(M) /\ Len(BootMessages(c)) > 0
  <2>1. PICK b, p, q, r, d : /\ b = <<Msg("bootconfig")>> /\ p = parts[1] /\ q = parts[2] /\ r = parts[3]
                             /\ d = <<Msg("bootconfigdone")>>
    OBVIOUS
  <2>2. b \in Seq(M) /\ p \in Seq(M) /\ q \in Seq(M) /\ r \in Seq(M) /\ d \in Seq(M) /\ Len(d) = 1
    BY <1>5, <1>6, <1>7, <1>8, <1>11, <2>1
  <2>3. b \o p \in Seq(M)
    BY <1>10, <2>2
  <2>4. (b \o p) \o q \in Seq(M)
    BY <1>10, <2>2, <2>3
  <2>5. ((b \o p) \o q) \o r \in Seq(M)
    BY <1>10, <2>2, <2>4
  <2>6. /\ (((b \o p) \o q) \o r) \o d \in Seq(M)
        /\ Len((((b \o p) \o q) \o r) \o d) = Len(((b \o p) \o q) \o r) + 1
        /\ Len(((b \o p) \o q) \o r) \in Nat
    BY <1>10, <2>2, <2>5
  <2>7. BootMessages(c) = (((b \o p) \o q) \o r) \o d
    BY <1>9, <2>1
  <2> QED BY <2>6, <2>7
<1> QED BY <1>12 DEF M

\* What is left of a sequence, and what a longer one holds.
LEMMA TailFacts ==
    ASSUME NEW S, NEW s \in Seq(S), s # << >>
    PROVE  /\ Tail(s) \in Seq(S) /\ Head(s) = s[1] /\ s[1] \in S /\ 1 \in 1..Len(s)
           /\ \A i \in 1..Len(Tail(s)) : i + 1 \in 1..Len(s) /\ Tail(s)[i] = s[i + 1]
  OBVIOUS

LEMMA AppendFacts ==
    ASSUME NEW S, NEW s \in Seq(S), NEW e \in S
    PROVE  /\ Append(s, e) \in Seq(S)
           /\ \A i \in 1..Len(Append(s, e)) : Append(s, e)[i] = e \/ (i \in 1..Len(s) /\ Append(s, e)[i] = s[i])
  OBVIOUS

\* A verdict that is right leaves no wrong one.
LEMMA VerdictTrue ==
    ASSUME NEW valid \in BOOLEAN, instance => valid, FALSE \notin verdicts, Judge(valid)
    PROVE  FALSE \notin verdicts'
<1>1. CASE instance
  <2>1. valid = TRUE
    BY <1>1
  <2> QED BY <1>1, <2>1 DEF Judge
<1>2. CASE ~instance
  BY <1>2 DEF Judge
<1> QED BY <1>1, <1>2

LEMMA BootStep ==
    ASSUME BootInv, [Next]_vars
    PROVE  BootInv'
<1>0. BootShape /\ GuestStage /\ HostStage /\ FALSE \notin verdicts
  BY DEF BootInv
<1>1. CASE UNCHANGED vars
  BY <1>0, <1>1 DEF vars, BootInv, BootShape, GuestStage, HostStage, Missed
<1>2. CASE AcceptConnection \/ ServeConnection \/ \E w \in Watchers : WatcherConnect(w)
  <2>1. UNCHANGED <<config, hostState, instance, hasFds, host, outbox, guest, link, toGuest, toHost, verdicts>>
    BY <1>2 DEF AcceptConnection, ServeConnection, WatcherConnect, guestVars, hostVars
  <2> QED BY <1>0, <2>1 DEF BootInv, BootShape, GuestStage, HostStage, Missed
<1>3. CASE VsockConnected
  <2>1. /\ UNCHANGED <<config, instance, hasFds, outbox, guest, link, toGuest, toHost, verdicts>>
        /\ host = "accept" /\ host' \in {"ready", "returned"}
        /\ instance => (hostState = "Booting" => hostState' = "VsockConnected")
    BY <1>3 DEF VsockConnected, guestVars, Transition, ValidTransitions
  <2>2. BootShape' /\ GuestStage'
    BY <1>0, <2>1 DEF BootShape, GuestStage
  <2>3. HostStage'
    BY <1>0, <2>1 DEF HostStage
  <2> QED BY <1>0, <2>1, <2>2, <2>3 DEF BootInv
<1>4. CASE AwaitReady
  <2>1. /\ UNCHANGED <<config, instance, hasFds, guest, link, toGuest>>
        /\ host = "ready" /\ host' = "config" /\ outbox' = BootMessages(config)
    BY <1>4 DEF AwaitReady, guestVars
  <2>2. /\ outbox' \in Seq([t : BootTypes, size : Nat]) /\ outbox' # << >>
        /\ toGuest = << >> /\ guest \in {"terminal", "control", "ready", "bootconfig", "dead"}
        /\ \A i \in 1..Len(toHost) : toHost[i] = "ready"
        /\ instance => hostState = "VsockConnected"
    BY <1>0, <2>1, BootMessagesType DEF BootShape, GuestStage, HostStage
  <2>3. CASE ReadFails /\ UNCHANGED <<hostState, verdicts>>
    <3>1. ~link /\ UNCHANGED toHost
      BY <2>3 DEF ReadFails
    <3>2. BootShape' /\ GuestStage'
      BY <1>0, <2>1, <2>2, <3>1 DEF BootShape, GuestStage
    <3>3. HostStage'
      BY <2>1, <2>2, <2>3, <3>1 DEF HostStage, Missed
    <3> QED BY <1>0, <2>3, <3>2, <3>3 DEF BootInv
  <2>4. CASE Receive("ready") /\ Transition("Handshaking") /\ Judge(ValidGuestMsg("ready", hostState))
    <3>1. toHost # << >> /\ toHost' = Tail(toHost)
      BY <2>4 DEF Receive
    <3>2. /\ toHost' \in Seq({"ready", "bootready", "event"})
          /\ \A i \in 1..Len(toHost') : toHost'[i] = "ready"
      BY <1>0, <2>2, <3>1, TailFacts DEF BootShape
    <3>3. ValidGuestMsg("ready", hostState) \in BOOLEAN /\ (instance => ValidGuestMsg("ready", hostState))
      BY <2>2 DEF ValidGuestMsg
    <3>4. FALSE \notin verdicts'
      BY <1>0, <2>4, <3>3, VerdictTrue
    <3>5. instance => hostState' = "Handshaking"
      BY <2>2, <2>4 DEF Transition, ValidTransitions
    <3>6. BootShape' /\ GuestStage'
      BY <1>0, <2>1, <2>2, <3>2 DEF BootShape, GuestStage
    <3>7. HostStage'
      BY <2>1, <3>5 DEF HostStage
    <3> QED BY <3>4, <3>6, <3>7 DEF BootInv
  <2> QED BY <1>4, <2>3, <2>4 DEF AwaitReady
<1>5. CASE SendBootMessage
  <2>1. /\ UNCHANGED <<config, hostState, instance, hasFds, guest, link, toHost>> /\ host = "config"
        /\ host' = IF outbox' = << >> THEN "bootready" ELSE "config"
    BY <1>5 DEF SendBootMessage, guestVars
  <2>2. /\ outbox \in Seq([t : BootTypes, size : Nat]) /\ outbox # << >> /\ Head(outbox) \in [t : BootTypes, size : Nat]
        /\ Tail(outbox) \in Seq([t : BootTypes, size : Nat])
        /\ toGuest \in Seq([t : BootTypes \cup {"resize"}, size : Nat])
        /\ instance => hostState = "Handshaking" \/ Missed
    BY <1>0, <2>1, TailFacts DEF BootShape, HostStage
  <2>3. HostStage'
    BY <1>0, <2>1 DEF HostStage, Missed
  <2>4. CASE link
    <3>1. toGuest' = Append(toGuest, Head(outbox)) /\ outbox' = Tail(outbox) /\ Judge(ValidHostMsg(Head(outbox).t, hostState))
      BY <1>5, <2>4 DEF SendBootMessage
    <3>2. Head(outbox) \in [t : BootTypes \cup {"resize"}, size : Nat] /\ Head(outbox).t \in BootTypes /\ Head(outbox).t # "resize"
      BY <2>2 DEF BootTypes
    <3>3. /\ toGuest' \in Seq([t : BootTypes \cup {"resize"}, size : Nat])
          /\ \A i \in 1..Len(toGuest') : toGuest'[i].t = "resize" => guest \in Late
      <4>1. PICK e : e = Head(outbox)
        OBVIOUS
      <4>2. toGuest' = Append(toGuest, e) /\ e \in [t : BootTypes \cup {"resize"}, size : Nat] /\ e.t # "resize"
        BY <3>1, <3>2, <4>1
      <4>3. /\ toGuest' \in Seq([t : BootTypes \cup {"resize"}, size : Nat])
            /\ \A i \in 1..Len(toGuest') : toGuest'[i] = e \/ (i \in 1..Len(toGuest) /\ toGuest'[i] = toGuest[i])
        BY <2>2, <4>2, AppendFacts
      <4> QED BY <1>0, <4>2, <4>3 DEF GuestStage
    <3>4. BootShape' /\ GuestStage'
      BY <1>0, <2>1, <2>2, <3>1, <3>3 DEF BootShape, GuestStage
    <3>5. ValidHostMsg(Head(outbox).t, hostState) \in BOOLEAN /\ (instance => ValidHostMsg(Head(outbox).t, hostState))
      <4>1. instance => hostState = "Handshaking"
        BY <2>2, <2>4 DEF Missed
      <4>2. PICK t \in BootTypes : t = Head(outbox).t
        BY <3>2
      <4>3. ValidHostMsg(t, hostState) \in BOOLEAN /\ (instance => ValidHostMsg(t, hostState))
        <5>1. CASE t = "filewrite"
          <6>1. ValidHostMsg(t, hostState) = (hostState \in {"Handshaking", "Running"})
            BY <5>1 DEF ValidHostMsg
          <6>2. (hostState \in {"Handshaking", "Running"}) \in BOOLEAN
            <7>1. CASE hostState \in {"Handshaking", "Running"}
              <8>1. (hostState \in {"Handshaking", "Running"}) = TRUE
                BY <7>1
              <8> QED BY <8>1
            <7>2. CASE hostState \notin {"Handshaking", "Running"}
              <8>1. (hostState \in {"Handshaking", "Running"}) = FALSE
                BY <7>2
              <8> QED BY <8>1
            <7> QED BY <7>1, <7>2
          <6>3. instance => hostState \in {"Handshaking", "Running"}
            BY <4>1
          <6>4. ValidHostMsg(t, hostState) \in BOOLEAN
            BY <6>1, <6>2, Zenon
          <6>5. instance => ValidHostMsg(t, hostState)
            BY <6>1, <6>3, Zenon
          <6> QED BY <6>4, <6>5, Zenon
        <5>2. CASE t \in {"bootconfig", "setenv", "bootconfigdone"}
          <6>1. ValidHostMsg(t, hostState) = (hostState = "Handshaking")
            BY <5>2 DEF ValidHostMsg
          <6> QED BY <4>1, <6>1
        <5> QED BY <5>1, <5>2 DEF BootTypes
      <4> QED BY <4>2, <4>3
    <3>6. FALSE \notin verdicts'
      BY <1>0, <3>1, <3>5, VerdictTrue
    <3> QED BY <2>3, <3>4, <3>6 DEF BootInv
  <2>5. CASE ~link
    <3>1. outbox' = << >> /\ UNCHANGED <<toGuest, verdicts>>
      BY <1>5, <2>5 DEF SendBootMessage
    <3>2. BootShape' /\ GuestStage'
      BY <1>0, <2>1, <3>1 DEF BootShape, GuestStage
    <3> QED BY <1>0, <2>3, <3>1, <3>2 DEF BootInv
  <2> QED BY <2>4, <2>5
<1>6. CASE AwaitBootReady
  <2>1. UNCHANGED <<config, hostState, instance, hasFds, outbox, guest, link, toGuest>> /\ host = "bootready"
    BY <1>6 DEF AwaitBootReady, guestVars
  <2>2. CASE ReadFails /\ UNCHANGED verdicts /\ host' = "anyway"
    <3>1. ~link /\ UNCHANGED toHost
      BY <2>2 DEF ReadFails
    <3>2. BootShape' /\ GuestStage' /\ HostStage'
      BY <1>0, <2>1, <2>2, <3>1 DEF BootShape, GuestStage, HostStage, Missed
    <3> QED BY <1>0, <2>2, <3>2 DEF BootInv
  <2>3. CASE Receive("bootready") /\ Judge(ValidGuestMsg("bootready", hostState)) /\ host' = "running"
    <3>1. toHost # << >> /\ toHost' = Tail(toHost) /\ toHost[1] = "bootready" /\ 1 \in 1..Len(toHost)
      BY <1>0, <2>3, TailFacts DEF Receive, BootShape
    <3>2. /\ toHost' \in Seq({"ready", "bootready", "event"})
          /\ \A i \in 1..Len(toHost') : i + 1 \in 1..Len(toHost) /\ toHost'[i] = toHost[i + 1]
      BY <1>0, <3>1, TailFacts DEF BootShape
    <3>3. guest \in Late /\ (instance => hostState = "Handshaking")
      BY <1>0, <2>1, <3>1 DEF GuestStage, HostStage, Missed
    <3>4. BootShape' /\ GuestStage'
      BY <1>0, <2>1, <2>3, <3>2, <3>3 DEF BootShape, GuestStage
    <3>5. HostStage'
      BY <2>1, <2>3, <3>3 DEF HostStage
    <3>6. ValidGuestMsg("bootready", hostState) \in BOOLEAN /\ (instance => ValidGuestMsg("bootready", hostState))
      BY <3>3 DEF ValidGuestMsg
    <3>7. FALSE \notin verdicts'
      BY <1>0, <2>3, <3>6, VerdictTrue
    <3> QED BY <3>4, <3>5, <3>7 DEF BootInv
  <2> QED BY <1>6, <2>2, <2>3 DEF AwaitBootReady
<1>7. CASE EnterRunning
  <2>1. /\ UNCHANGED <<config, instance, outbox, guest, link, toGuest, toHost, verdicts>>
        /\ host \in {"running", "anyway"} /\ host' = "serving" /\ hasFds' = instance
        /\ instance /\ hostState = "Handshaking" => hostState' = "Running"
        /\ hostState = "VsockConnected" => hostState' = hostState
    BY <1>7 DEF EnterRunning, guestVars, Transition, ValidTransitions
  <2>2. BootShape' /\ GuestStage'
    BY <1>0, <2>1 DEF BootShape, GuestStage
  <2>3. HostStage'
    BY <1>0, <2>1 DEF HostStage, Missed
  <2> QED BY <1>0, <2>1, <2>2, <2>3 DEF BootInv
<1>8. CASE HandleGuestMessage
  <2>1. /\ UNCHANGED <<config, hostState, instance, hasFds, host, outbox, guest, link, toGuest>> /\ host = "serving"
        /\ Receive("event") /\ Judge(ValidGuestMsg("event", hostState))
    BY <1>8 DEF HandleGuestMessage, hostVars, guestVars
  <2>2. toHost # << >> /\ toHost' = Tail(toHost) /\ toHost[1] = "event" /\ 1 \in 1..Len(toHost)
    BY <1>0, <2>1, TailFacts DEF Receive, BootShape
  <2>3. /\ toHost' \in Seq({"ready", "bootready", "event"})
        /\ \A i \in 1..Len(toHost') : i + 1 \in 1..Len(toHost) /\ toHost'[i] = toHost[i + 1]
    BY <1>0, <2>2, TailFacts DEF BootShape
  <2>4. instance => hostState = "Running"
    BY <1>0, <2>1, <2>2 DEF HostStage, Missed
  <2>5. BootShape' /\ GuestStage' /\ HostStage'
    BY <1>0, <2>1, <2>3, <2>4 DEF BootShape, GuestStage, HostStage
  <2>6. ValidGuestMsg("event", hostState) \in BOOLEAN /\ (instance => ValidGuestMsg("event", hostState))
    BY <2>4 DEF ValidGuestMsg
  <2>7. FALSE \notin verdicts'
    BY <1>0, <2>1, <2>6, VerdictTrue
  <2> QED BY <2>5, <2>7 DEF BootInv
<1>9. CASE HostCommand
  <2>1. /\ UNCHANGED <<config, hostState, instance, hasFds, host, outbox, guest, link, toHost, verdicts>>
        /\ hasFds /\ link /\ toGuest' = Append(toGuest, Msg("resize"))
    BY <1>9 DEF HostCommand, hostVars, guestVars
  <2>2. guest \in Late /\ host = "serving"
    BY <1>0, <2>1 DEF GuestStage
  <2>3. toGuest' \in Seq([t : BootTypes \cup {"resize"}, size : Nat])
    <3>1. Msg("resize") \in [t : BootTypes \cup {"resize"}, size : Nat]
      BY DEF Msg
    <3> QED BY <1>0, <2>1, <3>1, AppendFacts DEF BootShape
  <2>4. BootShape' /\ GuestStage' /\ HostStage'
    BY <1>0, <2>1, <2>2, <2>3 DEF BootShape, GuestStage, HostStage, Missed
  <2> QED BY <1>0, <2>1, <2>4 DEF BootInv
<1>10. CASE StopVm
  <2>1. /\ UNCHANGED <<config, hostState, host, outbox, guest, link, toGuest, toHost, verdicts>>
        /\ ~instance' /\ ~hasFds'
    BY <1>10 DEF StopVm, guestVars
  <2> QED BY <1>0, <2>1 DEF BootInv, BootShape, GuestStage, HostStage
<1>11. CASE GuestGone
  <2>1. /\ UNCHANGED <<config, hostState, instance, hasFds, host, outbox, toGuest, toHost, verdicts>>
        /\ link /\ ~link' /\ guest' = "dead"
    BY <1>11 DEF GuestGone, hostVars
  <2>2. BootShape' /\ GuestStage'
    BY <1>0, <2>1 DEF BootShape, GuestStage, Late
  <2>3. HostStage'
    BY <1>0, <2>1 DEF HostStage, Missed
  <2> QED BY <1>0, <2>1, <2>2, <2>3 DEF BootInv
<1>12. CASE Connect("terminal", "control") \/ Connect("control", "ready")
  <2>1. /\ UNCHANGED <<config, hostState, instance, hasFds, host, outbox, link, toGuest, toHost, verdicts>>
        /\ guest \in {"terminal", "control"} /\ guest' \in {"control", "ready"}
    BY <1>12 DEF Connect, hostVars
  <2>2. GuestStage'
    BY <1>0, <2>1 DEF GuestStage, Late
  <2> QED BY <1>0, <2>1, <2>2 DEF BootInv, BootShape, HostStage, Missed
<1>13. CASE SendReady \/ SendBootReady \/ SendBootReadyDeaf \/ GuestEvent
  <2>1. PICK t \in {"ready", "bootready", "event"} :
          /\ UNCHANGED <<config, hostState, instance, hasFds, host, outbox, link, toGuest, verdicts>>
          /\ link /\ toHost' = Append(toHost, t)
          /\ \/ t = "ready" /\ guest = "ready" /\ guest' = "bootconfig"
             \/ guest \in {"spawn", "spawnDeaf", "bridge"} /\ guest' \in Late
    BY <1>13 DEF SendReady, SendBootReady, SendBootReadyDeaf, GuestEvent, SendToHost, hostVars, Late
  <2>2. /\ toHost' \in Seq({"ready", "bootready", "event"})
        /\ \A i \in 1..Len(toHost') : toHost'[i] = t \/ (i \in 1..Len(toHost) /\ toHost'[i] = toHost[i])
    <3>1. toHost \in Seq({"ready", "bootready", "event"}) /\ toHost' = Append(toHost, t)
      BY <1>0, <2>1 DEF BootShape
    <3> QED BY <3>1
  <2>3. GuestStage'
    BY <1>0, <2>1, <2>2 DEF GuestStage, Late
  <2>4. HostStage'
    BY <1>0, <2>1 DEF HostStage, Missed
  <2> QED BY <1>0, <2>1, <2>2, <2>3, <2>4 DEF BootInv, BootShape
<1>14. CASE RecvBootConfig \/ RecvBootMessage \/ RecvCommand
  <2>1. /\ UNCHANGED <<config, hostState, instance, hasFds, host, outbox, link, toHost, verdicts>>
        /\ toGuest # << >> /\ (toGuest' = Tail(toGuest) \/ toGuest' = << >>)
        /\ \/ guest \in {"bootconfig", "config"} /\ guest' \in {"config", "spawn", "spawnDeaf"}
           \/ guest' = guest
    BY <1>14 DEF RecvBootConfig, RecvBootMessage, RecvCommand, hostVars, guestVars
  <2>2. /\ toGuest' \in Seq([t : BootTypes \cup {"resize"}, size : Nat])
        /\ \A i \in 1..Len(toGuest') : \E j \in 1..Len(toGuest) : toGuest'[i] = toGuest[j]
    <3>1. CASE toGuest' = Tail(toGuest)
      BY <1>0, <2>1, <3>1, TailFacts DEF BootShape
    <3>2. CASE toGuest' = << >>
      BY <3>2
    <3> QED BY <2>1, <3>1, <3>2
  <2>3. GuestStage'
    <3>1. host \notin {"accept", "ready", "returned"}
      BY <1>0, <2>1 DEF GuestStage
    <3>2. guest \in Late => guest' \in Late
      BY <2>1 DEF Late
    <3>3. \A i \in 1..Len(toGuest') : toGuest'[i].t = "resize" => guest' \in Late
      BY <1>0, <2>2, <3>2 DEF GuestStage
    <3> QED BY <1>0, <2>1, <3>1, <3>2, <3>3 DEF GuestStage
  <2> QED BY <1>0, <2>1, <2>2, <2>3 DEF BootInv, BootShape, HostStage, Missed
<1> QED BY <1>1, <1>2, <1>3, <1>4, <1>5, <1>6, <1>7, <1>8, <1>9, <1>10, <1>11, <1>12, <1>13, <1>14
        DEF Next, HostStep, GuestStep

\* The host and the agent agree on the protocol: whatever configuration is sent,
\* wherever the machine stops and wherever the connection breaks, no message is refused
\* by the state machine, and only boot configuration reaches the agent's boot loop.
THEOREM ProtocolKept == Spec => []MessagesExpected
<1>1. Init => BootInv
  BY DEF Init, InitWith, BootInv, BootShape, GuestStage, HostStage
<1>2. BootInv => MessagesExpected
  <2> SUFFICES ASSUME BootInv PROVE MessagesExpected
    OBVIOUS
  <2>1. toGuest \in Seq([t : BootTypes \cup {"resize"}, size : Nat])
    BY DEF BootInv, BootShape
  <2>2. DOMAIN toGuest = 1..Len(toGuest)
    BY <2>1
  <2>3. \A i \in DOMAIN toGuest : toGuest[i].t = "resize" => guest \in Late
    BY <2>2 DEF BootInv, GuestStage
  <2> QED BY <2>3 DEF BootInv, MessagesExpected, Late
<1> QED BY <1>1, <1>2, BootStep, PTL DEF Spec

\* Configurations that both ends take.
CanDeliver(c) == (c.setup => c.files = << >>) /\ \A i \in 1..Len(c.files) : c.files[i] <= MaxFrame

\* The sizes of the files that are sent, and their sums.
SentFiles(c) == HostFiles(c.files) \o (IF c.setup THEN <<1, 1>> ELSE << >>)
SentEnv(c) == Least(c.env, MaxBootEnvVars)
Summed(g, P) ==
    /\ P \in [0..Len(g) -> Nat] /\ P[0] = 0
    /\ \A j \in 1..Len(g) : P[j] = P[j - 1] + g[j] /\ P[j] <= MaxBootFileBytes

\* Files within every cap, of b bytes.
Fits(g, b) == /\ g \in Seq(Nat) /\ Len(g) <= MaxBootFiles /\ \A j \in 1..Len(g) : g[j] <= MaxFrame
              /\ \E P : Summed(g, P) /\ P[Len(g)] = b

\* One more file is taken only within the caps.
LEMMA KeepsFit ==
    ASSUME NEW k, Fits(k.sizes, k.bytes), NEW size \in Nat, size <= MaxFrame
    PROVE  Fits(Keeps(k, size).sizes, Keeps(k, size).bytes)
<1>1. CASE ~(Len(k.sizes) < MaxBootFiles /\ k.bytes + size <= MaxBootFileBytes)
  BY <1>1 DEF Keeps
<1>2. CASE Len(k.sizes) < MaxBootFiles /\ k.bytes + size <= MaxBootFileBytes
  <2>1. PICK g, b, P : /\ g = k.sizes /\ b = k.bytes
                       /\ Summed(g, P) /\ P[Len(g)] = b
    BY DEF Fits
  <2>2. g \in Seq(Nat) /\ Len(g) < MaxBootFiles /\ (\A j \in 1..Len(g) : g[j] <= MaxFrame) /\ b + size <= MaxBootFileBytes
    BY <1>2, <2>1 DEF Fits
  <2> DEFINE n == Len(g)
             h == Append(g, size)
             Q == [j \in 0..(n + 1) |-> IF j = n + 1 THEN P[n] + size ELSE P[j]]
  <2>3. h \in Seq(Nat) /\ n \in Nat /\ Len(h) = n + 1 /\ h[n + 1] = size /\ \A j \in 1..n : h[j] = g[j]
    BY <2>2
  <2>4. P \in [0..n -> Nat] /\ P[0] = 0 /\ P[n] = b /\ \A j \in 1..n : P[j] = P[j - 1] + g[j] /\ P[j] <= MaxBootFileBytes
    BY <2>1 DEF Summed
  <2> HIDE DEF n, h
  <2>5. Q \in [0..(n + 1) -> Nat] /\ Q[0] = 0 /\ Q[n + 1] = b + size /\ \A j \in 0..n : Q[j] = P[j]
    BY <2>3, <2>4
  <2> HIDE DEF Q
  <2>6. ASSUME NEW j \in 1..(n + 1) PROVE Q[j] = Q[j - 1] + h[j] /\ Q[j] <= MaxBootFileBytes
    <3>1. CASE j = n + 1
      BY <2>2, <2>3, <2>4, <2>5, <3>1
    <3>2. CASE j # n + 1
      <4>1. j \in 1..n /\ j - 1 \in 0..n /\ j \in 0..n
        BY <2>3, <3>2
      <4> QED
        BY <2>3, <2>4, <2>5, <4>1
    <3> QED
      BY <3>1, <3>2
  <2>7. Summed(h, Q) /\ Q[Len(h)] = b + size
    BY <2>3, <2>5, <2>6 DEF Summed
  <2>8. Len(h) <= MaxBootFiles /\ \A j \in 1..Len(h) : h[j] <= MaxFrame
    <3>1. n < MaxBootFiles
      BY <2>2 DEF n
    <3>2. \A j \in 1..n : h[j] <= MaxFrame
      BY <2>2, <2>3 DEF n
    <3> QED
      BY <2>3, <3>1, <3>2, HandshakeAssumption
  <2>9. Fits(h, b + size)
    BY <2>3, <2>7, <2>8 DEF Fits
  <2>10. Keeps(k, size) = [sizes |-> h, bytes |-> b + size]
    BY <1>2, <2>1 DEF Keeps, h
  <2> QED
    BY <2>9, <2>10
<1> QED
  BY <1>1, <1>2

\* What the host takes of files that fit a frame is within the caps.
LEMMA HostFilesFit ==
    ASSUME NEW files \in Seq(Nat), \A i \in 1..Len(files) : files[i] <= MaxFrame
    PROVE  \E b : Fits(HostFiles(files), b)
<1> DEFINE R == {ss \in Nat \X Nat : ss[1] < ss[2]}
           Good(i) == Fits(Kept(files)[i].sizes, Kept(files)[i].bytes)
           Bad == {i \in Nat : i <= Len(files) /\ ~Good(i)}
<1>1. Kept(files)[0] = [sizes |-> << >>, bytes |-> 0]
  BY KeptUnfolds
<1>2. \A i \in 1..Len(files) : Kept(files)[i] = Keeps(Kept(files)[i - 1], files[i])
  BY KeptUnfolds
<1>3. Good(0)
  <2> DEFINE P == [j \in 0..0 |-> 0]
  <2>1. Summed(<< >>, P) /\ P[Len(<< >>)] = 0
    BY DEF Summed
  <2>2. Fits(<< >>, 0)
    <3>1. << >> \in Seq(Nat) /\ Len(<< >>) <= MaxBootFiles /\ \A j \in 1..Len(<< >>) : << >>[j] <= MaxFrame
      BY HandshakeAssumption
    <3> QED
      BY <2>1, <3>1 DEF Fits
  <2> QED
    BY <1>1, <2>2
<1>4. Bad = {}
  <2> SUFFICES ASSUME Bad # {} PROVE FALSE
    OBVIOUS
  <2>1. IsWellFoundedOn(R, Nat)
    BY NatLessThanWellFounded, Zenon DEF OpToRel
  <2>2. PICK n \in Bad : \A m \in Bad : ~(<<m, n>> \in R)
    BY <2>1, WFMin
  <2>3. n # 0
    BY <1>3, <2>2
  <2>4. n \in Nat /\ n - 1 \in Nat /\ n - 1 <= Len(files) /\ n \in 1..Len(files) /\ <<n - 1, n>> \in R
    BY <2>2, <2>3
  <2>5. n - 1 \notin Bad
    BY <2>2, <2>4, Zenon
  <2>6. Good(n - 1) /\ files[n] \in Nat /\ files[n] <= MaxFrame
    BY <2>4, <2>5
  <2>7. Good(n)
    BY <1>2, <2>4, <2>6, KeepsFit
  <2> QED BY <2>2, <2>7
<1>5. Len(files) \in Nat /\ Good(Len(files))
  BY <1>4
<1> QED BY <1>5 DEF HostFiles

\* What is sent of such a configuration is within the caps, the setup script too.
LEMMA SentFit ==
    ASSUME NEW c \in Configs, CanDeliver(c)
    PROVE  \E b : Fits(SentFiles(c), b)
<1>1. c.files \in Seq(Nat) /\ c.setup \in BOOLEAN
  BY HandshakeAssumption
<1>2. CASE ~c.setup
  <2>1. HostFiles(c.files) \in Seq(Nat)
    BY <1>1, HostFilesType
  <2>2. SentFiles(c) = HostFiles(c.files)
    BY <1>2, <2>1, ConcatEmptySeq DEF SentFiles
  <2> QED
    BY <1>1, <2>2, HostFilesFit DEF CanDeliver
<1>3. CASE c.setup
  <2>1. Kept(c.files)[0] = [sizes |-> << >>, bytes |-> 0] /\ Len(c.files) = 0
    BY <1>1, <1>3, KeptUnfolds DEF CanDeliver
  <2>2. HostFiles(c.files) = << >>
    BY <2>1 DEF HostFiles
  <2>3. SentFiles(c) = <<1, 1>>
    BY <1>3, <2>2 DEF SentFiles
  <2> DEFINE P == [j \in 0..2 |-> j]
             g == <<1, 1>>
  <2>4. g \in Seq(Nat) /\ Len(g) = 2 /\ g[1] = 1 /\ g[2] = 1
    OBVIOUS
  <2>5. 2 <= MaxBootFiles /\ 2 <= MaxBootFileBytes /\ 1 <= MaxFrame
        /\ MaxBootFiles \in Nat /\ MaxBootFileBytes \in Nat /\ MaxFrame \in Nat
    BY HandshakeAssumption, CapsAssumption
  <2> HIDE DEF g
  <2>6. \A j \in 1..Len(g) : (j = 1 \/ j = 2) /\ g[j] = 1
    BY <2>4
  <2>7. Summed(g, P) /\ P[Len(g)] = 2
    <3>1. P \in [0..Len(g) -> Nat] /\ P[0] = 0 /\ P[1] = 1 /\ P[2] = 2
      BY <2>4
    <3> HIDE DEF P
    <3>2. \A j \in 1..Len(g) : P[j] = P[j - 1] + g[j] /\ P[j] <= MaxBootFileBytes
      BY <2>5, <2>6, <3>1
    <3> QED
      BY <2>4, <3>1, <3>2 DEF Summed
  <2>8. Fits(g, 2)
    <3>1. Len(g) <= MaxBootFiles /\ \A j \in 1..Len(g) : g[j] <= MaxFrame
      BY <2>4, <2>5, <2>6
    <3> QED
      BY <2>4, <2>7, <3>1 DEF Fits
  <2> QED
    BY <2>3, <2>8 DEF g
<1> QED
  BY <1>1, <1>2, <1>3

\* What two sequences hold, one after the other.
Joined(r, p, q) ==
    /\ Len(r) = Len(p) + Len(q) /\ Len(p) \in Nat /\ Len(q) \in Nat
    /\ \A i \in 1..Len(p) : r[i] = p[i]
    /\ \A i \in 1..Len(q) : r[Len(p) + i] = q[i]

LEMMA ConcatFacts ==
    ASSUME NEW S, NEW p \in Seq(S), NEW q \in Seq(S)
    PROVE  p \o q \in Seq(S) /\ Joined(p \o q, p, q)
  BY DEF Joined

\* The boot configuration, message by message.
BootOrder(s, e, g) ==
    /\ Len(s) = 2 + e + Len(g)
    /\ s[1] = Msg("bootconfig") /\ s[2 + e + Len(g)] = Msg("bootconfigdone")
    /\ \A i \in 1..e : s[1 + i] = Msg("setenv")
    /\ \A j \in 1..Len(g) : s[1 + e + j] = FileWrite(g[j])

LEMMA BootMessagesOrder ==
    ASSUME NEW c \in Configs
    PROVE  BootOrder(BootMessages(c), SentEnv(c), SentFiles(c)) /\ SentEnv(c) \in Nat /\ SentFiles(c) \in Seq(Nat)
<1> DEFINE M == [t : BootTypes, size : Nat]
           files == HostFiles(c.files)
           setup == IF c.setup THEN <<1, 1>> ELSE << >>
           env == SentEnv(c)
           parts == <<<<Msg("bootconfig")>>, [i \in 1..env |-> Msg("setenv")], [i \in 1..Len(files) |-> FileWrite(files[i])],
                      IF c.setup THEN <<FileWrite(1), FileWrite(1)>> ELSE << >>, <<Msg("bootconfigdone")>> >>
<1>1. c.env \in Nat /\ c.files \in Seq(Nat) /\ MaxBootEnvVars \in Nat
  BY HandshakeAssumption
<1>2. env \in Nat /\ files \in Seq(Nat)
  BY <1>1, HostFilesType DEF Least, SentEnv
<1>3. SentFiles(c) = files \o setup
  BY DEF SentFiles
<1>4. BootMessages(c) = (((parts[1] \o parts[2]) \o parts[3]) \o parts[4]) \o parts[5]
  BY DEF BootMessages, SentEnv
<1> HIDE DEF env, files
<1>5. Msg("setenv") \in M /\ Msg("bootconfig") \in M /\ Msg("bootconfigdone") \in M
  BY DEF Msg, BootTypes
<1>6. \A size \in Nat : FileWrite(size) \in M
  BY DEF FileWrite, BootTypes
<1> HIDE DEF M
<1>7. /\ parts[1] \in Seq(M) /\ Len(parts[1]) = 1 /\ parts[1][1] = Msg("bootconfig")
      /\ parts[5] \in Seq(M) /\ Len(parts[5]) = 1 /\ parts[5][1] = Msg("bootconfigdone")
  BY <1>5
<1>8. parts[2] \in Seq(M) /\ Len(parts[2]) = env /\ \A i \in 1..env : parts[2][i] = Msg("setenv")
  BY <1>2, <1>5
<1>9. parts[3] \in Seq(M) /\ Len(parts[3]) = Len(files) /\ \A i \in 1..Len(files) : parts[3][i] = FileWrite(files[i])
  <2>1. Len(files) \in Nat /\ \A i \in 1..Len(files) : files[i] \in Nat
    BY <1>2
  <2>2. \A i \in 1..Len(files) : FileWrite(files[i]) \in M
    BY <1>6, <2>1
  <2> QED BY <2>1, <2>2
<1>10. /\ setup \in Seq(Nat) /\ parts[4] \in Seq(M) /\ Len(parts[4]) = Len(setup)
       /\ \A i \in 1..Len(setup) : parts[4][i] = FileWrite(setup[i])
  <2>1. CASE c.setup
    <3>1. setup = <<1, 1>> /\ parts[4] = <<FileWrite(1), FileWrite(1)>>
      BY <2>1
    <3>2. FileWrite(1) \in M
      BY <1>6
    <3>3. \A i \in 1..2 : i = 1 \/ i = 2
      OBVIOUS
    <3> QED
      BY <3>1, <3>2, <3>3
  <2>2. CASE ~c.setup
    BY <2>2
  <2> QED
    BY <2>1, <2>2
<1> HIDE DEF parts, setup
<1>11. PICK a, b, d, e, f : a = parts[1] /\ b = parts[2] /\ d = parts[3] /\ e = parts[4] /\ f = parts[5]
  OBVIOUS
<1>12. /\ a \in Seq(M) /\ Len(a) = 1 /\ a[1] = Msg("bootconfig")
       /\ f \in Seq(M) /\ Len(f) = 1 /\ f[1] = Msg("bootconfigdone")
  BY <1>7, <1>11
<1>13. b \in Seq(M) /\ Len(b) = env /\ \A i \in 1..env : b[i] = Msg("setenv")
  BY <1>8, <1>11
<1>14. d \in Seq(M) /\ Len(d) = Len(files) /\ \A i \in 1..Len(files) : d[i] = FileWrite(files[i])
  BY <1>9, <1>11
<1>15. e \in Seq(M) /\ Len(e) = Len(setup) /\ \A i \in 1..Len(setup) : e[i] = FileWrite(setup[i])
  BY <1>10, <1>11
<1>16. PICK s : s = BootMessages(c) /\ s = (((a \o b) \o d) \o e) \o f
  BY <1>4, <1>11
<1>17. PICK ab : /\ ab = a \o b /\ ab \in Seq(M) /\ Len(ab) = 1 + env /\ ab[1] = Msg("bootconfig")
                 /\ \A i \in 1..env : ab[1 + i] = Msg("setenv")
  <2>0. a \o b \in Seq(M) /\ Joined(a \o b, a, b)
    <3>1. a \in Seq(M) /\ b \in Seq(M)
      BY <1>12, <1>13
    <3> QED
      BY ONLY <3>1, ConcatFacts
  <2> DEFINE r == a \o b
  <2> HIDE DEF r
  <2>1. r \in Seq(M) /\ Len(r) = 1 + env /\ r[1] = a[1] /\ \A i \in 1..env : r[1 + i] = b[i]
    BY <1>2, <1>12, <1>13, <2>0 DEF r, Joined
  <2>2. /\ r = a \o b /\ r \in Seq(M) /\ Len(r) = 1 + env /\ r[1] = Msg("bootconfig")
        /\ \A i \in 1..env : r[1 + i] = Msg("setenv")
    BY <1>12, <1>13, <2>1 DEF r
  <2> QED
    BY ONLY <2>2
<1>18. PICK abd : /\ abd = ab \o d /\ abd \in Seq(M) /\ Len(abd) = 1 + env + Len(files) /\ abd[1] = Msg("bootconfig")
                  /\ \A i \in 1..env : abd[1 + i] = Msg("setenv")
                  /\ \A i \in 1..Len(files) : abd[1 + env + i] = FileWrite(files[i])
  <2>0. ab \o d \in Seq(M) /\ Joined(ab \o d, ab, d)
    <3>1. ab \in Seq(M) /\ d \in Seq(M)
      BY <1>14, <1>17
    <3> QED
      BY ONLY <3>1, ConcatFacts
  <2> DEFINE r == ab \o d
  <2> HIDE DEF r
  <2>1. Len(r) = 1 + env + Len(files) /\ \A i \in 1..(1 + env) : r[i] = ab[i]
    BY <1>14, <1>17, <2>0 DEF r, Joined
  <2>2. \A i \in 1..Len(files) : r[1 + env + i] = d[i]
    BY <1>14, <1>17, <2>0 DEF r, Joined
  <2>3. r \in Seq(M)
    BY <2>0 DEF r
  <2>4. 1 \in 1..(1 + env) /\ \A i \in 1..env : 1 + i \in 1..(1 + env)
    BY <1>2
  <2> QED
    <3>1. /\ r = ab \o d /\ r \in Seq(M) /\ Len(r) = 1 + env + Len(files) /\ r[1] = Msg("bootconfig")
          /\ \A i \in 1..env : r[1 + i] = Msg("setenv")
      BY <1>17, <2>1, <2>3, <2>4 DEF r
    <3>2. \A i \in 1..Len(files) : r[1 + env + i] = FileWrite(files[i])
      BY <1>14, <2>2
    <3> QED
      BY ONLY <3>1, <3>2
<1>19. PICK n : n = Len(files) /\ n \in Nat
  BY <1>2
<1>20. PICK m : m = Len(setup) /\ m \in Nat
  BY <1>10
<1>21. PICK abde : /\ abde = abd \o e /\ abde \in Seq(M) /\ Len(abde) = 1 + env + n + m /\ abde[1] = Msg("bootconfig")
                   /\ \A i \in 1..env : abde[1 + i] = Msg("setenv")
                   /\ \A i \in 1..n : abde[1 + env + i] = FileWrite(files[i])
                   /\ \A i \in 1..m : abde[1 + env + n + i] = FileWrite(setup[i])
  <2>0. abd \o e \in Seq(M) /\ Joined(abd \o e, abd, e)
    <3>1. abd \in Seq(M) /\ e \in Seq(M)
      BY <1>15, <1>18
    <3> QED
      BY ONLY <3>1, ConcatFacts
  <2>1. Len(abd) = 1 + env + n /\ Len(e) = m
    BY <1>15, <1>18, <1>19, <1>20
  <2> DEFINE r == abd \o e
  <2> HIDE DEF r
  <2>2. /\ r \in Seq(M) /\ Len(r) = 1 + env + n + m
        /\ \A i \in 1..(1 + env + n) : r[i] = abd[i]
        /\ \A i \in 1..m : r[1 + env + n + i] = FileWrite(setup[i])
    BY <1>15, <1>20, <2>0, <2>1 DEF r, Joined
  <2>3. /\ abd[1] = Msg("bootconfig") /\ \A i \in 1..env : abd[1 + i] = Msg("setenv")
        /\ \A i \in 1..n : abd[1 + env + i] = FileWrite(files[i])
    BY <1>18, <1>19
  <2>4. /\ 1 \in 1..(1 + env + n) /\ \A i \in 1..env : 1 + i \in 1..(1 + env + n)
        /\ \A i \in 1..n : 1 + env + i \in 1..(1 + env + n)
    BY <1>2, <1>19
  <2> QED
    <3>1. /\ r = abd \o e /\ r \in Seq(M) /\ Len(r) = 1 + env + n + m /\ r[1] = Msg("bootconfig")
          /\ \A i \in 1..env : r[1 + i] = Msg("setenv")
      BY <2>2, <2>3, <2>4 DEF r
    <3>2. /\ \A i \in 1..n : r[1 + env + i] = FileWrite(files[i])
          /\ \A i \in 1..m : r[1 + env + n + i] = FileWrite(setup[i])
      BY <2>2, <2>3, <2>4
    <3> QED
      BY ONLY <3>1, <3>2
<1>22. /\ Len(s) = 2 + env + n + m /\ s[1] = Msg("bootconfig") /\ s[2 + env + n + m] = Msg("bootconfigdone")
       /\ \A i \in 1..env : s[1 + i] = Msg("setenv")
       /\ \A i \in 1..n : s[1 + env + i] = FileWrite(files[i])
       /\ \A i \in 1..m : s[1 + env + n + i] = FileWrite(setup[i])
  <2>1. s = abde \o f
    BY <1>16, <1>17, <1>18, <1>21
  <2>0. abde \o f \in Seq(M) /\ Joined(abde \o f, abde, f)
    <3>1. abde \in Seq(M) /\ f \in Seq(M)
      BY <1>12, <1>21
    <3> QED
      BY ONLY <3>1, ConcatFacts
  <2>2. Len(s) = (1 + env + n + m) + 1 /\ \A i \in 1..(1 + env + n + m) : s[i] = abde[i]
    BY <1>12, <1>21, <2>0, <2>1 DEF Joined
  <2>3. s[(1 + env + n + m) + 1] = f[1]
    BY <1>12, <1>21, <2>0, <2>1 DEF Joined
  <2>4. /\ 1 \in 1..(1 + env + n + m) /\ \A i \in 1..env : 1 + i \in 1..(1 + env + n + m)
        /\ \A i \in 1..n : 1 + env + i \in 1..(1 + env + n + m)
        /\ \A i \in 1..m : 1 + env + n + i \in 1..(1 + env + n + m)
        /\ (1 + env + n + m) + 1 = 2 + env + n + m
    BY <1>2, <1>19, <1>20
  <2> QED
    BY <1>12, <1>21, <2>2, <2>3, <2>4
<1>23. PICK g : /\ g = SentFiles(c) /\ g \in Seq(Nat) /\ Len(g) = n + m
                /\ \A i \in 1..n : g[i] = files[i]
                /\ \A i \in 1..m : g[n + i] = setup[i]
  <2>0. files \o setup \in Seq(Nat) /\ Joined(files \o setup, files, setup)
    <3>1. files \in Seq(Nat) /\ setup \in Seq(Nat)
      BY <1>2, <1>10
    <3> QED
      BY ONLY <3>1, ConcatFacts
  <2> QED
    BY <1>3, <1>19, <1>20, <2>0 DEF Joined
<1>24. ASSUME NEW j \in 1..(n + m) PROVE s[1 + env + j] = FileWrite(g[j])
  <2>1. CASE j \in 1..n
    BY <1>22, <1>23, <2>1
  <2>2. CASE j \notin 1..n
    <3>1. j - n \in 1..m /\ n + (j - n) = j /\ 1 + env + n + (j - n) = 1 + env + j
      BY <1>2, <1>19, <1>20, <2>2
    <3> QED
      BY <1>22, <1>23, <3>1
  <2> QED
    BY <2>1, <2>2
<1>25. BootOrder(s, env, g)
  <2>1. 2 + env + n + m = 2 + env + Len(g)
    BY <1>2, <1>19, <1>20, <1>23
  <2> QED
    BY <1>22, <1>23, <1>24, <2>1 DEF BootOrder
<1> QED
  BY <1>2, <1>16, <1>23, <1>25 DEF env

\* The messages of r are those of s from the one after n on.
Ahead(r, s, n) == Len(r) + n = Len(s) /\ \A i \in 1..Len(r) : r[i] = s[n + i]

\* e variables and k files have come, and each was taken or could not be written.
Untouched == [env |-> 0, files |-> 0, bytes |-> 0, failed |-> 0, skipped |-> 0]
Counts == [env : Nat, files : Nat, bytes : Nat, failed : Nat, skipped : Nat]
TakenOf(c, e, k) ==
    /\ applied.env = e /\ applied.skipped = 0 /\ applied.files <= k
    /\ \A P : Summed(SentFiles(c), P) => applied.bytes <= P[k]

Early == {"terminal", "control", "ready", "bootconfig"}

\* What is on the way to the agent, and what the host has still to write, is what
\* the agent has not applied yet of the configuration c.
DeliveryOf(c) ==
    /\ applied \in Counts
    /\ guest \in Early \cup {"config", "spawn", "bridge"}
    /\ guest \in Early =>
          /\ applied = Untouched
          /\ host \notin {"accept", "ready", "returned"} => Ahead(toGuest \o outbox, BootMessages(c), 0)
    /\ guest = "config" =>
          \E e \in 0..SentEnv(c), k \in 0..Len(SentFiles(c)) :
              (k = 0 \/ e = SentEnv(c)) /\ TakenOf(c, e, k) /\ Ahead(toGuest \o outbox, BootMessages(c), 1 + e + k)
    /\ guest \in {"spawn", "bridge"} =>
          /\ applied.env = SentEnv(c) /\ applied.skipped = 0 /\ outbox = << >>
          /\ \A i \in 1..Len(toGuest) : toGuest[i].t = "resize"

Delivery == /\ ~link => guest = "dead"
            /\ link /\ CanDeliver(config) => DeliveryOf(config)

DeliveryInv == BootInv /\ Delivery

\* A message passes from the host's list to the connection.
LEMMA AheadSent ==
    ASSUME NEW S, NEW p \in Seq(S), NEW q \in Seq(S), q # << >>
    PROVE  Append(p, Head(q)) \o Tail(q) = p \o q
  OBVIOUS

\* A message is read.
LEMMA AheadRead ==
    ASSUME NEW S, NEW p \in Seq(S), p # << >>, NEW q \in Seq(S), NEW s, NEW n \in Nat, Ahead(p \o q, s, n)
    PROVE  Head(p) = s[n + 1] /\ n < Len(s) /\ Ahead(Tail(p) \o q, s, n + 1)
<1>1. /\ Len(p \o q) = Len(p) + Len(q) /\ Len(Tail(p) \o q) + 1 = Len(p \o q) /\ Len(p) \in Nat \ {0} /\ Len(q) \in Nat
      /\ (p \o q)[1] = Head(p) /\ \A i \in 1..Len(Tail(p) \o q) : (Tail(p) \o q)[i] = (p \o q)[i + 1]
  OBVIOUS
<1> DEFINE r == p \o q
           v == Tail(p) \o q
<1> HIDE DEF r, v
<1>2. Len(r) \in Nat \ {0} /\ Len(v) + 1 = Len(r) /\ Len(v) \in Nat /\ r[1] = Head(p) /\ \A i \in 1..Len(v) : v[i] = r[i + 1]
  <2>1. Len(Tail(p) \o q) \in Nat
    OBVIOUS
  <2> QED
    BY <1>1, <2>1 DEF r, v
<1>3. Len(r) + n = Len(s) /\ \A i \in 1..Len(r) : r[i] = s[n + i]
  BY DEF Ahead, r
<1>4. Head(p) = s[n + 1] /\ n < Len(s) /\ Len(v) + (n + 1) = Len(s)
  <2>1. 1 \in 1..Len(r)
    BY <1>2
  <2>2. r[1] = s[n + 1]
    BY <1>3, <2>1
  <2>3. n < Len(r) + n /\ Len(v) + (n + 1) = Len(r) + n
    <3>1. PICK a \in Nat, b \in Nat : a = Len(r) /\ b = Len(v) /\ b + 1 = a
      BY <1>2
    <3>2. n < a + n /\ b + (n + 1) = a + n
      <4>1. n \in Nat /\ a \in Nat /\ b \in Nat /\ a \in Nat \ {0} /\ b + 1 = a
        BY <1>2, <3>1
      <4> QED
        BY ONLY <4>1
    <3> QED
      BY <3>1, <3>2
  <2> QED
    BY <1>2, <1>3, <2>2, <2>3
<1>5. ASSUME NEW i \in 1..Len(v) PROVE v[i] = s[(n + 1) + i]
  <2>1. i + 1 \in 1..Len(r) /\ n + (i + 1) = (n + 1) + i
    BY <1>2
  <2> QED
    BY <1>2, <1>3, <2>1
<1> QED
  BY <1>4, <1>5 DEF Ahead, v

\* The agent takes the next file of c over, or cannot write it; its own caps allow it.
LEMMA FileTaken ==
    ASSUME NEW c \in Configs, CanDeliver(c), NEW e, NEW k \in Nat, k < Len(SentFiles(c)),
           applied \in Counts, TakenOf(c, e, k), TakeFile(SentFiles(c)[k + 1])
    PROVE  applied' \in Counts /\ TakenOf(c, e, k + 1)'
<1>1. PICK g : g = SentFiles(c)
  OBVIOUS
<1>2. g \in Seq(Nat) /\ Len(g) <= MaxBootFiles /\ \E P : Summed(g, P)
  BY <1>1, SentFit DEF Fits
<1>3. PICK size \in Nat : size = g[k + 1]
  BY <1>1, <1>2
<1>4. k + 1 \in 1..Len(g) /\ (k + 1) - 1 = k /\ k \in 0..Len(g)
  BY <1>1, <1>2
<1>5. \A P : Summed(g, P) => P[k] \in Nat /\ P[k + 1] = P[k] + size /\ P[k + 1] <= MaxBootFileBytes
  BY <1>3, <1>4 DEF Summed
<1>6. /\ applied.env = e /\ applied.skipped = 0 /\ applied.files <= k
      /\ \A P : Summed(g, P) => applied.bytes <= P[k]
  BY <1>1 DEF TakenOf
<1>7. applied.files \in Nat /\ applied.bytes \in Nat /\ applied.failed \in Nat
  BY DEF Counts
<1>8. applied.files < MaxBootFiles /\ applied.bytes + size <= MaxBootFileBytes
  <2>1. PICK P : P[k] \in Nat /\ P[k] + size <= MaxBootFileBytes /\ applied.bytes <= P[k]
    BY <1>2, <1>5, <1>6
  <2>2. MaxBootFiles \in Nat /\ MaxBootFileBytes \in Nat /\ Len(g) \in Nat /\ k < Len(g)
    BY <1>1, <1>2, HandshakeAssumption
  <2>3. applied.files < MaxBootFiles
    BY <1>2, <1>6, <1>7, <2>2
  <2>4. applied.bytes + size <= MaxBootFileBytes
    BY <1>7, <2>1, <2>2
  <2> QED
    BY <2>3, <2>4
<1> DEFINE one == [applied EXCEPT !.files = @ + 1, !.bytes = @ + size]
           none == [applied EXCEPT !.failed = @ + 1]
<1>9. applied' = one \/ applied' = none
  <2>1. ~(applied.files >= MaxBootFiles) /\ ~(applied.bytes + size > MaxBootFileBytes)
    <3>1. MaxBootFiles \in Nat /\ MaxBootFileBytes \in Nat
      BY HandshakeAssumption
    <3>2. PICK f \in Nat, b \in Nat : f = applied.files /\ b = applied.bytes
      BY <1>7
    <3> QED
      BY <1>8, <3>1, <3>2
  <2>2. TakeFile(size)
    BY <1>1, <1>3
  <2> QED
    BY <2>1, <2>2 DEF TakeFile
<1>10. /\ one \in Counts /\ one.env = applied.env /\ one.skipped = applied.skipped
       /\ one.files = applied.files + 1 /\ one.bytes = applied.bytes + size
  <2>1. applied.files + 1 \in Nat /\ applied.bytes + size \in Nat
    BY <1>7
  <2>2. PICK f \in Nat, b \in Nat : f = applied.files + 1 /\ b = applied.bytes + size
    BY <2>1
  <2>3. one = [applied EXCEPT !.files = f, !.bytes = b]
    BY <2>2
  <2> HIDE DEF one
  <2>4. one \in Counts /\ one.env = applied.env /\ one.skipped = applied.skipped /\ one.files = f /\ one.bytes = b
    BY <2>3 DEF Counts
  <2> QED
    BY <2>2, <2>4
<1>11. /\ none \in Counts /\ none.env = applied.env /\ none.skipped = applied.skipped
       /\ none.files = applied.files /\ none.bytes = applied.bytes
  <2>1. PICK f \in Nat : f = applied.failed + 1
    BY <1>7
  <2>2. none = [applied EXCEPT !.failed = f]
    BY <2>1
  <2> HIDE DEF none
  <2> QED
    BY <2>2 DEF Counts
<1> HIDE DEF one, none
<1>12. \A P : Summed(g, P) => applied'.bytes <= P[k + 1]
  BY <1>5, <1>6, <1>7, <1>9, <1>10, <1>11
<1>13. applied'.env = e /\ applied'.skipped = 0 /\ applied'.files <= k + 1
  BY <1>6, <1>7, <1>9, <1>10, <1>11
<1> QED
  BY <1>1, <1>9, <1>10, <1>11, <1>12, <1>13 DEF TakenOf

\* A sequence over a set is one over a larger set.
LEMMA SeqGrows ==
    ASSUME NEW S, NEW T, S \subseteq T, NEW s \in Seq(S)
    PROVE  s \in Seq(T)
  OBVIOUS

LEMMA BootSequences ==
    ASSUME BootShape
    PROVE  /\ toGuest \in Seq([t : BootTypes \cup {"resize"}, size : Nat])
           /\ outbox \in Seq([t : BootTypes \cup {"resize"}, size : Nat])
<1>1. [t : BootTypes, size : Nat] \subseteq [t : BootTypes \cup {"resize"}, size : Nat]
  OBVIOUS
<1>2. outbox \in Seq([t : BootTypes, size : Nat]) /\ toGuest \in Seq([t : BootTypes \cup {"resize"}, size : Nat])
  BY DEF BootShape
<1> QED
  BY <1>1, <1>2, SeqGrows

\* The agent reads a message of its boot loop.
LEMMA BootMessageTaken ==
    ASSUME NEW c \in Configs, CanDeliver(c), DeliveryOf(c), BootShape, RecvBootMessage
    PROVE  DeliveryOf(c)'
<1>1. PICK s, env, g : s = BootMessages(c) /\ env = SentEnv(c) /\ g = SentFiles(c)
  OBVIOUS
<1>2. BootOrder(s, env, g) /\ env \in Nat /\ env <= MaxBootEnvVars /\ g \in Seq(Nat) /\ Len(g) \in Nat
      /\ MaxFrame \in Nat /\ MaxBootEnvVars \in Nat
  <2>1. env <= MaxBootEnvVars
    BY <1>1, HandshakeAssumption DEF SentEnv, Least
  <2> QED
    BY <1>1, <2>1, BootMessagesOrder, HandshakeAssumption
<1>3. /\ guest = "config" /\ toGuest # << >> /\ UNCHANGED <<host, outbox>>
      /\ toGuest \in Seq([t : BootTypes \cup {"resize"}, size : Nat])
      /\ outbox \in Seq([t : BootTypes \cup {"resize"}, size : Nat])
      /\ applied \in Counts
  BY BootSequences DEF RecvBootMessage, hostVars, DeliveryOf
<1>4. PICK e \in 0..env, k \in 0..Len(g) : (k = 0 \/ e = env) /\ TakenOf(c, e, k) /\ Ahead(toGuest \o outbox, s, 1 + e + k)
  BY <1>1, <1>3 DEF DeliveryOf
<1>5. PICK msg : msg = Head(toGuest)
  OBVIOUS
<1>6. 1 + e + k \in Nat
  BY <1>2, <1>4
<1>7. msg = s[(1 + e + k) + 1] /\ Ahead(Tail(toGuest) \o outbox, s, (1 + e + k) + 1)
  BY ONLY <1>3, <1>4, <1>5, <1>6, AheadRead
<1>8. msg.size <= MaxFrame => /\ toGuest' = Tail(toGuest)
                              /\ guest' = IF msg.t = "bootconfigdone" THEN "spawn" ELSE "config"
                              /\ msg.t = "setenv" => applied' = IF applied.env >= MaxBootEnvVars THEN applied
                                                               ELSE [applied EXCEPT !.env = @ + 1]
                              /\ msg.t = "filewrite" => TakeFile(msg.size)
                              /\ msg.t \notin {"setenv", "filewrite"} => applied' = applied
  <2>1. msg.size \in Nat
    <3>1. msg \in [t : BootTypes \cup {"resize"}, size : Nat]
      BY <1>3, <1>5, TailFacts
    <3> QED
      BY <3>1
  <2> SUFFICES ASSUME msg.size <= MaxFrame
               PROVE  /\ toGuest' = Tail(toGuest)
                      /\ guest' = IF msg.t = "bootconfigdone" THEN "spawn" ELSE "config"
                      /\ msg.t = "setenv" => applied' = IF applied.env >= MaxBootEnvVars THEN applied
                                                       ELSE [applied EXCEPT !.env = @ + 1]
                      /\ msg.t = "filewrite" => TakeFile(msg.size)
                      /\ msg.t \notin {"setenv", "filewrite"} => applied' = applied
    OBVIOUS
  <2>2. ~(msg.size > MaxFrame)
    BY <1>2, <2>1
  <2> QED
    BY <1>5, <2>2 DEF RecvBootMessage
<1>9. CASE e < env
  <2>1. k = 0 /\ e + 1 \in 1..env /\ (1 + e + k) + 1 = 1 + (e + 1) /\ (1 + e + k) + 1 = 1 + (e + 1) + k
    BY <1>2, <1>4, <1>9
  <2>2. msg = Msg("setenv")
    BY <1>2, <1>7, <2>1 DEF BootOrder
  <2>3. msg.t = "setenv" /\ msg.size <= MaxFrame
    BY <1>2, <2>2 DEF Msg
  <2>4. applied.env = e /\ ~(applied.env >= MaxBootEnvVars)
    BY <1>2, <1>4, <1>9 DEF TakenOf
  <2>5. toGuest' = Tail(toGuest) /\ guest' = "config" /\ applied' = [applied EXCEPT !.env = e + 1]
    BY <1>8, <2>3, <2>4
  <2>6. applied' \in Counts /\ applied'.env = e + 1 /\ applied'.skipped = applied.skipped
        /\ applied'.files = applied.files /\ applied'.bytes = applied.bytes
    <3>1. PICK f \in Nat : f = e + 1
      BY <2>1
    <3>2. applied' = [applied EXCEPT !.env = f]
      BY <2>5, <3>1
    <3> QED
      BY <1>3, <3>1, <3>2 DEF Counts
  <2>7. TakenOf(c, e + 1, k)'
    BY <1>4, <2>6 DEF TakenOf
  <2>8. Ahead(Tail(toGuest) \o outbox, s, 1 + (e + 1) + k)
    BY <1>7, <2>1
  <2>9. e + 1 \in 0..env
    BY <1>2, <2>1
  <2> QED
    BY <1>1, <1>3, <1>4, <2>1, <2>5, <2>6, <2>7, <2>8, <2>9 DEF DeliveryOf, Early
<1>10. CASE e = env /\ k < Len(g)
  <2>1. k \in Nat /\ k + 1 \in 1..Len(g) /\ (1 + e + k) + 1 = 1 + env + (k + 1) /\ (1 + e + k) + 1 = 1 + e + (k + 1)
    BY <1>2, <1>4, <1>10
  <2>2. msg = FileWrite(g[k + 1])
    BY <1>2, <1>7, <2>1 DEF BootOrder
  <2>3. g[k + 1] <= MaxFrame
    BY <1>1, <2>1, SentFit DEF Fits
  <2>4. msg.t = "filewrite" /\ msg.size = g[k + 1]
    BY <2>2 DEF FileWrite
  <2>5. toGuest' = Tail(toGuest) /\ guest' = "config" /\ TakeFile(g[k + 1])
    BY <1>8, <2>3, <2>4
  <2>6. applied' \in Counts /\ TakenOf(c, e, k + 1)'
    BY <1>1, <1>3, <1>4, <1>10, <2>1, <2>5, FileTaken
  <2>7. Ahead(Tail(toGuest) \o outbox, s, 1 + e + (k + 1))
    BY <1>7, <2>1
  <2>8. k + 1 \in 0..Len(g)
    BY <1>2, <2>1
  <2> QED
    BY <1>1, <1>3, <1>4, <1>10, <2>5, <2>6, <2>7, <2>8 DEF DeliveryOf, Early
<1>11. CASE e = env /\ k = Len(g)
  <2>1. (1 + e + k) + 1 = 2 + env + Len(g)
    BY <1>2, <1>11
  <2>2. msg = Msg("bootconfigdone") /\ Len(s) = (1 + e + k) + 1
    BY <1>2, <1>7, <2>1 DEF BootOrder
  <2>3. msg.t = "bootconfigdone" /\ msg.size <= MaxFrame
    BY <1>2, <2>2 DEF Msg
  <2>4. toGuest' = Tail(toGuest) /\ guest' = "spawn" /\ applied' = applied
    BY <1>8, <2>3
  <2> DEFINE T == [t : BootTypes \cup {"resize"}, size : Nat]
             rest == Tail(toGuest) \o outbox
  <2>5. Len(rest) \in Nat /\ Len(Tail(toGuest)) \in Nat /\ Len(outbox) \in Nat
        /\ Len(rest) = Len(Tail(toGuest)) + Len(outbox)
    <3>1. Tail(toGuest) \in Seq(T) /\ outbox \in Seq(T)
      BY <1>3, TailFacts
    <3> QED
      BY ONLY <3>1
  <2>6. Tail(toGuest) = << >> /\ outbox = << >>
    <3>1. Len(rest) + ((1 + e + k) + 1) = Len(s)
      BY <1>7 DEF Ahead
    <3> HIDE DEF rest
    <3>2. PICK x \in Nat, y \in Nat, z \in Nat : x = Len(rest) /\ y = Len(Tail(toGuest)) /\ z = Len(outbox) /\ x = y + z
      BY <2>5
    <3>5. PICK m \in Nat : m = (1 + e + k) + 1
      BY <1>6
    <3>6. x + m = m
      BY <2>2, <3>1, <3>2, <3>5
    <3>7. y = 0 /\ z = 0
      <4>1. x \in Nat /\ y \in Nat /\ z \in Nat /\ m \in Nat /\ x = y + z
        BY <3>2
      <4> QED
        BY ONLY <3>6, <4>1
    <3>3. Len(Tail(toGuest)) = 0 /\ Len(outbox) = 0
      BY <3>2, <3>7
    <3>4. Tail(toGuest) \in Seq(T) /\ outbox \in Seq(T)
      BY <1>3, TailFacts
    <3> QED
      BY <3>3, <3>4, EmptySeq
  <2>7. applied.env = env /\ applied.skipped = 0
    BY <1>4, <1>11 DEF TakenOf
  <2>8. \A i \in 1..Len(<< >>) : <<>>[i].t = "resize"
    OBVIOUS
  <2> QED
    BY <1>1, <1>3, <2>4, <2>6, <2>7, <2>8 DEF DeliveryOf, Early
<1> QED
  BY <1>2, <1>4, <1>9, <1>10, <1>11

LEMMA DeliveryStep ==
    ASSUME BootInv, Delivery, [Next]_vars
    PROVE  Delivery'
<1>0. BootShape /\ GuestStage
  BY DEF BootInv
<1>1. PICK c \in Configs : c = config
  BY <1>0 DEF BootShape
<1>2. config' = config /\ (~link => guest = "dead")
  BY DEF Delivery, Next, vars, HostStep, GuestStep, AcceptConnection, VsockConnected, AwaitReady, SendBootMessage,
     AwaitBootReady, EnterRunning, ServeConnection, HandleGuestMessage, HostCommand, StopVm, GuestGone, GuestEvent,
     Connect, SendReady, SendToHost, RecvBootConfig, RecvBootMessage, SendBootReady, SendBootReadyDeaf, RecvCommand,
     WatcherConnect
<1>3. (link' => link) /\ (~link' => guest' = "dead")
  <2>1. CASE GuestGone
    BY <2>1 DEF GuestGone
  <2>2. CASE HostStep \/ HostCommand \/ StopVm \/ (\E w \in Watchers : WatcherConnect(w)) \/ UNCHANGED vars
    BY <1>2, <2>2 DEF vars, HostStep, AcceptConnection, VsockConnected, AwaitReady, SendBootMessage, AwaitBootReady,
       EnterRunning, ServeConnection, HandleGuestMessage, HostCommand, StopVm, WatcherConnect, guestVars
  <2>3. CASE GuestStep \/ GuestEvent
    BY <1>2, <2>3 DEF GuestStep, GuestEvent, Connect, SendReady, SendToHost, RecvBootConfig, RecvBootMessage,
       SendBootReady, SendBootReadyDeaf, RecvCommand, guestVars
  <2> QED
    BY <2>1, <2>2, <2>3 DEF Next
<1>4. SUFFICES ASSUME link', CanDeliver(c) PROVE DeliveryOf(c)'
  BY <1>1, <1>2, <1>3 DEF Delivery
<1>5. link /\ DeliveryOf(c)
  BY <1>1, <1>3, <1>4 DEF Delivery
<1>6. ASSUME UNCHANGED <<applied, guest, outbox, toGuest>>,
             host' \notin {"accept", "ready", "returned"} => host \notin {"accept", "ready", "returned"}
      PROVE  DeliveryOf(c)'
  BY <1>5, <1>6 DEF DeliveryOf, TakenOf
<1>7. CASE AcceptConnection \/ VsockConnected \/ AwaitBootReady \/ EnterRunning \/ ServeConnection \/ HandleGuestMessage
  BY <1>6, <1>7 DEF AcceptConnection, VsockConnected, AwaitBootReady, EnterRunning, ServeConnection, HandleGuestMessage,
     guestVars, hostVars
<1>8. CASE StopVm \/ (\E w \in Watchers : WatcherConnect(w)) \/ UNCHANGED vars
  BY <1>6, <1>8 DEF StopVm, WatcherConnect, guestVars, hostVars, vars
<1>9. CASE AwaitReady
  <2>1. /\ host = "ready" /\ host' = "config" /\ outbox' = BootMessages(c) /\ UNCHANGED <<guest, applied, toGuest>>
        /\ toGuest = << >>
    BY <1>0, <1>1, <1>9 DEF AwaitReady, guestVars, GuestStage
  <2>2. guest \in Early
    BY <1>0, <1>5, <2>1 DEF GuestStage, DeliveryOf, Early
  <2>3. Ahead(<< >> \o outbox', BootMessages(c), 0)
    <3>1. PICK s \in Seq([t : BootTypes, size : Nat]) : s = BootMessages(c)
      BY BootMessagesType
    <3>2. << >> \o s = s /\ Len(s) \in Nat
      BY <3>1
    <3> QED
      BY <2>1, <3>1, <3>2 DEF Ahead
  <2> QED
    BY <1>5, <2>1, <2>2, <2>3 DEF DeliveryOf, Early
<1>10. CASE SendBootMessage
  <2>1. /\ host = "config" /\ host' \in {"config", "bootready"} /\ UNCHANGED <<guest, applied>>
        /\ toGuest' = Append(toGuest, Head(outbox)) /\ outbox' = Tail(outbox) /\ outbox # << >>
    BY <1>0, <1>5, <1>10 DEF SendBootMessage, guestVars, BootShape
  <2>2. toGuest' \o outbox' = toGuest \o outbox
    <3>1. /\ toGuest \in Seq([t : BootTypes \cup {"resize"}, size : Nat])
          /\ outbox \in Seq([t : BootTypes \cup {"resize"}, size : Nat])
      BY <1>0, BootSequences
    <3> QED
      BY <2>1, <3>1, AheadSent
  <2>3. guest \in Early \cup {"config"}
    BY <1>5, <2>1 DEF DeliveryOf
  <2> QED
    BY <1>5, <2>1, <2>2, <2>3 DEF DeliveryOf, TakenOf, Early
<1>11. CASE HostCommand
  <2>1. UNCHANGED <<guest, applied, outbox, host>> /\ toGuest' = Append(toGuest, Msg("resize")) /\ hasFds
    BY <1>11 DEF HostCommand, guestVars, hostVars
  <2>2. guest = "bridge"
    BY <1>0, <1>5, <2>1 DEF GuestStage, DeliveryOf, Late, Early
  <2>3. \A i \in 1..Len(toGuest') : toGuest'[i].t = "resize"
    <3>1. Msg("resize") \in [t : BootTypes \cup {"resize"}, size : Nat] /\ Msg("resize").t = "resize"
      BY DEF Msg
    <3>2. toGuest \in Seq([t : BootTypes \cup {"resize"}, size : Nat])
      BY <1>0 DEF BootShape
    <3>3. \A i \in 1..Len(toGuest') : toGuest'[i] = Msg("resize") \/ (i \in 1..Len(toGuest) /\ toGuest'[i] = toGuest[i])
      BY <2>1, <3>1, <3>2, AppendFacts
    <3> QED
      BY <1>5, <2>2, <3>1, <3>3 DEF DeliveryOf
  <2> QED
    BY <1>5, <2>1, <2>2, <2>3 DEF DeliveryOf, Early
<1>12. CASE GuestGone
  BY <1>4, <1>12 DEF GuestGone
<1>13. CASE Connect("terminal", "control") \/ Connect("control", "ready") \/ SendReady
  <2>1. guest \in Early /\ guest' \in Early /\ UNCHANGED <<applied, toGuest, outbox, host>>
    BY <1>13 DEF Connect, SendReady, SendToHost, hostVars, Early
  <2> QED
    BY <1>5, <2>1 DEF DeliveryOf, Early
<1>14. CASE RecvBootConfig
  <2>1. /\ guest = "bootconfig" /\ guest' = "config" /\ toGuest # << >> /\ toGuest' = Tail(toGuest)
        /\ UNCHANGED <<applied, outbox, host>>
    BY <1>14 DEF RecvBootConfig, hostVars
  <2>2. applied = Untouched /\ Ahead(toGuest \o outbox, BootMessages(c), 0)
    BY <1>0, <1>5, <2>1 DEF DeliveryOf, Early, GuestStage
  <2>3. Ahead(Tail(toGuest) \o outbox, BootMessages(c), 0 + 1)
    <3>1. /\ toGuest \in Seq([t : BootTypes \cup {"resize"}, size : Nat])
          /\ outbox \in Seq([t : BootTypes \cup {"resize"}, size : Nat])
      BY <1>0, BootSequences
    <3> QED
      BY <2>1, <2>2, <3>1, AheadRead
  <2>4. SentEnv(c) \in Nat /\ Len(SentFiles(c)) \in Nat
    BY BootMessagesOrder
  <2>5. 0 \in 0..SentEnv(c) /\ 0 \in 0..Len(SentFiles(c)) /\ 0 + 1 = 1 + 0 + 0
    BY <2>4
  <2>6. applied \in Counts /\ TakenOf(c, 0, 0)
    BY <2>2 DEF TakenOf, Untouched, Counts, Summed
  <2>7. TakenOf(c, 0, 0)'
    BY <2>1, <2>6 DEF TakenOf
  <2>8. Ahead(toGuest' \o outbox', BootMessages(c), 1 + 0 + 0)
    BY <2>1, <2>3, <2>5
  <2> QED
    BY <2>1, <2>5, <2>6, <2>7, <2>8 DEF DeliveryOf, Early
<1>15. CASE RecvBootMessage
  BY <1>0, <1>4, <1>5, <1>15, BootMessageTaken
<1>16. CASE SendBootReady \/ SendBootReadyDeaf \/ GuestEvent
  <2>1. UNCHANGED <<applied, toGuest, outbox, host>> /\ guest \in {"spawn", "bridge"} /\ guest' = "bridge"
    BY <1>5, <1>16 DEF SendBootReady, SendBootReadyDeaf, GuestEvent, SendToHost, hostVars, DeliveryOf, Early
  <2> QED
    BY <1>5, <2>1 DEF DeliveryOf, Early
<1>17. CASE RecvCommand
  <2>1. UNCHANGED <<applied, outbox, host, guest>> /\ guest = "bridge" /\ toGuest # << >> /\ toGuest' = Tail(toGuest)
    BY <1>17 DEF RecvCommand, hostVars, guestVars
  <2>2. \A i \in 1..Len(toGuest') : toGuest'[i].t = "resize"
    BY <1>0, <1>5, <2>1, TailFacts DEF DeliveryOf, BootShape
  <2> QED
    BY <1>5, <2>1, <2>2 DEF DeliveryOf, Early
<1> QED
  BY <1>7, <1>8, <1>9, <1>10, <1>11, <1>12, <1>13, <1>14, <1>15, <1>16, <1>17 DEF Next, HostStep, GuestStep

\* When the host declares the guest Running and the agent answers, the whole boot
\* configuration is applied: no variable is missing, no file was skipped by the agent's
\* own caps, and nothing of it is still on the way; for any configuration and any caps.
THEOREM ConfigIsApplied == Spec => []ConfigApplied
<1>1. Init => BootInv /\ Delivery
  <2> SUFFICES ASSUME Init PROVE BootInv /\ Delivery
    OBVIOUS
  <2>1. BootInv
    BY DEF Init, InitWith, BootInv, BootShape, GuestStage, HostStage
  <2>2. Delivery
    BY DEF Init, InitWith, Delivery, DeliveryOf, Early, Untouched, Counts
  <2> QED
    BY <2>1, <2>2
<1>2. BootInv /\ Delivery /\ [Next]_vars => (BootInv /\ Delivery)'
  BY BootStep, DeliveryStep
<1>3. BootInv /\ Delivery => ConfigApplied
  <2> SUFFICES ASSUME BootInv, Delivery, guest \in {"bridge", "deaf"}, Deliverable
               PROVE  /\ applied.env = Least(config.env, MaxBootEnvVars) /\ applied.skipped = 0
                      /\ \A i \in DOMAIN toGuest : toGuest[i].t = "resize"
    BY DEF ConfigApplied
  <2>1. config.files \in Seq(Nat) /\ DOMAIN toGuest = 1..Len(toGuest)
    BY HandshakeAssumption DEF BootInv, BootShape
  <2>2. CanDeliver(config)
    BY <2>1 DEF Deliverable, CanDeliver
  <2>3. link
    BY DEF Delivery
  <2>4. DeliveryOf(config)
    BY <2>2, <2>3 DEF Delivery
  <2> QED
    BY <2>1, <2>4 DEF DeliveryOf, SentEnv, Early
<1> QED
  BY <1>1, <1>2, <1>3, PTL DEF Spec

------------------------------------------------------------------------------
(* The MCP gateway.                                                        *)

AgentFields == {"pc", "n", "line", "answer", "row", "next", "got", "done"}
AnyLine == {NoLine} \cup UNION {Lines[a] : a \in Agents}
Asks == [for : Agents \X Nat, name : {line.name : line \in AnyLine}]
Replies == [kind : {"notification", "request", "blank", "result"}, for : (Agents \X Nat) \cup {<< >>}]
ServerStates == {"off", "absent", "running", "dead"}

\* The types, as far as they matter.
McpShape ==
    /\ DOMAIN agent = Agents
    /\ \A a \in Agents : DOMAIN agent[a] = AgentFields /\ agent[a].n \in Nat /\ agent[a].line \in AnyLine
    /\ manager \in Seq(Agents)
    /\ server \in [Servers -> [state : ServerStates, stdin : Seq(Asks), stdout : Seq(Replies)]]

\* The lock is waited for once by each connection that needs it, a connection that
\* waits for the answer of a server holds it, and that server is one of the defined.
LockInv ==
    /\ \A i, j \in 1..Len(manager) : manager[i] = manager[j] => i = j
    /\ \A a \in Agents : (\E i \in 1..Len(manager) : manager[i] = a) <=> agent[a].pc \in {"lock", "await"}
    /\ \A a \in Agents : agent[a].pc = "await" => HoldsManager(a) /\ Target(a) \in Servers
    /\ \A a \in Agents : agent[a].pc = "lock" => agent[a].line.method \in NeedsLock \cup {"tools/call"}

\* Me is the request of a connection that waits for an answer of server v.
Awaited(v, me) == \E a \in Agents : agent[a].pc = "await" /\ Target(a) = v /\ me = Me(a)

\* What the server v was asked and has written: at most one request or answer is on
\* its way, and the connection that waits for v asked for it.  What a server that
\* died was asked stays in its stdin and is never answered.
PipeInv(v) ==
    LET out == server[v].stdout  in == server[v].stdin
    IN /\ server[v].state \in {"off", "absent"} => in = << >> /\ out = << >>
       /\ \A i \in 1..Len(out) : /\ out[i].kind \in {"notification", "result"}
                                 /\ out[i].kind = "result" => Awaited(v, out[i].for)
       /\ \A i, j \in 1..Len(out) : out[i].kind = "result" /\ out[j].kind = "result" => i = j
       /\ server[v].state = "running" =>
             /\ Len(in) <= 1 /\ \A i \in 1..Len(in) : Awaited(v, in[i].for)
             /\ in # << >> => \A i \in 1..Len(out) : out[i].kind # "result"

OwnAnswer(a) == agent[a].pc = "log" => agent[a].answer.for = Me(a)

McpInv ==
    /\ McpShape /\ LockInv
    /\ ~noisy => /\ \A v \in Servers : PipeInv(v)
                 /\ \A a \in Agents : OwnAnswer(a)

\* A connection changes and keeps its request.
Changes(a) ==
    /\ DOMAIN agent' = Agents /\ DOMAIN agent'[a] = AgentFields
    /\ \A b \in Agents \ {a} : agent'[b] = agent[b]
    /\ agent'[a].n = agent[a].n /\ agent'[a].line = agent[a].line

\* It keeps its place in the page.
StaysOnPage(a) ==
    agent'[a].next = agent[a].next /\ agent'[a].got = agent[a].got /\ agent'[a].done = agent[a].done

\* The two usual changes of a connection.
LEMMA AnsweredEffect ==
    ASSUME McpShape, NEW a \in Agents, NEW kind, Answered(a, kind)
    PROVE  Changes(a) /\ StaysOnPage(a) /\ agent'[a].pc = "log" /\ agent'[a].answer.for = Me(a)
<1>1. Reply(kind, Me(a)).for = Me(a)
  BY DEF Reply
<1> QED BY <1>1 DEF McpShape, Answered, Changes, StaysOnPage, AgentFields

LEMMA PcEffect ==
    ASSUME McpShape, NEW a \in Agents, NEW pc, agent' = [agent EXCEPT ![a].pc = pc]
    PROVE  Changes(a) /\ StaysOnPage(a) /\ agent'[a].pc = pc
  BY DEF McpShape, Changes, StaysOnPage, AgentFields

\* The connection goes on where the part of the page ended.
TurnsPage(a) ==
    \E max \in 1..2 : LET part == Paginate(agent[a].next, max)
                      IN /\ agent'[a].next = part.to /\ agent'[a].got = agent[a].got + part.to - part.from
                         /\ agent'[a].done = ~part.more

LEMMA PartEffect ==
    ASSUME McpShape, NEW a \in Agents, NEW told \in BOOLEAN, ReturnPart(a, told)
    PROVE  /\ Changes(a) /\ agent'[a].pc \in {"log", "ended"} /\ (agent'[a].pc = "log" => agent'[a].answer.for = Me(a))
           /\ StaysOnPage(a) \/ TurnsPage(a)
<1> DEFINE logged == [agent[a] EXCEPT !.pc = "log", !.answer = Reply("result", Me(a))]
           Good(r) == /\ DOMAIN r = AgentFields /\ r.n = agent[a].n /\ r.line = agent[a].line
                      /\ r.pc \in {"log", "ended"} /\ (r.pc = "log" => r.answer.for = Me(a))
           At(r, next, got, done) == r.next = next /\ r.got = got /\ r.done = done
           Turned(to, more, end) == [logged EXCEPT !.next = to, !.got = more, !.done = end]
<1>1. PICK next, got, done : next = agent[a].next /\ got = agent[a].got /\ done = agent[a].done
  OBVIOUS
<1>2. /\ Good(logged) /\ At(logged, next, got, done)
      /\ Good([agent[a] EXCEPT !.pc = "ended"]) /\ At([agent[a] EXCEPT !.pc = "ended"], next, got, done)
  BY <1>1 DEF McpShape, AgentFields, Reply
<1>3. ASSUME NEW to, NEW more, NEW end
      PROVE  Good(Turned(to, more, end)) /\ At(Turned(to, more, end), to, more, end)
  BY DEF McpShape, AgentFields, Reply
<1>4. PICK max \in 1..2 :
        agent' = [agent EXCEPT ![a] =
          LET part == Paginate(agent[a].next, max)
          IN CASE Panics(part) -> [agent[a] EXCEPT !.pc = "ended"]
               [] ~Panics(part) /\ told -> Turned(part.to, logged.got + part.to - part.from, ~part.more)
               [] OTHER -> logged]
  BY Zenon DEF ReturnPart
<1> HIDE DEF logged, Good, Turned
<1>5. PICK part : part = Paginate(next, max)
  OBVIOUS
<1>6. PICK r : /\ Good(r) /\ agent' = [agent EXCEPT ![a] = r]
               /\ At(r, next, got, done) \/ At(r, part.to, got + part.to - part.from, ~part.more)
  <2>1. CASE Panics(part)
    BY <1>1, <1>2, <1>4, <1>5, <2>1
  <2>2. CASE ~Panics(part) /\ told
    <3>1. PICK read : read = logged.got + part.to - part.from
      OBVIOUS
    <3>2. PICK new : new = Turned(part.to, read, ~part.more)
      OBVIOUS
    <3>3. Good(new) /\ At(new, part.to, read, ~part.more)
      <4> HIDE DEF At
      <4> QED BY ONLY <1>3, <3>2, Zenon
    <3>4. read = got + part.to - part.from
      BY <1>2, <3>1
    <3>5. agent' = [agent EXCEPT ![a] = new]
      BY <1>1, <1>4, <1>5, <2>2, <3>1, <3>2
    <3> QED BY <3>3, <3>4, <3>5
  <2>3. CASE ~Panics(part) /\ ~told
    BY <1>1, <1>2, <1>4, <1>5, <2>3
  <2> QED BY <2>1, <2>2, <2>3
<1>7. agent'[a] = r /\ DOMAIN agent' = Agents /\ \A b \in Agents \ {a} : agent'[b] = agent[b]
  BY <1>6 DEF McpShape
<1> QED BY <1>1, <1>5, <1>6, <1>7 DEF Good, Changes, StaysOnPage, TurnsPage

\* A connection that neither has nor takes the lock disturbs nothing.
LEMMA AgentMoves ==
    ASSUME McpInv, NEW a \in Agents, UNCHANGED <<manager, server, noisy>>,
           DOMAIN agent' = Agents, DOMAIN agent'[a] = AgentFields, \A b \in Agents \ {a} : agent'[b] = agent[b],
           agent'[a].n \in Nat, agent'[a].line \in AnyLine,
           agent[a].pc \notin {"lock", "await"}, agent'[a].pc \notin {"lock", "await"},
           agent'[a].pc = "log" => agent'[a].answer.for = <<a, agent'[a].n>>
    PROVE  McpInv'
<1>1. McpShape'
  BY DEF McpInv, McpShape
<1>2. LockInv'
  BY DEF McpInv, LockInv, HoldsManager, Target
<1>3. ASSUME NEW v \in Servers, NEW me, Awaited(v, me) PROVE Awaited(v, me)'
  BY <1>3 DEF Awaited, Target, Me
<1>4. ASSUME ~noisy', NEW v \in Servers PROVE PipeInv(v)'
  <2>1. PipeInv(v) /\ server' = server
    BY <1>4 DEF McpInv
  <2> QED BY <1>3, <2>1 DEF PipeInv
<1>5. ASSUME ~noisy', NEW b \in Agents PROVE OwnAnswer(b)'
  BY <1>5 DEF McpInv, OwnAnswer, Me
<1> QED BY <1>1, <1>2, <1>4, <1>5 DEF McpInv

\* The same with the effect of an answer or a new place.
LEMMA AgentAnswers ==
    ASSUME McpInv, NEW a \in Agents, UNCHANGED <<manager, server, noisy>>, Changes(a),
           agent[a].pc \notin {"lock", "await"}, agent'[a].pc \notin {"lock", "await"},
           agent'[a].pc = "log" => agent'[a].answer.for = Me(a)
    PROVE  McpInv'
<1>1. agent'[a].n \in Nat /\ agent'[a].line \in AnyLine
  BY DEF McpInv, McpShape, Changes
<1>2. agent'[a].pc = "log" => agent'[a].answer.for = <<a, agent'[a].n>>
  BY DEF Changes, Me
<1> QED BY <1>1, <1>2, AgentMoves DEF Changes

\* The holder gives the lock back and has its answer.
LEMMA LockReleased ==
    ASSUME McpInv, NEW a \in Agents, Changes(a), agent'[a].pc = "log", HoldsManager(a),
           manager' = Tail(manager), agent[a].pc \in {"lock", "await"}
    PROVE  LockInv' /\ manager' \in Seq(Agents)
<1>1. manager \in Seq(Agents) /\ manager # << >> /\ manager[1] = a
  BY DEF McpInv, McpShape, HoldsManager
<1>2. /\ manager' \in Seq(Agents) /\ Len(manager') = Len(manager) - 1 /\ Len(manager) \in Nat
      /\ \A i \in 1..Len(manager') : manager'[i] = manager[i + 1] /\ i + 1 \in 1..Len(manager)
      /\ \A i \in 1..Len(manager) : i # 1 => i - 1 \in 1..Len(manager') /\ manager[i] = manager'[i - 1]
  BY <1>1
<1>3. LockInv
  BY DEF McpInv
<1>4. \A i, j \in 1..Len(manager') : manager'[i] = manager'[j] => i = j
  BY <1>2, <1>3 DEF LockInv
<1>5. ASSUME NEW b \in Agents PROVE (\E i \in 1..Len(manager') : manager'[i] = b) <=> agent'[b].pc \in {"lock", "await"}
  <2>1. CASE b = a
    <3>1. 1 \in 1..Len(manager)
      BY <1>1, <1>2
    <3>2. ASSUME NEW i \in 1..Len(manager'), manager'[i] = a PROVE FALSE
      <4>1. manager[i + 1] = manager[1] /\ i + 1 \in 1..Len(manager)
        BY <1>1, <1>2, <3>2
      <4>2. i + 1 = 1
        BY <1>3, <3>1, <4>1 DEF LockInv
      <4> QED BY <4>2
    <3> QED BY <2>1, <3>2
  <2>2. CASE b # a
    <3>1. agent'[b] = agent[b]
      BY <2>2 DEF Changes
    <3>2. (\E i \in 1..Len(manager') : manager'[i] = b) <=> (\E i \in 1..Len(manager) : manager[i] = b)
      BY <1>1, <1>2, <2>2
    <3> QED BY <1>3, <3>1, <3>2 DEF LockInv
  <2> QED BY <2>1, <2>2
<1>6. ASSUME NEW b \in Agents, agent'[b].pc = "await" PROVE FALSE
  <2>1. b # a /\ agent[b].pc = "await"
    BY <1>6 DEF Changes
  <2>2. HoldsManager(b)
    BY <1>3, <2>1 DEF LockInv
  <2> QED BY <2>1, <2>2 DEF HoldsManager
<1>7. \A b \in Agents : agent'[b].pc = "lock" => agent'[b].line.method \in NeedsLock \cup {"tools/call"}
  BY <1>3 DEF LockInv, Changes
<1> QED BY <1>2, <1>4, <1>5, <1>6, <1>7 DEF LockInv

\* Only the holder of the lock waits for an answer.
LEMMA OneAwaits ==
    ASSUME LockInv, NEW a \in Agents, HoldsManager(a), NEW v, NEW me, Awaited(v, me)
    PROVE  agent[a].pc = "await" /\ v = Target(a) /\ me = Me(a)
  BY DEF LockInv, HoldsManager, Awaited

\* Nothing of the lock or of an answer depends on the servers.
LEMMA ServerMoves ==
    ASSUME McpInv, UNCHANGED <<agent, manager>>,
           server' \in [Servers -> [state : ServerStates, stdin : Seq(Asks), stdout : Seq(Replies)]],
           ~noisy' => ~noisy /\ \A v \in Servers : PipeInv(v)'
    PROVE  McpInv'
<1>1. McpShape'
  BY DEF McpInv, McpShape
<1>2. LockInv'
  BY DEF McpInv, LockInv, HoldsManager, Target
<1>3. ASSUME ~noisy', NEW a \in Agents PROVE OwnAnswer(a)'
  BY <1>3 DEF McpInv, OwnAnswer, Me
<1> QED BY <1>1, <1>2, <1>3 DEF McpInv

\* The next line of the guest.
LEMMA ReadLineStep ==
    ASSUME McpInv, NEW a \in Agents, ReadLine(a)
    PROVE  McpInv'
<1>1. McpShape /\ agent[a].pc = "read" /\ UNCHANGED <<manager, server, noisy>>
  BY DEF McpInv, ReadLine
<1>2. CASE agent' = [agent EXCEPT ![a].pc = "ended"]
  <2>1. Changes(a) /\ agent'[a].pc = "ended"
    BY <1>1, <1>2, PcEffect
  <2> QED BY <1>1, <2>1, AgentAnswers
<1>3. ASSUME NEW line \in Lines[a],
             agent' = [agent EXCEPT ![a].n = @ + 1, ![a].line = line, ![a].row = "none",
                                    ![a].pc = IF line.method \in {"blank", "bad"} THEN "read" ELSE "handle"]
      PROVE  McpInv'
  <2> DEFINE r == [agent[a] EXCEPT !.n = @ + 1, !.line = line, !.row = "none",
                                   !.pc = IF line.method \in {"blank", "bad"} THEN "read" ELSE "handle"]
  <2>1. agent' = [agent EXCEPT ![a] = r]
    BY <1>3
  <2>2. DOMAIN r = AgentFields /\ r.n = agent[a].n + 1 /\ r.line = line /\ r.pc \in {"read", "handle"}
    BY <1>1 DEF McpShape, AgentFields
  <2> HIDE DEF r
  <2>3. DOMAIN agent' = Agents /\ agent'[a] = r /\ \A b \in Agents \ {a} : agent'[b] = agent[b]
    BY <1>1, <2>1 DEF McpShape
  <2>4. agent'[a].n \in Nat /\ agent'[a].line \in AnyLine
    BY <1>1, <2>2, <2>3 DEF McpShape, AnyLine
  <2>5. agent'[a].pc \notin {"lock", "await", "log"} /\ DOMAIN agent'[a] = AgentFields
    BY <2>2, <2>3
  <2> QED BY <1>1, <2>3, <2>4, <2>5, AgentMoves
<1> QED BY <1>2, <1>3 DEF ReadLine

\* A request up to the lock.
LEMMA HandleStep ==
    ASSUME McpInv, NEW a \in Agents, Handle(a)
    PROVE  McpInv'
<1>1. McpShape /\ agent[a].pc = "handle" /\ UNCHANGED <<server, noisy>>
      /\ manager' = IF agent'[a].pc = "lock" THEN Append(manager, a) ELSE manager
  BY DEF McpInv, Handle
<1>2. \/ agent' = [agent EXCEPT ![a].pc = "read"]
      \/ \E kind \in {"error", "blocked", "result"} : Answered(a, kind)
      \/ /\ agent' = [agent EXCEPT ![a].pc = "lock"]
         /\ agent[a].line.method \in NeedsLock \cup {"tools/call"}
  <2>1. \/ agent' = [agent EXCEPT ![a].pc = "read"]
        \/ Answered(a, "error") \/ Answered(a, "blocked") \/ Answered(a, "result")
        \/ /\ agent' = [agent EXCEPT ![a].pc = "lock"]
           /\ agent[a].line.method \in NeedsLock \/ agent[a].line.method = "tools/call"
    BY DEF Handle
  <2> QED BY <2>1
<1>3. CASE agent' = [agent EXCEPT ![a].pc = "read"]
  <2>1. Changes(a) /\ agent'[a].pc = "read"
    BY <1>1, <1>3, PcEffect
  <2> QED BY <1>1, <2>1, AgentAnswers
<1>4. ASSUME NEW kind, Answered(a, kind) PROVE McpInv'
  <2>1. Changes(a) /\ agent'[a].pc = "log" /\ agent'[a].answer.for = Me(a)
    BY <1>1, <1>4, AnsweredEffect
  <2> QED BY <1>1, <2>1, AgentAnswers
<1>5. ASSUME agent' = [agent EXCEPT ![a].pc = "lock"], agent[a].line.method \in NeedsLock \cup {"tools/call"}
      PROVE  McpInv'
  <2>1. Changes(a) /\ agent'[a].pc = "lock"
    BY <1>1, <1>5, PcEffect
  <2>2. manager \in Seq(Agents) /\ manager' = Append(manager, a) /\ LockInv
    BY <1>1, <2>1 DEF McpInv, McpShape
  <2>3. McpShape'
    <3>1. manager' \in Seq(Agents) /\ server' = server
      BY <1>1, <2>2
    <3>2. \A b \in Agents : DOMAIN agent'[b] = AgentFields /\ agent'[b].n \in Nat /\ agent'[b].line \in AnyLine
      BY <1>1, <2>1 DEF McpShape, Changes
    <3> QED BY <1>1, <2>1, <3>1, <3>2 DEF McpShape, Changes
  <2>4. LockInv'
    <3>1. /\ Len(manager') = Len(manager) + 1 /\ Len(manager) \in Nat /\ manager'[Len(manager) + 1] = a
          /\ \A i \in 1..Len(manager) : manager'[i] = manager[i]
          /\ manager # << >> => Head(manager') = Head(manager) /\ manager' # << >>
      BY <2>2
    <3>2. \A i \in 1..Len(manager) : manager[i] # a
      BY <1>1, <2>2 DEF LockInv
    <3>3. \A i, j \in 1..Len(manager') : manager'[i] = manager'[j] => i = j
      <4>1. \A i \in 1..Len(manager') : i \in 1..Len(manager) \/ i = Len(manager) + 1
        BY <3>1
      <4> QED BY <2>2, <3>1, <3>2, <4>1 DEF LockInv
    <3>4. ASSUME NEW b \in Agents
          PROVE  (\E i \in 1..Len(manager') : manager'[i] = b) <=> agent'[b].pc \in {"lock", "await"}
      <4>1. CASE b = a
        BY <2>1, <3>1, <4>1
      <4>2. CASE b # a
        <5>1. (\E i \in 1..Len(manager') : manager'[i] = b) <=> \E i \in 1..Len(manager) : manager[i] = b
          BY <3>1, <4>2
        <5> QED BY <2>1, <2>2, <4>2, <5>1 DEF LockInv, Changes
      <4> QED BY <4>1, <4>2
    <3>5. \A b \in Agents : agent'[b].pc = "await" => HoldsManager(b)' /\ Target(b)' \in Servers
      BY <2>1, <2>2, <3>1 DEF LockInv, Changes, HoldsManager, Target
    <3>6. \A b \in Agents : agent'[b].pc = "lock" => agent'[b].line.method \in NeedsLock \cup {"tools/call"}
      BY <1>5, <2>1, <2>2 DEF LockInv, Changes
    <3> QED BY <3>3, <3>4, <3>5, <3>6 DEF LockInv
  <2>5. ASSUME NEW v \in Servers, NEW me, Awaited(v, me) PROVE Awaited(v, me)'
    BY <1>1, <2>1, <2>5 DEF Awaited, Target, Me, Changes
  <2>6. ASSUME ~noisy', NEW v \in Servers PROVE PipeInv(v)'
    <3>1. PipeInv(v) /\ server' = server
      BY <1>1, <2>6 DEF McpInv
    <3> QED BY <2>5, <3>1 DEF PipeInv
  <2>7. ASSUME ~noisy', NEW b \in Agents PROVE OwnAnswer(b)'
    BY <1>1, <2>1, <2>7 DEF McpInv, OwnAnswer, Me, Changes
  <2> QED BY <2>3, <2>4, <2>6, <2>7 DEF McpInv
<1> QED BY <1>2, <1>3, <1>4, <1>5

\* A built-in tool.
LEMMA BuiltinStep ==
    ASSUME McpInv, NEW a \in Agents, CallBuiltin(a)
    PROVE  McpInv'
<1>1. McpShape /\ agent[a].pc = "handle" /\ UNCHANGED <<manager, server, noisy>>
  BY DEF McpInv, CallBuiltin
<1>2. (\E kind : Answered(a, kind)) \/ (\E told \in BOOLEAN : ReturnPart(a, told))
  BY DEF CallBuiltin, FetchHttp, GrepHttp, HttpHeaders, ToolError
<1>3. ASSUME NEW kind, Answered(a, kind) PROVE McpInv'
  <2>1. Changes(a) /\ agent'[a].pc = "log" /\ agent'[a].answer.for = Me(a)
    BY <1>1, <1>3, AnsweredEffect
  <2> QED BY <1>1, <2>1, AgentAnswers
<1>4. ASSUME NEW told \in BOOLEAN, ReturnPart(a, told) PROVE McpInv'
  <2>1. Changes(a) /\ agent'[a].pc \notin {"lock", "await"} /\ (agent'[a].pc = "log" => agent'[a].answer.for = Me(a))
    BY <1>1, <1>4, PartEffect
  <2> QED BY <1>1, <2>1, AgentAnswers
<1> QED BY <1>2, <1>3, <1>4

\* PipeInv after a step, of what the pipes then hold.
LEMMA PipeAfter ==
    ASSUME NEW v, NEW in, NEW out, server'[v].stdin = in, server'[v].stdout = out,
           server'[v].state \in {"off", "absent"} => in = << >> /\ out = << >>,
           \A i \in 1..Len(out) : out[i].kind \in {"notification", "result"},
           \A i \in 1..Len(out) : out[i].kind = "result" => Awaited(v, out[i].for)',
           \A i, j \in 1..Len(out) : out[i].kind = "result" /\ out[j].kind = "result" => i = j,
           server'[v].state = "running" =>
             /\ Len(in) <= 1 /\ \A i \in 1..Len(in) : Awaited(v, in[i].for)'
             /\ in # << >> => \A i \in 1..Len(out) : out[i].kind # "result"
    PROVE  PipeInv(v)'
<1>1. \A i \in 1..Len(server'[v].stdout) : server'[v].stdout[i].kind \in {"notification", "result"}
  OBVIOUS
<1>2. \A i \in 1..Len(out) : out[i].kind = "result" => \E a \in Agents : agent'[a].pc = "await" /\ Target(a)' = v /\ out[i].for = Me(a)'
  BY DEF Awaited
<1>3. server'[v].state = "running" => \A i \in 1..Len(in) : \E a \in Agents : agent'[a].pc = "await" /\ Target(a)' = v /\ in[i].for = Me(a)'
  BY DEF Awaited
<1>4. (server[v].state = "running" => \A i \in 1..Len(server[v].stdin) : Awaited(v, server[v].stdin[i].for))'
  BY <1>3 DEF Awaited
<1>5. (\A i \in 1..Len(server[v].stdout) : server[v].stdout[i].kind = "result" => Awaited(v, server[v].stdout[i].for))'
  BY <1>2 DEF Awaited
<1> QED BY <1>1, <1>4, <1>5 DEF PipeInv

\* The holder of the lock has its answer: nothing is on its way any more.
LEMMA HolderAnswered ==
    ASSUME McpInv, NEW a \in Agents, Changes(a), agent'[a].pc = "log", HoldsManager(a), manager' = Tail(manager),
           agent[a].pc \in {"lock", "await"}, UNCHANGED noisy,
           server' \in [Servers -> [state : ServerStates, stdin : Seq(Asks), stdout : Seq(Replies)]],
           ~noisy => agent'[a].answer.for = Me(a) /\ \A v \in Servers : PipeInv(v)'
    PROVE  McpInv'
<1>1. LockInv' /\ manager' \in Seq(Agents)
  BY LockReleased
<1>2. McpShape'
  <2>1. \A b \in Agents : DOMAIN agent'[b] = AgentFields /\ agent'[b].n \in Nat /\ agent'[b].line \in AnyLine
    BY DEF McpInv, McpShape, Changes
  <2> QED BY <1>1, <2>1 DEF McpShape, Changes
<1>3. ASSUME ~noisy', NEW b \in Agents PROVE OwnAnswer(b)'
  BY <1>3 DEF McpInv, OwnAnswer, Me, Changes
<1> QED BY <1>1, <1>2, <1>3 DEF McpInv

\* A server that the holder of the lock does not wait for is silent.
LEMMA SilentStays ==
    ASSUME McpInv, ~noisy, NEW a \in Agents, HoldsManager(a), NEW v \in Servers, server'[v] = server[v],
           agent[a].pc = "await" => Target(a) # v
    PROVE  PipeInv(v)'
<1>1. PipeInv(v) /\ \A me : ~Awaited(v, me)
  BY OneAwaits DEF McpInv
<1> QED BY <1>1 DEF PipeInv

\* With the lock.
LEMMA WithManagerStep ==
    ASSUME McpInv, NEW a \in Agents, WithManager(a)
    PROVE  McpInv'
<1>0. PICK v : v = Target(a)
  OBVIOUS
<1>1. McpShape /\ LockInv /\ agent[a].pc = "lock" /\ HoldsManager(a) /\ UNCHANGED noisy
  BY DEF McpInv, WithManager
<1>2. agent[a].line.method \in NeedsLock \cup {"tools/call"}
  BY <1>1 DEF LockInv
<1>3. \/ (Answered(a, "result") \/ Answered(a, "error")) /\ Unlock /\ UNCHANGED server
      \/ /\ v \in Servers /\ server[v].state \in {"running", "dead"}
         /\ agent' = [agent EXCEPT ![a].pc = "await"] /\ UNCHANGED manager
         /\ server' = [server EXCEPT ![v].stdin = Append(@, [for |-> Me(a), name |-> agent[a].line.name])]
  BY <1>0, <1>2 DEF WithManager, NeedsLock, KeepLock, Target
<1>4. CASE (Answered(a, "result") \/ Answered(a, "error")) /\ Unlock /\ UNCHANGED server
  <2>1. Changes(a) /\ agent'[a].pc = "log" /\ agent'[a].answer.for = Me(a)
    BY <1>1, <1>4, AnsweredEffect
  <2>2. ~noisy => \A w \in Servers : PipeInv(w)'
    BY <1>1, <1>4, SilentStays
  <2>3. server' \in [Servers -> [state : ServerStates, stdin : Seq(Asks), stdout : Seq(Replies)]]
    BY <1>1, <1>4 DEF McpShape
  <2> QED BY <1>1, <1>4, <2>1, <2>2, <2>3, HolderAnswered DEF Unlock
<1>5. ASSUME v \in Servers, server[v].state \in {"running", "dead"},
             agent' = [agent EXCEPT ![a].pc = "await"], UNCHANGED manager,
             server' = [server EXCEPT ![v].stdin = Append(@, [for |-> Me(a), name |-> agent[a].line.name])]
      PROVE  McpInv'
  <2>0. PICK ask : ask = [for |-> Me(a), name |-> agent[a].line.name]
    OBVIOUS
  <2>1. Changes(a) /\ agent'[a].pc = "await"
    BY <1>1, <1>5, PcEffect
  <2>2. ask \in Asks /\ ask.for = Me(a)
    BY <1>1, <2>0 DEF McpShape, Asks, Me
  <2>3. /\ server' \in [Servers -> [state : ServerStates, stdin : Seq(Asks), stdout : Seq(Replies)]]
        /\ \A w \in Servers \ {v} : server'[w] = server[w]
        /\ server'[v].state = server[v].state /\ server'[v].stdout = server[v].stdout
        /\ server'[v].stdin = Append(server[v].stdin, ask)
    <3>1. server' = [server EXCEPT ![v].stdin = Append(@, ask)]
      BY <1>5, <2>0
    <3>2. server[v].stdin \in Seq(Asks) /\ server[v] \in [state : ServerStates, stdin : Seq(Asks), stdout : Seq(Replies)]
      BY <1>1, <1>5 DEF McpShape
    <3>3. Append(server[v].stdin, ask) \in Seq(Asks)
      BY <2>2, <3>2
    <3> QED BY <1>1, <1>5, <3>1, <3>2, <3>3, ZenonT(60) DEF McpShape
  <2>4. McpShape'
    <3>1. \A b \in Agents : DOMAIN agent'[b] = AgentFields /\ agent'[b].n \in Nat /\ agent'[b].line \in AnyLine
      BY <1>1, <2>1 DEF McpShape, Changes
    <3>2. manager' \in Seq(Agents) /\ DOMAIN agent' = Agents
      BY <1>1, <1>5, <2>1 DEF McpShape, Changes
    <3>3. server' \in [Servers -> [state : ServerStates, stdin : Seq(Asks), stdout : Seq(Replies)]]
      BY <2>3
    <3> QED BY <3>1, <3>2, <3>3 DEF McpShape
  <2>5. LockInv'
    <3>1. \A b \in Agents : agent'[b].line = agent[b].line /\ (agent'[b].pc = agent[b].pc \/ b = a)
      BY <2>1 DEF Changes
    <3>2. agent[a].pc = "lock" /\ agent'[a].pc = "await" /\ manager' = manager /\ HoldsManager(a)
      BY <1>1, <1>5, <2>1
    <3>3. \A b \in Agents : (HoldsManager(b))' <=> HoldsManager(b)
      BY <3>2 DEF HoldsManager
    <3>4. \A b \in Agents : Target(b)' = Target(b)
      BY <3>1 DEF Target
    <3>5. \A i, j \in 1..Len(manager') : manager'[i] = manager'[j] => i = j
      BY <1>1, <3>2 DEF LockInv
    <3>6. \A b \in Agents : (\E i \in 1..Len(manager') : manager'[i] = b) <=> agent'[b].pc \in {"lock", "await"}
      BY <1>1, <3>1, <3>2 DEF LockInv
    <3>7. \A b \in Agents : agent'[b].pc = "await" => (HoldsManager(b))' /\ Target(b)' \in Servers
      BY <1>0, <1>1, <1>5, <3>1, <3>2, <3>3, <3>4 DEF LockInv
    <3>8. \A b \in Agents : agent'[b].pc = "lock" => agent'[b].line.method \in NeedsLock \cup {"tools/call"}
      BY <1>1, <3>1, <3>2 DEF LockInv
    <3> QED BY <3>5, <3>6, <3>7, <3>8 DEF LockInv
  <2>6. Awaited(v, ask.for)'
    BY <1>0, <2>1, <2>2 DEF Awaited, Me, Target, Changes
  <2>7. ASSUME ~noisy, NEW w \in Servers PROVE PipeInv(w)'
    <3>1. CASE w # v
      <4>1. server'[w] = server[w]
        BY <2>3, <3>1
      <4> QED BY <1>1, <2>7, <3>1, <4>1, SilentStays
    <3>2. CASE w = v
      <4>1. PipeInv(v) /\ \A me : ~Awaited(v, me)
        BY <1>1, <1>5, <2>7, OneAwaits DEF McpInv
      <4>2. \A i \in 1..Len(server[v].stdout) : server[v].stdout[i].kind = "notification"
        BY <4>1 DEF PipeInv
      <4>3. server[v].state = "running" => Len(server[v].stdin) = 0
        <5>1. server[v].stdin \in Seq(Asks)
          BY <1>1, <1>5 DEF McpShape
        <5> QED BY <4>1, <5>1 DEF PipeInv
      <4>4. server[v].state = "running" =>
              Len(server'[v].stdin) = 1 /\ \A i \in 1..Len(server'[v].stdin) : server'[v].stdin[i] = ask
        <5>1. server[v].stdin \in Seq(Asks)
          BY <1>1, <1>5 DEF McpShape
        <5> QED BY <2>2, <2>3, <4>3, <5>1
      <4> QED BY <1>5, <2>3, <2>6, <3>2, <4>2, <4>4 DEF PipeInv
    <3> QED BY <3>1, <3>2
  <2>8. ASSUME ~noisy, NEW b \in Agents PROVE OwnAnswer(b)'
    BY <2>1, <2>8 DEF McpInv, OwnAnswer, Me, Changes
  <2> QED BY <1>1, <2>4, <2>5, <2>7, <2>8 DEF McpInv
<1> QED BY <1>3, <1>4, <1>5

\* A line of the server the connection waits for.
LEMMA ReadReplyStep ==
    ASSUME McpInv, NEW a \in Agents, ReadReply(a)
    PROVE  McpInv'
<1>0. PICK v : v = Target(a)
  OBVIOUS
<1>10. PICK out : out = server[v].stdout
  OBVIOUS
<1>11. PICK in : in = server[v].stdin
  OBVIOUS
<1>1. /\ McpShape /\ LockInv /\ agent[a].pc = "await" /\ out # << >> /\ UNCHANGED noisy
      /\ server' = [server EXCEPT ![v].stdout = Tail(@)]
  BY <1>0, <1>10 DEF McpInv, ReadReply
<1>2. v \in Servers /\ HoldsManager(a)
  BY <1>0, <1>1 DEF LockInv
<1>3. out \in Seq(Replies) /\ server[v] \in [state : ServerStates, stdin : Seq(Asks), stdout : Seq(Replies)]
  BY <1>1, <1>2, <1>10 DEF McpShape
<1>4. /\ Tail(out) \in Seq(Replies) /\ Head(out) = out[1] /\ 1 \in 1..Len(out)
      /\ \A i \in 1..Len(Tail(out)) : i + 1 \in 1..Len(out) /\ Tail(out)[i] = out[i + 1] /\ i + 1 # 1
      /\ Len(out) = 0 \/ out # << >>
  BY <1>1, <1>3
<1>5. /\ server' \in [Servers -> [state : ServerStates, stdin : Seq(Asks), stdout : Seq(Replies)]]
      /\ \A w \in Servers \ {v} : server'[w] = server[w]
      /\ server'[v].state = server[v].state /\ server'[v].stdin = server[v].stdin /\ server'[v].stdout = Tail(out)
  BY <1>1, <1>2, <1>3, <1>4, <1>10 DEF McpShape
<1>6. CASE ~HasId(Head(out))
  <2>1. UNCHANGED <<agent, manager>>
    BY <1>0, <1>6, <1>10 DEF ReadReply
  <2>2. ASSUME ~noisy, NEW w \in Servers PROVE PipeInv(w)'
    <3>1. PipeInv(w)
      BY <2>2 DEF McpInv
    <3>2. \A me : Awaited(w, me) => Awaited(w, me)'
      BY <2>1 DEF Awaited, Target, Me
    <3>3. CASE w # v
      <4>1. server'[w] = server[w]
        BY <1>5, <3>3
      <4> QED BY <3>1, <3>2, <4>1 DEF PipeInv
    <3>4. CASE w = v
      <4>1. out[1].kind # "result"
        BY <1>4, <1>6 DEF HasId
      <4>2. server[v].state \in {"running", "dead"}
        BY <1>1, <1>2, <1>3, <3>1, <3>4, <1>10 DEF PipeInv, ServerStates
      <4>3. \A i \in 1..Len(Tail(out)) : /\ Tail(out)[i].kind \in {"notification", "result"}
                                         /\ Tail(out)[i].kind = "result" => Awaited(v, Tail(out)[i].for)
        BY <1>4, <3>1, <3>4, <1>10 DEF PipeInv
      <4>4. \A i, j \in 1..Len(Tail(out)) : Tail(out)[i].kind = "result" /\ Tail(out)[j].kind = "result" => i = j
        <5>1. SUFFICES ASSUME NEW i \in 1..Len(Tail(out)), NEW j \in 1..Len(Tail(out)),
                              Tail(out)[i].kind = "result", Tail(out)[j].kind = "result"
                       PROVE  i = j
          OBVIOUS
        <5>2. i + 1 = j + 1
          BY <1>4, <3>1, <3>4, <5>1, <1>10 DEF PipeInv
        <5> QED BY <5>2
      <4>5. server[v].state = "running" =>
              /\ Len(in) <= 1 /\ \A i \in 1..Len(in) : Awaited(v, in[i].for)
              /\ in # << >> => \A i \in 1..Len(Tail(out)) : Tail(out)[i].kind # "result"
        BY <1>4, <1>10, <1>11, <3>1, <3>4 DEF PipeInv
      <4>6. \A me : Awaited(v, me) => Awaited(v, me)'
        BY <3>2, <3>4
      <4>7. \A i \in 1..Len(Tail(out)) : Tail(out)[i].kind = "result" => Awaited(v, Tail(out)[i].for)'
        BY <4>3, <4>6
      <4>8. server[v].state = "running" => \A i \in 1..Len(in) : Awaited(v, in[i].for)'
        BY <4>5, <4>6
      <4>9. PipeInv(v)'
        BY <1>5, <1>11, <4>2, <4>3, <4>4, <4>5, <4>7, <4>8, PipeAfter
      <4> QED BY <3>4, <4>9
    <3> QED BY <3>3, <3>4
  <2> QED BY <1>1, <1>5, <2>1, <2>2, ServerMoves
<1>7. CASE HasId(Head(out))
  <2> DEFINE answer == IF Head(out).kind = "blank" THEN Reply("error", Me(a)) ELSE Head(out)
  <2>1. agent' = [agent EXCEPT ![a].pc = "log", ![a].answer = answer] /\ manager' = Tail(manager)
    BY <1>0, <1>2, <1>7, <1>10 DEF ReadReply, Release
  <2> HIDE DEF answer
  <2>2. Changes(a) /\ agent'[a].pc = "log" /\ agent'[a].answer = answer
    BY <1>1, <2>1 DEF McpShape, Changes, AgentFields
  <2>3. ASSUME ~noisy PROVE agent'[a].answer.for = Me(a) /\ \A w \in Servers : PipeInv(w)'
    <3>1. PipeInv(v)
      BY <1>2, <2>3 DEF McpInv
    <3>2. out[1].kind = "result"
      BY <1>4, <1>7, <3>1, <1>10 DEF PipeInv, HasId
    <3>3. Awaited(v, out[1].for)
      BY <1>4, <3>1, <3>2, <1>10 DEF PipeInv
    <3>4. answer.for = Me(a)
      BY <1>1, <1>2, <1>4, <3>2, <3>3, OneAwaits DEF answer
    <3>5. ASSUME NEW w \in Servers, w # v PROVE PipeInv(w)'
      <4>1. server'[w] = server[w]
        BY <1>5, <3>5
      <4> QED BY <1>0, <1>2, <2>3, <3>5, <4>1, SilentStays
    <3>6. \A i \in 1..Len(Tail(out)) : Tail(out)[i].kind = "notification"
      BY <1>4, <3>1, <3>2, <1>10 DEF PipeInv
    <3>7. server[v].state = "running" => server[v].stdin = << >>
      BY <1>4, <3>1, <3>2, <1>10 DEF PipeInv
    <3>8. server[v].state \in {"running", "dead"}
      BY <1>1, <1>2, <1>3, <3>1, <1>10 DEF PipeInv, ServerStates
    <3>9. PipeInv(v)'
      BY <1>2, <1>5, <3>6, <3>7, <3>8 DEF PipeInv
    <3> QED BY <2>2, <3>4, <3>5, <3>9
  <2> QED BY <1>1, <1>2, <1>5, <2>1, <2>2, <2>3, HolderAnswered
<1> QED BY <1>6, <1>7

\* The server the connection waits for has died.
LEMMA ReplyFailsStep ==
    ASSUME McpInv, NEW a \in Agents, ReplyFails(a)
    PROVE  McpInv'
<1>0. PICK v : v = Target(a)
  OBVIOUS
<1>1. /\ McpShape /\ LockInv /\ agent[a].pc = "await" /\ UNCHANGED <<server, noisy>>
      /\ server[v].state = "dead" /\ server[v].stdout = << >> /\ Answered(a, "error")
  BY <1>0 DEF McpInv, ReplyFails
<1>2. v \in Servers /\ HoldsManager(a)
  BY <1>0, <1>1 DEF LockInv
<1>3. manager' = Tail(manager)
  BY <1>2 DEF ReplyFails, Release
<1>4. Changes(a) /\ agent'[a].pc = "log" /\ agent'[a].answer.for = Me(a)
  BY <1>1, AnsweredEffect
<1>5. ASSUME ~noisy, NEW w \in Servers PROVE PipeInv(w)'
  <2>1. CASE w # v
    BY <1>0, <1>1, <1>2, <1>5, <2>1, SilentStays
  <2>2. CASE w = v
    BY <1>1, <2>2 DEF PipeInv
  <2> QED BY <2>1, <2>2
<1>6. server' \in [Servers -> [state : ServerStates, stdin : Seq(Asks), stdout : Seq(Replies)]]
  BY <1>1 DEF McpShape
<1> QED BY <1>1, <1>2, <1>3, <1>4, <1>5, <1>6, HolderAnswered

\* The row and the answer.
LEMMA LogStep ==
    ASSUME McpInv, NEW a \in Agents, LogAndAnswer(a)
    PROVE  McpInv'
<1>1. McpShape /\ agent[a].pc = "log" /\ UNCHANGED <<manager, server, noisy>>
  BY DEF McpInv, LogAndAnswer
<1>2. CASE agent' = [agent EXCEPT ![a].pc = "ended"]
  <2>1. Changes(a) /\ agent'[a].pc = "ended"
    BY <1>1, <1>2, PcEffect
  <2> QED BY <1>1, <2>1, AgentAnswers
<1>3. ASSUME NEW row,
             agent' = [agent EXCEPT ![a].pc = "read", ![a].line = NoLine, ![a].answer = NoAnswer, ![a].row = row]
      PROVE  McpInv'
  <2>1. /\ DOMAIN agent' = Agents /\ DOMAIN agent'[a] = AgentFields /\ \A b \in Agents \ {a} : agent'[b] = agent[b]
        /\ agent'[a].n = agent[a].n /\ agent'[a].line = NoLine /\ agent'[a].pc = "read"
    BY <1>1, <1>3 DEF McpShape, AgentFields
  <2>2. agent'[a].n \in Nat /\ agent'[a].line \in AnyLine
    BY <1>1, <2>1 DEF McpShape, AnyLine
  <2> QED BY <1>1, <2>1, <2>2, AgentMoves
<1> QED BY <1>2, <1>3 DEF LogAndAnswer

\* A line at the end of what a server has written.
LEMMA LineAppended ==
    ASSUME NEW out \in Seq(Replies), NEW reply \in Replies
    PROVE  /\ Append(out, reply) \in Seq(Replies) /\ Len(Append(out, reply)) = Len(out) + 1 /\ Len(out) \in Nat
           /\ \A i \in 1..Len(out) : Append(out, reply)[i] = out[i]
           /\ Append(out, reply)[Len(out) + 1] = reply
  OBVIOUS

LEMMA ServerAnswersStep ==
    ASSUME McpInv, NEW v \in Servers, ServerAnswers(v)
    PROVE  McpInv'
<1>10. PICK out, in : out = server[v].stdout /\ in = server[v].stdin
  OBVIOUS
<1>11. PICK reply : reply = Reply("result", Head(in).for)
  OBVIOUS
<1>1. /\ McpShape /\ UNCHANGED <<agent, manager, noisy>> /\ server[v].state = "running" /\ in # << >>
      /\ server' = [server EXCEPT ![v].stdin = Tail(in), ![v].stdout = Append(@, reply)]
  BY <1>10, <1>11 DEF McpInv, ServerAnswers
<1>2. in \in Seq(Asks)
  BY <1>1, <1>10 DEF McpShape
<1>3. Head(in) = in[1] /\ 1 \in 1..Len(in) /\ in[1] \in Asks /\ Tail(in) \in Seq(Asks) /\ Len(Tail(in)) = Len(in) - 1
  BY <1>1, <1>2
<1>4. reply.kind = "result" /\ reply.for = in[1].for /\ reply \in Replies
  BY <1>3, <1>11 DEF Reply, Replies, Asks
<1>5. /\ server' \in [Servers -> [state : ServerStates, stdin : Seq(Asks), stdout : Seq(Replies)]]
      /\ \A w \in Servers \ {v} : server'[w] = server[w]
      /\ server'[v].state = server[v].state /\ server'[v].stdin = Tail(in)
      /\ Len(server'[v].stdout) = Len(out) + 1 /\ Len(out) \in Nat
      /\ \A i \in 1..Len(out) : server'[v].stdout[i] = out[i]
      /\ server'[v].stdout[Len(out) + 1] = reply
  <2>1. out \in Seq(Replies) /\ server[v] \in [state : ServerStates, stdin : Seq(Asks), stdout : Seq(Replies)]
    BY <1>1, <1>10 DEF McpShape
  <2>2. PICK new \in Seq(Replies) : new = Append(out, reply)
    BY <1>4, <2>1, LineAppended
  <2>3. /\ server' \in [Servers -> [state : ServerStates, stdin : Seq(Asks), stdout : Seq(Replies)]]
        /\ \A w \in Servers \ {v} : server'[w] = server[w]
        /\ server'[v].state = server[v].state /\ server'[v].stdin = Tail(in) /\ server'[v].stdout = new
    BY <1>1, <1>3, <1>10, <2>1, <2>2 DEF McpShape
  <2> QED BY <1>4, <2>1, <2>2, <2>3, LineAppended
<1>6. ASSUME ~noisy, NEW w \in Servers PROVE PipeInv(w)'
  <2>1. PipeInv(w)
    BY <1>6 DEF McpInv
  <2>2. \A me : Awaited(w, me) => Awaited(w, me)'
    BY <1>1 DEF Awaited, Target, Me
  <2>3. CASE w # v
    <3>1. server'[w] = server[w]
      BY <1>5, <2>3
    <3> QED BY <2>1, <2>2, <3>1 DEF PipeInv
  <2>4. CASE w = v
    <3>1. /\ Len(in) = 1 /\ Awaited(v, in[1].for)
          /\ \A i \in 1..Len(out) : out[i].kind = "notification"
      <4>1. PipeInv(v)
        BY <2>1, <2>4
      <4>2. Len(in) <= 1 /\ Awaited(v, in[1].for)
        BY <1>1, <1>3, <1>10, <4>1 DEF PipeInv
      <4>3. Len(in) = 1
        BY <1>2, <1>3, <4>2
      <4>4. \A i \in 1..Len(out) : out[i].kind = "notification"
        BY <1>1, <1>10, <4>1 DEF PipeInv
      <4> QED BY <4>2, <4>3, <4>4
    <3>2. Len(server'[v].stdin) = 0 /\ server'[v].stdin = << >>
      BY <1>2, <1>3, <1>5, <3>1
    <3>3. Awaited(v, reply.for)'
      BY <1>4, <2>2, <2>4, <3>1
    <3>4. \A i \in 1..Len(server'[v].stdout) : i \in 1..Len(out) \/ i = Len(out) + 1
      BY <1>5
    <3>5. \A i \in 1..Len(server'[v].stdout) :
             IF i = Len(out) + 1 THEN server'[v].stdout[i] = reply ELSE server'[v].stdout[i].kind = "notification"
      BY <1>5, <3>1, <3>4
    <3>6. PICK new : new = server'[v].stdout
      OBVIOUS
    <3>7. PipeInv(v)'
      <4>1. server'[v].state = "running" /\ server'[v].stdin = << >> /\ server'[v].stdout = new /\ Len(<< >>) = 0
        BY <1>1, <1>5, <3>2, <3>6
      <4>2. \A i \in 1..Len(new) : new[i].kind \in {"notification", "result"}
        BY <1>4, <3>5, <3>6
      <4>3. \A i \in 1..Len(new) : new[i].kind = "result" => Awaited(v, new[i].for)'
        BY <3>3, <3>5, <3>6
      <4>4. \A i, j \in 1..Len(new) : new[i].kind = "result" /\ new[j].kind = "result" => i = j
        BY <3>5, <3>6
      <4>5. server'[v].state = "running" =>
              /\ Len(<< >>) <= 1 /\ \A i \in 1..Len(<< >>) : Awaited(v, << >>[i].for)'
              /\ << >> # << >> => \A i \in 1..Len(new) : new[i].kind # "result"
        BY <4>1
      <4>6. server'[v].state \in {"off", "absent"} => << >> = << >> /\ new = << >>
        BY <4>1
      <4> QED BY <4>1, <4>2, <4>3, <4>4, <4>5, <4>6, PipeAfter, Zenon
    <3> QED BY <2>4, <3>7
  <2> QED BY <2>3, <2>4
<1> QED BY <1>1, <1>5, <1>6, ServerMoves

LEMMA ServerNoiseStep ==
    ASSUME McpInv, NEW v \in Servers, ServerNoise(v)
    PROVE  McpInv'
<1>9. PICK out, in : out = server[v].stdout /\ in = server[v].stdin
  OBVIOUS
<1>1. PICK kind \in {"notification", "request", "blank"} :
        /\ server' = [server EXCEPT ![v].stdout = Append(@, Reply(kind, << >>))]
        /\ noisy' = (noisy \/ kind # "notification")
  BY DEF ServerNoise
<1>2. McpShape /\ UNCHANGED <<agent, manager>> /\ server[v].state = "running"
  BY DEF McpInv, ServerNoise
<1>3. ~noisy' => ~noisy /\ kind = "notification"
  BY <1>1
<1>4. PICK reply : reply = Reply(kind, << >>)
  OBVIOUS
<1>5. reply.kind = kind /\ reply \in Replies
  BY <1>4 DEF Reply, Replies
<1>6. in \in Seq(Asks) /\ server' = [server EXCEPT ![v].stdout = Append(@, reply)]
  BY <1>1, <1>2, <1>4, <1>9 DEF McpShape
<1>7. /\ server' \in [Servers -> [state : ServerStates, stdin : Seq(Asks), stdout : Seq(Replies)]]
      /\ \A w \in Servers \ {v} : server'[w] = server[w]
      /\ server'[v].state = server[v].state /\ server'[v].stdin = in
      /\ Len(server'[v].stdout) = Len(out) + 1 /\ Len(out) \in Nat
      /\ \A i \in 1..Len(out) : server'[v].stdout[i] = out[i]
      /\ server'[v].stdout[Len(out) + 1] = reply
  <2>1. out \in Seq(Replies) /\ server[v] \in [state : ServerStates, stdin : Seq(Asks), stdout : Seq(Replies)]
    BY <1>2, <1>9 DEF McpShape
  <2>2. PICK new \in Seq(Replies) : new = Append(out, reply)
    BY <1>5, <2>1, LineAppended
  <2>3. /\ server' \in [Servers -> [state : ServerStates, stdin : Seq(Asks), stdout : Seq(Replies)]]
        /\ \A w \in Servers \ {v} : server'[w] = server[w]
        /\ server'[v].state = server[v].state /\ server'[v].stdin = in /\ server'[v].stdout = new
    BY <1>2, <1>6, <1>9, <2>1, <2>2 DEF McpShape
  <2> QED BY <1>5, <2>1, <2>2, <2>3, LineAppended
<1>8. ASSUME ~noisy', NEW w \in Servers PROVE PipeInv(w)'
  <2>1. PipeInv(w)
    BY <1>3, <1>8 DEF McpInv
  <2>2. \A me : Awaited(w, me) => Awaited(w, me)'
    BY <1>2 DEF Awaited, Target, Me
  <2>3. CASE w # v
    <3>1. server'[w] = server[w]
      BY <1>7, <2>3
    <3> QED BY <2>1, <2>2, <3>1 DEF PipeInv
  <2>4. CASE w = v
    <3>1. PICK new : new = server'[v].stdout
      OBVIOUS
    <3>2. \A i \in 1..Len(new) : \/ i \in 1..Len(out) /\ new[i] = out[i]
                                \/ new[i].kind = "notification"
      BY <1>3, <1>5, <1>7, <1>8, <3>1
    <3>3. \A i \in 1..Len(new) : new[i].kind \in {"notification", "result"}
      BY <1>9, <2>1, <2>4, <3>2 DEF PipeInv
    <3>8. \A i \in 1..Len(new) : new[i].kind = "result" => Awaited(v, new[i].for)'
      BY <1>9, <2>1, <2>2, <2>4, <3>2 DEF PipeInv
    <3>4. \A i, j \in 1..Len(new) : new[i].kind = "result" /\ new[j].kind = "result" => i = j
      BY <1>9, <2>1, <2>4, <3>2 DEF PipeInv
    <3>5. in # << >> => \A i \in 1..Len(new) : new[i].kind # "result"
      BY <1>2, <1>9, <2>1, <2>4, <3>2 DEF PipeInv
    <3>6. Len(in) <= 1 /\ \A i \in 1..Len(in) : Awaited(v, in[i].for)'
      BY <1>2, <1>9, <2>1, <2>2, <2>4 DEF PipeInv
    <3>7. PipeInv(v)'
      <4>1. server'[v].state = "running" /\ server'[v].stdin = in
        BY <1>2, <1>7
      <4>2. server'[v].state = "running" =>
              /\ Len(in) <= 1 /\ \A i \in 1..Len(in) : Awaited(v, in[i].for)'
              /\ in # << >> => \A i \in 1..Len(new) : new[i].kind # "result"
        BY <3>5, <3>6
      <4>3. server'[v].state \in {"off", "absent"} => in = << >> /\ new = << >>
        BY <4>1
      <4>4. server'[v].stdout = new
        BY <3>1
      <4> QED BY <3>3, <3>4, <3>8, <4>1, <4>2, <4>3, <4>4, PipeAfter, Zenon
    <3> QED BY <2>4, <3>7
  <2> QED BY <2>3, <2>4
<1> QED BY <1>2, <1>3, <1>7, <1>8, ServerMoves

LEMMA ServerDiesStep ==
    ASSUME McpInv, NEW v \in Servers, ServerDies(v)
    PROVE  McpInv'
<1>1. /\ McpShape /\ UNCHANGED <<agent, manager, noisy>> /\ server[v].state = "running"
      /\ server' = [server EXCEPT ![v].state = "dead"]
  BY DEF McpInv, ServerDies
<1>2. /\ server' \in [Servers -> [state : ServerStates, stdin : Seq(Asks), stdout : Seq(Replies)]]
      /\ \A w \in Servers \ {v} : server'[w] = server[w]
      /\ server'[v].state = "dead" /\ server'[v].stdin = server[v].stdin /\ server'[v].stdout = server[v].stdout
  BY <1>1 DEF McpShape, ServerStates
<1>3. ASSUME ~noisy, NEW w \in Servers PROVE PipeInv(w)'
  <2>1. PipeInv(w)
    BY <1>3 DEF McpInv
  <2>2. \A me : Awaited(w, me) => Awaited(w, me)'
    BY <1>1 DEF Awaited, Target, Me
  <2>3. /\ server'[w].stdin = server[w].stdin /\ server'[w].stdout = server[w].stdout
        /\ server'[w].state = server[w].state \/ server'[w].state = "dead"
    BY <1>2
  <2> QED BY <2>1, <2>2, <2>3 DEF PipeInv
<1> QED BY <1>1, <1>2, <1>3, ServerMoves

LEMMA InitializeStep ==
    ASSUME McpInv, Initialize
    PROVE  McpInv'
<1>1. McpShape /\ UNCHANGED <<agent, manager, noisy>> /\ \A v \in Servers : server[v].state = "off"
  BY DEF McpInv, Initialize
<1>2. PICK up \in SUBSET Servers :
        server' = [v \in Servers |-> [server[v] EXCEPT !.state = IF v \in up THEN "running" ELSE "absent"]]
  BY DEF Initialize
<1>3. \A v \in Servers : server[v] \in [state : ServerStates, stdin : Seq(Asks), stdout : Seq(Replies)]
  BY <1>1 DEF McpShape
<1>4. ASSUME NEW v \in Servers
      PROVE  /\ server'[v] \in [state : ServerStates, stdin : Seq(Asks), stdout : Seq(Replies)]
             /\ server'[v].stdin = server[v].stdin /\ server'[v].stdout = server[v].stdout
  BY <1>2, <1>3 DEF ServerStates
<1>5. server' \in [Servers -> [state : ServerStates, stdin : Seq(Asks), stdout : Seq(Replies)]]
  BY <1>2, <1>4
<1>6. ASSUME ~noisy, NEW v \in Servers PROVE PipeInv(v)'
  <2>1. server[v].stdin = << >> /\ server[v].stdout = << >>
    BY <1>1, <1>6 DEF McpInv, PipeInv
  <2>2. server'[v].stdin = << >> /\ server'[v].stdout = << >>
    BY <1>4, <2>1
  <2> QED BY <2>2 DEF PipeInv
<1> QED BY <1>1, <1>5, <1>6, ServerMoves

LEMMA McpInitially ==
    ASSUME McpInit
    PROVE  McpInv
<1>1. McpShape
  <2>1. server \in [Servers -> [state : ServerStates, stdin : Seq(Asks), stdout : Seq(Replies)]]
    BY DEF McpInit, ServerStates
  <2> QED BY <2>1 DEF McpInit, McpShape, AgentFields, AnyLine
<1>2. \A a \in Agents : agent[a].pc = "read"
  BY DEF McpInit
<1>3. LockInv
  BY <1>2 DEF McpInit, LockInv
<1>4. \A v \in Servers : server[v].stdin = << >> /\ server[v].stdout = << >>
  BY DEF McpInit
<1>5. \A v \in Servers : PipeInv(v)
  BY <1>4 DEF PipeInv
<1>6. \A a \in Agents : OwnAnswer(a)
  BY <1>2 DEF OwnAnswer
<1> QED BY <1>1, <1>3, <1>5, <1>6 DEF McpInv

LEMMA McpStep ==
    ASSUME McpInv, [McpNext]_mcpVars
    PROVE  McpInv'
<1>1. CASE UNCHANGED mcpVars
  <2>1. UNCHANGED <<agent, manager, server, noisy>>
    BY <1>1 DEF mcpVars
  <2>2. ASSUME ~noisy, NEW v \in Servers PROVE PipeInv(v)'
    <3>1. PipeInv(v) /\ \A me : Awaited(v, me) => Awaited(v, me)'
      BY <2>1, <2>2 DEF McpInv, Awaited, Target, Me
    <3> QED BY <2>1, <3>1 DEF PipeInv
  <2> QED BY <2>1, <2>2, ServerMoves DEF McpInv, McpShape
<1>2. CASE McpNext
  BY <1>2, ReadLineStep, HandleStep, BuiltinStep, WithManagerStep, ReadReplyStep, ReplyFailsStep, LogStep,
     ServerAnswersStep, ServerNoiseStep, ServerDiesStep, InitializeStep DEF McpNext, AgentStep
<1> QED BY <1>1, <1>2

\* Each connection gets the answer to its own request although all share the stdout
\* of a server, as long as the server writes only answers and notifications there:
\* for any number of connections, servers, tools and policies.
THEOREM AnswersAreOwn == McpSpec => []AnswersOwn
<1>1. McpInv => AnswersOwn
  BY DEF McpInv, OwnAnswer, AnswersOwn
<1> QED BY <1>1, McpInitially, McpStep, PTL DEF McpSpec
------------------------------------------------------------------------------
(* The parts of a page.                                                    *)

\* The bytes up to each character are defined by their recursion, over the characters.
LEMMA TotalType == Total \in Nat
<1> DEFINE Body(f, i) == IF i = 0 THEN 0 ELSE f[i - 1] + Page[i]
           Unfolds(f, n) == f = [i \in 0..n |-> Body(f, i)] /\ f[n] \in Nat
           R == {ss \in Nat \X Nat : ss[1] < ss[2]}
           Bad == {n \in 0..Len(Page) : \A f : ~Unfolds(f, n)}
<1>1. Bad = {}
  <2> SUFFICES ASSUME Bad # {} PROVE FALSE
    OBVIOUS
  <2>1. IsWellFoundedOn(R, Nat)
    BY NatLessThanWellFounded, Zenon DEF OpToRel
  <2>2. PICK n \in Bad : \A m \in Bad : ~(<<m, n>> \in R)
    <3>1. Bad \subseteq Nat
      OBVIOUS
    <3> HIDE DEF Bad, R
    <3> QED BY <2>1, <3>1, WFMin
  <2>3. CASE n = 0
    <3> DEFINE f == [i \in 0..0 |-> 0]
    <3>1. Unfolds(f, 0)
      OBVIOUS
    <3> QED BY <2>2, <2>3, <3>1
  <2>4. CASE n # 0
    <3>0. n \in Nat /\ n \in 1..Len(Page) /\ n - 1 \in 0..Len(Page) /\ <<n - 1, n>> \in R /\ Page[n] \in Nat
      BY <2>4, McpAssumption
    <3>1. n - 1 \notin Bad
      BY <2>2, <3>0, Zenon
    <3>2. PICK f : Unfolds(f, n - 1)
      BY <3>0, <3>1
    <3> DEFINE g == [i \in 0..n |-> IF i = n THEN Body(f, n) ELSE f[i]]
    <3>3. ASSUME NEW i \in 0..n PROVE g[i] = Body(g, i)
      <4>1. CASE i = 0
        BY <2>4, <3>0, <3>2, <4>1
      <4>2. CASE i # 0
        <5>1. i - 1 \in 0..(n - 1) /\ g[i - 1] = f[i - 1]
          BY <3>0, <4>2
        <5> QED BY <3>0, <3>2, <4>2, <5>1
      <4> QED BY <4>1, <4>2
    <3>4. g[n] \in Nat
      BY <2>4, <3>0, <3>2
    <3>5. Unfolds(g, n)
      BY <3>3, <3>4
    <3> QED BY <2>2, <3>5
  <2> QED BY <2>3, <2>4
<1>2. PICK f : Unfolds(f, Len(Page))
  <2>1. Len(Page) \in 0..Len(Page)
    BY McpAssumption
  <2> QED BY <1>1, <2>1
<1>3. ASSUME NEW g, g = [i \in 0..Len(Page) |-> Body(g, i)] PROVE g[Len(Page)] \in Nat
  <2>1. PICK l \in Nat : l = Len(Page)
    BY McpAssumption
  <2>2. \A i \in 1..l : Page[i] \in Nat
    BY <2>1, McpAssumption
  <2> DEFINE Wrong == {n \in 0..l : g[n] \notin Nat}
  <2>3. Wrong = {}
    <3> SUFFICES ASSUME Wrong # {} PROVE FALSE
      OBVIOUS
    <3>1. IsWellFoundedOn(R, Nat)
      BY NatLessThanWellFounded, Zenon DEF OpToRel
    <3>2. PICK n \in Wrong : \A m \in Wrong : ~(<<m, n>> \in R)
      <4>1. Wrong \subseteq Nat
        OBVIOUS
      <4> HIDE DEF Wrong, R
      <4> QED BY <3>1, <4>1, WFMin
    <3>3. n # 0
      BY <1>3, <2>1
    <3>4. n \in 1..l /\ n - 1 \in 0..l /\ <<n - 1, n>> \in R
      BY <3>3
    <3>5. g[n - 1] \in Nat
      BY <3>2, <3>4
    <3>6. g[n] = g[n - 1] + Page[n]
      BY <1>3, <2>1, <3>3, <3>4
    <3> QED BY <2>2, <3>4, <3>5, <3>6
  <2> QED BY <2>1, <2>3
<1>4. Bytes = CHOOSE g : g = [i \in 0..Len(Page) |-> Body(g, i)]
  BY Zenon DEF Bytes
<1>5. Bytes = [i \in 0..Len(Page) |-> Body(Bytes, i)]
  BY <1>2, <1>4, Zenon
<1> QED BY <1>3, <1>5 DEF Total

\* What the guest has of the page is what it was told to go on after.
OnPage(a) ==
    agent[a].next \in Nat /\ agent[a].got = Smaller(agent[a].next, Total) /\ (agent[a].done => agent[a].got = Total)
PageInv == \A a \in Agents : OnPage(a)

\* A connection that keeps its place, or takes the part that begins there.
LEMMA PageKept ==
    ASSUME McpShape, PageInv, NEW a \in Agents, StaysOnPage(a), \A b \in Agents \ {a} : agent'[b] = agent[b]
    PROVE  PageInv'
  BY DEF PageInv, OnPage, StaysOnPage

LEMMA PageTurned ==
    ASSUME PageInv, NEW a \in Agents, TurnsPage(a), \A b \in Agents \ {a} : agent'[b] = agent[b]
    PROVE  PageInv'
<1>1. PICK max, part : /\ max \in 1..2 /\ part = Paginate(agent[a].next, max) /\ agent'[a].next = part.to
                       /\ agent'[a].got = agent[a].got + part.to - part.from /\ agent'[a].done = ~part.more
  BY DEF TurnsPage
<1>2. PICK next, got, total : /\ next = agent[a].next /\ got = agent[a].got /\ total = Total
                              /\ next \in Nat /\ total \in Nat /\ got = Smaller(next, total)
  BY TotalType DEF PageInv, OnPage
<1>3. CASE next >= total
  <2>1. part = [from |-> next, to |-> next, more |-> FALSE]
    BY <1>1, <1>2, <1>3 DEF Paginate
  <2>2. got = total /\ Smaller(next, total) = total
    BY <1>2, <1>3 DEF Smaller
  <2>3. agent'[a].next = next /\ agent'[a].got = total
    BY <1>1, <1>2, <2>1, <2>2
  <2>4. OnPage(a)'
    BY <1>2, <2>2, <2>3 DEF OnPage
  <2> QED BY <2>4 DEF PageInv, OnPage
<1>4. CASE next < total
  <2>1. PICK to : to = Smaller(next + max, total)
    OBVIOUS
  <2>2. part = [from |-> next, to |-> to, more |-> next + max < total]
    BY <1>1, <1>2, <1>4, <2>1 DEF Paginate
  <2>3. part.from = next /\ part.to = to /\ (part.more <=> next + max < total)
    BY <2>2
  <2>4. got = next
    BY <1>2, <1>4 DEF Smaller
  <2>5. to \in Nat /\ Smaller(to, total) = to /\ (~(next + max < total) => to = total)
    BY <1>1, <1>2, <2>1 DEF Smaller
  <2>6. agent'[a].next = to /\ agent'[a].got = to
    BY <1>1, <1>2, <2>3, <2>4, <2>5
  <2>7. agent'[a].done => to = total
    BY <1>1, <2>3, <2>5
  <2>8. OnPage(a)'
    BY <1>2, <2>5, <2>6, <2>7 DEF OnPage
  <2> QED BY <2>8 DEF PageInv, OnPage
<1> QED BY <1>2, <1>3, <1>4

\* The other changes of a connection that keep its place.
LEMMA ReadStaysOnPage ==
    ASSUME McpShape, NEW a \in Agents, ReadLine(a) \/ LogAndAnswer(a) \/ ReadReply(a)
    PROVE  StaysOnPage(a) /\ \A b \in Agents \ {a} : agent'[b] = agent[b]
<1> DEFINE Same(r) == r.next = agent[a].next /\ r.got = agent[a].got /\ r.done = agent[a].done
<1>1. ASSUME NEW r, Same(r), agent' = [agent EXCEPT ![a] = r]
      PROVE  StaysOnPage(a) /\ \A b \in Agents \ {a} : agent'[b] = agent[b]
  BY <1>1 DEF McpShape, StaysOnPage
<1>2. ASSUME NEW pc, agent' = [agent EXCEPT ![a].pc = pc]
      PROVE  StaysOnPage(a) /\ \A b \in Agents \ {a} : agent'[b] = agent[b]
  BY <1>2, PcEffect DEF Changes
<1>3. ASSUME NEW line, NEW pc,
             agent' = [agent EXCEPT ![a].n = @ + 1, ![a].line = line, ![a].row = "none", ![a].pc = pc]
      PROVE  StaysOnPage(a) /\ \A b \in Agents \ {a} : agent'[b] = agent[b]
  <2>1. PICK r : r = [agent[a] EXCEPT !.n = @ + 1, !.line = line, !.row = "none", !.pc = pc]
    OBVIOUS
  <2>2. Same(r)
    BY <2>1 DEF McpShape, AgentFields
  <2>3. agent' = [agent EXCEPT ![a] = r]
    BY <1>3, <2>1
  <2> QED BY <1>1, <2>2, <2>3
<1>4. ASSUME NEW row,
             agent' = [agent EXCEPT ![a].pc = "read", ![a].line = NoLine, ![a].answer = NoAnswer, ![a].row = row]
      PROVE  StaysOnPage(a) /\ \A b \in Agents \ {a} : agent'[b] = agent[b]
  <2>1. PICK r : r = [agent[a] EXCEPT !.pc = "read", !.line = NoLine, !.answer = NoAnswer, !.row = row]
    OBVIOUS
  <2>2. Same(r)
    BY <2>1 DEF McpShape, AgentFields
  <2>3. agent' = [agent EXCEPT ![a] = r]
    BY <1>4, <2>1
  <2> QED BY <1>1, <2>2, <2>3
<1>5. ASSUME NEW answer, agent' = [agent EXCEPT ![a].pc = "log", ![a].answer = answer]
      PROVE  StaysOnPage(a) /\ \A b \in Agents \ {a} : agent'[b] = agent[b]
  <2>1. PICK r : r = [agent[a] EXCEPT !.pc = "log", !.answer = answer]
    OBVIOUS
  <2>2. Same(r)
    BY <2>1 DEF McpShape, AgentFields
  <2>3. agent' = [agent EXCEPT ![a] = r]
    BY <1>5, <2>1
  <2> QED BY <1>1, <2>2, <2>3
<1>6. CASE ReadLine(a)
  BY <1>2, <1>3, <1>6, Zenon DEF ReadLine
<1>7. CASE LogAndAnswer(a)
  BY <1>2, <1>4, <1>7 DEF LogAndAnswer
<1>8. CASE ReadReply(a)
  <2>1. agent' = agent \/ \E answer : agent' = [agent EXCEPT ![a].pc = "log", ![a].answer = answer]
    BY <1>8 DEF ReadReply
  <2> QED BY <1>5, <2>1 DEF StaysOnPage
<1> QED BY <1>6, <1>7, <1>8

\* The steps of a connection that fetch no page.
LEMMA OthersStayOnPage ==
    ASSUME McpShape, LockInv, NEW a \in Agents, Handle(a) \/ WithManager(a) \/ ReplyFails(a)
    PROVE  StaysOnPage(a) /\ \A b \in Agents \ {a} : agent'[b] = agent[b]
<1>1. (\E kind : Answered(a, kind)) \/ (\E pc : agent' = [agent EXCEPT ![a].pc = pc])
  <2>1. CASE Handle(a)
    BY <2>1 DEF Handle
  <2>2. CASE WithManager(a)
    BY <2>2 DEF WithManager
  <2>3. CASE ReplyFails(a)
    BY <2>3 DEF ReplyFails
  <2> QED BY <2>1, <2>2, <2>3
<1> QED BY <1>1, AnsweredEffect, PcEffect DEF Changes

\* A guest that follows the start_index of each part has the whole page when it is
\* told that there is no more, and nothing twice: for any page, any sizes of parts
\* and any other requests between them.
THEOREM PagesAreWhole == McpSpec => []PagesWhole
<1>1. McpInit => PageInv
  BY TotalType DEF McpInit, PageInv, OnPage, Smaller
<1>2. ASSUME McpInv, PageInv, [McpNext]_mcpVars PROVE PageInv'
  <2>1. McpShape /\ LockInv
    BY <1>2 DEF McpInv
  <2>2. ASSUME NEW a \in Agents, ReadLine(a) \/ LogAndAnswer(a) \/ ReadReply(a) PROVE PageInv'
    BY <1>2, <2>1, <2>2, ReadStaysOnPage, PageKept
  <2>3. ASSUME NEW a \in Agents, Handle(a) \/ WithManager(a) \/ ReplyFails(a) PROVE PageInv'
    BY <1>2, <2>1, <2>3, OthersStayOnPage, PageKept
  <2>4. ASSUME NEW a \in Agents, CallBuiltin(a) PROVE PageInv'
    <3>1. (\E kind : Answered(a, kind)) \/ (\E told \in BOOLEAN : ReturnPart(a, told))
      BY <2>4 DEF CallBuiltin, FetchHttp, GrepHttp, HttpHeaders, ToolError
    <3>2. (StaysOnPage(a) \/ TurnsPage(a)) /\ \A b \in Agents \ {a} : agent'[b] = agent[b]
      BY <2>1, <3>1, AnsweredEffect, PartEffect DEF Changes
    <3> QED BY <1>2, <2>1, <3>2, PageKept, PageTurned
  <2>5. ASSUME UNCHANGED agent PROVE PageInv'
    BY <1>2, <2>5 DEF PageInv, OnPage
  <2>6. (\E v \in Servers : ServerAnswers(v) \/ ServerNoise(v) \/ ServerDies(v)) \/ Initialize \/ UNCHANGED mcpVars
          => UNCHANGED agent
    BY DEF ServerAnswers, ServerNoise, ServerDies, Initialize, mcpVars
  <2> QED BY <1>2, <2>2, <2>3, <2>4, <2>5, <2>6, Zenon DEF McpNext, AgentStep
<1>3. PageInv => PagesWhole
  BY DEF PageInv, OnPage, PagesWhole
<1>4. McpSpec => []McpInv
  BY McpInitially, McpStep, PTL DEF McpSpec
<1> QED BY <1>1, <1>2, <1>3, <1>4, PTL DEF McpSpec
------------------------------------------------------------------------------
(* Names and the server they lead to.                                      *)

\* The server in a name ends before the first separator.
LEMMA ParsedName ==
    ASSUME NEW T, NEW name \in Seq(T), SepsAt(name) # {}
    PROVE  \E i \in 1..Len(name) : /\ name[i] = Sep /\ \A j \in 1..(i - 1) : name[j] # Sep
                                   /\ ParseNamespaced(name).server = SubSeq(name, 1, i - 1)
<1> DEFINE R == {ss \in Nat \X Nat : ss[1] < ss[2]}
           First(j) == \A k \in SepsAt(name) : j <= k
<1>1. SepsAt(name) \subseteq 1..Len(name) /\ SepsAt(name) \subseteq Nat
  BY DEF SepsAt
<1>2. IsWellFoundedOn(R, Nat)
  BY NatLessThanWellFounded, Zenon DEF OpToRel
<1>3. PICK m \in SepsAt(name) : \A j \in SepsAt(name) : ~(<<j, m>> \in R)
  <2> HIDE DEF R
  <2> QED BY <1>1, <1>2, WFMin
<1>4. First(m)
  <2>1. SUFFICES ASSUME NEW k \in SepsAt(name) PROVE m <= k
    OBVIOUS
  <2>2. k \in Nat /\ m \in Nat
    BY ONLY <1>1, k \in SepsAt(name), m \in SepsAt(name)
  <2>3. ~(<<k, m>> \in R)
    BY <1>3
  <2> QED BY ONLY <2>2, <2>3
<1>5. PICK i : i = CHOOSE j \in SepsAt(name) : First(j)
  OBVIOUS
<1>6. i \in SepsAt(name) /\ First(i)
  BY <1>3, <1>4, <1>5, Zenon
<1>7. ParseNamespaced(name).server = SubSeq(name, 1, i - 1)
  BY <1>5 DEF ParseNamespaced
<1>8. \A j \in 1..(i - 1) : name[j] # Sep
  <2>1. SUFFICES ASSUME NEW j \in 1..(i - 1), name[j] = Sep PROVE FALSE
    OBVIOUS
  <2>2. j \in SepsAt(name)
    BY <1>1, <1>6, <2>1 DEF SepsAt
  <2> QED BY <1>1, <1>6, <2>2
<1> QED BY <1>1, <1>6, <1>7, <1>8 DEF SepsAt

\* What is taken out of a sequence.
LEMMA SubSeqFacts ==
    ASSUME NEW T, NEW s \in Seq(T), NEW m \in 1..(Len(s) + 1), NEW n \in 0..Len(s), m <= n + 1
    PROVE  /\ SubSeq(s, m, n) \in Seq(T) /\ Len(SubSeq(s, m, n)) = n - m + 1
           /\ \A i \in 1..(n - m + 1) : SubSeq(s, m, n)[i] = s[m + i - 1]
  OBVIOUS

\* A name that a server gave leads back to it, whatever separators follow.
LEMMA HasParsed ==
    ASSUME NEW T, Sep \in T, NEW v \in Seq(T), NEW name \in Seq(T), SepsAt(v) = {}, Has(v, name)
    PROVE  ParseNamespaced(name).server = v
<1>1. PICK k \in 1..Len(name) + 1 : (v \o <<Sep>>) \o SubSeq(name, k, Len(name)) = name
  BY DEF Has, NamespaceName
<1>2. PICK rest \in Seq(T), l \in Nat : rest = SubSeq(name, k, Len(name)) /\ l = Len(v)
  <2>1. SubSeq(name, k, Len(name)) \in Seq(T)
    BY SubSeqFacts
  <2>2. Len(v) \in Nat
    OBVIOUS
  <2> QED BY <2>1, <2>2, Zenon
<1>3. PICK p : p = v \o <<Sep>> /\ name = p \o rest
  BY <1>1, <1>2
<1>4. /\ p \in Seq(T) /\ Len(p) = l + 1 /\ p[l + 1] = Sep /\ \A j \in 1..l : p[j] = v[j]
  BY <1>2, <1>3
<1>5. Len(name) = l + 1 + Len(rest) /\ \A j \in 1..(l + 1) : name[j] = p[j]
  BY <1>3, <1>4
<1>6. name[l + 1] = Sep /\ (\A j \in 1..l : name[j] = v[j]) /\ l + 1 \in 1..Len(name)
  <2>1. l \in Nat /\ Len(name) \in Nat /\ Len(rest) \in Nat
    BY <1>2
  <2>2. l + 1 \in 1..Len(name) /\ l + 1 \in 1..(l + 1) /\ \A j \in 1..l : j \in 1..(l + 1)
    BY ONLY <1>5, <2>1
  <2> QED BY ONLY <1>4, <1>5, <2>2
<1>7. \A j \in 1..l : name[j] # Sep
  <2>1. \A j \in DOMAIN v : v[j] # Sep
    BY DEF SepsAt
  <2>2. DOMAIN v = 1..l
    BY <1>2
  <2> QED BY ONLY <1>6, <2>1, <2>2
<1>8. SepsAt(name) # {}
  BY <1>6 DEF SepsAt
<1>9. PICK i \in 1..Len(name) : /\ name[i] = Sep /\ \A j \in 1..(i - 1) : name[j] # Sep
                                /\ ParseNamespaced(name).server = SubSeq(name, 1, i - 1)
  BY <1>8, ParsedName
<1>10. i = l + 1
  <2>1. ~(i < l + 1)
    BY <1>2, <1>7, <1>9
  <2>2. ~(l + 1 < i)
    BY <1>2, <1>6, <1>9
  <2> QED BY <1>2, <1>9, <2>1, <2>2
<1>11. SubSeq(name, 1, l) = v
  <2>1. /\ SubSeq(name, 1, l) \in Seq(T) /\ Len(SubSeq(name, 1, l)) = l
        /\ \A j \in 1..l : SubSeq(name, 1, l)[j] = name[j]
    BY <1>2, <1>6, SubSeqFacts
  <2> QED BY <1>2, <1>6, <2>1, SeqEqual
<1> QED BY <1>9, <1>10, <1>11

\* The server that a name leads to gave that name.
LEMMA ParsedHas ==
    ASSUME NEW T, Sep \in T, NEW name \in Seq(T), NEW v, v = ParseNamespaced(name).server, v # << >>
    PROVE  SepsAt(v) = {} /\ Has(v, name)
<1>1. SepsAt(name) # {}
  BY DEF ParseNamespaced, NoName
<1>2. PICK i \in 1..Len(name) : /\ name[i] = Sep /\ \A j \in 1..(i - 1) : name[j] # Sep
                                /\ v = SubSeq(name, 1, i - 1)
  BY <1>1, ParsedName
<1>0. PICK l \in Nat : l = Len(name) /\ i \in 1..l
  OBVIOUS
<1>3. v \in Seq(T) /\ Len(v) = i - 1 /\ \A j \in 1..(i - 1) : v[j] = name[j]
  BY <1>0, <1>2, SubSeqFacts
<1>4. SepsAt(v) = {}
  BY <1>2, <1>3 DEF SepsAt
<1>5. PICK rest \in Seq(T) : /\ rest = SubSeq(name, i + 1, l) /\ Len(rest) = l - i
                             /\ \A j \in 1..(l - i) : rest[j] = name[i + j]
  <2>1. /\ SubSeq(name, i + 1, l) \in Seq(T) /\ Len(SubSeq(name, i + 1, l)) = l - i
        /\ \A j \in 1..(l - i) : SubSeq(name, i + 1, l)[j] = name[i + j]
    BY <1>0, SubSeqFacts
  <2> QED BY <2>1
<1>6. PICK p : p = v \o <<Sep>>
  OBVIOUS
<1>7. p \in Seq(T) /\ Len(p) = i /\ p[i] = Sep /\ \A j \in 1..(i - 1) : p[j] = v[j]
  BY <1>2, <1>3, <1>6
<1>8. PICK q : q = p \o rest
  OBVIOUS
<1>9. q \in Seq(T) /\ Len(q) = l /\ (\A j \in 1..i : q[j] = p[j]) /\ \A j \in 1..(l - i) : q[i + j] = rest[j]
  <2>1. p \o rest \in Seq(T) /\ Joined(p \o rest, p, rest)
    BY <1>5, <1>7, ConcatFacts
  <2>2. Len(p) = i /\ Len(rest) = l - i /\ i + (l - i) = l
    BY <1>0, <1>5, <1>7
  <2> QED BY ONLY <1>8, <2>1, <2>2 DEF Joined
<1>10. ASSUME NEW j \in 1..l PROVE q[j] = name[j]
  <2>1. CASE j < i
    BY <1>3, <1>7, <1>9, <2>1
  <2>2. CASE j = i
    BY <1>2, <1>7, <1>9, <2>2
  <2>3. CASE j > i
    <3>1. j - i \in 1..(l - i) /\ i + (j - i) = j
      BY <1>0, <2>3
    <3>2. q[i + (j - i)] = rest[j - i] /\ rest[j - i] = name[i + (j - i)]
      BY <1>5, <1>9, <3>1
    <3> QED BY <3>1, <3>2
  <2> QED BY <1>0, <2>1, <2>2, <2>3
<1>11. q = name
  BY <1>0, <1>9, <1>10, SeqEqual
<1>12. NamespaceName(v, SubSeq(name, i + 1, Len(name))) = name
  BY <1>0, <1>5, <1>6, <1>8, <1>11 DEF NamespaceName
<1>13. i + 1 \in 1..Len(name) + 1
  BY <1>0
<1> QED BY <1>4, <1>12, <1>13 DEF Has

\* The types of the names.
Words == STRING \cup {Sep}

LEMMA NamesTyped ==
    /\ \A v \in Servers : v \in Seq(Words) /\ v # << >>
    /\ \A line \in AnyLine : line.name \in Seq(Words)
<1>1. \A s \in Seq(STRING) : s \in Seq(Words)
  BY DEF Words
<1>2. NoLine.name = << >> /\ << >> \in Seq(Words)
  BY DEF NoLine
<1> QED BY <1>1, <1>2, McpAssumption DEF AnyLine

------------------------------------------------------------------------------
(* What the policy lets through.                                           *)

\* A call that a server was sent, and the connection that sent it is still about.
Sent(v, call) ==
    LET a == call.for[1]
    IN call.for[2] <= agent[a].n /\ (agent[a].line.method = "tools/call" /\ call.for = Me(a) => Permitted(v, call.name))

\* Calls that wait for the lock and calls in a pipe passed the policy.
PassInv ==
    /\ \A a \in Agents : agent[a].pc = "lock" /\ agent[a].line.method = "tools/call" =>
                            Permitted(Target(a), agent[a].line.name)
    /\ \A v \in Servers : \A i \in DOMAIN server[v].stdin : Sent(v, server[v].stdin[i])

\* The pipes to the servers hold nothing new.
NothingSent ==
    \A v \in Servers : \A i \in DOMAIN server'[v].stdin :
        \E j \in DOMAIN server[v].stdin : server'[v].stdin[i] = server[v].stdin[j]

LEMMA PassKept ==
    ASSUME McpShape, PassInv, UNCHANGED mcpPolicy, NothingSent, NEW a \in Agents,
           \A b \in Agents \ {a} : agent'[b] = agent[b],
           \/ agent'[a].n = agent[a].n /\ agent'[a].line \in {agent[a].line, NoLine}
           \/ agent'[a].n = agent[a].n + 1,
           agent'[a].pc = "lock" /\ agent'[a].line.method = "tools/call" =>
               Permitted(ParseNamespaced(agent'[a].line.name).server, agent'[a].line.name)
    PROVE  PassInv'
<1>1. \A v, name : Permitted(v, name)' <=> Permitted(v, name)
  BY DEF Permitted
<1>2. ASSUME NEW b \in Agents, agent'[b].pc = "lock", agent'[b].line.method = "tools/call"
      PROVE  Permitted(Target(b), agent[b].line.name)'
  BY <1>1, <1>2 DEF PassInv, Target
<1>3. ASSUME NEW v \in Servers, NEW call \in Asks, Sent(v, call) PROVE Sent(v, call)'
  <2>1. PICK b \in Agents, k \in Nat : call.for = <<b, k>> /\ call.for[1] = b /\ call.for[2] = k
    BY DEF Asks
  <2>2. k <= agent[b].n /\ (agent[b].line.method = "tools/call" /\ k = agent[b].n => Permitted(v, call.name))
    BY <1>3, <2>1 DEF Sent, Me
  <2>3. agent[b].n \in Nat /\ NoLine.method # "tools/call"
    BY DEF McpShape, NoLine
  <2>4. k <= agent'[b].n /\ (agent'[b].line.method = "tools/call" /\ k = agent'[b].n => Permitted(v, call.name))
    BY <2>2, <2>3
  <2> QED BY <1>1, <2>1, <2>4 DEF Sent, Me
<1>4. ASSUME NEW v \in Servers, NEW i \in DOMAIN server'[v].stdin PROVE Sent(v, server[v].stdin[i])'
  <2>1. PICK j \in DOMAIN server[v].stdin : server'[v].stdin[i] = server[v].stdin[j]
    BY <1>4 DEF NothingSent
  <2>2. server[v].stdin[j] \in Asks /\ Sent(v, server[v].stdin[j])
    BY <2>1 DEF McpShape, PassInv
  <2>3. PICK call \in Asks : call = server[v].stdin[j] /\ Sent(v, call)
    BY <2>2
  <2>4. Sent(v, call)'
    BY <1>3, <2>3
  <2>5. server'[v].stdin[i] = call
    BY <2>1, <2>3
  <2> QED BY <2>4, <2>5 DEF Sent
<1> QED BY <1>2, <1>4 DEF PassInv

\* The steps of the servers.
LEMMA ServersPass ==
    ASSUME McpShape, PassInv, UNCHANGED <<mcpPolicy, agent>>, NothingSent
    PROVE  PassInv'
<1>1. \A v, name : Permitted(v, name)' <=> Permitted(v, name)
  BY DEF Permitted
<1>2. \A b \in Agents : agent'[b].pc = "lock" /\ agent'[b].line.method = "tools/call" =>
                           Permitted(Target(b), agent[b].line.name)'
  BY <1>1 DEF PassInv, Target
<1>3. ASSUME NEW v, NEW call, Sent(v, call) PROVE Sent(v, call)'
  BY <1>1, <1>3 DEF Sent, Me
<1>4. ASSUME NEW v \in Servers, NEW i \in DOMAIN server'[v].stdin PROVE Sent(v, server[v].stdin[i])'
  <2>1. PICK j \in DOMAIN server[v].stdin : server'[v].stdin[i] = server[v].stdin[j]
    BY <1>4 DEF NothingSent
  <2>2. PICK call : call = server[v].stdin[j] /\ Sent(v, call)
    BY <2>1 DEF PassInv
  <2>3. Sent(v, call)' /\ server'[v].stdin[i] = call
    BY <1>3, <2>1, <2>2
  <2> QED BY <2>3 DEF Sent
<1> QED BY <1>2, <1>4 DEF PassInv

\* What passes Evaluate is permitted.
LEMMA EvaluateLetsPass ==
    ASSUME NEW v, NEW name, Evaluate(v, name) # "block"
    PROVE  Permitted(v, name)
  BY DEF Evaluate, Permitted
\* What is in the pipes once a step has changed at most those that come from the servers.
LEMMA StdinKept ==
    ASSUME McpShape, \A v \in Servers : server'[v].stdin = server[v].stdin
    PROVE  NothingSent
  BY DEF NothingSent

\* What the steps of a connection change, as far as its request is concerned.
LEMMA RequestKept ==
    ASSUME McpShape, NEW a \in Agents, LogAndAnswer(a) \/ ReadReply(a)
    PROVE  /\ \A b \in Agents \ {a} : agent'[b] = agent[b]
           /\ agent'[a].n = agent[a].n /\ agent'[a].line \in {agent[a].line, NoLine}
           /\ agent'[a].pc # "lock" \/ agent' = agent
<1>1. ASSUME NEW row,
             agent' = [agent EXCEPT ![a].pc = "read", ![a].line = NoLine, ![a].answer = NoAnswer, ![a].row = row]
      PROVE  /\ \A b \in Agents \ {a} : agent'[b] = agent[b]
             /\ agent'[a].n = agent[a].n /\ agent'[a].line = NoLine /\ agent'[a].pc = "read"
  <2>1. PICK r : r = [agent[a] EXCEPT !.pc = "read", !.line = NoLine, !.answer = NoAnswer, !.row = row]
    OBVIOUS
  <2>2. r.n = agent[a].n /\ r.line = NoLine /\ r.pc = "read"
    BY <2>1 DEF McpShape, AgentFields
  <2>3. agent' = [agent EXCEPT ![a] = r]
    BY <1>1, <2>1
  <2> QED BY <2>2, <2>3 DEF McpShape
<1>2. ASSUME NEW answer, agent' = [agent EXCEPT ![a].pc = "log", ![a].answer = answer]
      PROVE  /\ \A b \in Agents \ {a} : agent'[b] = agent[b]
             /\ agent'[a].n = agent[a].n /\ agent'[a].line = agent[a].line /\ agent'[a].pc = "log"
  BY <1>2 DEF McpShape, AgentFields
<1>3. CASE LogAndAnswer(a)
  <2>1. CASE agent' = [agent EXCEPT ![a].pc = "ended"]
    <3>1. Changes(a) /\ agent'[a].pc = "ended"
      BY <2>1, PcEffect
    <3> QED BY <3>1 DEF Changes
  <2>2. CASE agent' # [agent EXCEPT ![a].pc = "ended"]
    BY <1>1, <1>3, <2>2 DEF LogAndAnswer
  <2> QED BY <2>1, <2>2
<1>4. CASE ReadReply(a)
  <2>1. agent' = agent \/ \E answer : agent' = [agent EXCEPT ![a].pc = "log", ![a].answer = answer]
    BY <1>4 DEF ReadReply
  <2> QED BY <1>2, <2>1
<1> QED BY <1>3, <1>4

LEMMA ReadLinePasses ==
    ASSUME McpShape, PassInv, NEW a \in Agents, ReadLine(a)
    PROVE  PassInv'
<1>1. NothingSent /\ UNCHANGED mcpPolicy /\ agent[a].pc = "read"
  BY StdinKept DEF ReadLine
<1>2. CASE agent' = [agent EXCEPT ![a].pc = "ended"]
  <2>1. Changes(a) /\ agent'[a].pc = "ended"
    BY <1>2, PcEffect
  <2> QED BY <1>1, <2>1, PassKept DEF Changes
<1>3. ASSUME NEW line, NEW pc \in {"read", "handle"},
             agent' = [agent EXCEPT ![a].n = @ + 1, ![a].line = line, ![a].row = "none", ![a].pc = pc]
      PROVE  PassInv'
  <2>1. PICK r : r = [agent[a] EXCEPT !.n = @ + 1, !.line = line, !.row = "none", !.pc = pc]
    OBVIOUS
  <2>2. r.n = agent[a].n + 1 /\ r.pc = pc
    BY <2>1 DEF McpShape, AgentFields
  <2>3. agent' = [agent EXCEPT ![a] = r]
    BY <1>3, <2>1
  <2>4. agent'[a].n = agent[a].n + 1 /\ agent'[a].pc # "lock" /\ \A b \in Agents \ {a} : agent'[b] = agent[b]
    BY <2>2, <2>3 DEF McpShape
  <2> QED BY <1>1, <2>4, PassKept
<1> QED BY <1>2, <1>3 DEF ReadLine

\* tools/call asks the policy before it queues for the lock.
LEMMA HandlePasses ==
    ASSUME McpShape, PassInv, NEW a \in Agents, Handle(a)
    PROVE  PassInv'
<1>1. NothingSent /\ UNCHANGED mcpPolicy /\ agent[a].pc = "handle" /\ agent[a].line.name \notin Builtin
  BY StdinKept DEF Handle
<1>2. \/ agent' = [agent EXCEPT ![a].pc = "read"]
      \/ \E kind : Answered(a, kind)
      \/ /\ agent' = [agent EXCEPT ![a].pc = "lock"]
         /\ agent[a].line.method = "tools/call" => Evaluate(ServerOf(agent[a].line.name), agent[a].line.name) # "block"
  BY DEF Handle, NeedsLock
<1>3. CASE agent' = [agent EXCEPT ![a].pc = "read"]
  <2>1. Changes(a) /\ agent'[a].pc = "read"
    BY <1>3, PcEffect
  <2> QED BY <1>1, <2>1, PassKept DEF Changes
<1>4. ASSUME NEW kind, Answered(a, kind) PROVE PassInv'
  <2>1. Changes(a) /\ agent'[a].pc = "log"
    BY <1>4, AnsweredEffect
  <2> QED BY <1>1, <2>1, PassKept DEF Changes
<1>5. ASSUME agent' = [agent EXCEPT ![a].pc = "lock"],
             agent[a].line.method = "tools/call" => Evaluate(ServerOf(agent[a].line.name), agent[a].line.name) # "block"
      PROVE  PassInv'
  <2>1. Changes(a)
    BY <1>5, PcEffect
  <2>2. ServerOf(agent[a].line.name) = ParseNamespaced(agent[a].line.name).server
    BY <1>1 DEF ServerOf
  <2>3. agent[a].line.method = "tools/call" => Permitted(ParseNamespaced(agent[a].line.name).server, agent[a].line.name)
    BY <1>5, <2>2, EvaluateLetsPass
  <2>4. agent'[a].line = agent[a].line
    BY <2>1 DEF Changes
  <2> QED BY <1>1, <2>1, <2>3, <2>4, PassKept DEF Changes
<1> QED BY <1>2, <1>3, <1>4, <1>5

\* What the holder of the lock does.
LEMMA ManagerEffect ==
    ASSUME McpShape, LockInv, NEW a \in Agents, WithManager(a), NEW v, v = Target(a)
    PROVE  \/ (Answered(a, "result") \/ Answered(a, "error")) /\ UNCHANGED server
              /\ (Wants(a) => ~(v \in Servers /\ server[v].state \in {"running", "dead"}))
           \/ /\ v \in Servers /\ agent' = [agent EXCEPT ![a].pc = "await"]
              /\ server' = [server EXCEPT ![v].stdin = Append(@, [for |-> Me(a), name |-> agent[a].line.name])]
<1>1. agent[a].line.method \in NeedsLock \cup {"tools/call"}
  BY DEF LockInv, WithManager
<1> QED BY <1>1 DEF WithManager, NeedsLock, Target, Wants

\* One more call in the pipe of the server v.
LEMMA PipeGrows ==
    ASSUME McpShape, NEW v \in Servers, NEW ask, server' = [server EXCEPT ![v].stdin = Append(@, ask)]
    PROVE  /\ \A w \in Servers \ {v} : server'[w] = server[w]
           /\ server'[v].stdin = Append(server[v].stdin, ask)
           /\ Len(server'[v].stdin) = Len(server[v].stdin) + 1 /\ Len(server[v].stdin) \in Nat
           /\ \A i \in DOMAIN server'[v].stdin : IF i = Len(server[v].stdin) + 1 THEN server'[v].stdin[i] = ask
                 ELSE i \in DOMAIN server[v].stdin /\ server'[v].stdin[i] = server[v].stdin[i]
<1>1. PICK in : in = server[v].stdin /\ in \in Seq(Asks)
  BY DEF McpShape
<1>2. (\A w \in Servers \ {v} : server'[w] = server[w]) /\ server'[v].stdin = Append(in, ask)
  BY <1>1 DEF McpShape
<1>3. /\ Len(Append(in, ask)) = Len(in) + 1 /\ Len(in) \in Nat
      /\ \A i \in DOMAIN Append(in, ask) : IF i = Len(in) + 1 THEN Append(in, ask)[i] = ask
                                           ELSE i \in DOMAIN in /\ Append(in, ask)[i] = in[i]
  BY <1>1
<1> QED BY <1>1, <1>2, <1>3

LEMMA ManagerPasses ==
    ASSUME McpShape, LockInv, PassInv, NEW a \in Agents, WithManager(a)
    PROVE  PassInv'
<1>1. PICK v : v = Target(a)
  OBVIOUS
<1>2. UNCHANGED mcpPolicy /\ agent[a].pc = "lock"
  BY DEF WithManager
<1>3. CASE (Answered(a, "result") \/ Answered(a, "error")) /\ UNCHANGED server
  <2>1. Changes(a) /\ agent'[a].pc = "log" /\ NothingSent
    BY <1>3, AnsweredEffect, StdinKept
  <2> QED BY <1>2, <2>1, PassKept DEF Changes
<1>4. ASSUME v \in Servers, agent' = [agent EXCEPT ![a].pc = "await"], NEW ask,
             ask = [for |-> Me(a), name |-> agent[a].line.name], server' = [server EXCEPT ![v].stdin = Append(@, ask)]
      PROVE  PassInv'
  <2>1. Changes(a) /\ agent'[a].pc = "await"
    BY <1>4, PcEffect
  <2>2. \A w, name : Permitted(w, name)' <=> Permitted(w, name)
    BY <1>2 DEF Permitted
  <2>3. \A b \in Agents : agent'[b].pc = "lock" => b # a /\ agent'[b] = agent[b]
    BY <2>1 DEF Changes
  <2>4. \A b \in Agents : agent'[b].pc = "lock" /\ agent'[b].line.method = "tools/call" =>
                             Permitted(Target(b), agent[b].line.name)'
    BY <2>2, <2>3 DEF PassInv, Target
  <2>5. \A b \in Agents : agent'[b].n = agent[b].n /\ agent'[b].line = agent[b].line
    BY <2>1 DEF Changes
  <2>6. ASSUME NEW w, NEW call \in Asks, Sent(w, call) PROVE Sent(w, call)'
    <3>1. call.for[1] \in Agents
      BY DEF Asks
    <3> QED BY <2>2, <2>5, <2>6, <3>1 DEF Sent, Me
  <2>7. ask \in Asks /\ Sent(v, ask)
    <3>1. ask.for = <<a, agent[a].n>> /\ ask.for[1] = a /\ ask.for[2] = agent[a].n /\ ask.name = agent[a].line.name
      BY <1>4 DEF Me
    <3>2. agent[a].n \in Nat /\ agent[a].line \in AnyLine
      BY DEF McpShape
    <3>3. ask \in Asks
      BY <1>4, <3>2 DEF Asks, Me
    <3>4. agent[a].line.method = "tools/call" => Permitted(v, agent[a].line.name)
      BY <1>1, <1>2 DEF PassInv
    <3> QED BY <3>1, <3>2, <3>3, <3>4 DEF Sent
  <2>8. ASSUME NEW w \in Servers, NEW i \in DOMAIN server'[w].stdin PROVE Sent(w, server[w].stdin[i])'
    <3>1. PICK call : call \in Asks /\ Sent(w, call) /\ server'[w].stdin[i] = call
      <4>1. ASSUME NEW j \in DOMAIN server[w].stdin PROVE server[w].stdin[j] \in Asks /\ Sent(w, server[w].stdin[j])
        BY DEF McpShape, PassInv
      <4>2. CASE w # v
        <5>1. server'[w] = server[w]
          BY <1>4, <4>2, PipeGrows
        <5> QED BY <2>8, <4>1, <5>1
      <4>3. CASE w = v
        BY <1>4, <2>7, <2>8, <4>1, <4>3, PipeGrows
      <4> QED BY <4>2, <4>3
    <3>2. Sent(w, call)'
      BY <2>6, <3>1
    <3> QED BY <3>1, <3>2 DEF Sent
  <2> QED BY <2>4, <2>8 DEF PassInv
<1> QED BY <1>1, <1>3, <1>4, ManagerEffect

LEMMA PassStep ==
    ASSUME McpInv, PassInv, [McpNext]_mcpVars
    PROVE  PassInv'
<1>1. McpShape /\ LockInv
  BY DEF McpInv
<1>2. ASSUME NEW a \in Agents, LogAndAnswer(a) \/ ReadReply(a) PROVE PassInv'
  <2>1. UNCHANGED mcpPolicy /\ \A v \in Servers : server'[v].stdin = server[v].stdin
    <3>1. UNCHANGED mcpPolicy /\ (UNCHANGED server \/ \E v : server' = [server EXCEPT ![v].stdout = Tail(@)])
      BY <1>2 DEF LogAndAnswer, ReadReply
    <3>2. ASSUME NEW v, server' = [server EXCEPT ![v].stdout = Tail(@)]
          PROVE  \A w \in Servers : server'[w].stdin = server[w].stdin
      BY <1>1, <3>2 DEF McpShape
    <3> QED BY <3>1, <3>2
  <2>2. NothingSent
    BY <1>1, <2>1, StdinKept
  <2>3. CASE agent' = agent
    BY <1>1, <2>1, <2>2, <2>3, ServersPass
  <2>4. CASE agent' # agent
    BY <1>1, <1>2, <2>1, <2>2, <2>4, RequestKept, PassKept
  <2> QED BY <2>3, <2>4
<1>3. ASSUME NEW a \in Agents, CallBuiltin(a) \/ ReplyFails(a) PROVE PassInv'
  <2>1. UNCHANGED <<mcpPolicy, server>>
    BY <1>3 DEF CallBuiltin, ReplyFails
  <2>2. (\E kind : Answered(a, kind)) \/ (\E told \in BOOLEAN : ReturnPart(a, told))
    BY <1>3 DEF CallBuiltin, ReplyFails, FetchHttp, GrepHttp, HttpHeaders, ToolError
  <2>3. Changes(a) /\ agent'[a].pc # "lock"
    BY <1>1, <2>2, AnsweredEffect, PartEffect
  <2> QED BY <1>1, <2>1, <2>3, StdinKept, PassKept DEF Changes
<1>4. ASSUME NEW v \in Servers, ServerAnswers(v) PROVE PassInv'
  <2>1. PICK in : in = server[v].stdin /\ in \in Seq(Asks) /\ in # << >>
    BY <1>1, <1>4 DEF McpShape, ServerAnswers
  <2>2. UNCHANGED <<mcpPolicy, agent>> /\ server'[v].stdin = Tail(in) /\ \A w \in Servers \ {v} : server'[w] = server[w]
    BY <1>1, <1>4, <2>1 DEF McpShape, ServerAnswers
  <2>3. \A i \in DOMAIN Tail(in) : i + 1 \in DOMAIN in /\ Tail(in)[i] = in[i + 1]
    BY <2>1
  <2>4. ASSUME NEW w \in Servers, NEW i \in DOMAIN server'[w].stdin
        PROVE  \E j \in DOMAIN server[w].stdin : server[w].stdin[j] = server'[w].stdin[i]
    <3>1. CASE w = v
      BY <2>1, <2>2, <2>3, <2>4, <3>1
    <3>2. CASE w # v
      BY <2>2, <2>4, <3>2
    <3> QED BY <3>1, <3>2
  <2>5. NothingSent
    BY <2>4 DEF NothingSent
  <2> QED BY <1>1, <2>2, <2>5, ServersPass
<1>5. ASSUME (\E v \in Servers : ServerNoise(v) \/ ServerDies(v)) \/ Initialize \/ UNCHANGED mcpVars PROVE PassInv'
  <2>1. UNCHANGED <<mcpPolicy, agent>>
    BY <1>5 DEF ServerNoise, ServerDies, Initialize, mcpVars
  <2>2. ASSUME NEW v \in Servers, ServerNoise(v) \/ ServerDies(v)
        PROVE  \A w \in Servers : server'[w].stdin = server[w].stdin
    <3>1. CASE ServerNoise(v)
      <4>1. PICK kind : server' = [server EXCEPT ![v].stdout = Append(@, Reply(kind, << >>))]
        BY <3>1 DEF ServerNoise
      <4>2. PICK out : out = Append(server[v].stdout, Reply(kind, << >>))
        OBVIOUS
      <4>3. server' = [server EXCEPT ![v].stdout = out]
        BY <4>1, <4>2
      <4> QED BY <1>1, <4>3 DEF McpShape
    <3>2. CASE ServerDies(v)
      <4>1. server' = [server EXCEPT ![v].state = "dead"]
        BY <3>2 DEF ServerDies
      <4> QED BY <1>1, <4>1 DEF McpShape
    <3> QED BY <2>2, <3>1, <3>2
  <2>3. ASSUME Initialize PROVE \A w \in Servers : server'[w].stdin = server[w].stdin
    <3>1. PICK up : server' = [w \in Servers |-> [server[w] EXCEPT !.state = IF w \in up THEN "running" ELSE "absent"]]
      BY <2>3 DEF Initialize
    <3>2. ASSUME NEW w \in Servers PROVE server'[w].stdin = server[w].stdin
      <4>1. PICK state : server'[w] = [server[w] EXCEPT !.state = state]
        BY <3>1
      <4> QED BY <1>1, <4>1 DEF McpShape
    <3> QED BY <3>2
  <2>4. \A v \in Servers : server'[v].stdin = server[v].stdin
    BY <1>5, <2>2, <2>3 DEF mcpVars
  <2> QED BY <1>1, <2>1, <2>4, StdinKept, ServersPass
<1> QED BY <1>1, <1>2, <1>3, <1>4, <1>5, ReadLinePasses, HandlePasses, ManagerPasses DEF McpNext, AgentStep

\* Only the step with the lock moves a connection that waits for it.
LEMMA LockStep ==
    ASSUME McpInv, [McpNext]_mcpVars, NEW a \in Agents, agent[a].pc = "lock", agent'[a].pc # "lock"
    PROVE  WithManager(a)
<1>1. McpShape /\ LockInv
  BY DEF McpInv
<1>2. ASSUME NEW b \in Agents, b # a, ReadLine(b) \/ AgentStep(b) PROVE agent'[a] = agent[a]
  <2>1. CASE ReadLine(b) \/ LogAndAnswer(b) \/ ReadReply(b)
    BY <1>1, <1>2, <2>1, ReadStaysOnPage
  <2>2. CASE Handle(b) \/ WithManager(b) \/ ReplyFails(b)
    BY <1>1, <1>2, <2>2, OthersStayOnPage
  <2>3. CASE CallBuiltin(b)
    <3>1. (\E kind : Answered(b, kind)) \/ (\E told \in BOOLEAN : ReturnPart(b, told))
      BY <2>3 DEF CallBuiltin, FetchHttp, GrepHttp, HttpHeaders, ToolError
    <3> QED BY <1>1, <1>2, <3>1, AnsweredEffect, PartEffect DEF Changes
  <2> QED BY <1>2, <2>1, <2>2, <2>3 DEF AgentStep
<1>3. ASSUME ReadLine(a) \/ AgentStep(a) PROVE WithManager(a)
  BY <1>3 DEF AgentStep, ReadLine, Handle, CallBuiltin, ReadReply, ReplyFails, LogAndAnswer
<1>4. ~((\E v \in Servers : ServerAnswers(v) \/ ServerNoise(v) \/ ServerDies(v)) \/ Initialize \/ UNCHANGED mcpVars)
  <2>1. agent' # agent
    OBVIOUS
  <2> QED BY <2>1 DEF ServerAnswers, ServerNoise, ServerDies, Initialize, mcpVars
<1> QED BY <1>2, <1>3, <1>4 DEF McpNext

LEMMA PassInitially == McpInit => PassInv
<1>1. McpInit => \A v \in Servers : DOMAIN server[v].stdin = {}
  BY DEF McpInit
<1> QED BY <1>1 DEF McpInit, PassInv

\* A server is sent only calls that the policy lets through: no blocked server,
\* none outside a list of allowed ones, no blocked tool, for any servers, tools,
\* policies and numbers of connections.
CallsPermitted ==
    \A v \in Servers : \A i \in DOMAIN server[v].stdin :
        LET call == server[v].stdin[i]
        IN agent[call.for[1]].line.method = "tools/call" /\ call.for = Me(call.for[1]) => Permitted(v, call.name)

THEOREM CallsArePermitted == McpSpec => []CallsPermitted
<1>1. PassInv => CallsPermitted
  BY DEF PassInv, Sent, CallsPermitted
<1> QED BY <1>1, PassInitially, McpInitially, McpStep, PassStep, PTL DEF McpSpec

\* What a connection asks for reaches the running server whose name leads its own
\* and no other, and a call only if the policy lets it through: for any servers,
\* tools, policies and numbers of connections.
THEOREM CallsAreRouted == McpSpec => CallsRouted
<1>1. ASSUME McpInv, PassInv, [McpNext]_mcpVars, NEW a \in Agents, NEW v \in Servers PROVE Reaches(a, v)
  <2>1. McpShape /\ LockInv
    BY <1>1 DEF McpInv
  <2>2. PICK name : name = agent[a].line.name /\ name \in Seq(Words)
    BY <2>1, NamesTyped DEF McpShape
  <2>3. v \in Seq(Words) /\ v # << >> /\ Sep \in Words
    BY NamesTyped DEF Words
  <2>4. PICK w : w = Target(a)
    OBVIOUS
  <2>5. w = ParseNamespaced(name).server
    BY <2>2, <2>4 DEF Target
  <2>6. ASSUME Wants(a), SepsAt(v) = {}, Has(v, name), server[v].state = "running", agent'[a].pc # "lock"
        PROVE  Len(server'[v].stdin) > Len(server[v].stdin)
    <3>1. WithManager(a)
      BY <1>1, <2>6, LockStep DEF Wants
    <3>2. w = v
      BY <2>2, <2>3, <2>5, <2>6, HasParsed
    <3>3. server' = [server EXCEPT ![v].stdin = Append(@, [for |-> Me(a), name |-> agent[a].line.name])]
      BY <2>1, <2>4, <2>6, <3>1, <3>2, ManagerEffect
    <3>4. Len(server'[v].stdin) = Len(server[v].stdin) + 1 /\ Len(server[v].stdin) \in Nat
      BY <2>1, <3>3, PipeGrows
    <3> QED BY <3>4
  <2>7. ASSUME Wants(a), agent'[a].pc = "await", Len(server'[v].stdin) > Len(server[v].stdin)
        PROVE  SepsAt(v) = {} /\ Has(v, name) /\ (agent[a].line.method = "tools/call" => Permitted(v, name))
    <3>1. WithManager(a)
      BY <1>1, <2>7, LockStep DEF Wants
    <3>2. w \in Servers /\ server' = [server EXCEPT ![w].stdin = Append(@, [for |-> Me(a), name |-> agent[a].line.name])]
      BY <2>1, <2>4, <2>7, <3>1, ManagerEffect, AnsweredEffect
    <3>3. v = w
      <4>1. Len(server[v].stdin) \in Nat
        BY <2>1 DEF McpShape
      <4> QED BY <2>1, <2>7, <3>2, <4>1, PipeGrows
    <3>4. agent[a].line.method = "tools/call" => Permitted(v, name)
      BY <1>1, <2>2, <2>4, <2>7, <3>3 DEF PassInv, Wants
    <3> QED BY <2>2, <2>3, <2>5, <3>3, <3>4, ParsedHas
  <2> QED BY <2>2, <2>6, <2>7 DEF Reaches
<1>2. ASSUME McpInv, PassInv, [McpNext]_mcpVars PROVE [\A a \in Agents, v \in Servers : Reaches(a, v)]_mcpVars
  BY <1>1, <1>2
<1> QED BY <1>2, PassInitially, McpInitially, McpStep, PassStep, PTL DEF McpSpec, CallsRouted
==============================================================================
