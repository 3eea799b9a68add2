-------------------------- MODULE FileTransfer_proof --------------------------
(***************************************************************************)
(* Proofs about FileTransfer for any requests, any sizes of files, chunks  *)
(* and frames, and a machine that may end at any moment.                   *)
(***************************************************************************)
EXTENDS FileTransfer, SequenceTheorems, TLAPS

ToGuestMsgs == [t : {"read", "list", "save"}, id : Ids, n : Nat, wide : BOOLEAN, offset : Nat]
ToHostMsgs == [t : {"content", "error", "chunk"}, id : Ids, n : Nat, wide : BOOLEAN, offset : Nat]
Requests == [pc : {"new", "waiting", "done", "error", "timeout"},
             kind : {"none", "read", "list", "save"}, got : Nat \cup {None}]
Agents == [pc : {"idle", "sending", "gone"}, id : Ids \cup {0}, size : Nat, offset : Nat, wide : BOOLEAN]

\* The types, with those of the messages and of the file that is being sent.
TypeInv ==
    /\ request \in [Ids -> Requests]
    /\ pending \subseteq Ids /\ changed \subseteq Ids
    /\ partial \in [Ids -> Nat \cup {None}]
    /\ length \in [Ids -> Nat \cup {None}]
    /\ toGuest \in Seq(ToGuestMsgs) /\ toHost \in Seq(ToHostMsgs)
    /\ agent \in Agents
    /\ agent.pc = "sending" => agent.id \in Ids
    /\ reader \in BOOLEAN /\ running \in BOOLEAN

Sending(i) == agent.pc = "sending" /\ agent.id = i

\* The agent has not begun with the request.
Untouched(i) ==
    /\ length[i] = None /\ partial[i] = None /\ ~Sending(i)
    /\ \A k \in DOMAIN toHost : toHost[k].id # i

\* A request is sent once: what lies in the channel to the guest was not begun.
SentOnce ==
    /\ \A i \in Ids : request[i].pc = "new" =>
          /\ Untouched(i) /\ i \notin pending
          /\ \A k \in DOMAIN toGuest : toGuest[k].id # i
    /\ \A k \in DOMAIN toGuest :
          /\ toGuest[k].t = request[toGuest[k].id].kind
          /\ request[toGuest[k].id].pc \in {"waiting", "timeout"}
          /\ Untouched(toGuest[k].id)
          /\ \A j \in DOMAIN toGuest : j # k => toGuest[j].id # toGuest[k].id

Have(i) == IF partial[i] = None THEN 0 ELSE partial[i]

\* The next bytes that the host gets are those behind the ones it has.  A file
\* that was handed over leaves the host with nothing, whatever comes after it.
Expects(i, offset) == Have(i) <= offset /\ (i \in pending => Have(i) = offset)

\* The messages about i that are among the first k end at the offset.
EndsAt(i, k, offset) ==
    \/ /\ Expects(i, offset)
       /\ \A m \in 1..k : toHost[m].id # i
    \/ \E j \in 1..k :
          /\ toHost[j].t = "chunk" /\ toHost[j].id = i
          /\ offset = toHost[j].offset + toHost[j].n
          /\ \A m \in (j + 1)..k : toHost[m].id # i

\* The chunks of a file follow each other without a gap, and the file that is
\* being sent goes on behind the last of them.
Gapless ==
    /\ \A k \in DOMAIN toHost : toHost[k].t = "chunk" => EndsAt(toHost[k].id, k - 1, toHost[k].offset)
    /\ agent.pc = "sending" => EndsAt(agent.id, Len(toHost), agent.offset)

\* What the messages say of the file is true of it as long as nobody writes to it.
Truthful ==
    /\ \A k \in DOMAIN toHost :
          LET msg == toHost[k]
          IN /\ msg.t = "chunk" => /\ length[msg.id] # None
                                   /\ msg.id \notin changed => msg.offset + msg.n <= length[msg.id]
             /\ msg.t = "content" /\ request[msg.id].kind = "read" => msg.n = length[msg.id]
    /\ agent.pc = "sending" =>
          /\ length[agent.id] # None
          /\ agent.id \notin changed => agent.size = length[agent.id] /\ agent.offset <= agent.size

\* A sender in pending_downloads belongs to a command that still waits, or was
\* refused.
SendersWait == \A i \in pending : request[i].pc \in {"waiting", "error"}

\* What was put together is less than the file.
PartialShort == \A i \in Ids : partial[i] = None \/ partial[i] < length[i]

\* The inductive invariant.
IInv == TypeInv /\ SentOnce /\ Gapless /\ Truthful /\ SendersWait /\ PartialShort /\ DownloadWhole

------------------------------------------------------------------------------
(* The types.                                                              *)

\* The last message of a longer sequence, and those before it.
LEMMA AppendFacts ==
    ASSUME NEW S, NEW q \in Seq(S), NEW m \in S
    PROVE  /\ Append(q, m) \in Seq(S) /\ Len(Append(q, m)) = Len(q) + 1
           /\ DOMAIN Append(q, m) = 1..(Len(q) + 1)
           /\ \A k \in DOMAIN q : Append(q, m)[k] = q[k]
           /\ Append(q, m)[Len(q) + 1] = m
  OBVIOUS

\* What is left of a sequence without its head.
LEMMA TailFacts ==
    ASSUME NEW S, NEW q \in Seq(S), q # << >>
    PROVE  /\ Tail(q) \in Seq(S) /\ Len(Tail(q)) = Len(q) - 1 /\ Len(q) \in Nat /\ Len(q) > 0
           /\ DOMAIN Tail(q) = 1..(Len(q) - 1) /\ DOMAIN q = 1..Len(q)
           /\ \A k \in 1..(Len(q) - 1) : Tail(q)[k] = q[k + 1]
           /\ Head(q) = q[1] /\ Head(q) \in S
  OBVIOUS

LEMMA NoneIsNegative == None \in Int /\ None < 0 /\ None \notin Nat
  BY DEF None

\* Nothing is lost of the type of a request when it ends.
LEMMA AnswerType ==
    ASSUME TypeInv, NEW i \in Ids, NEW n \in Nat \cup {None}, Answer(i, n)
    PROVE  request' \in [Ids -> Requests] /\ pending' \subseteq Ids
<1> DEFINE r == [request[i] EXCEPT !.pc = IF n = None THEN "error" ELSE "done", !.got = n]
<1>0. request[i] \in Requests
  BY DEF TypeInv
<1>1. r \in Requests
  BY <1>0 DEF Requests
<1>2. request' = request \/ request' = [request EXCEPT ![i] = r]
  BY DEF Answer
<1> HIDE DEF r
<1> QED
  BY <1>1, <1>2, SMTT(30) DEF TypeInv, Answer

\* A read returns at most a chunk.
LEMMA ChunkType ==
    ASSUME TypeInv, agent.pc = "sending", ChunkLength > 0
    PROVE  ChunkLength \in Nat /\ ChunkLength <= agent.size - agent.offset
  BY TransferAssumption DEF TypeInv, ChunkLength, Agents

\* The next request of the agent.
LEMMA AskedFacts ==
    ASSUME TypeInv, NEW t, Asked(t)
    PROVE  /\ toGuest # << >> /\ Id \in Ids /\ Head(toGuest) \in ToGuestMsgs /\ Head(toGuest).t \in t
           /\ agent.pc = "idle"
<1>1. toGuest # << >> /\ toGuest \in Seq(ToGuestMsgs)
  BY DEF TypeInv, Asked
<1>2. Head(toGuest) \in ToGuestMsgs
  BY <1>1, TailFacts
<1> QED
  BY <1>1, <1>2 DEF Asked, Id, ToGuestMsgs

\* Every step keeps the types.
LEMMA TypeStep == TypeInv /\ [Next]_vars => TypeInv'
<1> SUFFICES ASSUME TypeInv, [Next]_vars PROVE TypeInv'
  OBVIOUS
<1> USE TransferAssumption
<1>1. ASSUME NEW i \in Ids, NEW t \in {"read", "list", "save"}, NEW n \in Nat, Send(i, t, n) PROVE TypeInv'
  <2>1. Msg(t, i, n, FALSE) \in ToGuestMsgs
    BY DEF Msg, ToGuestMsgs
  <2>2. toGuest' \in Seq(ToGuestMsgs)
    BY <1>1, <2>1, AppendFacts DEF Send, TypeInv
  <2>0. request[i] \in Requests
    BY DEF TypeInv
  <2>3. [request[i] EXCEPT !.pc = "waiting", !.kind = t] \in Requests
    BY <2>0 DEF Requests
  <2>4. request' = [request EXCEPT ![i] = [request[i] EXCEPT !.pc = "waiting", !.kind = t]]
    BY <1>1 DEF Send
  <2>5. request' \in [Ids -> Requests]
    BY <2>3, <2>4 DEF TypeInv
  <2> QED
    BY <1>1, <2>2, <2>5 DEF Send, TypeInv
<1>2. ASSUME NEW i \in Ids, Refuse(i) \/ Timeout(i) PROVE TypeInv'
  <2>1. PICK pc \in {"error", "timeout"} : request' = [request EXCEPT ![i].pc = pc]
    BY <1>2 DEF Refuse, Timeout
  <2>0. request[i] \in Requests
    BY DEF TypeInv
  <2>2. [request[i] EXCEPT !.pc = pc] \in Requests
    BY <2>0 DEF Requests
  <2>3. request' \in [Ids -> Requests]
    BY <2>1, <2>2 DEF TypeInv
  <2> QED
    BY <1>2, <2>3 DEF Refuse, Timeout, TypeInv
<1>3. CASE EnterRunning
  BY <1>3 DEF EnterRunning, TypeInv
<1>4. ASSUME NEW msg \in ToHostMsgs, Reply(msg),
             toGuest' = toGuest \/ (toGuest # << >> /\ toGuest' = Tail(toGuest)),
             length' = length \/ \E n \in Nat : length' = [length EXCEPT ![Id] = n],
             agent' = agent \/ agent' = Idle
                \/ (agent.pc = "sending" /\ \E o \in Nat : agent' = [agent EXCEPT !.offset = o])
      PROVE  TypeInv'
  <2>1. toHost' \in Seq(ToHostMsgs)
    BY <1>4, AppendFacts DEF Reply, TypeInv
  <2>2. toGuest' \in Seq(ToGuestMsgs)
    <3>1. toGuest \in Seq(ToGuestMsgs)
      BY DEF TypeInv
    <3>2. ASSUME toGuest # << >> PROVE Tail(toGuest) \in Seq(ToGuestMsgs)
      BY <3>1, <3>2
    <3> QED
      BY <1>4, <3>1, <3>2
  <2>3. length' \in [Ids -> Nat \cup {None}]
    BY <1>4 DEF TypeInv
  <2>4. agent' \in Agents /\ (agent'.pc = "sending" => agent'.id \in Ids)
    <3>1. agent \in Agents /\ (agent.pc = "sending" => agent.id \in Ids)
      BY DEF TypeInv
    <3>2. CASE agent' = Idle
      BY <3>2 DEF Idle, Agents
    <3>3. CASE agent.pc = "sending" /\ \E o \in Nat : agent' = [agent EXCEPT !.offset = o]
      BY <3>1, <3>3 DEF Agents
    <3> QED
      BY <1>4, <3>1, <3>2, <3>3
  <2> QED
    BY <1>4, <2>1, <2>2, <2>3, <2>4 DEF Reply, TypeInv
<1>5. CASE Fail
  <2>1. Msg("error", Id, 0, FALSE) \in ToHostMsgs
    BY <1>5, AskedFacts DEF Fail, Msg, ToHostMsgs
  <2> QED
    BY <1>5, <2>1, <1>4, AskedFacts DEF Fail
<1>6. ASSUME NEW n \in Nat, SaveOrList(n) PROVE TypeInv'
  <2> DEFINE msg == Msg("content", Id, IF Head(toGuest).t = "list" THEN n ELSE 0, FALSE)
  <2>1. msg \in ToHostMsgs
    BY <1>6, AskedFacts DEF SaveOrList, Msg, ToHostMsgs
  <2>2. Reply(msg) /\ toGuest # << >> /\ toGuest' = Tail(toGuest) /\ length' = length /\ agent' = agent
    BY <1>6, AskedFacts DEF SaveOrList
  <2> QED
    BY <2>1, <2>2, <1>4
<1>7. ASSUME NEW n \in Nat, NEW wide \in BOOLEAN, ReadSmall(n, wide) PROVE TypeInv'
  <2>1. Msg("content", Id, n, wide) \in ToHostMsgs
    BY <1>7, AskedFacts DEF ReadSmall, Msg, ToHostMsgs
  <2> QED
    BY <1>7, <2>1, <1>4, AskedFacts DEF ReadSmall
<1>8. ASSUME NEW n \in Nat, NEW wide \in BOOLEAN, ReadLarge(n, wide) PROVE TypeInv'
  <2>1. toGuest' \in Seq(ToGuestMsgs) /\ Id \in Ids
    BY <1>8, AskedFacts, TailFacts DEF ReadLarge, TypeInv
  <2>2. length' \in [Ids -> Nat \cup {None}]
    BY <1>8 DEF ReadLarge, TypeInv
  <2>3. agent' \in Agents /\ agent'.id \in Ids
    BY <1>8, <2>1 DEF ReadLarge, Agents
  <2> QED
    BY <1>8, <2>1, <2>2, <2>3 DEF ReadLarge, TypeInv
<1>9. CASE SendChunk
  <2> DEFINE msg == [Msg("chunk", agent.id, ChunkLength, agent.wide) EXCEPT !.offset = agent.offset]
  <2>0. /\ agent \in Agents /\ agent.id \in Ids
        /\ ChunkLength \in Nat
    BY <1>9, ChunkType DEF SendChunk, TypeInv
  <2>1. msg \in ToHostMsgs /\ agent.offset + ChunkLength \in Nat
    BY <2>0 DEF Msg, ToHostMsgs, Agents
  <2>2. /\ Reply(msg) /\ toGuest' = toGuest /\ length' = length
        /\ agent.pc = "sending" /\ agent' = [agent EXCEPT !.offset = agent.offset + ChunkLength]
    BY <1>9 DEF SendChunk
  <2> QED
    BY <2>1, <2>2, <1>4
<1>10. CASE EndOfFile \/ ReadError
  <2>1. Msg("error", agent.id, 0, FALSE) \in ToHostMsgs
    BY <1>10 DEF EndOfFile, ReadError, Msg, ToHostMsgs, TypeInv
  <2>2. CASE Reply(Msg("error", agent.id, 0, FALSE))
    BY <1>10, <2>1, <2>2, <1>4 DEF EndOfFile, ReadError
  <2>3. CASE UNCHANGED <<request, pending, partial, changed, toHost, reader, running>>
    <3>1. Idle \in Agents /\ Idle.pc # "sending"
      BY DEF Idle, Agents
    <3> QED
      BY <1>10, <2>3, <3>1 DEF EndOfFile, ReadError, TypeInv
  <2> QED
    BY <1>10, <2>2, <2>3 DEF EndOfFile, ReadError
<1>11. ASSUME NEW n \in Nat, FileChanges(n) PROVE TypeInv'
  <2>1. agent \in Agents /\ agent.id \in Ids
    BY <1>11 DEF FileChanges, TypeInv
  <2>2. agent' \in Agents /\ agent'.id \in Ids
    BY <1>11, <2>1 DEF FileChanges, Agents
  <2> QED
    BY <1>11, <2>1, <2>2 DEF FileChanges, TypeInv
<1>12. CASE AgentDrops \/ Dies
  <2>1. << >> \in Seq(ToGuestMsgs) /\ << >> \in Seq(ToHostMsgs)
    OBVIOUS
  <2> QED
    <3>1. [Idle EXCEPT !.pc = "gone"] \in Agents /\ [Idle EXCEPT !.pc = "gone"].pc # "sending"
      BY DEF Idle, Agents
    <3> QED
      BY <1>12, <2>1, <3>1 DEF AgentDrops, Dies, TypeInv
<1>13. ASSUME NEW i \in Ids, NEW n \in Nat \cup {None}, NEW p \in Nat \cup {None}, reader, toHost # << >>,
              toHost' = Tail(toHost),
              Answer(i, n) \/ UNCHANGED <<pending, request>>,
              partial' = partial \/ partial' = [partial EXCEPT ![i] = p],
              UNCHANGED <<length, changed, toGuest, agent, reader, running>>
       PROVE  TypeInv'
  <2>1. toHost' \in Seq(ToHostMsgs)
    BY <1>13, TailFacts DEF TypeInv
  <2>2. request' \in [Ids -> Requests] /\ pending' \subseteq Ids
    <3>1. CASE Answer(i, n)
      BY <3>1, AnswerType
    <3>2. CASE UNCHANGED <<pending, request>>
      BY <3>2 DEF TypeInv
    <3> QED
      BY <1>13, <3>1, <3>2
  <2>3. partial' \in [Ids -> Nat \cup {None}]
    BY <1>13 DEF TypeInv
  <2> QED
    BY <1>13, <2>1, <2>2, <2>3 DEF TypeInv
<1>14. CASE HandleContent \/ HandleError \/ HandleChunk
  <2>1. Head(toHost).id \in Ids /\ Head(toHost).n \in Nat
    <3>1. toHost # << >> /\ toHost \in Seq(ToHostMsgs)
      BY <1>14 DEF HandleContent, HandleError, HandleChunk, Got, TypeInv
    <3>2. Head(toHost) \in ToHostMsgs
      BY <3>1, TailFacts
    <3> QED
      BY <3>2 DEF ToHostMsgs
  <2>2. CASE HandleContent
    BY <2>1, <2>2, <1>13 DEF HandleContent, Got
  <2>3. CASE HandleError
    BY <2>1, <2>3, <1>13 DEF HandleError, Got
  <2>4. CASE HandleChunk
    <3> DEFINE i == Head(toHost).id
               have == IF partial[i] = None THEN Head(toHost).n ELSE partial[i] + Head(toHost).n
    <3>1. have \in Nat
      BY <2>1 DEF TypeInv
    <3>2. \/ partial' = [partial EXCEPT ![i] = None] /\ Answer(i, have)
          \/ partial' = [partial EXCEPT ![i] = have] /\ UNCHANGED <<pending, request>>
      BY <2>4 DEF HandleChunk
    <3>3. /\ reader /\ toHost # << >> /\ toHost' = Tail(toHost)
          /\ UNCHANGED <<length, changed, toGuest, agent, reader, running>>
      BY <2>4 DEF HandleChunk, Got
    <3> HIDE DEF have, i
    <3> QED
      BY <2>1, <3>1, <3>2, <3>3, <1>13 DEF i
  <2> QED
    BY <1>14, <2>2, <2>3, <2>4
<1>15. CASE ReaderDrops
  BY <1>15 DEF ReaderDrops, TypeInv
<1>16. CASE UNCHANGED vars
  BY <1>16 DEF vars, TypeInv
<1> QED
  BY <1>1, <1>2, <1>3, <1>5, <1>6, <1>7, <1>8, <1>9, <1>10, <1>11, <1>12, <1>14, <1>15, <1>16
  DEF Next, Agent, Host, ReadFile, ListDir, SaveFile

------------------------------------------------------------------------------
(* What the steps leave alone.                                             *)

\* The fields of the messages.
LEMMA MessageTypes ==
    ASSUME TypeInv
    PROVE  /\ \A k \in DOMAIN toGuest : toGuest[k].id \in Ids /\ toGuest[k].t \in {"read", "list", "save"}
           /\ \A k \in DOMAIN toHost : /\ toHost[k].id \in Ids /\ toHost[k].t \in {"content", "error", "chunk"}
                                      /\ toHost[k].n \in Nat /\ toHost[k].offset \in Nat
<1>1. toGuest \in Seq(ToGuestMsgs) /\ toHost \in Seq(ToHostMsgs)
  BY DEF TypeInv
<1>2. (\A k \in DOMAIN toGuest : toGuest[k] \in ToGuestMsgs) /\ (\A k \in DOMAIN toHost : toHost[k] \in ToHostMsgs)
  BY <1>1
<1> QED
  BY <1>2 DEF ToGuestMsgs, ToHostMsgs

\* A request that was not begun stays so when nothing about it happens.
LEMMA UntouchedStays ==
    ASSUME NEW x, Untouched(x), length'[x] = length[x], partial'[x] = partial[x],
           Sending(x)' => Sending(x),
           \A k \in DOMAIN toHost' : toHost'[k].id = x => \E m \in DOMAIN toHost : toHost[m].id = x
    PROVE  Untouched(x)'
  BY DEF Untouched

\* A step about one request that was begun, or that empties the channel.
LEMMA SentOnceFrame ==
    ASSUME TypeInv, SentOnce, NEW i \in Ids, toGuest' = toGuest \/ toGuest' = << >>,
           ~Untouched(i), request'[i].pc # "new",
           \A x \in Ids \ {i} : /\ request'[x] = request[x]
                                /\ x \in pending' => x \in pending
                                /\ Untouched(x) => Untouched(x)'
    PROVE  SentOnce'
<1>1. \A k \in DOMAIN toGuest : toGuest[k].id \in Ids
  BY MessageTypes
<1>2. \A k \in DOMAIN toGuest' : k \in DOMAIN toGuest /\ toGuest'[k] = toGuest[k]
  OBVIOUS
<1>3. ASSUME NEW x \in Ids, request'[x].pc = "new"
      PROVE  /\ Untouched(x)' /\ x \notin pending'
             /\ \A k \in DOMAIN toGuest' : toGuest'[k].id # x
  BY <1>2, <1>3 DEF SentOnce
<1>4. ASSUME NEW k \in DOMAIN toGuest'
      PROVE  /\ toGuest'[k].t = request'[toGuest'[k].id].kind
             /\ request'[toGuest'[k].id].pc \in {"waiting", "timeout"}
             /\ \A j \in DOMAIN toGuest' : j # k => toGuest'[j].id # toGuest'[k].id
  <2>1. toGuest[k].id \in Ids \ {i}
    BY <1>1, <1>2 DEF SentOnce
  <2> QED
    BY <1>2, <2>1 DEF SentOnce
<1>5. ASSUME NEW k \in DOMAIN toGuest' PROVE Untouched(toGuest[k].id)'
  <2>0. PICK x : x = toGuest[k].id
    OBVIOUS
  <2>1. x \in Ids \ {i} /\ Untouched(x)
    BY <1>1, <1>2, <2>0 DEF SentOnce
  <2>2. toGuest'[k].id = x
    BY <1>2, <2>0
  <2>3. Untouched(x)'
    BY <2>1
  <2> QED
    BY <2>2, <2>3 DEF Untouched, Sending
<1> QED
  BY <1>3, <1>4, <1>5 DEF SentOnce

\* A step that takes the next request from the channel.
LEMMA SentOnceTail ==
    ASSUME TypeInv, SentOnce, toGuest # << >>, toGuest' = Tail(toGuest), request' = request, pending' = pending,
           \A x \in Ids \ {Id} : Untouched(x) => Untouched(x)'
    PROVE  SentOnce'
<1>1. \A k \in DOMAIN toGuest : toGuest[k].id \in Ids
  BY MessageTypes
<1>2. /\ \A k \in DOMAIN toGuest' : k + 1 \in DOMAIN toGuest /\ k + 1 # 1 /\ toGuest'[k] = toGuest[k + 1] /\ k \in Nat
      /\ 1 \in DOMAIN toGuest /\ Id = toGuest[1].id
  BY TailFacts DEF TypeInv, Id
<1>3. ASSUME NEW x \in Ids, request'[x].pc = "new"
      PROVE  /\ Untouched(x)' /\ x \notin pending'
             /\ \A k \in DOMAIN toGuest' : toGuest'[k].id # x
  <2>1. x # Id
    BY <1>2, <1>3 DEF SentOnce
  <2> QED
    BY <1>2, <1>3, <2>1 DEF SentOnce
<1>4. ASSUME NEW k \in DOMAIN toGuest'
      PROVE  /\ toGuest'[k].t = request'[toGuest'[k].id].kind
             /\ request'[toGuest'[k].id].pc \in {"waiting", "timeout"}
             /\ \A j \in DOMAIN toGuest' : j # k => toGuest'[j].id # toGuest'[k].id
  BY <1>2 DEF SentOnce
<1>5. ASSUME NEW k \in DOMAIN toGuest' PROVE Untouched(toGuest[k].id)'
  <2>0. PICK x : x = toGuest[k + 1].id
    OBVIOUS
  <2>1. x \in Ids \ {Id} /\ Untouched(x)
    BY <1>1, <1>2, <2>0 DEF SentOnce
  <2>2. toGuest'[k].id = x
    BY <1>2, <2>0
  <2>3. Untouched(x)'
    BY <2>1
  <2> QED
    BY <2>2, <2>3 DEF Untouched, Sending
<1> QED
  BY <1>3, <1>4, <1>5 DEF SentOnce

\* The chain of chunks as far as the messages are the same.
LEMMA EndsAtStays ==
    ASSUME NEW i, NEW k, NEW o, EndsAt(i, k, o), \A m \in 1..k : toHost'[m] = toHost[m],
           partial'[i] = partial[i], i \in pending' => i \in pending
    PROVE  EndsAt(i, k, o)'
  BY DEF EndsAt, Expects, Have

\* A message comes behind the others.
LEMMA GaplessAppend ==
    ASSUME TypeInv, Gapless, NEW msg \in ToHostMsgs, toHost' = Append(toHost, msg),
           partial' = partial, pending' = pending,
           msg.t = "chunk" => EndsAt(msg.id, Len(toHost), msg.offset),
           agent'.pc = "sending" => EndsAt(agent.id, Len(toHost), agent.offset)'
    PROVE  Gapless'
<1>1. /\ Len(toHost) \in Nat /\ DOMAIN toHost = 1..Len(toHost) /\ DOMAIN toHost' = 1..(Len(toHost) + 1)
      /\ \A k \in 1..Len(toHost) : toHost'[k] = toHost[k]
      /\ toHost'[Len(toHost) + 1] = msg
  BY AppendFacts DEF TypeInv
<1>2. ASSUME NEW k \in DOMAIN toHost', toHost'[k].t = "chunk"
      PROVE  EndsAt(toHost[k].id, k - 1, toHost[k].offset)'
  <2> DEFINE i == toHost'[k].id
             o == toHost'[k].offset
  <2>1. EndsAt(i, k - 1, o)
    BY <1>1, <1>2 DEF Gapless
  <2>2. \A m \in 1..(k - 1) : toHost'[m] = toHost[m]
    BY <1>1
  <2>3. PICK ii, oo : ii = i /\ oo = o
    OBVIOUS
  <2>4. EndsAt(ii, k - 1, oo)'
    BY <2>1, <2>2, <2>3, EndsAtStays
  <2> QED
    BY <2>3, <2>4 DEF EndsAt, Expects, Have
<1> QED
  BY <1>2 DEF Gapless

\* The same messages, and the file that is being sent, if any, is the same.
LEMMA GaplessSame ==
    ASSUME TypeInv, Gapless, toHost' = toHost, partial' = partial,
           \A k \in DOMAIN toHost : toHost[k].id \in pending' => toHost[k].id \in pending,
           agent'.pc = "sending" => EndsAt(agent.id, Len(toHost), agent.offset)'
    PROVE  Gapless'
<1>1. ASSUME NEW k \in DOMAIN toHost, toHost[k].t = "chunk"
      PROVE  EndsAt(toHost[k].id, k - 1, toHost[k].offset)'
  <2>1. EndsAt(toHost[k].id, k - 1, toHost[k].offset)
    BY <1>1 DEF Gapless
  <2> QED
    BY <1>1, <2>1 DEF EndsAt, Expects, Have
<1> QED
  BY <1>1 DEF Gapless

\* The host takes a message: the others follow it without a gap, if what was put
\* together ends where a chunk ended that it took.
LEMMA GaplessTail ==
    ASSUME TypeInv, Gapless, toHost # << >>, NEW i \in Ids, i = Head(toHost).id,
           toHost' = Tail(toHost), agent' = agent,
           \A x \in Ids \ {i} : partial'[x] = partial[x] /\ (x \in pending' => x \in pending),
           NEW end, end = Head(toHost).offset + Head(toHost).n,
           Head(toHost).t = "chunk" => Expects(i, end)'
    PROVE  Gapless'
<1>1. /\ Len(toHost) \in Nat /\ Len(toHost) > 0 /\ DOMAIN toHost = 1..Len(toHost)
      /\ DOMAIN toHost' = 1..(Len(toHost) - 1) /\ Len(toHost') = Len(toHost) - 1
      /\ \A k \in 1..(Len(toHost) - 1) : toHost'[k] = toHost[k + 1]
      /\ Head(toHost) = toHost[1]
  BY TailFacts DEF TypeInv
<1>2. ASSUME NEW x \in Ids, NEW k \in 1..Len(toHost), NEW o, EndsAt(x, k, o)
      PROVE  EndsAt(x, k - 1, o)'
  <2>1. \A j \in 2..k : /\ j - 1 \in 1..(k - 1) /\ toHost'[j - 1] = toHost[j]
                       /\ \A m \in ((j - 1) + 1)..(k - 1) : m + 1 \in (j + 1)..k /\ toHost'[m] = toHost[m + 1]
    BY <1>1
  <2>2. \A m \in 1..(k - 1) : m + 1 \in 2..k /\ toHost'[m] = toHost[m + 1]
    BY <1>1
  <2>3. CASE Expects(x, o) /\ \A m \in 1..k : toHost[m].id # x
    <3>1. x # i
      BY <1>1, <2>3
    <3>2. Expects(x, o)'
      BY <2>3, <3>1 DEF Expects, Have
    <3>3. \A m \in 1..(k - 1) : toHost'[m].id # x
      BY <2>2, <2>3
    <3> QED
      BY <3>2, <3>3 DEF EndsAt
  <2>4. CASE \E j \in 1..k :
               /\ toHost[j].t = "chunk" /\ toHost[j].id = x
               /\ o = toHost[j].offset + toHost[j].n
               /\ \A m \in (j + 1)..k : toHost[m].id # x
    <3>1. PICK j \in 1..k :
               /\ toHost[j].t = "chunk" /\ toHost[j].id = x
               /\ o = toHost[j].offset + toHost[j].n
               /\ \A m \in (j + 1)..k : toHost[m].id # x
      BY <2>4
    <3>2. CASE j = 1
      <4>0. x = i /\ Head(toHost).t = "chunk" /\ o = end
        BY <1>1, <3>1, <3>2
      <4>1. Expects(x, o)'
        BY <4>0
      <4>2. \A m \in 1..(k - 1) : toHost'[m].id # x
        BY <2>2, <3>1, <3>2
      <4> QED
        BY <4>1, <4>2 DEF EndsAt
    <3>3. CASE j # 1
      <4>1. j \in 2..k
        BY <3>3
      <4>2. \A m \in ((j - 1) + 1)..(k - 1) : toHost'[m].id # x
        BY <2>1, <3>1, <4>1
      <4> QED
        BY <2>1, <3>1, <4>1, <4>2 DEF EndsAt
    <3> QED
      BY <3>2, <3>3
  <2> QED
    BY <1>2, <2>3, <2>4 DEF EndsAt
<1>3. ASSUME NEW k \in DOMAIN toHost', toHost'[k].t = "chunk"
      PROVE  EndsAt(toHost[k].id, k - 1, toHost[k].offset)'
  <2>1. PICK x \in Ids, o \in Nat : x = toHost'[k].id /\ o = toHost'[k].offset
    BY <1>1, MessageTypes
  <2>2. k \in 1..Len(toHost) /\ k + 1 \in DOMAIN toHost /\ toHost[k + 1].t = "chunk"
        /\ x = toHost[k + 1].id /\ o = toHost[k + 1].offset /\ (k + 1) - 1 = k
    BY <1>1, <1>3, <2>1
  <2>3. EndsAt(x, k, o)
    BY <2>2 DEF Gapless
  <2>4. EndsAt(x, k - 1, o)'
    BY <1>2, <2>2, <2>3
  <2> QED
    BY <2>1, <2>4 DEF EndsAt, Expects, Have
<1>4. ASSUME agent'.pc = "sending" PROVE EndsAt(agent.id, Len(toHost), agent.offset)'
  <2>1. PICK x \in Ids, o \in Nat : x = agent.id /\ o = agent.offset
    BY <1>4 DEF TypeInv, Agents
  <2>2. EndsAt(x, Len(toHost), o)
    BY <1>4, <2>1 DEF Gapless
  <2>5. Len(toHost) \in Nat /\ Len(toHost) > 0
    BY <1>1
  <2>4. PICK k \in 1..Len(toHost) : k = Len(toHost)
    BY <2>5
  <2>3. EndsAt(x, k - 1, o)'
    BY <1>2, <2>2, <2>4
  <2> QED
    BY <1>1, <1>4, <2>1, <2>3, <2>4 DEF EndsAt, Expects, Have
<1> QED
  BY <1>3, <1>4 DEF Gapless

------------------------------------------------------------------------------
(* The commands.                                                           *)

\* A step of a command leaves the agent and the messages to the host alone; a
\* sender is added for a new request only.
LEMMA CommandFrame ==
    ASSUME IInv, NEW i \in Ids, UNCHANGED <<partial, length, changed, toHost, agent>>,
           \A x \in Ids \ {i} : request'[x] = request[x] /\ (x \in pending' <=> x \in pending),
           i \in pending' => i \in pending \/ request[i].pc = "new",
           request[i].pc # "new" => request'[i].kind = request[i].kind,
           request'[i].pc # "done", pending' \subseteq Ids,
           i \in pending' => request'[i].pc \in {"waiting", "error"}
    PROVE  Gapless' /\ Truthful' /\ SendersWait' /\ PartialShort' /\ DownloadWhole'
<1>1. TypeInv /\ SentOnce /\ Gapless /\ Truthful /\ SendersWait /\ PartialShort /\ DownloadWhole
  BY DEF IInv
<1>2. \A k \in DOMAIN toHost : toHost[k].id \in Ids
  BY <1>1, MessageTypes
<1>3. request[i].pc = "new" => (\A k \in DOMAIN toHost : toHost[k].id # i) /\ ~Sending(i)
  BY <1>1 DEF SentOnce, Untouched
<1>4. Gapless'
  <2>1. \A k \in DOMAIN toHost : toHost[k].id \in pending' => toHost[k].id \in pending
    BY <1>2, <1>3
  <2>2. ASSUME agent'.pc = "sending" PROVE EndsAt(agent.id, Len(toHost), agent.offset)'
    <3>1. EndsAt(agent.id, Len(toHost), agent.offset) /\ agent.id \in Ids
      BY <1>1, <2>2 DEF Gapless, TypeInv
    <3>2. agent.id \in pending' => agent.id \in pending
      BY <1>3, <2>2, <3>1 DEF Sending
    <3> QED
      BY <3>1, <3>2 DEF EndsAt, Expects, Have
  <2> QED
    BY <1>1, <2>1, <2>2, GaplessSame
<1>5. Truthful'
  BY <1>1, <1>2, <1>3 DEF Truthful
<1>6. SendersWait' /\ PartialShort'
  BY <1>1 DEF SendersWait, PartialShort
<1>7. DownloadWhole'
  BY <1>1 DEF DownloadWhole
<1> QED
  BY <1>4, <1>5, <1>6, <1>7

\* The commands keep the invariant.
LEMMA CommandStep ==
    ASSUME IInv, TypeInv', NEW i \in Ids,
           (\E t \in {"read", "list", "save"}, n \in Nat : Send(i, t, n)) \/ Refuse(i) \/ Timeout(i)
    PROVE  IInv'
<1>1. TypeInv /\ SentOnce /\ SendersWait
  BY DEF IInv
<1>2. /\ \A k \in DOMAIN toGuest : toGuest[k].id \in Ids
      /\ toGuest \in Seq(ToGuestMsgs) /\ Len(toGuest) \in Nat /\ DOMAIN toGuest = 1..Len(toGuest)
      /\ \A x \in Ids : request[x] \in Requests
  BY <1>1, MessageTypes DEF TypeInv
<1>3. ASSUME NEW x \in Ids, Untouched(x), UNCHANGED <<partial, length, toHost, agent>> PROVE Untouched(x)'
  BY <1>3 DEF Untouched, Sending
<1>4. ASSUME NEW t \in {"read", "list", "save"}, NEW n \in Nat, Send(i, t, n) PROVE IInv'
  <2>1. /\ request[i].pc = "new" /\ request' = [request EXCEPT ![i].pc = "waiting", ![i].kind = t]
        /\ pending' = pending \cup {i} /\ UNCHANGED <<partial, length, changed, toHost, agent>>
        /\ toGuest' = toGuest \/ toGuest' = Append(toGuest, Msg(t, i, n, FALSE))
    BY <1>4 DEF Send
  <2>2. /\ request'[i].pc = "waiting" /\ request'[i].kind = t
        /\ \A x \in Ids \ {i} : request'[x] = request[x]
    BY <1>1, <1>2, <2>1 DEF TypeInv, Requests
  <2>3. /\ Msg(t, i, n, FALSE) \in ToGuestMsgs
        /\ Msg(t, i, n, FALSE).id = i /\ Msg(t, i, n, FALSE).t = t
    BY DEF Msg, ToGuestMsgs
  <2>4. \A k \in DOMAIN toGuest' :
           \/ k \in DOMAIN toGuest /\ toGuest'[k] = toGuest[k]
           \/ k = Len(toGuest) + 1 /\ k \notin DOMAIN toGuest /\ toGuest'[k].id = i /\ toGuest'[k].t = t
    <3>1. CASE toGuest' = toGuest
      BY <3>1
    <3>2. CASE toGuest' = Append(toGuest, Msg(t, i, n, FALSE))
      <4> DEFINE mm == Msg(t, i, n, FALSE)
      <4>1. mm \in ToGuestMsgs /\ mm.id = i /\ mm.t = t /\ toGuest' = Append(toGuest, mm)
        BY <2>3, <3>2
      <4> HIDE DEF mm
      <4>2. /\ DOMAIN toGuest' = 1..(Len(toGuest) + 1) /\ toGuest'[Len(toGuest) + 1] = mm
            /\ \A k \in DOMAIN toGuest : toGuest'[k] = toGuest[k]
        BY <1>2, <4>1, AppendFacts
      <4> QED
        BY <1>2, <4>1, <4>2
    <3> QED
      BY <2>1, <3>1, <3>2
  <2>5. Untouched(i) /\ \A k \in DOMAIN toGuest : toGuest[k].id # i
    BY <1>1, <2>1 DEF SentOnce
  <2>6. SentOnce'
    <3>1. ASSUME NEW x \in Ids, request'[x].pc = "new"
          PROVE  /\ Untouched(x)' /\ x \notin pending'
                 /\ \A k \in DOMAIN toGuest' : toGuest'[k].id # x
      <4>1. x # i /\ request[x].pc = "new"
        BY <2>2, <3>1
      <4>2. Untouched(x) /\ x \notin pending /\ \A k \in DOMAIN toGuest : toGuest[k].id # x
        BY <1>1, <4>1 DEF SentOnce
      <4>3. Untouched(x)'
        BY <1>3, <2>1, <4>2
      <4> QED
        BY <2>1, <2>4, <4>1, <4>2, <4>3
    <3>2. ASSUME NEW k \in DOMAIN toGuest'
          PROVE  /\ toGuest'[k].t = request'[toGuest'[k].id].kind
                 /\ request'[toGuest'[k].id].pc \in {"waiting", "timeout"}
                 /\ \A j \in DOMAIN toGuest' : j # k => toGuest'[j].id # toGuest'[k].id
      <4>1. /\ toGuest'[k].t = request'[toGuest'[k].id].kind
            /\ request'[toGuest'[k].id].pc \in {"waiting", "timeout"}
        BY <1>1, <1>2, <2>2, <2>4, <2>5 DEF SentOnce
      <4>2. \A j \in DOMAIN toGuest' : j # k => toGuest'[j].id # toGuest'[k].id
        BY <1>1, <2>4, <2>5 DEF SentOnce
      <4> QED
        BY <4>1, <4>2
    <3>3. ASSUME NEW k \in DOMAIN toGuest' PROVE Untouched(toGuest[k].id)'
      <4>1. PICK x : x = toGuest'[k].id
        OBVIOUS
      <4>2. x \in Ids /\ Untouched(x)
        BY <1>1, <1>2, <2>4, <2>5, <4>1 DEF SentOnce
      <4>3. Untouched(x)'
        BY <1>3, <2>1, <4>2
      <4> QED
        BY <4>1, <4>3 DEF Untouched, Sending
    <3> QED
      BY <3>1, <3>2, <3>3 DEF SentOnce
  <2>7. Gapless' /\ Truthful' /\ SendersWait' /\ PartialShort' /\ DownloadWhole'
    <3>1. pending' \subseteq Ids
      BY DEF TypeInv
    <3> QED
      BY <2>1, <2>2, <3>1, CommandFrame
  <2> QED
    BY <2>6, <2>7 DEF IInv
<1>5. CASE Refuse(i) \/ Timeout(i)
  <2>1. PICK pc \in {"error", "timeout"} :
           /\ request' = [request EXCEPT ![i].pc = pc]
           /\ request[i].pc \in {"new", "waiting"}
           /\ pc = "error" => request[i].pc = "new" /\ pending' = pending \cup {i}
           /\ pc = "timeout" => request[i].pc # "new" /\ pending' = pending \ {i}
           /\ UNCHANGED <<partial, length, changed, toGuest, toHost, agent>>
    BY <1>5 DEF Refuse, Timeout
  <2>2. /\ request'[i].pc = pc /\ request'[i].kind = request[i].kind
        /\ \A x \in Ids \ {i} : request'[x] = request[x]
    BY <1>1, <1>2, <2>1 DEF TypeInv, Requests
  <2>3. SentOnce'
    <3>1. ASSUME NEW x \in Ids, request'[x].pc = "new"
          PROVE  /\ Untouched(x)' /\ x \notin pending'
                 /\ \A k \in DOMAIN toGuest' : toGuest'[k].id # x
      <4>1. x # i /\ request[x].pc = "new"
        BY <2>2, <3>1
      <4>2. Untouched(x) /\ x \notin pending /\ \A k \in DOMAIN toGuest : toGuest[k].id # x
        BY <1>1, <4>1 DEF SentOnce
      <4> QED
        BY <1>3, <2>1, <4>1, <4>2
    <3>2. ASSUME NEW k \in DOMAIN toGuest'
          PROVE  /\ toGuest'[k].t = request'[toGuest'[k].id].kind
                 /\ request'[toGuest'[k].id].pc \in {"waiting", "timeout"}
                 /\ \A j \in DOMAIN toGuest' : j # k => toGuest'[j].id # toGuest'[k].id
      <4>1. toGuest[k].id = i => pc = "timeout"
        BY <1>1, <2>1 DEF SentOnce
      <4> QED
        BY <1>1, <1>2, <2>1, <2>2, <4>1 DEF SentOnce
    <3>3. ASSUME NEW k \in DOMAIN toGuest' PROVE Untouched(toGuest[k].id)'
      <4>1. Untouched(toGuest[k].id)
        BY <1>1, <2>1 DEF SentOnce
      <4> QED
        BY <2>1, <4>1 DEF Untouched, Sending
    <3> QED
      BY <3>1, <3>2, <3>3 DEF SentOnce
  <2>4. Gapless' /\ Truthful' /\ SendersWait' /\ PartialShort' /\ DownloadWhole'
    <3>1. pending' \subseteq Ids
      BY DEF TypeInv
    <3>2. /\ i \in pending' => request[i].pc = "new" /\ pc = "error"
          /\ \A x \in Ids \ {i} : request'[x] = request[x] /\ (x \in pending' <=> x \in pending)
      BY <2>1, <2>2
    <3> QED
      BY <2>1, <2>2, <3>1, <3>2, CommandFrame
  <2> QED
    BY <2>3, <2>4 DEF IInv
<1> QED
  BY <1>4, <1>5

------------------------------------------------------------------------------
(* The agent.                                                              *)

\* The request the agent takes was not begun, and its command has no answer.
LEMMA NextRequest ==
    ASSUME IInv, toGuest # << >>
    PROVE  /\ Id \in Ids /\ Untouched(Id) /\ request[Id].kind = Head(toGuest).t
           /\ request[Id].pc \in {"waiting", "timeout"}
<1>1. TypeInv /\ SentOnce
  BY DEF IInv
<1>2. Head(toGuest) = toGuest[1] /\ 1 \in DOMAIN toGuest
  BY <1>1, TailFacts DEF TypeInv
<1> QED
  BY <1>1, <1>2, MessageTypes DEF SentOnce, Id

\* The length of a file is found once, when nothing of it was sent.
LEMMA LengthFound ==
    ASSUME IInv, TypeInv', toGuest # << >>, toGuest' = Tail(toGuest), length' = length \/ \E n \in Nat : length' = [length EXCEPT ![Id] = n],
           UNCHANGED <<request, pending, partial, changed>>
    PROVE  /\ \A x \in Ids \ {Id} : length'[x] = length[x]
           /\ SendersWait' /\ PartialShort' /\ DownloadWhole'
<1>1. TypeInv /\ SentOnce /\ SendersWait /\ PartialShort /\ DownloadWhole
  BY DEF IInv
<1>2. /\ Id \in Ids /\ partial[Id] = None /\ request[Id].pc # "done"
  BY NextRequest DEF Untouched
<1>3. \A x \in Ids \ {Id} : length'[x] = length[x]
  BY <1>1 DEF TypeInv
<1>4. SendersWait' /\ PartialShort'
  BY <1>1, <1>2, <1>3 DEF SendersWait, PartialShort
<1>5. DownloadWhole'
  BY <1>1, <1>2, <1>3 DEF DownloadWhole
<1> QED
  BY <1>3, <1>4, <1>5

\* A request that is answered with one message.
LEMMA AnswerStep ==
    ASSUME IInv, TypeInv', toGuest # << >>, toGuest' = Tail(toGuest), agent.pc = "idle", agent' = agent,
           NEW msg \in ToHostMsgs, msg.t \in {"content", "error"}, msg.id = Id, Reply(msg),
           length' = length \/ length' = [length EXCEPT ![Id] = msg.n],
           msg.t = "content" /\ Head(toGuest).t = "read" => length'[Id] = msg.n
    PROVE  IInv'
<1>1. TypeInv /\ SentOnce /\ Gapless /\ Truthful
  BY DEF IInv
<1>2. /\ toHost' = Append(toHost, msg) /\ UNCHANGED <<request, pending, partial, changed>>
      /\ Len(toHost) \in Nat /\ DOMAIN toHost = 1..Len(toHost) /\ toHost \in Seq(ToHostMsgs) /\ msg.n \in Nat
  BY <1>1 DEF Reply, TypeInv, ToHostMsgs
<1>3. /\ DOMAIN toHost' = 1..(Len(toHost) + 1)
      /\ \A k \in DOMAIN toHost : toHost'[k] = toHost[k]
      /\ toHost'[Len(toHost) + 1] = msg
  BY <1>2, AppendFacts
<1>4. PICK i \in Ids : i = Id
  BY NextRequest
<1>5. /\ \A k \in DOMAIN toHost : toHost[k].id # i
      /\ request[i].kind = Head(toGuest).t
  BY <1>4, NextRequest DEF Untouched
<1>6. /\ \A x \in Ids \ {Id} : length'[x] = length[x]
      /\ SendersWait' /\ PartialShort' /\ DownloadWhole'
  BY <1>2, LengthFound
<1>7. SentOnce'
  <2>1. ASSUME NEW x \in Ids \ {Id}, Untouched(x) PROVE Untouched(x)'
    <3>1. \A k \in DOMAIN toHost' : toHost'[k].id # x
      BY <1>2, <1>3, <2>1 DEF Untouched
    <3> QED
      BY <1>2, <1>6, <2>1, <3>1 DEF Untouched, Sending
  <2> QED
    BY <1>1, <1>2, <2>1, SentOnceTail
<1>8. Gapless'
  BY <1>1, <1>2, GaplessAppend
<1>9. Truthful'
  <2>1. ASSUME NEW k \in DOMAIN toHost'
        PROVE  /\ toHost'[k].t = "chunk" =>
                      /\ length'[toHost'[k].id] # None
                      /\ toHost'[k].id \notin changed' => toHost'[k].offset + toHost'[k].n <= length'[toHost'[k].id]
               /\ toHost'[k].t = "content" /\ request'[toHost'[k].id].kind = "read" => toHost'[k].n = length'[toHost'[k].id]
    <3>1. CASE k \in DOMAIN toHost
      <4>1. toHost'[k] = toHost[k] /\ toHost[k].id \in Ids \ {Id}
        BY <1>1, <1>3, <1>4, <1>5, <3>1, MessageTypes
      <4>2. length'[toHost[k].id] = length[toHost[k].id]
        BY <1>6, <4>1
      <4> QED
        BY <1>1, <1>2, <3>1, <4>1, <4>2 DEF Truthful
    <3>2. CASE k = Len(toHost) + 1
      BY <1>2, <1>3, <1>4, <1>5, <3>2
    <3> QED
      BY <1>2, <1>3, <3>1, <3>2
  <2> QED
    BY <2>1 DEF Truthful
<1> QED
  BY <1>6, <1>7, <1>8, <1>9 DEF IInv

\* A large file is opened.
LEMMA ReadLargeStep ==
    ASSUME IInv, TypeInv', NEW n \in Nat, NEW wide \in BOOLEAN, ReadLarge(n, wide)
    PROVE  IInv'
<1>1. TypeInv /\ SentOnce /\ Gapless /\ Truthful
  BY DEF IInv
<1>2. /\ toGuest # << >> /\ toGuest' = Tail(toGuest) /\ length' = [length EXCEPT ![Id] = n]
      /\ UNCHANGED <<request, pending, partial, changed, toHost>>
      /\ agent' = [pc |-> "sending", id |-> Id, size |-> n, offset |-> 0, wide |-> wide]
  BY <1>1, AskedFacts DEF ReadLarge
<1>3. PICK i \in Ids : i = Id
  BY <1>2, NextRequest
<1>4. Untouched(i)
  BY <1>2, <1>3, NextRequest
<1>5. /\ \A x \in Ids \ {Id} : length'[x] = length[x]
      /\ SendersWait' /\ PartialShort' /\ DownloadWhole'
  BY <1>2, LengthFound
<1>6. agent'.pc = "sending" /\ agent'.id = i /\ agent'.size = n /\ agent'.offset = 0 /\ length'[i] = n
  BY <1>1, <1>2, <1>3 DEF TypeInv
<1>7. SentOnce'
  <2>1. ASSUME NEW x \in Ids \ {Id}, Untouched(x) PROVE Untouched(x)'
    BY <1>2, <1>3, <1>5, <1>6, <2>1 DEF Untouched, Sending
  <2> QED
    BY <1>1, <1>2, <2>1, SentOnceTail
<1>8. Gapless'
  <2>1. \A m \in 1..Len(toHost) : toHost[m].id # i
    BY <1>1, <1>4 DEF Untouched, TypeInv
  <2>2. Expects(i, 0) /\ Have(i) = 0
    BY <1>4 DEF Expects, Have, Untouched
  <2>3. EndsAt(agent.id, Len(toHost), agent.offset)'
    BY <1>2, <1>6, <2>1, <2>2 DEF EndsAt, Expects, Have
  <2> QED
    BY <1>1, <1>2, <2>3, GaplessSame
<1>9. Truthful'
  <2>1. \A k \in DOMAIN toHost : toHost[k].id \in Ids \ {Id} /\ length'[toHost[k].id] = length[toHost[k].id]
    BY <1>1, <1>3, <1>4, <1>5, MessageTypes DEF Untouched
  <2> QED
    BY <1>1, <1>2, <1>6, <2>1, NoneIsNegative DEF Truthful
<1> QED
  BY <1>5, <1>7, <1>8, <1>9 DEF IInv

\* While a file is sent: the next chunk, its end, an error, or a change of it.
LEMMA SendingStep ==
    ASSUME IInv, TypeInv', SendChunk \/ EndOfFile \/ ReadError \/ \E n \in Nat : FileChanges(n)
    PROVE  IInv'
<1>1. TypeInv /\ SentOnce /\ Gapless /\ Truthful /\ SendersWait /\ PartialShort /\ DownloadWhole
  BY DEF IInv
<1>2. /\ agent.pc = "sending" /\ toGuest' = toGuest
      /\ UNCHANGED <<request, pending, partial, length>> /\ changed \subseteq changed'
  BY DEF SendChunk, EndOfFile, ReadError, FileChanges, Reply
<1>3. PICK i \in Ids : i = agent.id
  BY <1>1, <1>2 DEF TypeInv
<1>4. Sending(i) /\ ~Untouched(i) /\ request[i].pc # "new"
  BY <1>1, <1>2, <1>3 DEF Sending, Untouched, SentOnce
<1>5. /\ Len(toHost) \in Nat /\ DOMAIN toHost = 1..Len(toHost) /\ toHost \in Seq(ToHostMsgs)
  BY <1>1 DEF TypeInv
<1>6. SendersWait' /\ PartialShort' /\ DownloadWhole'
  BY <1>1, <1>2 DEF SendersWait, PartialShort, DownloadWhole
<1>7. ASSUME (agent'.pc = "sending" => agent'.id = i), NEW msg \in ToHostMsgs, msg.id = i,
             toHost' = toHost \/ toHost' = Append(toHost, msg)
      PROVE  SentOnce'
  <2>1. ASSUME NEW x \in Ids \ {i}, Untouched(x) PROVE Untouched(x)'
    <3>1. \A k \in DOMAIN toHost' : toHost'[k].id # x
      <4>1. CASE toHost' = toHost
        BY <2>1, <4>1 DEF Untouched
      <4>2. CASE toHost' = Append(toHost, msg)
        <5>1. /\ DOMAIN toHost' = 1..(Len(toHost) + 1)
              /\ \A k \in DOMAIN toHost : toHost'[k] = toHost[k]
              /\ toHost'[Len(toHost) + 1] = msg
          BY <1>5, <4>2, AppendFacts
        <5> QED
          BY <1>5, <1>7, <2>1, <5>1 DEF Untouched
      <4> QED
        BY <1>7, <4>1, <4>2
    <3> QED
      BY <1>2, <1>7, <2>1, <3>1 DEF Untouched, Sending
  <2> QED
    BY <1>1, <1>2, <1>4, <2>1, SentOnceFrame
<1>8. CASE SendChunk
  <2> DEFINE msg == [Msg("chunk", agent.id, ChunkLength, agent.wide) EXCEPT !.offset = agent.offset]
  <2>1. /\ agent \in Agents /\ agent.offset \in Nat /\ agent.size \in Nat
        /\ ChunkLength \in Nat /\ ChunkLength <= agent.size - agent.offset
    <3>1. agent \in Agents
      BY <1>1 DEF TypeInv
    <3>2. ChunkLength \in Nat /\ ChunkLength <= agent.size - agent.offset
      BY <1>1, <1>8, ChunkType DEF SendChunk
    <3> QED
      BY <3>1, <3>2 DEF Agents
  <2>2. /\ msg \in ToHostMsgs /\ msg.id = i /\ msg.t = "chunk" /\ msg.n = ChunkLength /\ msg.offset = agent.offset
    BY <1>3, <2>1 DEF Msg, ToHostMsgs, Agents
  <2>3. /\ toHost' = Append(toHost, msg) /\ changed' = changed
        /\ agent' = [agent EXCEPT !.offset = agent.offset + ChunkLength]
    BY <1>8 DEF SendChunk, Reply
  <2> HIDE DEF msg
  <2>4. /\ agent'.pc = "sending" /\ agent'.id = i /\ agent'.size = agent.size
        /\ agent'.offset = agent.offset + ChunkLength
    BY <1>2, <1>3, <2>1, <2>3 DEF Agents
  <2>5. /\ DOMAIN toHost' = 1..(Len(toHost) + 1) /\ Len(toHost') = Len(toHost) + 1
        /\ \A k \in DOMAIN toHost : toHost'[k] = toHost[k]
        /\ toHost'[Len(toHost) + 1] = msg
    BY <1>5, <2>2, <2>3, AppendFacts
  <2>6. SentOnce'
    BY <1>7, <2>2, <2>3, <2>4
  <2>7. Gapless'
    <3>1. EndsAt(msg.id, Len(toHost), msg.offset)
      BY <1>1, <1>2, <1>3, <2>2 DEF Gapless
    <3>2. EndsAt(agent.id, Len(toHost), agent.offset)'
      <4>1. Len(toHost) + 1 \in 1..Len(toHost') /\ (Len(toHost) + 1 + 1)..Len(toHost') = {}
        BY <1>5, <2>5
      <4> QED
        BY <2>2, <2>4, <2>5, <4>1 DEF EndsAt
    <3> QED
      BY <1>1, <1>2, <2>2, <2>3, <3>1, <3>2, GaplessAppend
  <2>8. Truthful'
    <3>1. /\ length[i] # None /\ (i \notin changed => agent.size = length[i] /\ agent.offset <= agent.size)
      BY <1>1, <1>2, <1>3 DEF Truthful
    <3>2. i \notin changed => agent.offset + ChunkLength <= length[i] /\ agent.offset + ChunkLength <= agent.size
      BY <2>1, <3>1
    <3>3. ASSUME NEW k \in DOMAIN toHost'
          PROVE  /\ toHost'[k].t = "chunk" =>
                        /\ length'[toHost'[k].id] # None
                        /\ toHost'[k].id \notin changed' => toHost'[k].offset + toHost'[k].n <= length'[toHost'[k].id]
                 /\ toHost'[k].t = "content" /\ request'[toHost'[k].id].kind = "read" => toHost'[k].n = length'[toHost'[k].id]
      <4>1. CASE k \in DOMAIN toHost
        BY <1>1, <1>2, <2>3, <2>5, <4>1 DEF Truthful
      <4>2. CASE k = Len(toHost) + 1
        BY <1>2, <2>2, <2>3, <2>5, <3>1, <3>2, <4>2
      <4> QED
        BY <1>5, <2>5, <4>1, <4>2
    <3> QED
      BY <1>2, <2>3, <2>4, <3>1, <3>2, <3>3 DEF Truthful
  <2> QED
    BY <1>6, <2>6, <2>7, <2>8 DEF IInv
<1>9. CASE EndOfFile \/ ReadError
  <2> DEFINE msg == Msg("error", agent.id, 0, FALSE)
  <2>1. msg \in ToHostMsgs /\ msg.id = i /\ msg.t = "error"
    BY <1>3 DEF Msg, ToHostMsgs
  <2>2. (toHost' = toHost \/ toHost' = Append(toHost, msg)) /\ changed' = changed /\ agent'.pc = "idle"
    <3>1. /\ Reply(msg) \/ UNCHANGED <<request, pending, partial, changed, toHost, reader, running>>
          /\ agent' = Idle
      BY <1>9 DEF EndOfFile, ReadError
    <3> HIDE DEF msg
    <3> QED
      BY <3>1 DEF Reply, Idle
  <2> HIDE DEF msg
  <2>3. SentOnce'
    BY <1>7, <2>1, <2>2
  <2>4. CASE toHost' = toHost
    <3>1. Gapless'
      BY <1>1, <1>2, <2>2, <2>4, GaplessSame
    <3>2. Truthful'
      BY <1>1, <1>2, <2>2, <2>4 DEF Truthful
    <3> QED
      BY <1>6, <2>3, <3>1, <3>2 DEF IInv
  <2>5. CASE toHost' = Append(toHost, msg)
    <3>1. /\ DOMAIN toHost' = 1..(Len(toHost) + 1)
          /\ \A k \in DOMAIN toHost : toHost'[k] = toHost[k]
          /\ toHost'[Len(toHost) + 1] = msg
      BY <1>5, <2>1, <2>5, AppendFacts
    <3>2. Gapless'
      BY <1>1, <1>2, <2>1, <2>2, <2>5, GaplessAppend
    <3>3. Truthful'
      <4>1. \A k \in DOMAIN toHost' : toHost'[k].t = "error" \/ (k \in DOMAIN toHost /\ toHost'[k] = toHost[k])
        BY <1>5, <2>1, <3>1
      <4> QED
        BY <1>1, <1>2, <2>2, <4>1 DEF Truthful
    <3> QED
      BY <1>6, <2>3, <3>2, <3>3 DEF IInv
  <2> QED
    BY <2>2, <2>4, <2>5
<1>10. ASSUME NEW n \in Nat, FileChanges(n) PROVE IInv'
  <2>1. agent \in Agents
    BY <1>1 DEF TypeInv
  <2>2. /\ toHost' = toHost /\ changed' = changed \cup {i}
        /\ agent'.pc = "sending" /\ agent'.id = i /\ agent'.offset = agent.offset
    BY <1>2, <1>3, <1>10, <2>1 DEF FileChanges, Agents
  <2>3. SentOnce'
    <3>1. Msg("error", i, 0, FALSE) \in ToHostMsgs /\ Msg("error", i, 0, FALSE).id = i
      BY DEF Msg, ToHostMsgs
    <3> QED
      BY <1>7, <2>2, <3>1
  <2>4. Gapless'
    <3>1. EndsAt(agent.id, Len(toHost), agent.offset)
      BY <1>1, <1>2 DEF Gapless
    <3>2. EndsAt(agent.id, Len(toHost), agent.offset)'
      BY <1>2, <1>3, <2>2, <3>1 DEF EndsAt, Expects, Have
    <3> QED
      BY <1>1, <1>2, <2>2, <3>2, GaplessSame
  <2>5. Truthful'
    BY <1>1, <1>2, <1>3, <2>2 DEF Truthful
  <2> QED
    BY <1>6, <2>3, <2>4, <2>5 DEF IInv
<1> QED
  BY <1>8, <1>9, <1>10

------------------------------------------------------------------------------
(* The host.                                                               *)

\* What an answer does to the request and to its sender.
LEMMA AnswerEffect ==
    ASSUME TypeInv, NEW i \in Ids, NEW n, Answer(i, n)
    PROVE  /\ pending' = pending \ {i}
           /\ \A x \in Ids \ {i} : request'[x] = request[x]
           /\ request'[i].kind = request[i].kind
           /\ request'[i].pc = "new" => request[i].pc = "new"
           /\ request'[i].pc = "done" =>
                  request'[i] = request[i] \/ (i \in pending /\ n # None /\ request'[i].got = n)
<1>1. request[i] \in Requests /\ request \in [Ids -> Requests]
  BY DEF TypeInv
<1>2. CASE i \notin pending
  BY <1>1, <1>2 DEF Answer
<1>3. CASE i \in pending
  <2> DEFINE r == [request[i] EXCEPT !.pc = IF n = None THEN "error" ELSE "done", !.got = n]
  <2>1. /\ r.kind = request[i].kind /\ r.got = n
        /\ r.pc = "done" => n # None
        /\ r.pc # "new"
    BY <1>1 DEF Requests
  <2>2. request' = [request EXCEPT ![i] = r]
    BY <1>3 DEF Answer
  <2> HIDE DEF r
  <2> QED
    BY <1>1, <1>3, <2>1, <2>2 DEF Answer
<1> QED
  BY <1>2, <1>3

\* The handlers of the host: the file that is put together is p long then.
LEMMA HandlerFrame ==
    ASSUME IInv, toHost # << >>, NEW i \in Ids, i = Head(toHost).id, toHost' = Tail(toHost),
           UNCHANGED <<length, changed, toGuest, agent>>,
           NEW p, partial' = [partial EXCEPT ![i] = p], p = None \/ p < length[i],
           pending' \subseteq pending,
           \A x \in Ids \ {i} : request'[x] = request[x],
           request'[i].kind = request[i].kind, request'[i].pc = "new" => request[i].pc = "new",
           i \in pending' => request'[i] = request[i],
           NEW end, end = Head(toHost).offset + Head(toHost).n,
           Head(toHost).t = "chunk" => Expects(i, end)'
    PROVE  SentOnce' /\ Gapless' /\ Truthful' /\ SendersWait' /\ PartialShort'
<1>1. TypeInv /\ SentOnce /\ Gapless /\ Truthful /\ SendersWait /\ PartialShort
  BY DEF IInv
<1>2. /\ Len(toHost) \in Nat /\ Len(toHost) > 0 /\ DOMAIN toHost = 1..Len(toHost)
      /\ DOMAIN toHost' = 1..(Len(toHost) - 1)
      /\ \A k \in 1..(Len(toHost) - 1) : toHost'[k] = toHost[k + 1]
      /\ Head(toHost) = toHost[1]
  BY <1>1, TailFacts DEF TypeInv
<1>3. \A k \in DOMAIN toHost' : k + 1 \in DOMAIN toHost /\ toHost'[k] = toHost[k + 1]
  BY <1>2
<1>4. /\ \A x \in Ids \ {i} : partial'[x] = partial[x]
      /\ partial'[i] = p
  BY <1>1 DEF TypeInv
<1>5. ~Untouched(i) /\ request[i].pc # "new"
  BY <1>1, <1>2 DEF Untouched, SentOnce
<1>6. SentOnce'
  <2>1. ASSUME NEW x \in Ids \ {i}, Untouched(x) PROVE Untouched(x)'
    BY <1>3, <1>4, <2>1 DEF Untouched, Sending
  <2> QED
    BY <1>1, <1>5, <2>1, SentOnceFrame
<1>7. Gapless'
  BY <1>1, <1>4, GaplessTail
<1>8. Truthful'
  <2>1. \A x \in Ids : request'[x].kind = request[x].kind
    OBVIOUS
  <2>2. \A k \in DOMAIN toHost : toHost[k].id \in Ids
    BY <1>1, MessageTypes
  <2> QED
    BY <1>1, <1>3, <2>1, <2>2 DEF Truthful
<1>9. SendersWait'
  <2>1. pending \subseteq Ids
    BY <1>1 DEF TypeInv
  <2> QED
    BY <1>1, <2>1 DEF SendersWait
<1>10. PartialShort'
  BY <1>1, <1>4 DEF PartialShort
<1> QED
  BY <1>6, <1>7, <1>8, <1>9, <1>10

\* The host takes what it finds, and hands over a file only when it is whole.
LEMMA HandlerStep ==
    ASSUME IInv, TypeInv', HandleContent \/ HandleError \/ HandleChunk
    PROVE  IInv'
<1>1. TypeInv /\ SentOnce /\ Gapless /\ Truthful /\ SendersWait /\ PartialShort /\ DownloadWhole
  BY DEF IInv
<1>2. /\ toHost # << >> /\ toHost' = Tail(toHost) /\ UNCHANGED <<length, changed, toGuest, agent>>
  BY DEF HandleContent, HandleError, HandleChunk, Got
<1>3. /\ Head(toHost) = toHost[1] /\ 1 \in DOMAIN toHost
  BY <1>1, <1>2, TailFacts DEF TypeInv
<1>4. PICK i \in Ids, n \in Nat, o \in Nat : i = Head(toHost).id /\ n = Head(toHost).n /\ o = Head(toHost).offset
  BY <1>1, <1>3, MessageTypes
<1>5. partial[i] \in Nat \cup {None} /\ partial \in [Ids -> Nat \cup {None}] /\ length[i] \in Nat \cup {None} /\ pending \subseteq Ids
  BY <1>1 DEF TypeInv
<1>6. ASSUME NEW p, Answer(i, p), request'[i].pc = "done" /\ request'[i] # request[i] /\ request[i].kind = "read" =>
                                     p >= length[i] /\ (i \notin changed => p = length[i])
      PROVE  DownloadWhole'
  BY <1>1, <1>2, <1>6, AnswerEffect DEF DownloadWhole
<1>7. CASE HandleContent
  <2>1. Answer(i, n) /\ Head(toHost).t = "content" /\ partial' = partial
    BY <1>4, <1>7 DEF HandleContent, Got
  <2>2. request[i].kind = "read" => n = length[i]
    BY <1>1, <1>3, <1>4, <2>1 DEF Truthful
  <2>3. DownloadWhole'
    BY <1>4, <1>6, <2>1, <2>2
  <2>4. partial' = [partial EXCEPT ![i] = partial[i]] /\ (partial[i] = None \/ partial[i] < length[i])
    BY <1>1, <1>5, <2>1 DEF PartialShort
  <2>5. /\ pending' = pending \ {i}
        /\ \A x \in Ids \ {i} : request'[x] = request[x]
        /\ request'[i].kind = request[i].kind
        /\ request'[i].pc = "new" => request[i].pc = "new"
    BY <1>1, <2>1, AnswerEffect
  <2>6. SentOnce' /\ Gapless' /\ Truthful' /\ SendersWait' /\ PartialShort'
    BY <1>2, <1>4, <2>1, <2>4, <2>5, HandlerFrame
  <2> QED
    BY <2>3, <2>6 DEF IInv
<1>8. CASE HandleError
  <2>1. Answer(i, None) /\ Head(toHost).t = "error" /\ partial' = [partial EXCEPT ![i] = None]
    BY <1>4, <1>8 DEF HandleError, Got
  <2>2. /\ pending' = pending \ {i}
        /\ \A x \in Ids \ {i} : request'[x] = request[x]
        /\ request'[i].kind = request[i].kind
        /\ request'[i].pc = "new" => request[i].pc = "new"
        /\ request'[i].pc = "done" => request'[i] = request[i]
    BY <1>1, <2>1, AnswerEffect
  <2>3. DownloadWhole'
    BY <1>6, <2>1, <2>2
  <2>4. SentOnce' /\ Gapless' /\ Truthful' /\ SendersWait' /\ PartialShort'
    BY <1>2, <1>4, <2>1, <2>2, HandlerFrame
  <2> QED
    BY <2>3, <2>4 DEF IInv
<1>9. CASE HandleChunk
  <2> DEFINE have == IF partial[i] = None THEN n ELSE partial[i] + n
  <2>1. /\ Head(toHost).t = "chunk"
        /\ \/ o + n >= length[i] /\ partial' = [partial EXCEPT ![i] = None] /\ Answer(i, have)
           \/ ~(o + n >= length[i]) /\ partial' = [partial EXCEPT ![i] = have] /\ UNCHANGED <<pending, request>>
    BY <1>4, <1>9 DEF HandleChunk, Got, Complete
  <2>2. Expects(i, o)
    <3>1. EndsAt(toHost[1].id, 1 - 1, toHost[1].offset)
      BY <1>1, <1>3, <2>1 DEF Gapless
    <3>2. 1..(1 - 1) = {}
      OBVIOUS
    <3> QED
      BY <1>3, <1>4, <3>1, <3>2 DEF EndsAt
  <2>3. have \in Nat /\ have = Have(i) + n /\ have <= o + n /\ (i \in pending => have = o + n)
    BY <1>4, <1>5, <2>2, NoneIsNegative DEF Have, Expects
  <2>4. length[i] \in Nat /\ (i \notin changed => o + n <= length[i])
    BY <1>1, <1>3, <1>4, <1>5, <2>1 DEF Truthful
  <2> HIDE DEF have
  <2>5. PICK end \in Nat : end = o + n
    BY <1>4
  <2>6. CASE o + n >= length[i] /\ partial' = [partial EXCEPT ![i] = None] /\ Answer(i, have)
    <3>1. /\ pending' = pending \ {i}
          /\ \A x \in Ids \ {i} : request'[x] = request[x]
          /\ request'[i].kind = request[i].kind
          /\ request'[i].pc = "new" => request[i].pc = "new"
          /\ request'[i].pc = "done" => request'[i] = request[i] \/ i \in pending
      BY <1>1, <2>6, AnswerEffect
    <3>2. i \in pending => have >= length[i] /\ (i \notin changed => have = length[i])
      BY <1>4, <2>3, <2>4, <2>6
    <3>3. DownloadWhole'
      BY <1>6, <2>6, <3>1, <3>2
    <3>4. partial'[i] = None
      BY <1>5, <2>6
    <3>5. Expects(i, end)'
      BY <3>1, <3>4 DEF Expects, Have
    <3>6. SentOnce' /\ Gapless' /\ Truthful' /\ SendersWait' /\ PartialShort'
      BY <1>2, <1>4, <2>5, <2>6, <3>1, <3>5, HandlerFrame
    <3> QED
      BY <3>3, <3>6 DEF IInv
  <2>7. CASE ~(o + n >= length[i]) /\ partial' = [partial EXCEPT ![i] = have] /\ UNCHANGED <<pending, request>>
    <3>1. DownloadWhole'
      BY <1>1, <1>2, <2>7 DEF DownloadWhole
    <3>2. have < length[i]
      BY <1>4, <2>3, <2>4, <2>7
    <3>3. partial'[i] = have /\ have # None
      BY <1>5, <2>3, <2>7, NoneIsNegative
    <3>4. Expects(i, end)'
      BY <1>4, <2>3, <2>5, <2>7, <3>3 DEF Expects, Have
    <3>5. SentOnce' /\ Gapless' /\ Truthful' /\ SendersWait' /\ PartialShort'
      BY <1>2, <1>4, <2>5, <2>7, <3>2, <3>4, HandlerFrame
    <3> QED
      BY <3>1, <3>5 DEF IInv
  <2> QED
    BY <2>1, <2>6, <2>7
<1> QED
  BY <1>7, <1>8, <1>9

\* A connection that ends leaves nothing on the way.
LEMMA EndStep ==
    ASSUME IInv, TypeInv', AgentDrops \/ ReaderDrops \/ Dies \/ EnterRunning \/ UNCHANGED vars
    PROVE  IInv'
<1>1. TypeInv /\ SentOnce /\ Gapless /\ Truthful /\ SendersWait /\ PartialShort /\ DownloadWhole
  BY DEF IInv
<1>2. /\ UNCHANGED <<request, pending, partial, length, changed>>
      /\ toGuest' = toGuest \/ toGuest' = << >>
      /\ toHost' = toHost \/ (toHost' = << >> /\ agent'.pc = "gone")
      /\ agent' = agent \/ agent'.pc = "gone"
  BY DEF AgentDrops, ReaderDrops, Dies, EnterRunning, vars, Idle
<1>3. SendersWait' /\ PartialShort' /\ DownloadWhole'
  BY <1>1, <1>2 DEF SendersWait, PartialShort, DownloadWhole
<1>4. ASSUME NEW x, Untouched(x) PROVE Untouched(x)'
  BY <1>2, <1>4 DEF Untouched, Sending
<1>5. SentOnce'
  <2>1. \A k \in DOMAIN toGuest' : k \in DOMAIN toGuest /\ toGuest'[k] = toGuest[k]
    BY <1>2
  <2>2. ASSUME NEW k \in DOMAIN toGuest' PROVE Untouched(toGuest[k].id)'
    <3>1. PICK x : x = toGuest[k].id
      OBVIOUS
    <3>2. Untouched(x)'
      BY <1>1, <1>4, <2>1, <3>1 DEF SentOnce
    <3> QED
      BY <2>1, <3>1, <3>2 DEF Untouched, Sending
  <2>3. ASSUME NEW x \in Ids, request'[x].pc = "new" PROVE Untouched(x)'
    BY <1>1, <1>2, <1>4, <2>3 DEF SentOnce
  <2> QED
    BY <1>1, <1>2, <2>1, <2>2, <2>3 DEF SentOnce
<1>6. Gapless'
  <2>1. CASE toHost' = toHost
    <3>1. ASSUME agent'.pc = "sending" PROVE EndsAt(agent.id, Len(toHost), agent.offset)'
      <4>1. EndsAt(agent.id, Len(toHost), agent.offset) /\ agent' = agent
        BY <1>1, <1>2, <3>1 DEF Gapless
      <4> QED
        BY <1>2, <2>1, <4>1 DEF EndsAt, Expects, Have
    <3> QED
      BY <1>1, <1>2, <2>1, <3>1, GaplessSame
  <2>2. CASE toHost' = << >> /\ agent'.pc = "gone"
    BY <2>2 DEF Gapless
  <2> QED
    BY <1>2, <2>1, <2>2
<1>7. Truthful'
  BY <1>1, <1>2 DEF Truthful
<1> QED
  BY <1>3, <1>5, <1>6, <1>7 DEF IInv

------------------------------------------------------------------------------
(* The theorems.                                                           *)

\* Nothing was asked for yet.
LEMMA InitialInvariant == Init => IInv
<1> SUFFICES ASSUME Init PROVE IInv
  OBVIOUS
<1>1. TypeInv
  <2>1. [pc |-> "new", kind |-> "none", got |-> None] \in Requests
    BY DEF Requests
  <2>2. Idle \in Agents /\ Idle.pc = "idle"
    BY DEF Idle, Agents
  <2>3. << >> \in Seq(ToGuestMsgs) /\ << >> \in Seq(ToHostMsgs)
    OBVIOUS
  <2> QED
    BY <2>1, <2>2, <2>3, TransferAssumption DEF Init, TypeInv
<1>2. SentOnce /\ Gapless /\ Truthful
  BY DEF Init, SentOnce, Untouched, Sending, Gapless, Truthful, Idle
<1>3. SendersWait /\ PartialShort /\ DownloadWhole
  BY DEF Init, SendersWait, PartialShort, DownloadWhole
<1> QED
  BY <1>1, <1>2, <1>3 DEF IInv

\* Every step keeps the invariant.
LEMMA NextInvariant == IInv /\ [Next]_vars => IInv'
<1> SUFFICES ASSUME IInv, [Next]_vars PROVE IInv'
  OBVIOUS
<1>1. TypeInv /\ TypeInv'
  BY TypeStep DEF IInv
<1>2. Sizes \subseteq Nat /\ Wide \subseteq BOOLEAN /\ 0 \in Nat
  BY TransferAssumption
<1>3. ASSUME NEW i \in Ids, ReadFile(i) \/ ListDir(i) \/ (\E n \in Sizes : SaveFile(i, n)) \/ Refuse(i) \/ Timeout(i)
      PROVE  IInv'
  <2>1. (\E t \in {"read", "list", "save"}, n \in Nat : Send(i, t, n)) \/ Refuse(i) \/ Timeout(i)
    BY <1>2, <1>3 DEF ReadFile, ListDir, SaveFile
  <2> QED
    BY <1>1, <2>1, CommandStep
<1>4. CASE Fail
  <2>1. Id \in Ids /\ toGuest # << >> /\ agent.pc = "idle"
    BY <1>1, <1>4, AskedFacts DEF Fail
  <2>2. Msg("error", Id, 0, FALSE) \in ToHostMsgs /\ Msg("error", Id, 0, FALSE).id = Id /\ Msg("error", Id, 0, FALSE).t = "error"
    BY <2>1 DEF Msg, ToHostMsgs
  <2> QED
    BY <1>1, <1>4, <2>1, <2>2, AnswerStep DEF Fail
<1>5. ASSUME NEW n \in Nat, SaveOrList(n) PROVE IInv'
  <2> DEFINE msg == Msg("content", Id, IF Head(toGuest).t = "list" THEN n ELSE 0, FALSE)
  <2>1. Id \in Ids /\ toGuest # << >> /\ agent.pc = "idle" /\ Head(toGuest).t # "read"
    BY <1>1, <1>5, AskedFacts DEF SaveOrList
  <2>2. msg \in ToHostMsgs /\ msg.id = Id /\ msg.t = "content"
    BY <2>1 DEF Msg, ToHostMsgs
  <2>3. Reply(msg) /\ toGuest' = Tail(toGuest) /\ length' = length /\ agent' = agent
    BY <1>5 DEF SaveOrList
  <2> HIDE DEF msg
  <2> QED
    BY <1>1, <2>1, <2>2, <2>3, AnswerStep
<1>6. ASSUME NEW n \in Nat, NEW wide \in BOOLEAN, ReadSmall(n, wide) PROVE IInv'
  <2> DEFINE msg == Msg("content", Id, n, wide)
  <2>1. Id \in Ids /\ toGuest # << >> /\ agent.pc = "idle"
    BY <1>1, <1>6, AskedFacts DEF ReadSmall
  <2>2. msg \in ToHostMsgs /\ msg.id = Id /\ msg.t = "content" /\ msg.n = n
    BY <2>1 DEF Msg, ToHostMsgs
  <2>3. Reply(msg) /\ toGuest' = Tail(toGuest) /\ length' = [length EXCEPT ![Id] = n] /\ agent' = agent
    BY <1>6 DEF ReadSmall
  <2>4. length'[Id] = n
    BY <1>1, <2>1, <2>3 DEF TypeInv
  <2> HIDE DEF msg
  <2> QED
    BY <1>1, <2>1, <2>2, <2>3, <2>4, AnswerStep
<1>7. ASSUME NEW n \in Nat, NEW wide \in BOOLEAN, ReadLarge(n, wide) PROVE IInv'
  BY <1>1, <1>7, ReadLargeStep
<1>8. CASE SendChunk \/ EndOfFile \/ ReadError \/ \E n \in Nat : FileChanges(n)
  BY <1>1, <1>8, SendingStep
<1>9. CASE HandleContent \/ HandleError \/ HandleChunk
  BY <1>1, <1>9, HandlerStep
<1>10. CASE AgentDrops \/ ReaderDrops \/ Dies \/ EnterRunning \/ UNCHANGED vars
  BY <1>1, <1>10, EndStep
<1> QED
  BY <1>2, <1>3, <1>4, <1>5, <1>6, <1>7, <1>8, <1>9, <1>10 DEF Next, Agent, Host

LEMMA Invariance == Spec => []IInv
  BY InitialInvariant, NextInvariant, PTL DEF Spec

\* The types, and what is put together of a file never reaches its length, also
\* when the command that wanted it is gone (vsock_control_handler).
THEOREM TransferTyped == Spec => []TypeOK
<1>1. IInv => TypeOK
  BY DEF IInv, TypeInv, TypeOK, PartialShort, Requests, Agents
<1> QED
  BY <1>1, Invariance, PTL

\* A file that download_file or read_file hands over is whole: as long as the
\* agent found it, and no longer unless it grew while it was sent, for any files,
\* any sizes of chunks and frames, any time-outs and any end of the machine.
THEOREM DownloadsWhole == Spec => []DownloadWhole
<1>1. IInv => DownloadWhole
  BY DEF IInv
<1> QED
  BY <1>1, Invariance, PTL

\* The first part of NothingLeftBehind: a command that got its answer or timed out
\* has no sender in pending_downloads, whichever of the two comes first.
THEOREM SendersRemoved == Spec => [](\A i \in pending : request[i].pc \notin {"done", "timeout"})
<1>1. IInv => \A i \in pending : request[i].pc \notin {"done", "timeout"}
  BY DEF IInv, SendersWait
<1> QED
  BY <1>1, Invariance, PTL
=============================================================================
