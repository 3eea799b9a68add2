----------------------------- MODULE Store_proof -----------------------------
(***************************************************************************)
(* Proofs about what the host keeps on disk and in the cloud: Assets,      *)
(* RemoteMode, VenvRegistry, Cloud and, last, SessionIndex (one process at *)
(* a time), each for any values of its constants.  The components share no *)
(* variable.                                                               *)
(***************************************************************************)
EXTENDS SessionIndex, Assets, RemoteMode, VenvRegistry, Cloud, FiniteSetTheorems,
        NaturalsInduction, WellFoundedInduction, TLAPS

------------------------------------------------------------------------------
(* The root file system.                                                   *)

Kinds == {"none", "part", "good", "bad"}
Working(b) == fetch[b].pc \in {"stream", "verify", "verified"}

\* The types; and the files are numbered without a gap.
AssetTypes ==
    /\ content \in [1..MaxFiles -> Kinds]
    /\ tmpFile \in {0} \cup Files /\ destFile \in {0} \cup Files
    /\ fetch \in [Boots -> [pc : {"idle", "request", "stream", "verify", "verified", "failed", "booted"},
                            file : 0..MaxFiles]]
    /\ \A b \in Boots : fetch[b].pc = "stream" => fetch[b].file \in Files
    /\ \E n \in Nat : Files = 1..n

\* While the downloads keep apart: one is at work at a time, it does not write to
\* the file at the final path, and what it has verified is what it will rename.
ApartInv ==
    /\ \A b, c \in Boots : Working(b) /\ Working(c) => b = c
    /\ \A b \in Boots : fetch[b].pc = "stream" => fetch[b].file # destFile
    /\ \A b \in Boots : fetch[b].pc = "verified" => tmpFile = 0 \/ content[tmpFile] = "good"
    /\ tmpFile # 0 => tmpFile # destFile
    /\ destFile # 0 => content[destFile] = "good"
    /\ used \subseteq {"good"}

AssetInv == AssetTypes /\ (~together => ApartInv)

\* A file created at a free path gets a new number.
LEMMA NewFile ==
    ASSUME AssetTypes
    PROVE  Cardinality(Files) + 1 \notin Files /\ \E n \in Nat : Files = 1..n /\ Cardinality(Files) = n
<1>1. PICK n \in Nat : Files = 1..n
  BY DEF AssetTypes
<1>2. Cardinality(1..n) = n
  BY FS_Interval
<1> QED BY <1>1, <1>2

\* A step that writes to one file that exists keeps the numbers.
LEMMA SameFiles ==
    ASSUME AssetTypes, NEW f \in Files, NEW k \in {"part", "good", "bad"}, content' = [content EXCEPT ![f] = k]
    PROVE  Files' = Files /\ content' \in [1..MaxFiles -> Kinds]
  BY DEF AssetTypes, Files, Kinds

\* Every step keeps the invariant.
LEMMA AssetStep == AssetInv /\ [AssetNext]_assetVars => AssetInv'
<1> SUFFICES ASSUME AssetInv, [AssetNext]_assetVars PROVE AssetInv'
  OBVIOUS
<1> USE AssetAssumption
<1>0. AssetTypes
  BY DEF AssetInv
<1>1. CASE UNCHANGED assetVars
  BY <1>1 DEF assetVars, AssetInv, AssetTypes, ApartInv, Files, Working
<1>2. ASSUME NEW b \in Boots, ResolveRootfs(b) PROVE AssetInv'
  <2>1. Files' = Files /\ content' = content /\ together' = together /\ destFile' = destFile
    BY <1>2 DEF ResolveRootfs, Files
  <2>2. /\ fetch' \in [Boots -> [pc : {"idle", "request", "stream", "verify", "verified", "failed", "booted"},
                                 file : 0..MaxFiles]]
        /\ fetch'[b].pc \in {"booted", "request"} /\ \A c \in Boots \ {b} : fetch'[c] = fetch[c]
    BY <1>0, <1>2, SMTT(30) DEF ResolveRootfs, At, AssetTypes
  <2>3. tmpFile' \in {0, tmpFile}
    BY <1>2 DEF ResolveRootfs
  <2>4. AssetTypes'
    BY <1>0, <2>1, <2>2, <2>3 DEF AssetTypes
  <2>5. ASSUME ~together' PROVE ApartInv'
    <3>1. ApartInv
      BY <2>1, <2>5 DEF AssetInv
    <3>2. used' \subseteq {"good"}
      BY <1>2, <3>1 DEF ApartInv, ResolveRootfs, Boot
    <3> QED BY <2>1, <2>2, <2>3, <3>1, <3>2 DEF ApartInv, Working
  <2> QED BY <2>4, <2>5 DEF AssetInv
<1>3. ASSUME NEW b \in Boots, CreateTmp(b) PROVE AssetInv'
  <2>1. PICK f \in 1..MaxFiles :
          /\ f = IF tmpFile # 0 THEN tmpFile ELSE Cardinality(Files) + 1
          /\ fetch' = [fetch EXCEPT ![b] = [pc |-> "stream", file |-> f]]
          /\ content' = [content EXCEPT ![f] = "part"] /\ tmpFile' = f
          /\ together' = (together \/ \E c \in Boots \ {b} : fetch[c].pc \in {"stream", "verify", "verified"})
    BY <1>3 DEF CreateTmp
  <2>2. destFile' = destFile /\ used' = used
    BY <1>3 DEF CreateTmp
  <2>3. Files' = Files \cup {f} /\ content' \in [1..MaxFiles -> Kinds]
    BY <1>0, <2>1, ZenonT(60) DEF AssetTypes, Files, Kinds
  <2>4. \E n \in Nat : Files' = 1..n
    <3>1. CASE tmpFile # 0
      <4>1. Files' = Files
        BY <1>0, <2>1, <2>3, <3>1 DEF AssetTypes
      <4> QED BY <1>0, <4>1 DEF AssetTypes
    <3>2. CASE tmpFile = 0
      <4>1. PICK n \in Nat : Files = 1..n /\ Cardinality(Files) = n
        BY <1>0, NewFile
      <4>2. Files' = 1..(n + 1)
        BY <2>1, <2>3, <3>2, <4>1
      <4> QED BY <4>2
    <3> QED BY <3>1, <3>2
  <2>5. /\ fetch' \in [Boots -> [pc : {"idle", "request", "stream", "verify", "verified", "failed", "booted"},
                                 file : 0..MaxFiles]]
        /\ fetch'[b].pc = "stream" /\ fetch'[b].file = f /\ \A c \in Boots \ {b} : fetch'[c] = fetch[c]
    BY <1>0, <2>1 DEF AssetTypes
  <2>6. AssetTypes'
    BY <1>0, <2>1, <2>2, <2>3, <2>4, <2>5 DEF AssetTypes
  <2>7. ASSUME ~together' PROVE ApartInv'
    <3>1. ApartInv /\ \A c \in Boots \ {b} : ~Working(c)
      BY <2>1, <2>7 DEF AssetInv, Working
    <3>2. \A c \in Boots \ {b} : ~Working(c)'
      BY <2>5, <3>1 DEF Working
    <3>3. f # destFile \/ destFile = 0
      BY <1>0, <2>1, <3>1, NewFile DEF AssetTypes, ApartInv
    <3>4. f # destFile
      BY <3>3
    <3>5. destFile # 0 => content'[destFile] = content[destFile]
      BY <1>0, <2>1, <3>4 DEF AssetTypes, Files
    <3> QED BY <2>1, <2>2, <2>5, <3>1, <3>2, <3>4, <3>5 DEF ApartInv, Working
  <2> QED BY <2>6, <2>7 DEF AssetInv
<1>4. ASSUME NEW b \in Boots, StreamEnds(b) PROVE AssetInv'
  <2> DEFINE f == fetch[b].file
  <2>1. fetch[b].pc = "stream" /\ f \in Files /\ UNCHANGED <<tmpFile, destFile, used, together>>
    BY <1>0, <1>4 DEF StreamEnds, AssetTypes
  <2>2. \/ \E k \in {"good", "bad"} : content' = [content EXCEPT ![f] = k]
        \/ together /\ content' = content
    BY <1>4 DEF StreamEnds
  <2>3. Files' = Files /\ content' \in [1..MaxFiles -> Kinds]
    <3>1. CASE content' = content
      BY <1>0, <3>1 DEF AssetTypes, Files
    <3>2. ASSUME NEW k \in {"good", "bad"}, content' = [content EXCEPT ![f] = k]
          PROVE  Files' = Files /\ content' \in [1..MaxFiles -> Kinds]
      BY <1>0, <2>1, <3>2, SameFiles
    <3> QED BY <2>2, <3>1, <3>2
  <2>4. /\ fetch' \in [Boots -> [pc : {"idle", "request", "stream", "verify", "verified", "failed", "booted"},
                                 file : 0..MaxFiles]]
        /\ fetch'[b].pc = "verify" /\ \A c \in Boots \ {b} : fetch'[c] = fetch[c]
    BY <1>0, <1>4 DEF StreamEnds, At, AssetTypes
  <2>5. AssetTypes'
    BY <1>0, <2>1, <2>3, <2>4 DEF AssetTypes
  <2>6. ASSUME ~together' PROVE ApartInv'
    <3>1. ApartInv /\ Working(b)
      BY <2>1, <2>6 DEF AssetInv, Working
    <3>2. \A c \in Boots \ {b} : ~Working(c) /\ ~Working(c)'
      BY <2>4, <3>1 DEF ApartInv, Working
    <3>3. PICK k \in {"good", "bad"} : content' = [content EXCEPT ![f] = k]
      BY <2>1, <2>2, <2>6
    <3>4. f # destFile
      BY <2>1, <3>1 DEF ApartInv
    <3>5. destFile # 0 => content'[destFile] = content[destFile]
      BY <1>0, <3>3, <3>4 DEF AssetTypes, Files
    <3> QED BY <2>1, <2>4, <3>1, <3>2, <3>5 DEF ApartInv, Working
  <2> QED BY <2>5, <2>6 DEF AssetInv
<1>5. ASSUME NEW b \in Boots, FetchFails(b) PROVE AssetInv'
  <2>1. UNCHANGED <<content, tmpFile, destFile, used, together>> /\ Files' = Files
    BY <1>5 DEF FetchFails, Files
  <2>2. /\ fetch' \in [Boots -> [pc : {"idle", "request", "stream", "verify", "verified", "failed", "booted"},
                                 file : 0..MaxFiles]]
        /\ fetch'[b].pc = "failed" /\ \A c \in Boots \ {b} : fetch'[c] = fetch[c]
    BY <1>0, <1>5 DEF FetchFails, At, AssetTypes
  <2>3. AssetTypes'
    BY <1>0, <2>1, <2>2 DEF AssetTypes
  <2>4. ApartInv => ApartInv'
    BY <2>1, <2>2 DEF ApartInv, Working
  <2> QED BY <2>1, <2>3, <2>4 DEF AssetInv
<1>6. ASSUME NEW b \in Boots, VerifyTmp(b) PROVE AssetInv'
  <2>1. UNCHANGED <<content, destFile, used, together>> /\ Files' = Files
    BY <1>6 DEF VerifyTmp, Files
  <2>2. /\ fetch' \in [Boots -> [pc : {"idle", "request", "stream", "verify", "verified", "failed", "booted"},
                                 file : 0..MaxFiles]]
        /\ fetch'[b].pc = IF Matches THEN "verified" ELSE "failed"
        /\ \A c \in Boots \ {b} : fetch'[c] = fetch[c]
        /\ tmpFile' = IF Matches THEN tmpFile ELSE 0
    BY <1>0, <1>6 DEF VerifyTmp, At, AssetTypes
  <2>3. AssetTypes'
    BY <1>0, <2>1, <2>2 DEF AssetTypes
  <2>4. ApartInv => ApartInv'
    <3>1. fetch[b].pc = "verify"
      BY <1>6 DEF VerifyTmp
    <3> QED BY <2>1, <2>2, <3>1 DEF ApartInv, Working, Matches
  <2> QED BY <2>1, <2>3, <2>4 DEF AssetInv
<1>7. ASSUME NEW b \in Boots, RenameTmp(b) PROVE AssetInv'
  <2>1. UNCHANGED <<content, together>> /\ Files' = Files /\ fetch[b].pc = "verified"
    BY <1>7 DEF RenameTmp, Files
  <2>2. /\ fetch' \in [Boots -> [pc : {"idle", "request", "stream", "verify", "verified", "failed", "booted"},
                                 file : 0..MaxFiles]]
        /\ fetch'[b].pc \in {"failed", "booted"} /\ \A c \in Boots \ {b} : fetch'[c] = fetch[c]
    BY <1>0, <1>7 DEF RenameTmp, At, AssetTypes
  <2>3. /\ tmpFile' = 0
        /\ destFile' = IF tmpFile = 0 THEN destFile ELSE tmpFile
        /\ used' = IF tmpFile = 0 THEN used ELSE used \cup {content[tmpFile]}
    BY <1>7 DEF RenameTmp, Boot
  <2>4. AssetTypes'
    BY <1>0, <2>1, <2>2, <2>3 DEF AssetTypes
  <2>5. ApartInv => ApartInv'
    <3> SUFFICES ASSUME ApartInv PROVE ApartInv'
      OBVIOUS
    <3>1. \A c \in Boots : ~Working(c)'
      BY <2>1, <2>2 DEF ApartInv, Working
    <3>2. tmpFile # 0 => content[tmpFile] = "good"
      BY <2>1 DEF ApartInv
    <3> QED BY <2>1, <2>3, <3>1, <3>2 DEF ApartInv, Working
  <2> QED BY <2>1, <2>4, <2>5 DEF AssetInv
<1> QED BY <1>1, <1>2, <1>3, <1>4, <1>5, <1>6, <1>7 DEF AssetNext

\* As long as no download begins while another is at work, a machine boots only
\* from a file whose hash was checked, for any number of boots, retries, failures
\* and files.
THEOREM OnlyVerifiedBoots == AssetSpec => []BootsVerified
<1>1. AssetInit => AssetInv
  <2> SUFFICES ASSUME AssetInit PROVE AssetInv
    OBVIOUS
  <2>1. Files = {} /\ Files = 1..0
    BY DEF AssetInit, Files
  <2>2. AssetTypes
    BY <2>1, AssetAssumption DEF AssetInit, AssetTypes, Kinds
  <2> QED BY <2>2 DEF AssetInit, AssetInv, ApartInv, Working
<1>2. AssetInv => BootsVerified
  BY DEF AssetInv, ApartInv, BootsVerified
<1> QED BY <1>1, <1>2, AssetStep, PTL DEF AssetSpec

------------------------------------------------------------------------------
(* Disks carried to a server and back.                                     *)

ModeTypes == [type : {"Local", "Detaching", "Remote", "Reattaching"}, server : Servers \cup {Nowhere}]
ServerTypes == [state : {"none", "ready", "idle", "gone"}, disk : Nat, mounted : Venvs \cup {Nowhere}]

RemoteTypes ==
    /\ mode \in [Venvs -> ModeTypes]
    /\ at \in [Venvs -> {"idle", "create", "cleanup", "again", "up", "start", "stop", "down", "release",
                         "end"}]
    /\ target \in [Venvs -> Servers \cup {Nowhere}]
    /\ local \in [Venvs -> Nat] /\ latest \in [Venvs -> Nat] /\ vps \in [Servers -> ServerTypes]

\* A detach works for an environment without a server, a reattach with the
\* server of the mode.
StepsAndModes ==
    \A v \in Venvs :
        /\ mode[v].type \in {"Remote", "Reattaching"} <=> mode[v].server # Nowhere
        /\ at[v] \in {"create", "cleanup", "again", "up", "start"} => mode[v].type = "Detaching" /\ mode[v].server = Nowhere
        /\ at[v] \in {"up", "start"} => target[v] \in Servers
        /\ at[v] \in {"stop", "down", "release", "end"} => target[v] = mode[v].server /\ target[v] \in Servers

\* The environment has the server, or its detach is about to give it the server.
Claims(v, s) == Names(v, s) \/ Takes(v, s)

\* The server of an unspoiled environment is not taken by another, and another
\* that still names it is spoiled.
ServersApart ==
    \A s \in Servers : \A v \in Venvs \ spoiled : \A w \in Venvs \ {v} :
        Claims(v, s) => ~Takes(w, s) /\ (Names(w, s) => w \in spoiled)

\* A session on a server works on the disk of the environment that has it.
SessionsApart ==
    /\ \A s \in Servers : \A v \in Venvs \ spoiled : vps[s].mounted = v => mode[v].server = s
    /\ \A s \in Servers : \A v \in Venvs \ spoiled : mode[v].server = s => vps[s].mounted \in {v, Nowhere}

\* Between the copy of the disk and the step that makes it count, nothing writes
\* to either copy.
CopiesReady ==
    \A v \in Venvs :
        /\ at[v] = "start" /\ v \notin spoiled => vps[target[v]].mounted = Nowhere /\ vps[target[v]].disk = latest[v]
        /\ at[v] \in {"down", "release", "end"} /\ v \notin spoiled => vps[target[v]].mounted = Nowhere
        /\ at[v] \in {"release", "end"} /\ v \notin spoiled => local[v] = latest[v]

RemoteInv ==
    RemoteTypes /\ StepsAndModes /\ ServersApart /\ SessionsApart /\ CopiesReady /\ WorkKept

\* Every step keeps the invariant.
LEMMA RemoteStep == RemoteInv /\ [RemoteNext]_remoteVars => RemoteInv'
<1> SUFFICES ASSUME RemoteInv, [RemoteNext]_remoteVars PROVE RemoteInv'
  OBVIOUS
<1> USE RemoteAssumption
<1>0. RemoteTypes /\ StepsAndModes /\ ServersApart /\ SessionsApart /\ CopiesReady /\ WorkKept
  BY DEF RemoteInv
<1>a. Nowhere \notin Servers /\ Nowhere \notin Venvs
  BY RemoteAssumption
<1>1. CASE UNCHANGED remoteVars
  BY <1>0, <1>1 DEF remoteVars, RemoteInv, RemoteTypes, StepsAndModes, ServersApart, SessionsApart, CopiesReady,
                    WorkKept, Claims, Names, Takes
<1>2. ASSUME NEW v \in Venvs, LocalWork(v) PROVE RemoteInv'
  <2>1. UNCHANGED <<mode, at, target, vps>> /\ spoiled \subseteq spoiled' /\ (mode[v] # LocalMode => v \in spoiled')
    BY <1>2 DEF LocalWork
  <2>2. /\ local' \in [Venvs -> Nat] /\ latest' \in [Venvs -> Nat] /\ local'[v] = latest'[v]
        /\ \A w \in Venvs \ {v} : local'[w] = local[w] /\ latest'[w] = latest[w]
    BY <1>0, <1>2 DEF LocalWork, RemoteTypes
  <2>3. mode[v] = LocalMode => mode[v].server = Nowhere /\ at[v] \notin {"end", "release", "down", "stop"}
    BY <1>0, <1>a DEF StepsAndModes, LocalMode
  <2>4. RemoteTypes' /\ StepsAndModes' /\ ServersApart'
    BY <1>0, <2>1, <2>2 DEF RemoteTypes, StepsAndModes, ServersApart, Claims, Names, Takes
  <2>5. SessionsApart' /\ WorkKept'
    BY <1>0, <2>1, <2>2, <2>3 DEF SessionsApart, WorkKept
  <2>6. CopiesReady'
    <3>1. mode[v] = LocalMode => at[v] # "start"
      BY <1>0 DEF LocalMode, StepsAndModes
    <3> QED BY <1>0, <2>1, <2>2, <2>3, <3>1 DEF CopiesReady
  <2> QED BY <2>4, <2>5, <2>6 DEF RemoteInv
<1>3. ASSUME NEW s \in Servers, RemoteWork(s) PROVE RemoteInv'
  <2> DEFINE v == vps[s].mounted
  <2>1. UNCHANGED <<mode, at, target, local, spoiled>> /\ v \in Venvs
    BY <1>0, <1>3 DEF RemoteWork, RemoteTypes, ServerTypes
  <2>2. /\ latest' \in [Venvs -> Nat] /\ \A w \in Venvs \ {v} : latest'[w] = latest[w]
        /\ vps' \in [Servers -> ServerTypes] /\ vps'[s].disk = latest'[v]
        /\ \A t \in Servers : vps'[t].state = vps[t].state /\ vps'[t].mounted = vps[t].mounted
        /\ \A t \in Servers \ {s} : vps'[t].disk = vps[t].disk
    BY <1>0, <1>3, <2>1 DEF RemoteWork, RemoteTypes, ServerTypes
  <2> HIDE DEF v
  <2>a. RemoteTypes'
    BY <1>0, <2>1, <2>2 DEF RemoteTypes
  <2>b. StepsAndModes'
    BY <1>0, <2>1 DEF StepsAndModes
  <2>c. ServersApart'
    BY <1>0, <2>1, <2>2 DEF ServersApart, Claims, Names, Takes
  <2>d. SessionsApart'
    BY <1>0, <2>1, <2>2 DEF SessionsApart
  <2>4. v \notin spoiled => mode[v].server = s
    BY <1>0, <2>1 DEF SessionsApart, v
  <2>5. \A w \in Venvs \ {v} : mode[w].server = s => w \in spoiled
    BY <1>0, <1>a, <2>1 DEF SessionsApart, v
  <2>6. WorkKept'
    BY <1>0, <1>a, <2>1, <2>2, <2>4, <2>5 DEF WorkKept, RemoteTypes, ModeTypes
  <2>7. \A w \in Venvs : at[w] = "start" => target[w] \in Servers /\ (target[w] = s \/ w = v => w \in spoiled)
    BY <1>0, <1>a, <2>1, <2>4 DEF CopiesReady, StepsAndModes, v
  <2>8. \A w \in Venvs : at[w] \in {"down", "release", "end"} => target[w] \in Servers
    BY <1>0 DEF StepsAndModes
  <2>9. at[v] \in {"release", "end"} => v \in spoiled
    BY <1>0, <1>a, <2>1, <2>4 DEF CopiesReady, StepsAndModes, v
  <2>10. CopiesReady'
    BY <1>0, <2>1, <2>2, <2>7, <2>8, <2>9 DEF CopiesReady
  <2> QED BY <2>a, <2>b, <2>c, <2>d, <2>6, <2>10 DEF RemoteInv
<1>4. ASSUME NEW v \in Venvs, Detach(v) PROVE RemoteInv'
  <2>1. UNCHANGED <<target, local, vps, latest, spoiled>> /\ at[v] = "idle" /\ mode[v] = LocalMode
    BY <1>4 DEF Detach
  <2>2. /\ mode' \in [Venvs -> ModeTypes] /\ mode'[v].type = "Detaching" /\ mode'[v].server = Nowhere
        /\ \A w \in Venvs \ {v} : mode'[w] = mode[w]
    BY <1>0, <1>4 DEF Detach, RemoteTypes, ModeTypes, LocalMode
  <2>3. mode[v].server = Nowhere
    BY <2>1 DEF LocalMode
  <2>4. RemoteTypes' /\ at'[v] = "create" /\ \A w \in Venvs \ {v} : at'[w] = at[w]
    BY <1>0, <1>4, <2>1, <2>2 DEF Detach, Move, RemoteTypes
  <2>5. StepsAndModes' /\ CopiesReady' /\ WorkKept'
    BY <1>0, <2>1, <2>2, <2>3, <2>4 DEF StepsAndModes, CopiesReady, WorkKept
  <2>6. ServersApart' /\ SessionsApart'
    BY <1>0, <2>1, <2>2, <2>3, <2>4 DEF ServersApart, SessionsApart, Claims, Names, Takes
  <2> QED BY <2>4, <2>5, <2>6 DEF RemoteInv
<1>5. ASSUME NEW v \in Venvs, Rollback(v) PROVE RemoteInv'
  <2>1. UNCHANGED <<target, local, vps, latest, spoiled>> /\ mode[v].server = Nowhere
    BY <1>0, <1>5 DEF Rollback, StepsAndModes
  <2>2. /\ mode' \in [Venvs -> ModeTypes] /\ mode'[v].type = "Local" /\ mode'[v].server = Nowhere
        /\ \A w \in Venvs \ {v} : mode'[w] = mode[w]
    BY <1>0, <1>5 DEF Rollback, RolledBack, RemoteTypes, ModeTypes, LocalMode
  <2>3. RemoteTypes' /\ at'[v] = "idle" /\ \A w \in Venvs \ {v} : at'[w] = at[w]
    BY <1>0, <1>5, <2>1, <2>2 DEF Rollback, Move, RemoteTypes
  <2>4. StepsAndModes' /\ CopiesReady' /\ WorkKept'
    BY <1>0, <2>1, <2>2, <2>3 DEF StepsAndModes, CopiesReady, WorkKept
  <2>5. ServersApart' /\ SessionsApart'
    BY <1>0, <2>1, <2>2, <2>3 DEF ServersApart, SessionsApart, Claims, Names, Takes
  <2> QED BY <2>3, <2>4, <2>5 DEF RemoteInv
<1>6. ASSUME NEW v \in Venvs, CreateRemoteSession(v) PROVE RemoteInv'
  <2>1. PICK s \in Servers :
          /\ vps[s].state \in {"none", "idle"}
          /\ vps' = [vps EXCEPT ![s].state = "ready"]
          /\ target' = [target EXCEPT ![v] = s] /\ Move(v, "up")
          /\ spoiled' = spoiled \cup GivenAway(v, s)
    BY <1>6 DEF CreateRemoteSession
  <2>2. UNCHANGED <<mode, local, latest>> /\ at[v] \in {"create", "again"}
    BY <1>6 DEF CreateRemoteSession
  <2>3. mode[v].server = Nowhere /\ mode[v].type = "Detaching"
    BY <1>0, <2>2 DEF StepsAndModes
  <2>4. /\ vps' \in [Servers -> ServerTypes]
        /\ \A t \in Servers : vps'[t].disk = vps[t].disk /\ vps'[t].mounted = vps[t].mounted
    BY <1>0, <2>1 DEF RemoteTypes, ServerTypes
  <2>5. /\ RemoteTypes' /\ at'[v] = "up" /\ target'[v] = s
        /\ \A w \in Venvs \ {v} : at'[w] = at[w] /\ target'[w] = target[w]
    BY <1>0, <2>1, <2>2, <2>4 DEF Move, RemoteTypes
  <2>6. /\ spoiled \subseteq spoiled' /\ \A w \in Venvs : Claims(w, s) => w \in spoiled'
        /\ v \notin spoiled' => \A w \in Venvs : ~Takes(w, s)
    BY <2>1 DEF GivenAway, Claims
  <2>7. StepsAndModes'
    BY <1>0, <2>2, <2>3, <2>5 DEF StepsAndModes
  <2>8. \A w \in Venvs \ {v}, t \in Servers : (Names(w, t)' <=> Names(w, t)) /\ (Takes(w, t)' <=> Takes(w, t))
    BY <2>2, <2>5 DEF Names, Takes
  <2>9. \A t \in Servers : ~Names(v, t)' /\ (Takes(v, t)' => t = s)
    BY <1>a, <2>2, <2>3, <2>5 DEF Names, Takes
  <2>10. ServersApart'
    <3> SUFFICES ASSUME NEW t \in Servers, NEW u \in Venvs, u \notin spoiled', NEW w \in Venvs, w # u, Claims(u, t)'
                 PROVE ~Takes(w, t)' /\ (Names(w, t)' => w \in spoiled')
      BY Zenon DEF ServersApart
    <3>1. CASE u = v
      BY <2>6, <2>8, <2>9, <3>1 DEF Claims
    <3>2. CASE u # v
      BY <1>0, <2>6, <2>8, <2>9, <3>2 DEF Claims, ServersApart
    <3> QED BY <3>1, <3>2
  <2>11. SessionsApart'
    BY <1>0, <2>2, <2>4, <2>6 DEF SessionsApart
  <2>12. \A w \in Venvs : at[w] \in {"start", "down", "release", "end"} => target[w] \in Servers
    BY <1>0 DEF StepsAndModes
  <2>13. CopiesReady'
    BY <1>0, <2>2, <2>4, <2>5, <2>6, <2>12 DEF CopiesReady
  <2>14. WorkKept'
    BY <1>0, <2>2, <2>4, <2>6 DEF WorkKept, RemoteTypes, ModeTypes
  <2> QED BY <2>5, <2>7, <2>10, <2>11, <2>13, <2>14 DEF RemoteInv
<1>7. ASSUME NEW v \in Venvs, Conflict(v) PROVE RemoteInv'
  <2>1. UNCHANGED <<mode, target, local, vps, latest, spoiled>> /\ at[v] = "create"
    BY <1>7 DEF Conflict
  <2>2. RemoteTypes' /\ at'[v] = "cleanup" /\ \A w \in Venvs \ {v} : at'[w] = at[w]
    BY <1>0, <1>7, <2>1 DEF Conflict, Move, RemoteTypes
  <2>3. StepsAndModes' /\ CopiesReady' /\ WorkKept'
    BY <1>0, <2>1, <2>2 DEF StepsAndModes, CopiesReady, WorkKept
  <2>4. ServersApart' /\ SessionsApart'
    BY <1>0, <2>1, <2>2 DEF ServersApart, SessionsApart, Claims, Names, Takes
  <2> QED BY <2>2, <2>3, <2>4 DEF RemoteInv
<1>8. ASSUME NEW v \in Venvs, ForceCleanup(v) PROVE RemoteInv'
  <2>1. PICK gone \in SUBSET {s \in Servers : vps[s].state \in {"ready", "idle"}} :
          /\ vps' = [s \in Servers |-> IF s \in gone THEN [state |-> "gone", disk |-> 0, mounted |-> Nowhere]
                                       ELSE vps[s]]
          /\ spoiled' = spoiled \cup {w \in Venvs : mode[w].server \in gone \/ (at[w] # "idle" /\ target[w] \in gone)}
    BY <1>8 DEF ForceCleanup
  <2>2. UNCHANGED <<mode, target, local, latest>> /\ at[v] = "cleanup"
    BY <1>8 DEF ForceCleanup
  <2>3. /\ vps' \in [Servers -> ServerTypes]
        /\ \A s \in gone : vps'[s].state = "gone" /\ vps'[s].mounted = Nowhere
        /\ \A s \in Servers \ gone : vps'[s] = vps[s]
    BY <1>0, <2>1 DEF RemoteTypes, ServerTypes
  <2>4. RemoteTypes' /\ at'[v] = "again" /\ \A w \in Venvs \ {v} : at'[w] = at[w]
    BY <1>0, <1>8, <2>2, <2>3 DEF ForceCleanup, Move, RemoteTypes
  <2>5. StepsAndModes'
    BY <1>0, <2>2, <2>4 DEF StepsAndModes
  <2>6. ServersApart'
    BY <1>0, <2>1, <2>2, <2>4 DEF ServersApart, Claims, Names, Takes
  <2>7. /\ spoiled \subseteq spoiled'
        /\ \A w \in Venvs \ spoiled' : mode[w].server \notin gone /\ (at[w] # "idle" => target[w] \notin gone)
    BY <2>1
  <2>8. SessionsApart'
    BY <1>0, <1>a, <2>2, <2>3, <2>7 DEF SessionsApart
  <2>9. WorkKept'
    BY <1>0, <2>2, <2>3, <2>7 DEF WorkKept, RemoteTypes, ModeTypes
  <2>10. \A w \in Venvs : at[w] \in {"start", "down", "release", "end"} => target[w] \in Servers /\ at[w] # "idle"
    BY <1>0 DEF StepsAndModes
  <2>11. CopiesReady'
    BY <1>0, <2>2, <2>3, <2>4, <2>7, <2>10 DEF CopiesReady
  <2> QED BY <2>4, <2>5, <2>6, <2>8, <2>9, <2>11 DEF RemoteInv
<1>9. ASSUME NEW v \in Venvs, TransferUp(v) PROVE RemoteInv'
  <2> DEFINE s == target[v]
  <2>1. UNCHANGED <<mode, target, local, latest, spoiled>> /\ at[v] = "up"
    BY <1>9 DEF TransferUp
  <2>2. s \in Servers /\ mode[v].server = Nowhere /\ Claims(v, s)
    BY <1>0, <2>1 DEF StepsAndModes, Claims, Names, Takes
  <2>3. /\ vps' \in [Servers -> ServerTypes] /\ vps'[s].disk = local[v] /\ vps'[s].mounted = Nowhere
        /\ \A t \in Servers : vps'[t].state = vps[t].state
        /\ \A t \in Servers \ {s} : vps'[t] = vps[t]
    BY <1>0, <1>9, <2>2, ZenonT(60) DEF TransferUp, RemoteTypes, ServerTypes
  <2>4. RemoteTypes' /\ at'[v] = "start" /\ \A w \in Venvs \ {v} : at'[w] = at[w]
    BY <1>0, <1>9, <2>1, <2>3 DEF TransferUp, Move, RemoteTypes
  <2>5. StepsAndModes'
    BY <1>0, <2>1, <2>4 DEF StepsAndModes
  <2>6. ServersApart'
    BY <1>0, <2>1, <2>3, <2>4 DEF ServersApart, Claims, Names, Takes
  <2>7. SessionsApart'
    BY <1>0, <1>a, <2>1, <2>3 DEF SessionsApart
  <2>8. \A w \in Venvs : mode[w].server = s => w \in spoiled
    BY <1>0, <1>a, <2>1, <2>2 DEF ServersApart, Claims, Names, Takes
  <2>9. WorkKept'
    BY <1>0, <2>1, <2>3, <2>8 DEF WorkKept, RemoteTypes, ModeTypes
  <2>10. \A w \in Venvs \ {v} : at[w] \in {"start", "down", "release", "end"}
                                  => target[w] \in Servers /\ (target[w] = s => w \in spoiled)
    BY <1>0, <2>1, <2>2, <2>8 DEF StepsAndModes, ServersApart, Claims, Names, Takes
  <2>11. v \notin spoiled => local[v] = latest[v]
    BY <1>0, <2>2 DEF WorkKept
  <2>12. CopiesReady'
    BY <1>0, <2>1, <2>3, <2>4, <2>10, <2>11 DEF CopiesReady
  <2> QED BY <2>4, <2>5, <2>6, <2>7, <2>9, <2>12 DEF RemoteInv
<1>10. ASSUME NEW v \in Venvs, StartSession(v) PROVE RemoteInv'
  <2> DEFINE s == target[v]
  <2>1. UNCHANGED <<target, local, latest, spoiled>> /\ at[v] = "start"
    BY <1>10 DEF StartSession
  <2>2. s \in Servers /\ mode[v].server = Nowhere /\ Claims(v, s)
    BY <1>0, <2>1 DEF StepsAndModes, Claims, Names, Takes
  <2>3. /\ vps' \in [Servers -> ServerTypes] /\ vps'[s].mounted = v
        /\ \A t \in Servers : vps'[t].state = vps[t].state /\ vps'[t].disk = vps[t].disk
        /\ \A t \in Servers \ {s} : vps'[t] = vps[t]
    BY <1>0, <1>10, <2>2 DEF StartSession, RemoteTypes, ServerTypes
  <2>4. /\ mode' \in [Venvs -> ModeTypes] /\ mode'[v].type = "Remote" /\ mode'[v].server = s
        /\ \A w \in Venvs \ {v} : mode'[w] = mode[w]
    BY <1>0, <1>10, <2>2 DEF StartSession, RemoteTypes, ModeTypes
  <2>5. RemoteTypes' /\ at'[v] = "idle" /\ \A w \in Venvs \ {v} : at'[w] = at[w]
    BY <1>0, <1>10, <2>1, <2>3, <2>4 DEF StartSession, Move, RemoteTypes
  <2>6. StepsAndModes'
    BY <1>0, <1>a, <2>1, <2>2, <2>4, <2>5 DEF StepsAndModes
  <2>7. \A w \in Venvs, t \in Servers :
            /\ Claims(w, t)' => Claims(w, t)
            /\ Takes(w, t)' => Takes(w, t)
            /\ w # v => (Names(w, t)' <=> Names(w, t))
    BY <2>1, <2>2, <2>4, <2>5 DEF Claims, Names, Takes
  <2>9. \A w \in Venvs \ {v} : Claims(w, s) => w \in spoiled
    BY <1>0, <2>1, <2>2 DEF ServersApart, Takes, Claims
  <2>8. ServersApart'
    <3> SUFFICES ASSUME NEW t \in Servers, NEW u \in Venvs \ spoiled, NEW w \in Venvs \ {u}, Claims(u, t)'
                 PROVE ~Takes(w, t)' /\ (Names(w, t)' => w \in spoiled)
      BY <2>1, Zenon DEF ServersApart
    <3>1. Claims(u, t) /\ ~Takes(w, t)' /\ (Names(w, t) => w \in spoiled)
      BY <1>0, <2>7 DEF ServersApart
    <3>2. w = v => t # s
      BY <2>2, <2>9, <3>1 DEF ServersApart
    <3>3. w = v => ~Names(v, t)'
      BY <2>4, <3>2 DEF Names
    <3> QED BY <2>7, <3>1, <3>3
  <2>10. SessionsApart'
    BY <1>0, <1>a, <2>1, <2>2, <2>3, <2>4, <2>9 DEF SessionsApart, Claims, Names
  <2>11. v \notin spoiled => vps[s].disk = latest[v]
    BY <1>0, <2>1 DEF CopiesReady
  <2>12. WorkKept'
    BY <1>0, <1>a, <2>1, <2>2, <2>3, <2>4, <2>11 DEF WorkKept, RemoteTypes, ModeTypes
  <2>13. \A w \in Venvs \ {v} : at[w] \in {"start", "down", "release", "end"}
                                  => target[w] \in Servers /\ (target[w] = s => w \in spoiled)
    BY <1>0, <2>9 DEF StepsAndModes, Claims, Names, Takes
  <2>14. CopiesReady'
    BY <1>0, <2>1, <2>3, <2>5, <2>13 DEF CopiesReady
  <2> QED BY <2>5, <2>6, <2>8, <2>10, <2>12, <2>14 DEF RemoteInv
<1>11. ASSUME NEW v \in Venvs, Reattach(v) PROVE RemoteInv'
  <2>1. UNCHANGED <<local, vps, latest, spoiled>> /\ at[v] = "idle" /\ mode[v].server \in Servers
    BY <1>0, <1>11 DEF Reattach, StepsAndModes, RemoteTypes, ModeTypes
  <2>2. /\ mode' \in [Venvs -> ModeTypes] /\ mode'[v].type = "Reattaching" /\ mode'[v].server = mode[v].server
        /\ \A w \in Venvs \ {v} : mode'[w] = mode[w]
    BY <1>0, <1>11 DEF Reattach, RemoteTypes, ModeTypes
  <2>3. /\ RemoteTypes' /\ at'[v] = "stop" /\ target'[v] = mode[v].server
        /\ \A w \in Venvs \ {v} : at'[w] = at[w] /\ target'[w] = target[w]
    BY <1>0, <1>11, <2>1, <2>2 DEF Reattach, Move, RemoteTypes
  <2>4. StepsAndModes'
    BY <1>0, <1>a, <2>1, <2>2, <2>3 DEF StepsAndModes
  <2>5. ServersApart'
    <3>1. \A w \in Venvs, t \in Servers :
              /\ Claims(w, t)' => Claims(w, t)
              /\ Takes(w, t)' => Takes(w, t)
              /\ Names(w, t)' => Names(w, t)
      BY <2>2, <2>3 DEF Claims, Names, Takes
    <3> QED BY <1>0, <2>1, <3>1 DEF ServersApart
  <2>6. SessionsApart' /\ WorkKept'
    BY <1>0, <2>1, <2>2 DEF SessionsApart, WorkKept
  <2>7. CopiesReady'
    BY <1>0, <2>1, <2>3 DEF CopiesReady
  <2> QED BY <2>3, <2>4, <2>5, <2>6, <2>7 DEF RemoteInv
<1>12. ASSUME NEW v \in Venvs, StopSession(v) PROVE RemoteInv'
  <2> DEFINE s == target[v]
  <2>1. UNCHANGED <<mode, target, local, latest>> /\ at[v] = "stop" /\ spoiled \subseteq spoiled'
    BY <1>12 DEF StopSession
  <2>2. s \in Servers /\ mode[v].server = s
    BY <1>0, <2>1 DEF StepsAndModes
  <2>3. /\ vps' \in [Servers -> ServerTypes] /\ (v \notin spoiled' => vps'[s].mounted = Nowhere)
        /\ \A t \in Servers : /\ vps'[t].state = vps[t].state /\ vps'[t].disk = vps[t].disk
                              /\ vps'[t].mounted \in {vps[t].mounted, Nowhere}
    <3>1. CASE vps' = Unmounted(v) /\ UNCHANGED spoiled
      BY <1>0, <2>2, <3>1 DEF Unmounted, RemoteTypes, ServerTypes
    <3>2. CASE UNCHANGED vps /\ spoiled' = spoiled \cup {v}
      BY <1>0, <3>2 DEF RemoteTypes
    <3> QED BY <1>12, <3>1, <3>2 DEF StopSession
  <2>4. RemoteTypes' /\ at'[v] = "down" /\ \A w \in Venvs \ {v} : at'[w] = at[w]
    BY <1>0, <1>12, <2>1, <2>3 DEF StopSession, Move, RemoteTypes
  <2>5. StepsAndModes'
    BY <1>0, <2>1, <2>4 DEF StepsAndModes
  <2>6. ServersApart'
    BY <1>0, <2>1, <2>3, <2>4 DEF ServersApart, Claims, Names, Takes
  <2>7. SessionsApart'
    BY <1>0, <1>a, <2>1, <2>3 DEF SessionsApart
  <2>8. WorkKept'
    BY <1>0, <2>1, <2>3 DEF WorkKept, RemoteTypes, ModeTypes
  <2>9. \A w \in Venvs : at[w] \in {"start", "down", "release", "end"} => target[w] \in Servers
    BY <1>0 DEF StepsAndModes
  <2>10. CopiesReady'
    BY <1>0, <2>1, <2>3, <2>4, <2>9 DEF CopiesReady
  <2> QED BY <2>4, <2>5, <2>6, <2>7, <2>8, <2>10 DEF RemoteInv
<1>13. ASSUME NEW v \in Venvs, TransferDown(v) PROVE RemoteInv'
  <2>1. UNCHANGED <<mode, target, vps, latest, spoiled>> /\ at[v] = "down"
    BY <1>13 DEF TransferDown
  <2>2. target[v] \in Servers /\ mode[v].server = target[v]
    BY <1>0, <2>1 DEF StepsAndModes
  <2>3. /\ local' \in [Venvs -> Nat] /\ local'[v] = vps[target[v]].disk
        /\ \A w \in Venvs \ {v} : local'[w] = local[w]
    BY <1>0, <1>13, <2>2 DEF TransferDown, RemoteTypes, ServerTypes
  <2>4. RemoteTypes' /\ at'[v] = "release" /\ \A w \in Venvs \ {v} : at'[w] = at[w]
    BY <1>0, <1>13, <2>1, <2>3 DEF TransferDown, Move, RemoteTypes
  <2>5. StepsAndModes' /\ ServersApart' /\ SessionsApart'
    BY <1>0, <2>1, <2>4 DEF StepsAndModes, ServersApart, Claims, Names, Takes, SessionsApart
  <2>6. WorkKept' /\ (v \notin spoiled => vps[target[v]].disk = latest[v])
    BY <1>0, <1>a, <2>1, <2>2, <2>3 DEF WorkKept
  <2>7. CopiesReady'
    BY <1>0, <2>1, <2>3, <2>4, <2>6 DEF CopiesReady
  <2> QED BY <2>4, <2>5, <2>6, <2>7 DEF RemoteInv
<1>14. ASSUME NEW v \in Venvs, TransferDownFails(v) PROVE RemoteInv'
  <2>1. UNCHANGED <<mode, target, vps, latest, spoiled>> /\ at[v] = "down"
    BY <1>14 DEF TransferDownFails, Kept
  <2>2. target[v] \in Servers /\ mode[v].server = target[v]
    BY <1>0, <2>1 DEF StepsAndModes
  <2>3. local' \in [Venvs -> Nat] /\ \A w \in Venvs \ {v} : local'[w] = local[w]
    BY <1>0, <1>14 DEF TransferDownFails, RemoteTypes, Broken
  <2>4. RemoteTypes' /\ at'[v] = "idle" /\ \A w \in Venvs \ {v} : at'[w] = at[w]
    BY <1>0, <1>14, <2>1, <2>3 DEF TransferDownFails, Move, RemoteTypes
  <2>5. StepsAndModes' /\ ServersApart' /\ SessionsApart'
    BY <1>0, <2>1, <2>4 DEF StepsAndModes, ServersApart, Claims, Names, Takes, SessionsApart
  <2>6. WorkKept' /\ CopiesReady'
    BY <1>0, <1>a, <2>1, <2>2, <2>3, <2>4 DEF WorkKept, CopiesReady
  <2> QED BY <2>4, <2>5, <2>6 DEF RemoteInv
<1>15. ASSUME NEW v \in Venvs, Release(v) PROVE RemoteInv'
  <2> DEFINE s == target[v]
  <2>1. UNCHANGED <<mode, target, local, latest, spoiled>> /\ at[v] = "release"
    BY <1>15 DEF Release
  <2>2. s \in Servers
    BY <1>0, <2>1 DEF StepsAndModes
  <2>3. /\ vps' \in [Servers -> ServerTypes]
        /\ \A t \in Servers : vps'[t].mounted = vps[t].mounted /\ vps'[t].disk = vps[t].disk
    <3>1. CASE vps' = vps
      BY <1>0, <3>1 DEF RemoteTypes
    <3>2. CASE vps' = [vps EXCEPT ![s].state = IF @ = "ready" THEN "idle" ELSE @]
      BY <1>0, <2>2, <3>2 DEF RemoteTypes, ServerTypes
    <3> QED BY <1>15, <3>1, <3>2 DEF Release
  <2>4. RemoteTypes' /\ at'[v] = "end" /\ \A w \in Venvs \ {v} : at'[w] = at[w]
    BY <1>0, <1>15, <2>1, <2>3 DEF Release, Move, RemoteTypes
  <2>5. StepsAndModes' /\ ServersApart' /\ SessionsApart'
    BY <1>0, <2>1, <2>3, <2>4 DEF StepsAndModes, ServersApart, Claims, Names, Takes, SessionsApart
  <2>6. WorkKept'
    BY <1>0, <2>1, <2>3 DEF WorkKept, RemoteTypes, ModeTypes
  <2>7. \A w \in Venvs : at[w] \in {"start", "down", "release", "end"} => target[w] \in Servers
    BY <1>0 DEF StepsAndModes
  <2>8. CopiesReady'
    BY <1>0, <2>1, <2>3, <2>4, <2>7 DEF CopiesReady
  <2> QED BY <2>4, <2>5, <2>6, <2>8 DEF RemoteInv
<1>16. ASSUME NEW v \in Venvs, FinishReattach(v) PROVE RemoteInv'
  <2> DEFINE s == target[v]
  <2>1. UNCHANGED <<target, local, vps, latest, spoiled>> /\ at[v] = "end"
    BY <1>16 DEF FinishReattach
  <2>2. s \in Servers /\ mode[v].server = s
    BY <1>0, <2>1 DEF StepsAndModes
  <2>3. /\ mode' \in [Venvs -> ModeTypes] /\ mode'[v].type = "Local" /\ mode'[v].server = Nowhere
        /\ \A w \in Venvs \ {v} : mode'[w] = mode[w]
    BY <1>0, <1>16 DEF FinishReattach, RemoteTypes, ModeTypes, LocalMode
  <2>4. RemoteTypes' /\ at'[v] = "idle" /\ \A w \in Venvs \ {v} : at'[w] = at[w]
    BY <1>0, <1>16, <2>1, <2>3 DEF FinishReattach, Move, RemoteTypes
  <2>5. StepsAndModes'
    BY <1>0, <2>1, <2>3, <2>4 DEF StepsAndModes
  <2>6. \A w \in Venvs, t \in Servers :
            /\ Claims(w, t)' => Claims(w, t)
            /\ Takes(w, t)' => Takes(w, t)
            /\ Names(w, t)' => Names(w, t)
    BY <1>a, <2>1, <2>3, <2>4 DEF Claims, Names, Takes
  <2>7. ServersApart'
    BY <1>0, <2>1, <2>6 DEF ServersApart
  <2>8. v \notin spoiled => vps[s].mounted = Nowhere /\ local[v] = latest[v]
    BY <1>0, <2>1 DEF CopiesReady
  <2>9. v \notin spoiled => \A t \in Servers : vps[t].mounted # v
    BY <1>0, <1>a, <2>2, <2>8 DEF SessionsApart
  <2>10. SessionsApart'
    BY <1>0, <1>a, <2>1, <2>3, <2>9 DEF SessionsApart
  <2>11. WorkKept'
    BY <1>0, <2>1, <2>3, <2>8 DEF WorkKept, RemoteTypes, ModeTypes
  <2>12. CopiesReady'
    BY <1>0, <2>1, <2>4 DEF CopiesReady
  <2> QED BY <2>4, <2>5, <2>7, <2>10, <2>11, <2>12 DEF RemoteInv
<1>17. ASSUME RemoteCrash PROVE RemoteInv'
  <2>1. PICK cut \in SUBSET {v \in Venvs : at[v] \in {"stop", "create"}} :
          /\ mode' = [v \in Venvs |-> IF v \in cut THEN LocalMode ELSE mode[v]]
          /\ spoiled' = spoiled \cup {v \in cut : at[v] = "stop"}
    BY <1>17 DEF RemoteCrash
  <2>2. /\ UNCHANGED <<target, vps, latest>> /\ \A v \in Venvs : at'[v] = "idle"
        /\ \A v \in Venvs : at[v] # "down" => local'[v] = local[v]
    BY <1>17 DEF RemoteCrash
  <2>3. RemoteTypes'
    <3>1. local' \in [Venvs -> Nat]
      BY <1>0, <1>17 DEF RemoteCrash, RemoteTypes, Broken
    <3>2. mode' \in [Venvs -> ModeTypes]
      BY <1>0, <2>1 DEF RemoteTypes, ModeTypes, LocalMode
    <3> QED BY <1>0, <1>17, <2>2, <3>1, <3>2 DEF RemoteCrash, RemoteTypes
  <2>4. \A v \in Venvs : mode'[v] = mode[v] \/ (mode'[v] = LocalMode /\ (mode[v].server = Nowhere \/ v \in spoiled'))
    BY <1>0, <2>1 DEF StepsAndModes
  <2>5. LocalMode.server = Nowhere /\ LocalMode.type = "Local"
    BY DEF LocalMode
  <2>6. StepsAndModes' /\ CopiesReady'
    BY <1>0, <2>2, <2>4, <2>5 DEF StepsAndModes, CopiesReady
  <2>7. ServersApart'
    <3>1. \A v \in Venvs, s \in Servers :
              /\ Claims(v, s)' => Claims(v, s)
              /\ Names(v, s)' => Names(v, s)
              /\ ~Takes(v, s)'
      BY <1>a, <2>2, <2>4, <2>5 DEF Claims, Names, Takes
    <3> QED BY <1>0, <2>1, <3>1 DEF ServersApart
  <2>8. spoiled \subseteq spoiled'
    BY <2>1
  <2>9. SessionsApart'
    BY <1>0, <1>a, <2>2, <2>4, <2>5, <2>8 DEF SessionsApart
  <2>10. \A v \in Venvs : at[v] = "down" => mode[v].server # Nowhere /\ mode'[v] = mode[v]
    BY <1>0, <1>a, <2>1 DEF StepsAndModes
  <2>11. WorkKept'
    BY <1>0, <2>2, <2>4, <2>5, <2>8, <2>10 DEF WorkKept
  <2> QED BY <2>3, <2>6, <2>7, <2>9, <2>11 DEF RemoteInv
<1> QED BY <1>1, <1>2, <1>3, <1>4, <1>5, <1>6, <1>7, <1>8, <1>9, <1>10, <1>11, <1>12, <1>13, <1>14, <1>15, <1>16,
         <1>17 DEF RemoteNext

\* The newest version of a disk is where the mode of its environment says, for any
\* number of environments, servers, changes and trips, whichever step fails.  Not so
\* for the disks that met what the code does not guard against: worked on here while
\* they are away, on a session that another detach destroyed or that could not be
\* stopped, behind a remote.json that was cut off, and on a server given to another
\* detach while remote.json names it, as when the program dies between the release
\* of the server and the end of remote.json.
THEOREM CarriedWorkKept == RemoteSpec => []WorkKept
<1>1. RemoteInit => RemoteInv
  BY RemoteAssumption DEF RemoteInit, RemoteInv, RemoteTypes, ModeTypes, ServerTypes, LocalMode, StepsAndModes,
     ServersApart, Claims, Names, Takes, SessionsApart, CopiesReady, WorkKept
<1>2. RemoteInv => WorkKept
  BY DEF RemoteInv
<1> QED BY <1>1, <1>2, RemoteStep, PTL DEF RemoteSpec

------------------------------------------------------------------------------
(* The registry.                                                           *)

OpFields == {"kind", "id", "from", "pc", "seen", "status", "mixed"}
Writes(o) == op[o].pc \in {"save", "saving"}
Adds(o) == op[o].kind \in {"create", "clone", "import"}

OpShape == DOMAIN op = Ops /\ \A o \in Ops : DOMAIN op[o] = OpFields

\* While no command reads the list as another is about to write it: one command
\* writes at a time, from a list that is still complete; the file is cut off as
\* long as it writes; and no command writes over a file that is damaged.
OneWriter ==
    /\ \A o, p \in Ops : Writes(o) /\ Writes(p) => o = p
    /\ \A o \in Ops : Writes(o) => ~damaged /\ DOMAIN op[o].seen = alive /\ (Adds(o) \/ op[o].id \in alive)
    /\ \A o \in Ops : op[o].pc = "saving" => registry = Torn
    /\ RegistryExact

RegistryInv == OpShape /\ (~raced => OneWriter)

\* The step does not touch the list, and a command it moves does not come to write.
QuietStep ==
    /\ UNCHANGED <<registry, damaged, alive, raced>> /\ OpShape'
    /\ \A p \in Ops : op'[p] = op[p] \/ op'[p].pc \notin {"save", "saving"}

LEMMA QuietKeeps == RegistryInv /\ QuietStep => RegistryInv'
  BY DEF RegistryInv, QuietStep, OneWriter, Writes, Adds, RegistryExact, Listed

\* What the commands do to their own record.
LEMMA FinishEffect ==
    ASSUME OpShape, NEW o \in Ops, Finish(o)
    PROVE  OpShape' /\ op'[o].pc = "idle" /\ \A p \in Ops \ {o} : op'[p] = op[p]
  BY DEF Finish, OpShape, OpFields, NoOp

LEMMA GotoEffect ==
    ASSUME OpShape, NEW o \in Ops, NEW pc, Goto(o, pc)
    PROVE  /\ OpShape' /\ op'[o].pc = pc /\ op'[o].seen = op[o].seen /\ op'[o].kind = op[o].kind
           /\ op'[o].id = op[o].id /\ \A p \in Ops \ {o} : op'[p] = op[p]
  BY DEF Goto, OpShape, OpFields

LEMMA IssueEffect ==
    ASSUME OpShape, NEW o \in Ops, NEW kind, NEW id, NEW from, NEW pc, Issue(o, kind, id, from, pc)
    PROVE  OpShape' /\ op'[o].pc = pc /\ \A p \in Ops \ {o} : op'[p] = op[p]
  BY DEF Issue, OpShape, OpFields, NoOp

\* A command that begins does not write yet.
LEMMA IssueQuiet ==
    ASSUME OpShape, NEW o \in Ops, NEW kind, NEW id, NEW from, NEW pc \in {"load", "main", "look", "copy"},
           Issue(o, kind, id, from, pc)
    PROVE  QuietStep
<1>1. OpShape' /\ op'[o].pc = pc /\ \A p \in Ops \ {o} : op'[p] = op[p]
  BY IssueEffect
<1>2. UNCHANGED <<registry, damaged, alive, raced>>
  BY DEF Issue
<1> QED BY <1>1, <1>2 DEF QuietStep

\* The list a command writes: what it read, with its environment or without it.
LEMMA EditedDomain ==
    ASSUME NEW o \in Ops
    PROVE  DOMAIN Edited(o) = CASE op[o].kind = "delete" -> DOMAIN op[o].seen \ {op[o].id}
                                [] op[o].kind = "rename" -> DOMAIN op[o].seen
                                [] OTHER -> DOMAIN op[o].seen \cup {op[o].id}
  BY DEF Edited

\* Every step keeps the invariant.
LEMMA RegistryStep == RegistryInv /\ [RegistryNext]_registryVars => RegistryInv'
<1> SUFFICES ASSUME RegistryInv, [RegistryNext]_registryVars PROVE RegistryInv'
  OBVIOUS
<1>0. OpShape
  BY DEF RegistryInv
<1>1. CASE UNCHANGED registryVars
  BY <1>0, <1>1, QuietKeeps DEF registryVars, QuietStep, OpShape
<1>2. ASSUME NEW o \in Ops, CreateVenv(o) \/ ImportVenv(o) PROVE RegistryInv'
  <2>1. PICK id : Issue(o, "create", id, "none", "load") \/ Issue(o, "import", id, "none", "copy")
    BY <1>2 DEF CreateVenv, ImportVenv
  <2> QED BY <1>0, <2>1, IssueQuiet, QuietKeeps
<1>3. ASSUME NEW o \in Ops, NEW id \in alive,
             \/ RenameVenv(o, id) \/ DeleteVenv(o, id) \/ StartVenv(o, id)
             \/ StopVenv(o, id) \/ CloneVenv(o, id) \/ ExportVenv(o, id)
      PROVE  RegistryInv'
  <2>1. CASE CloneVenv(o, id)
    <3>1. PICK new : Issue(o, "clone", new, id, "look")
      BY <2>1 DEF CloneVenv
    <3> QED BY <1>0, <3>1, IssueQuiet, QuietKeeps
  <2>2. CASE ~CloneVenv(o, id)
    <3>1. \/ Issue(o, "rename", id, "none", "load") \/ Issue(o, "delete", id, "none", "load")
          \/ Issue(o, "start", id, "none", "load") \/ Issue(o, "stop", id, "none", "main")
          \/ Issue(o, "export", "none", id, "look")
      BY <1>3, <2>2 DEF RenameVenv, DeleteVenv, StartVenv, StopVenv, ExportVenv
    <3> QED BY <1>0, <3>1, IssueQuiet, QuietKeeps
  <2> QED BY <2>1, <2>2
<1>4. ASSUME NEW o \in Ops, Load(o) PROVE RegistryInv'
  <2>1. UNCHANGED <<registry, damaged, alive>> /\ (~raced' => ~raced /\ \A p \in Ops : ~Writes(p))
    BY <1>4 DEF Load, Writes
  <2>2. CASE ~(Parsed(o) /\ Found(o, List))
    <3>1. Finish(o)
      BY <1>4, <2>2 DEF Load
    <3>2. OpShape' /\ op'[o].pc = "idle" /\ \A p \in Ops \ {o} : op'[p] = op[p]
      BY <1>0, <3>1, FinishEffect
    <3>3. ~raced' => OneWriter'
      BY <2>1, <3>2 DEF RegistryInv, OneWriter, Writes, RegistryExact, Listed
    <3> QED BY <3>2, <3>3 DEF RegistryInv
  <2>3. CASE Parsed(o) /\ Found(o, List)
    <3>1. op' = [op EXCEPT ![o].pc = "save", ![o].seen = List]
      BY <1>4, <2>3 DEF Load
    <3>2. /\ OpShape' /\ op'[o].pc = "save" /\ op'[o].seen = List /\ op'[o].kind = op[o].kind
          /\ op'[o].id = op[o].id /\ \A p \in Ops \ {o} : op'[p] = op[p]
      BY <1>0, <3>1 DEF OpShape, OpFields
    <3>3. ASSUME ~raced' PROVE OneWriter'
      <4>1. OneWriter /\ \A p \in Ops : ~Writes(p)
        BY <2>1, <3>3 DEF RegistryInv
      <4>2. registry # Torn /\ List = registry /\ ~damaged /\ DOMAIN registry = alive
        BY <2>1, <2>3, <3>3, <4>1 DEF Parsed, List, OneWriter, RegistryExact, Listed
      <4>3. Adds(o) \/ op[o].id \in alive
        BY <2>3, <4>2 DEF Found, Adds
      <4>4. \A p \in Ops \ {o} : ~Writes(p)'
        BY <3>2, <4>1 DEF Writes
      <4>5. RegistryExact'
        BY <2>1, <3>3, <4>1 DEF OneWriter, RegistryExact, Listed
      <4> QED BY <2>1, <3>2, <4>2, <4>3, <4>4, <4>5 DEF OneWriter, Adds, Writes
    <3> QED BY <3>2, <3>3 DEF RegistryInv
  <2> QED BY <2>2, <2>3
<1>5. ASSUME NEW o \in Ops, SaveBegin(o) PROVE RegistryInv'
  <2>1. /\ UNCHANGED <<damaged, alive, raced>> /\ registry' = Torn /\ op[o].pc = "save" /\ Goto(o, "saving")
    BY <1>5 DEF SaveBegin
  <2>2. /\ OpShape' /\ op'[o].pc = "saving" /\ op'[o].seen = op[o].seen /\ op'[o].kind = op[o].kind
        /\ op'[o].id = op[o].id /\ \A p \in Ops \ {o} : op'[p] = op[p]
    BY <1>0, <2>1, GotoEffect
  <2>3. ASSUME ~raced' PROVE OneWriter'
    <3>1. OneWriter /\ Writes(o)
      BY <2>1, <2>3 DEF RegistryInv, Writes
    <3>2. \A p \in Ops \ {o} : ~Writes(p)'
      BY <2>2, <3>1 DEF OneWriter, Writes
    <3> QED BY <2>1, <2>2, <3>1, <3>2 DEF OneWriter, Adds, Writes, RegistryExact
  <2> QED BY <2>2, <2>3 DEF RegistryInv
<1>6. ASSUME NEW o \in Ops, SaveEnd(o) PROVE RegistryInv'
  <2> DEFINE boots == op[o].kind = "start" /\ op[o].status = "booting"
             ops == CASE boots -> [op EXCEPT ![o].pc = "main", ![o].mixed = FALSE]
                      [] op[o].kind = "delete" -> [op EXCEPT ![o].pc = "remove", ![o].mixed = FALSE]
                      [] OTHER -> [op EXCEPT ![o] = NoOp]
  <2>1. /\ op[o].pc = "saving" /\ registry' \in {Edited(o), Torn} /\ damaged' = (damaged \/ registry' = Torn)
        /\ op' = Mix(ops) /\ raced' = raced
    BY <1>6 DEF SaveEnd
  <2>2. alive' = CASE op[o].kind = "delete" -> alive \ {op[o].id}
                   [] op[o].kind \in {"create", "clone", "import"} -> alive \cup {op[o].id}
                   [] OTHER -> alive
    BY <1>6 DEF SaveEnd
  <2>3. /\ DOMAIN ops = Ops /\ \A p \in Ops : DOMAIN ops[p] = OpFields
        /\ ops[o].pc \in {"main", "remove", "idle"} /\ \A p \in Ops \ {o} : ops[p] = op[p]
    <3>1. CASE boots
      BY <1>0, <3>1 DEF OpShape, OpFields
    <3>2. CASE ~boots /\ op[o].kind = "delete"
      BY <1>0, <3>2 DEF OpShape, OpFields
    <3>3. CASE ~boots /\ op[o].kind # "delete"
      BY <1>0, <3>3 DEF OpShape, OpFields, NoOp
    <3> QED BY <3>1, <3>2, <3>3
  <2> HIDE DEF ops
  <2>4. /\ OpShape' /\ \A p \in Ops : op'[p].pc = ops[p].pc
        /\ \A p \in Ops : op'[p].seen = ops[p].seen /\ op'[p].kind = ops[p].kind /\ op'[p].id = ops[p].id
    BY <2>1, <2>3 DEF Mix, OpShape, OpFields
  <2>5. ASSUME ~raced' PROVE OneWriter'
    <3>1. OneWriter /\ Writes(o) /\ ~damaged
      BY <2>1, <2>5 DEF RegistryInv, Writes, OneWriter
    <3>2. \A p \in Ops : ~Writes(p)'
      <4>1. ~Writes(o)'
        BY <2>3, <2>4 DEF Writes
      <4>2. \A p \in Ops \ {o} : ~Writes(p)'
        BY <2>3, <2>4, <3>1 DEF Writes, OneWriter
      <4> QED BY <4>1, <4>2
    <3>3. DOMAIN op[o].seen = alive /\ (Adds(o) \/ op[o].id \in alive)
      BY <3>1 DEF OneWriter
    <3>4. DOMAIN Edited(o) = alive'
      <4>1. CASE op[o].kind = "delete"
        BY <2>2, <3>3, <4>1, EditedDomain
      <4>2. CASE op[o].kind # "delete" /\ Adds(o)
        BY <2>2, <3>3, <4>2, EditedDomain DEF Adds
      <4>3. CASE op[o].kind # "delete" /\ ~Adds(o)
        BY <2>2, <3>3, <4>3, EditedDomain DEF Adds
      <4> QED BY <4>1, <4>2, <4>3
    <3>5. RegistryExact'
      BY <2>1, <3>1, <3>4 DEF RegistryExact, Listed
    <3> QED BY <3>2, <3>5 DEF OneWriter, Writes
  <2> QED BY <2>4, <2>5 DEF RegistryInv
<1>7. ASSUME NEW o \in Ops, SaveFails(o) PROVE RegistryInv'
  <2>1. UNCHANGED <<registry, alive, raced>> /\ op[o].pc = "saving" /\ Finish(o) /\ damaged' = TRUE
    BY <1>7 DEF SaveFails
  <2>2. OpShape' /\ op'[o].pc = "idle" /\ \A p \in Ops \ {o} : op'[p] = op[p]
    BY <1>0, <2>1, FinishEffect
  <2>3. ASSUME ~raced' PROVE OneWriter'
    <3>1. OneWriter /\ Writes(o) /\ registry = Torn
      BY <2>1, <2>3 DEF RegistryInv, Writes, OneWriter
    <3>2. \A p \in Ops : ~Writes(p)'
      BY <2>2, <3>1 DEF OneWriter, Writes
    <3> QED BY <2>1, <3>1, <3>2 DEF OneWriter, Writes, RegistryExact
  <2> QED BY <2>2, <2>3 DEF RegistryInv
<1>8. ASSUME NEW o \in Ops, RemoveDir(o) \/ Look(o) \/ CopyBegin(o) \/ CopyEnd(o) \/ CopyFails(o) PROVE RegistryInv'
  <2>1. UNCHANGED <<registry, damaged, alive, raced>>
    BY <1>8 DEF RemoveDir, Look, CopyBegin, CopyEnd, CopyFails
  <2>2. Finish(o) \/ \E pc \in {"copy", "copying", "load"} : Goto(o, pc)
    BY <1>8 DEF RemoveDir, Look, CopyBegin, CopyEnd, CopyFails, CopyError
  <2>3. OpShape' /\ op'[o].pc \in {"idle", "copy", "copying", "load"} /\ \A p \in Ops \ {o} : op'[p] = op[p]
    BY <1>0, <2>2, FinishEffect, GotoEffect
  <2> QED BY <2>1, <2>3, QuietKeeps DEF QuietStep
<1>9. ASSUME BootJob \/ StopJob \/ StopDone \/ \E id \in menu : TrayStart(id) \/ TrayStop(id) PROVE RegistryInv'
  <2>1. UNCHANGED <<registry, damaged, alive, raced>> /\ (op' = op \/ \E job, status : Answer(job, status))
    BY <1>9 DEF BootJob, StopJob, StopDone, TrayStart, TrayStop
  <2>2. PICK job, status : op' = op \/ Answer(job, status)
    BY <2>1
  <2>3. op' = op \/ op' = [op EXCEPT ![job.for].pc = "load", ![job.for].status = status]
    BY <2>2 DEF Answer
  <2>4. OpShape' /\ \A p \in Ops : op'[p] = op[p] \/ op'[p].pc = "load"
    BY <1>0, <2>3 DEF OpShape, OpFields
  <2> QED BY <2>1, <2>4, QuietKeeps DEF QuietStep
<1>10. ASSUME RegistryCrash PROVE RegistryInv'
  <2>1. /\ UNCHANGED <<registry, alive, raced>> /\ damaged' = (damaged \/ registry = Torn)
        /\ op' = [o \in Ops |-> NoOp]
    BY <1>10 DEF RegistryCrash
  <2>2. OpShape' /\ \A o \in Ops : ~Writes(o)'
    BY <2>1 DEF OpShape, OpFields, NoOp, Writes
  <2>3. RegistryExact => RegistryExact'
    BY <2>1 DEF RegistryExact, Listed
  <2> QED BY <2>1, <2>2, <2>3 DEF RegistryInv, OneWriter, Writes
<1> QED BY <1>1, <1>2, <1>3, <1>4, <1>5, <1>6, <1>7, <1>8, <1>9, <1>10 DEF RegistryNext

\* As long as no command reads the list while another is about to write it, the
\* registry lists exactly the environments that were made and not deleted, and a
\* file that was cut off is never written over: for any number of environments and
\* of commands at a time, whatever fails or crashes.
THEOREM RegistryKept == RegistrySpec => []RegistryExact
<1>1. RegistryInit => RegistryInv
  <2> SUFFICES ASSUME RegistryInit PROVE RegistryInv
    OBVIOUS
  <2>1. OpShape /\ \A o \in Ops : ~Writes(o)
    BY DEF RegistryInit, OpShape, OpFields, NoOp, Writes
  <2>2. RegistryExact
    BY DEF RegistryInit, RegistryExact, Listed
  <2> QED BY <2>1, <2>2 DEF RegistryInv, OneWriter, Writes
<1>2. RegistryInv => RegistryExact
  BY DEF RegistryInv, OneWriter, RegistryExact
<1> QED BY <1>1, <1>2, RegistryStep, PTL DEF RegistrySpec

------------------------------------------------------------------------------
(* The disks.                                                              *)

Job == [do : {"boot", "stop"}, id : Ids, for : Ops \cup {"none"}]
OpKinds == {"none", "create", "rename", "delete", "start", "stop", "clone", "export", "import"}
CopyPoints == {"look", "copy", "copying"}

\* What a command holds, by its kind, and where it may be.
OpRow(o) ==
    /\ op[o].kind \in OpKinds
    /\ op[o].kind = "none" => op[o].pc = "idle"
    /\ op[o].kind \in {"none", "export"} => op[o].id = "none"
    /\ op[o].kind \notin {"none", "export"} => op[o].id \in minted
    /\ op[o].kind \in {"clone", "export"} => op[o].from \in minted
    /\ op[o].kind \notin {"clone", "export"} => op[o].from = "none"
    /\ op[o].kind = "export" => op[o].pc \in CopyPoints
    /\ op[o].pc \in CopyPoints => op[o].kind \in {"clone", "export", "import"}
    /\ op[o].pc = "remove" => op[o].kind = "delete"
    /\ op[o].pc = "main" => op[o].kind \in {"start", "stop"}
    /\ DOMAIN op[o].seen \subseteq minted

OpTable == \A o \in Ops : OpRow(o)

\* A job somebody waits for is that command's only one.
JobsAwaited ==
    /\ jobs \in Seq(Job)
    /\ \A j \in 1..Len(jobs) :
          /\ jobs[j].do = "boot" /\ jobs[j].for # "none" => op[jobs[j].for].kind = "start"
          /\ jobs[j].for # "none" => op[jobs[j].for].pc = "main" /\ op[jobs[j].for].id = jobs[j].id
    /\ \A i, j \in 1..Len(jobs) : jobs[i].for = jobs[j].for /\ jobs[i].for # "none" => i = j

\* So is the one whose machine is ending; the jobs and the menu of the tray name
\* what was minted.
MachinesKnown ==
    /\ menu \subseteq minted /\ \A j \in 1..Len(jobs) : jobs[j].id \in minted
    /\ \A e \in ending : /\ e \in Job
                         /\ e.for # "none" => /\ op[e.for].pc = "main"
                                              /\ \A j \in 1..Len(jobs) : jobs[j].for # e.for

\* An identifier is new until it is minted, and has no directory.
MintedOnce ==
    /\ DOMAIN disk = Ids /\ minted \subseteq Ids /\ alive \subseteq minted /\ Listed \subseteq minted
    /\ \A id \in Ids \ minted : disk[id] = "none"

Copying(o) == op[o].kind \in {"clone", "import"} /\ op[o].pc \in CopyPoints
Usable(id) == disk[id] \in Complete /\ \A o \in Ops : Copying(o) => op[o].id # id
StopQueued(id) == \E j \in 1..Len(jobs) : jobs[j].do = "stop" /\ jobs[j].id = id

\* While no two commands work on one environment.
NamesApart ==
    \A o, p \in Ops : o # p => {op[o].id, op[o].from} \cap {op[p].id, op[p].from} \subseteq {"none"}
OpsHold ==
    \A o \in Ops :
        /\ op[o].kind = "start" => op[o].id \in alive
        /\ op[o].kind \in {"clone", "export"} => op[o].from \in alive /\ op[o].from \notin running
        /\ op[o].kind = "delete" /\ op[o].id \in running => StopQueued(op[o].id)
AllUsable ==
    /\ \A id \in alive \cup Listed : Usable(id)
    /\ \A o \in Ops : \A id \in DOMAIN op[o].seen : Usable(id)
    /\ \A o \in Ops : op[o].kind \notin {"none", "export"} /\ ~Copying(o) => Usable(op[o].id)
RunsSound == \A id \in running : id \in Ids /\ ((id \in alive /\ disk[id] \in Complete) \/ StopQueued(id))

\* A boot the tray asked for is of an environment no command works on, and no
\* command copies a disk whose machine is ending.
TrayBoots ==
    \A j \in 1..Len(jobs) :
        jobs[j].do = "boot" /\ jobs[j].for = "none"
        => jobs[j].id \in alive /\ \A p \in Ops : jobs[j].id \notin {op[p].id, op[p].from}
EndingApart == \A e \in ending : \A p \in Ops : op[p].kind \in {"clone", "export"} => op[p].from # e.id
MachinesApart == TrayBoots /\ EndingApart /\ touched = {}

DisksApart == NamesApart /\ OpsHold /\ AllUsable /\ RunsSound /\ MachinesApart /\ "mixed" \notin archives

DiskInv == OpShape /\ OpTable /\ JobsAwaited /\ MachinesKnown /\ MintedOnce /\ (~clash => DisksApart)

\* What the steps below leave alone of a command.
SameOp(p) ==
    /\ op'[p].kind = op[p].kind /\ op'[p].id = op[p].id /\ op'[p].from = op[p].from
    /\ op'[p].pc = op[p].pc /\ op'[p].seen = op[p].seen

\* The command is over.
Over(o) ==
    /\ op'[o].kind = "none" /\ op'[o].pc = "idle" /\ op'[o].id = "none" /\ op'[o].from = "none"
    /\ DOMAIN op'[o].seen = {}

LEMMA OverIs == ASSUME OpShape, NEW o \in Ops, Finish(o) PROVE Over(o) /\ OpShape' /\ \A p \in Ops \ {o} : SameOp(p)
<1>1. op'[o] = NoOp /\ \A p \in Ops \ {o} : op'[p] = op[p]
  BY DEF Finish, OpShape
<1>2. DOMAIN NoOp.seen = {}
  BY DEF NoOp
<1>3. OpShape'
  BY FinishEffect
<1> QED BY <1>1, <1>2, <1>3 DEF Over, SameOp, NoOp

LEMMA MovedIs ==
    ASSUME OpShape, NEW o \in Ops, NEW pc, Goto(o, pc)
    PROVE  /\ OpShape' /\ op'[o].pc = pc /\ op'[o].seen = op[o].seen /\ op'[o].kind = op[o].kind
           /\ op'[o].id = op[o].id /\ op'[o].from = op[o].from /\ \A p \in Ops \ {o} : SameOp(p)
  BY DEF Goto, OpShape, OpFields, SameOp

LEMMA RowsStep ==
    ASSUME OpTable, NEW o \in Ops, \A p \in Ops \ {o} : SameOp(p), minted \subseteq minted', OpRow(o)'
    PROVE  OpTable'
<1> SUFFICES ASSUME NEW p \in Ops, p # o PROVE OpRow(p)'
  BY DEF OpTable
<1>1. OpRow(p) /\ SameOp(p)
  BY DEF OpTable
<1> QED BY <1>1 DEF OpRow, SameOp

LEMMA JobsStep ==
    ASSUME JobsAwaited, NEW o \in Ops, \A p \in Ops \ {o} : SameOp(p), jobs' = jobs, op[o].pc # "main"
    PROVE  JobsAwaited'
<1>0. o # "none"
  BY VenvAssumption
<1>1. ASSUME NEW j \in 1..Len(jobs) PROVE jobs[j].for \in Ops \cup {"none"} /\ jobs[j].for # o
  <2>1. jobs[j] \in Job
    BY DEF JobsAwaited
  <2>2. jobs[j].for \in Ops \cup {"none"}
    BY <2>1 DEF Job
  <2>3. jobs[j].for # "none" => op[jobs[j].for].pc = "main"
    BY DEF JobsAwaited
  <2> QED BY <1>0, <2>2, <2>3
<1> QED BY <1>1, VenvAssumption DEF JobsAwaited, SameOp

\* A job joins the end of the queue.
JobAdded(do, id, for) ==
    /\ jobs' \in Seq(Job) /\ Len(jobs') = Len(jobs) + 1
    /\ \A j \in 1..Len(jobs) : jobs'[j] = jobs[j]
    /\ jobs'[Len(jobs) + 1] = [do |-> do, id |-> id, for |-> for]

LEMMA KnownStep ==
    ASSUME JobsAwaited, MachinesKnown, NEW o \in Ops, \A p \in Ops \ {o} : SameOp(p), ending' = ending, menu' = menu,
           minted \subseteq minted', op[o].pc # "main", NEW do, NEW id, NEW for \in {"none", o},
           jobs' = jobs \/ (JobAdded(do, id, for) /\ id \in minted)
    PROVE  MachinesKnown'
<1>1. \A j \in 1..Len(jobs') : jobs'[j].id \in minted /\ (jobs'[j].for = for \/ \E k \in 1..Len(jobs) : jobs'[j] = jobs[k])
  <2>1. CASE jobs' = jobs
    BY <2>1 DEF MachinesKnown
  <2>2. CASE JobAdded(do, id, for) /\ id \in minted
    <3>1. Len(jobs) \in Nat
      BY DEF JobsAwaited
    <3>2. \A j \in 1..Len(jobs') : j \in 1..Len(jobs) \/ j = Len(jobs) + 1
      BY <2>2, <3>1 DEF JobAdded
    <3> QED BY <2>2, <3>2 DEF JobAdded, MachinesKnown
  <2> QED BY <2>1, <2>2
<1>2. ASSUME NEW e \in ending, e.for # "none"
      PROVE  op'[e.for].pc = "main" /\ \A j \in 1..Len(jobs') : jobs'[j].for # e.for
  <2>1. e \in Job /\ op[e.for].pc = "main" /\ \A j \in 1..Len(jobs) : jobs[j].for # e.for
    BY <1>2 DEF MachinesKnown
  <2>2. e.for \in Ops \ {o}
    BY <1>2, <2>1 DEF Job
  <2> QED BY <1>1, <1>2, <2>1, <2>2 DEF SameOp
<1> QED BY <1>1, <1>2 DEF MachinesKnown

\* Commands go on or end, and a job is added that is no boot the tray asked for.
LEMMA MachinesStep ==
    ASSUME JobsAwaited, MachinesKnown, MachinesApart, ending' = ending, touched' = touched,
           \A p \in Ops : /\ op'[p].kind \in {op[p].kind, "none"} /\ op'[p].id \in {op[p].id, "none"}
                          /\ op'[p].from \in {op[p].from, "none"},
           \A y \in alive : y \in alive' \/ \E p \in Ops : op[p].id = y,
           NEW do, NEW id, NEW for, do = "stop" \/ for # "none", jobs' = jobs \/ JobAdded(do, id, for)
    PROVE  MachinesApart'
<1>1. EndingApart'
  BY VenvAssumption DEF MachinesApart, EndingApart, MachinesKnown, Job
<1>2. TrayBoots'
  <2> SUFFICES ASSUME NEW j \in 1..Len(jobs'), jobs'[j].do = "boot", jobs'[j].for = "none"
               PROVE  jobs'[j].id \in alive' /\ \A p \in Ops : jobs'[j].id \notin {op'[p].id, op'[p].from}
    BY DEF TrayBoots
  <2>1. j \in 1..Len(jobs) /\ jobs'[j] = jobs[j]
    <3>1. CASE jobs' = jobs
      BY <3>1
    <3>2. CASE JobAdded(do, id, for)
      <4>1. Len(jobs) \in Nat
        BY DEF JobsAwaited
      <4>2. j \in 1..Len(jobs) \/ j = Len(jobs) + 1
        BY <3>2, <4>1 DEF JobAdded
      <4> QED BY <3>2, <4>2 DEF JobAdded
    <3> QED BY <3>1, <3>2
  <2>2. jobs[j].id \in alive /\ \A p \in Ops : jobs[j].id \notin {op[p].id, op[p].from}
    BY <2>1 DEF MachinesApart, TrayBoots
  <2>3. jobs[j] \in Job
    BY <2>1 DEF JobsAwaited
  <2>4. jobs[j].id # "none"
    BY <2>3, VenvAssumption DEF Job
  <2> QED BY <2>1, <2>2, <2>4
<1> QED BY <1>1, <1>2 DEF MachinesApart

LEMMA NamesStep ==
    ASSUME NamesApart, NEW o \in Ops, \A p \in Ops \ {o} : SameOp(p),
           {op'[o].id, op'[o].from} \subseteq {op[o].id, op[o].from, "none"}
    PROVE  NamesApart'
<1> SUFFICES ASSUME NEW p \in Ops, NEW q \in Ops, p # q
             PROVE  {op'[p].id, op'[p].from} \cap {op'[q].id, op'[q].from} \subseteq {"none"}
  BY DEF NamesApart
<1>1. {op[p].id, op[p].from} \cap {op[q].id, op[q].from} \subseteq {"none"}
  BY DEF NamesApart
<1>2. \A r \in Ops : {op'[r].id, op'[r].from} \subseteq {op[r].id, op[r].from, "none"}
  BY DEF SameOp
<1> QED BY <1>1, <1>2

LEMMA UsableStep ==
    ASSUME NEW o \in Ops, \A p \in Ops \ {o} : SameOp(p), NEW id, Usable(id), disk'[id] \in Complete \cup {disk[id]},
           Copying(o)' /\ op'[o].id = id => Copying(o) /\ op[o].id = id
    PROVE  Usable(id)'
<1>1. disk'[id] \in Complete
  BY DEF Usable
<1>2. ASSUME NEW p \in Ops, Copying(p)' PROVE op'[p].id # id
  <2>1. CASE p = o
    BY <1>2, <2>1 DEF Usable
  <2>2. CASE p # o
    BY <1>2, <2>2 DEF Usable, SameOp, Copying
  <2> QED BY <2>1, <2>2
<1> QED BY <1>1, <1>2 DEF Usable

\* A command goes on or ends, and nothing else changes.
LEMMA MoveKeeps ==
    ASSUME DiskInv, NEW o \in Ops, OpShape', \A p \in Ops \ {o} : SameOp(p),
           disk' = disk, running' = running, ending' = ending, menu' = menu, touched' = touched, jobs' = jobs, minted' = minted, alive' = alive, clash' = clash,
           archives' = archives, Listed' \subseteq Listed, op[o].pc \notin {"main", "idle"},
           \/ Over(o)
           \/ /\ op'[o].kind = op[o].kind /\ op'[o].id = op[o].id /\ op'[o].from = op[o].from
              /\ op'[o].pc \notin {"main", "remove"} /\ (op'[o].pc \in CopyPoints <=> op[o].pc \in CopyPoints)
              /\ DOMAIN op'[o].seen \subseteq DOMAIN op[o].seen \cup Listed
    PROVE  DiskInv'
<1>0. OpTable /\ JobsAwaited /\ MachinesKnown /\ MintedOnce /\ (~clash => DisksApart)
  BY DEF DiskInv
<1>1. OpTable'
  <2>1. OpRow(o)
    BY <1>0 DEF OpTable
  <2>2. OpRow(o)'
    BY <1>0, <2>1 DEF OpRow, OpKinds, CopyPoints, Over, MintedOnce
  <2> QED BY <1>0, <2>2, RowsStep
<1>2. JobsAwaited' /\ MachinesKnown'
  BY <1>0, JobsStep, KnownStep
<1>3. MintedOnce'
  BY <1>0 DEF MintedOnce
<1>4. ASSUME ~clash' PROVE DisksApart'
  <2>0. NamesApart /\ OpsHold /\ AllUsable /\ RunsSound /\ MachinesApart /\ "mixed" \notin archives
    BY <1>0, <1>4 DEF DisksApart
  <2>1. NamesApart'
    BY <2>0, NamesStep DEF Over
  <2>2. OpsHold'
    <3> SUFFICES ASSUME NEW p \in Ops
                 PROVE  /\ op'[p].kind = "start" => op'[p].id \in alive
                        /\ op'[p].kind \in {"clone", "export"} => op'[p].from \in alive /\ op'[p].from \notin running
                        /\ op'[p].kind = "delete" /\ op'[p].id \in running => StopQueued(op[p].id)'
      BY DEF OpsHold
    <3>2. op'[p].kind = "none" \/ (op'[p].kind = op[p].kind /\ op'[p].id = op[p].id /\ op'[p].from = op[p].from)
      BY DEF SameOp, Over
    <3>3. op'[p].kind # "none" => (StopQueued(op[p].id)' <=> StopQueued(op[p].id))
      BY <3>2 DEF StopQueued
    <3> QED BY <2>0, <3>2, <3>3 DEF OpsHold
  <2>3. AllUsable'
    <3>1. Copying(o)' => Copying(o) /\ op'[o].id = op[o].id
      BY DEF Copying, Over
    <3>2. ASSUME NEW id, Usable(id) PROVE Usable(id)'
      BY <3>1, <3>2, UsableStep
    <3>3. \A id \in alive' \cup Listed' : Usable(id)'
      BY <2>0, <3>2 DEF AllUsable
    <3>4. \A p \in Ops : \A id \in DOMAIN op'[p].seen : Usable(id)'
      BY <2>0, <3>2 DEF AllUsable, SameOp, Over
    <3>5. ASSUME NEW p \in Ops, op'[p].kind \notin {"none", "export"}, ~Copying(p)' PROVE Usable(op[p].id)'
      <4>1. op'[p].kind = op[p].kind /\ op'[p].id = op[p].id /\ (Copying(p) <=> Copying(p)')
        BY <3>5 DEF SameOp, Over, Copying
      <4>2. Usable(op[p].id)
        BY <2>0, <3>5, <4>1 DEF AllUsable
      <4>3. PICK id : id = op[p].id /\ Usable(id)
        BY <4>2
      <4>4. Usable(id)'
        BY <3>2, <4>3
      <4> QED BY <4>1, <4>3, <4>4 DEF Usable
    <3> QED BY <3>3, <3>4, <3>5 DEF AllUsable
  <2>4. RunsSound'
    BY <2>0 DEF RunsSound, StopQueued
  <2>5. MachinesApart'
    BY <1>0, <2>0, MachinesStep DEF SameOp, Over
  <2> QED BY <2>0, <2>1, <2>2, <2>3, <2>4, <2>5 DEF DisksApart
<1> QED BY <1>1, <1>2, <1>3, <1>4 DEF DiskInv

\* What could be used still can, where no command comes to hold something new.
LEMMA UsableRest ==
    ASSUME OpTable, MintedOnce, AllUsable, NEW o \in Ops, \A p \in Ops \ {o} : SameOp(p),
           \A id \in minted : Usable(id) => Usable(id)',
           alive' = alive, Listed' = Listed, Over(o)
    PROVE  AllUsable'
<1>1. \A id \in alive' \cup Listed' : Usable(id)'
  BY DEF AllUsable, MintedOnce
<1>2. ASSUME NEW p \in Ops, NEW id \in DOMAIN op'[p].seen PROVE Usable(id)'
  <2>1. p # o /\ SameOp(p)
    BY DEF Over
  <2>2. id \in minted /\ Usable(id)
    BY <2>1 DEF SameOp, AllUsable, OpTable, OpRow
  <2> QED BY <2>2
<1>3. ASSUME NEW p \in Ops, op'[p].kind \notin {"none", "export"}, ~Copying(p)' PROVE Usable(op[p].id)'
  <2>1. p # o /\ SameOp(p)
    BY <1>3 DEF Over
  <2>2. op[p].kind \notin {"none", "export"} /\ ~Copying(p)
    BY <1>3, <2>1 DEF SameOp, Copying
  <2>3. PICK id \in minted : id = op[p].id /\ Usable(id)
    BY <2>2 DEF OpTable, OpRow, AllUsable
  <2>4. Usable(id)'
    BY <2>3
  <2> QED BY <2>1, <2>3, <2>4 DEF Usable, SameOp
<1> QED BY <1>1, <1>2, <1>3 DEF AllUsable

\* The steps that read or write the list, and the ones that only look.
LEMMA QuietMoves ==
    ASSUME DiskInv, NEW o \in Ops, Load(o) \/ SaveBegin(o) \/ SaveFails(o) \/ Look(o) \/ CopyFails(o)
    PROVE  DiskInv'
<1>0. OpShape /\ OpRow(o)
  BY DEF DiskInv, OpTable
<1>1. /\ disk' = disk /\ running' = running /\ ending' = ending /\ menu' = menu /\ touched' = touched /\ jobs' = jobs /\ minted' = minted /\ alive' = alive
      /\ clash' = clash /\ archives' = archives
  BY DEF Load, SaveBegin, SaveFails, Look, CopyFails, machineVars
<1>2. Listed' \subseteq Listed
  BY DEF Load, SaveBegin, SaveFails, Look, CopyFails, Listed
<1>3. op[o].pc \in {"load", "save", "saving", "look", "copying"}
  BY DEF Load, SaveBegin, SaveFails, Look, CopyFails
<1>4. CASE Finish(o)
  BY <1>0, <1>1, <1>2, <1>3, <1>4, OverIs, MoveKeeps
<1>5. CASE SaveBegin(o)
  <2>1. op[o].pc = "save" /\ Goto(o, "saving")
    BY <1>5 DEF SaveBegin
  <2>2. /\ OpShape' /\ op'[o].pc = "saving" /\ op'[o].seen = op[o].seen /\ op'[o].kind = op[o].kind
        /\ op'[o].id = op[o].id /\ op'[o].from = op[o].from /\ \A p \in Ops \ {o} : SameOp(p)
    BY <1>0, <2>1, MovedIs
  <2> QED BY <1>1, <1>2, <2>1, <2>2, MoveKeeps DEF CopyPoints
<1>6. CASE Look(o) /\ ~Finish(o)
  <2>1. op[o].pc = "look" /\ Goto(o, "copy")
    BY <1>6 DEF Look
  <2>2. /\ OpShape' /\ op'[o].pc = "copy" /\ op'[o].seen = op[o].seen /\ op'[o].kind = op[o].kind
        /\ op'[o].id = op[o].id /\ op'[o].from = op[o].from /\ \A p \in Ops \ {o} : SameOp(p)
    BY <1>0, <2>1, MovedIs
  <2> QED BY <1>1, <1>2, <2>1, <2>2, MoveKeeps DEF CopyPoints
<1>7. CASE Load(o) /\ ~Finish(o)
  <2>1. op[o].pc = "load" /\ op' = [op EXCEPT ![o].pc = "save", ![o].seen = List]
    BY <1>7 DEF Load
  <2>2. /\ OpShape' /\ op'[o].pc = "save" /\ op'[o].seen = List /\ op'[o].kind = op[o].kind
        /\ op'[o].id = op[o].id /\ op'[o].from = op[o].from /\ \A p \in Ops \ {o} : SameOp(p)
    BY <1>0, <2>1 DEF OpShape, OpFields, SameOp
  <2>3. DOMAIN List \subseteq Listed
    <3>1. CASE registry = Torn
      BY <3>1 DEF List, Listed
    <3>2. CASE registry # Torn
      BY <3>2 DEF List, Listed
    <3> QED BY <3>1, <3>2
  <2> QED BY <1>1, <1>2, <2>1, <2>2, <2>3, MoveKeeps DEF CopyPoints
<1>8. Finish(o) \/ SaveBegin(o) \/ (Look(o) /\ ~Finish(o)) \/ (Load(o) /\ ~Finish(o))
  BY DEF SaveFails, CopyFails, CopyError
<1> QED BY <1>4, <1>5, <1>6, <1>7, <1>8

\* An environment is deleted: its machine has stopped, or will.
LEMMA RemoveKeeps ==
    ASSUME DiskInv, NEW o \in Ops, RemoveDir(o)
    PROVE  DiskInv'
<1> DEFINE x == op[o].id
<1>0. OpShape /\ OpTable /\ JobsAwaited /\ MachinesKnown /\ MintedOnce /\ (~clash => DisksApart)
  BY DEF DiskInv
<1>1. /\ op[o].pc = "remove" /\ Finish(o) /\ disk' = [disk EXCEPT ![x] = "none"]
      /\ running' = running /\ ending' = ending /\ menu' = menu /\ touched' = touched /\ jobs' = jobs /\ minted' = minted /\ alive' = alive
      /\ clash' = clash /\ archives' = archives /\ registry' = registry
  BY DEF RemoveDir, machineVars
<1>2. OpShape' /\ Over(o) /\ \A p \in Ops \ {o} : SameOp(p)
  BY <1>0, <1>1, OverIs
<1>3. op[o].kind = "delete" /\ x \in Ids
  BY <1>0, <1>1 DEF OpTable, OpRow, MintedOnce
<1>4. disk'[x] = "none" /\ DOMAIN disk' = Ids /\ \A id \in Ids \ {x} : disk'[id] = disk[id]
  BY <1>0, <1>1, <1>3 DEF MintedOnce
<1>5. OpTable'
  <2>1. OpRow(o)'
    BY <1>0, <1>2 DEF OpRow, OpKinds, CopyPoints, Over
  <2> QED BY <1>0, <1>1, <1>2, <2>1, RowsStep
<1>6. JobsAwaited' /\ MachinesKnown'
  BY <1>0, <1>1, <1>2, JobsStep, KnownStep
<1>7. Listed' = Listed
  BY <1>1 DEF Listed
<1>8. MintedOnce'
  BY <1>0, <1>1, <1>3, <1>4, <1>7 DEF MintedOnce
<1>9. ASSUME ~clash' PROVE DisksApart'
  <2>0. NamesApart /\ OpsHold /\ AllUsable /\ RunsSound /\ MachinesApart /\ "mixed" \notin archives
    BY <1>0, <1>1, <1>9 DEF DisksApart
  <2>1. NamesApart'
    BY <1>2, <2>0, NamesStep DEF Over
  <2>2. \A id : StopQueued(id)' <=> StopQueued(id)
    BY <1>1 DEF StopQueued
  <2>3. OpsHold'
    <3> SUFFICES ASSUME NEW p \in Ops
                 PROVE  /\ op'[p].kind = "start" => op'[p].id \in alive
                        /\ op'[p].kind \in {"clone", "export"} => op'[p].from \in alive /\ op'[p].from \notin running
                        /\ op'[p].kind = "delete" /\ op'[p].id \in running => StopQueued(op[p].id)'
      BY <1>1 DEF OpsHold
    <3>1. op'[p].kind = "none" \/ SameOp(p)
      BY <1>2 DEF Over
    <3>2. SameOp(p) => (StopQueued(op[p].id)' <=> StopQueued(op[p].id))
      BY <1>1 DEF StopQueued, SameOp
    <3> QED BY <2>0, <3>1, <3>2 DEF OpsHold, SameOp
  <2>4. ASSUME NEW id \in minted, Usable(id) PROVE Usable(id)'
    <3>1. disk'[id] \in Complete \cup {disk[id]}
      BY <1>0, <1>4 DEF MintedOnce, Complete
    <3>2. ~Copying(o)'
      BY <1>2 DEF Copying, Over
    <3> QED BY <1>2, <2>4, <3>1, <3>2, UsableStep
  <2>5. AllUsable'
    BY <1>0, <1>1, <1>2, <1>7, <2>0, <2>4, UsableRest
  <2>6. RunsSound'
    <3> SUFFICES ASSUME NEW id \in running
                 PROVE  id \in Ids /\ ((id \in alive /\ disk'[id] \in Complete) \/ StopQueued(id)')
      BY <1>1 DEF RunsSound
    <3>1. CASE id = x
      BY <1>3, <2>0, <2>2, <3>1 DEF OpsHold
    <3>2. CASE id # x
      BY <1>4, <2>0, <2>2, <3>2 DEF RunsSound
    <3> QED BY <3>1, <3>2
  <2>7. MachinesApart'
    BY <1>0, <1>1, <1>2, <2>0, MachinesStep DEF SameOp, Over
  <2> QED BY <1>1, <2>0, <2>1, <2>3, <2>5, <2>6, <2>7 DEF DisksApart
<1> QED BY <1>2, <1>5, <1>6, <1>8, <1>9 DEF DiskInv

\* While no two commands work on one environment, no disk that is copied is in use.
LEMMA NotInUse ==
    ASSUME OpTable, MachinesKnown, DisksApart, NEW o \in Ops, op[o].kind \in {"clone", "export", "import"}
    PROVE  op[o].from \notin running /\ ~Ending(op[o].from)
<1>1. CASE op[o].kind = "import"
  <2>1. op[o].from = "none"
    BY <1>1 DEF OpTable, OpRow
  <2> QED BY <2>1, VenvAssumption DEF DisksApart, RunsSound, MachinesKnown, Ending, Job
<1>2. CASE op[o].kind # "import"
  BY <1>2 DEF DisksApart, OpsHold, MachinesApart, EndingApart, Ending
<1> QED BY <1>1, <1>2

\* A copy begins: what it writes to is not used yet.
LEMMA CopyBegins ==
    ASSUME DiskInv, NEW o \in Ops, CopyBegin(o)
    PROVE  DiskInv'
<1> DEFINE x == op[o].id
<1>0. OpShape /\ OpTable /\ JobsAwaited /\ MachinesKnown /\ MintedOnce /\ (~clash => DisksApart) /\ OpRow(o)
  BY DEF DiskInv, OpTable
<1>1. /\ op[o].pc = "copy" /\ Goto(o, "copying")
      /\ disk' = (IF op[o].kind = "export" THEN disk ELSE [disk EXCEPT ![x] = "partial"])
      /\ running' = running /\ ending' = ending /\ menu' = menu /\ jobs' = jobs /\ minted' = minted /\ alive' = alive
      /\ clash' = clash /\ archives' = archives /\ registry' = registry
  BY DEF CopyBegin
<1>2. /\ OpShape' /\ op'[o].pc = "copying" /\ op'[o].seen = op[o].seen /\ op'[o].kind = op[o].kind
      /\ op'[o].id = x /\ op'[o].from = op[o].from /\ \A p \in Ops \ {o} : SameOp(p)
  BY <1>0, <1>1, MovedIs
<1>3. Listed' = Listed
  BY <1>1 DEF Listed
<1>6. ~clash => touched' = touched
  <2> SUFFICES ASSUME ~clash PROVE touched' = touched
    OBVIOUS
  <2>1. op[o].from \notin running /\ ~Ending(op[o].from)
    BY <1>0, <1>1, NotInUse DEF OpRow, CopyPoints
  <2>2. touched' = touched \ {o} /\ touched = {}
    BY <1>0, <2>1 DEF CopyBegin, DisksApart, MachinesApart
  <2> QED BY <2>2
<1>7. JobsAwaited' /\ MachinesKnown'
  BY <1>0, <1>1, <1>2, JobsStep, KnownStep
<1>8. ~clash => MachinesApart'
  BY <1>0, <1>1, <1>2, <1>6, MachinesStep DEF SameOp, DisksApart
<1>4. CASE op[o].kind = "export"
  <2>1. disk' = disk
    BY <1>1, <1>4
  <2>2. OpTable'
    <3>1. OpRow(o)'
      BY <1>0, <1>1, <1>2 DEF OpRow, CopyPoints
    <3> QED BY <1>0, <1>1, <1>2, <3>1, RowsStep
  <2>3. MintedOnce'
    BY <1>0, <1>1, <1>3, <2>1 DEF MintedOnce
  <2>4. ASSUME ~clash' PROVE DisksApart'
    <3>0. NamesApart /\ OpsHold /\ AllUsable /\ RunsSound /\ "mixed" \notin archives
      BY <1>0, <1>1, <2>4 DEF DisksApart
    <3>1. NamesApart'
      BY <1>2, <3>0, NamesStep
    <3>2. \A id : StopQueued(id)' <=> StopQueued(id)
      BY <1>1 DEF StopQueued
    <3>3. \A p \in Ops : /\ op'[p].kind = op[p].kind /\ op'[p].id = op[p].id /\ op'[p].from = op[p].from
                         /\ op'[p].seen = op[p].seen /\ (Copying(p)' <=> Copying(p))
      BY <1>1, <1>2 DEF SameOp, Copying, CopyPoints
    <3>4. OpsHold'
      BY <1>1, <3>0, <3>3 DEF OpsHold, StopQueued
    <3>5. AllUsable'
      BY <1>1, <1>3, <2>1, <3>0, <3>3 DEF AllUsable, Usable
    <3>6. RunsSound'
      BY <1>1, <2>1, <3>0 DEF RunsSound, StopQueued
    <3> QED BY <1>1, <1>8, <2>4, <3>0, <3>1, <3>4, <3>5, <3>6 DEF DisksApart
  <2> QED BY <1>2, <1>7, <2>2, <2>3, <2>4 DEF DiskInv
<1>5. CASE op[o].kind # "export"
  <2>1. Copying(o) /\ x \in minted /\ x \in Ids
    BY <1>0, <1>1, <1>5 DEF OpRow, CopyPoints, Copying, MintedOnce
  <2>2. DOMAIN disk' = Ids /\ \A id \in Ids \ {x} : disk'[id] = disk[id]
    BY <1>0, <1>1, <1>5 DEF MintedOnce
  <2>3. OpTable'
    <3>1. OpRow(o)'
      BY <1>0, <1>1, <1>2 DEF OpRow, CopyPoints
    <3> QED BY <1>0, <1>1, <1>2, <3>1, RowsStep
  <2>5. MintedOnce'
    BY <1>0, <1>1, <1>3, <2>1, <2>2 DEF MintedOnce
  <2>6. ASSUME ~clash' PROVE DisksApart'
    <3>0. NamesApart /\ OpsHold /\ AllUsable /\ RunsSound /\ MachinesApart /\ "mixed" \notin archives
      BY <1>0, <1>1, <2>6 DEF DisksApart
    <3>1. NamesApart'
      BY <1>2, <3>0, NamesStep
    <3>2. \A id : StopQueued(id)' <=> StopQueued(id)
      BY <1>1 DEF StopQueued
    <3>3. \A p \in Ops : /\ op'[p].kind = op[p].kind /\ op'[p].id = op[p].id /\ op'[p].from = op[p].from
                         /\ op'[p].seen = op[p].seen /\ (Copying(p)' <=> Copying(p))
      BY <1>1, <1>2 DEF SameOp, Copying, CopyPoints
    <3>4. OpsHold'
      <4> SUFFICES ASSUME NEW p \in Ops
                   PROVE  /\ op'[p].kind = "start" => op'[p].id \in alive
                          /\ op'[p].kind \in {"clone", "export"} => op'[p].from \in alive /\ op'[p].from \notin running
                          /\ op'[p].kind = "delete" /\ op'[p].id \in running => StopQueued(op[p].id)'
        BY <1>1 DEF OpsHold
      <4>1. StopQueued(op[p].id)' <=> StopQueued(op[p].id)
        BY <1>1, <3>3 DEF StopQueued
      <4> QED BY <3>0, <3>3, <4>1 DEF OpsHold
    <3>5. ASSUME NEW id \in minted, Usable(id) PROVE Usable(id)'
      <4>1. id # x /\ id \in Ids
        BY <1>0, <2>1, <3>5 DEF Usable, MintedOnce
      <4> QED BY <2>2, <3>3, <3>5, <4>1 DEF Usable
    <3>6. AllUsable'
      <4>1. \A id \in alive' \cup Listed' : Usable(id)'
        BY <1>0, <1>1, <1>3, <3>0, <3>5 DEF AllUsable, MintedOnce
      <4>2. \A p \in Ops : \A id \in DOMAIN op'[p].seen : Usable(id)'
        BY <1>0, <3>0, <3>3, <3>5 DEF AllUsable, OpTable, OpRow
      <4>3. ASSUME NEW p \in Ops, op'[p].kind \notin {"none", "export"}, ~Copying(p)' PROVE Usable(op[p].id)'
        <5>1. PICK id \in minted : id = op[p].id /\ Usable(id)
          BY <1>0, <3>0, <3>3, <4>3 DEF OpTable, OpRow, AllUsable
        <5>2. Usable(id)'
          BY <3>5, <5>1
        <5> QED BY <3>3, <5>1, <5>2 DEF Usable
      <4> QED BY <4>1, <4>2, <4>3 DEF AllUsable
    <3>7. RunsSound'
      <4> SUFFICES ASSUME NEW id \in running
                   PROVE  id \in Ids /\ ((id \in alive /\ disk'[id] \in Complete) \/ StopQueued(id)')
        BY <1>1 DEF RunsSound
      <4>1. id \in alive => id # x
        BY <2>1, <3>0 DEF AllUsable, Usable
      <4> QED BY <2>2, <3>0, <3>2, <4>1 DEF RunsSound
    <3> QED BY <1>1, <1>8, <2>6, <3>0, <3>1, <3>4, <3>6, <3>7 DEF DisksApart
  <2> QED BY <1>2, <1>7, <2>3, <2>5, <2>6 DEF DiskInv
<1> QED BY <1>4, <1>5

\* What is copied is a disk that nobody writes.
LEMMA ContentComplete ==
    ASSUME OpTable, MintedOnce, DisksApart, NEW o \in Ops, op[o].kind \in {"clone", "export", "import"}
    PROVE  Content(o) \in Complete
<1>0. o \notin touched
  BY DEF DisksApart, MachinesApart
<1>1. CASE op[o].from = "none"
  BY <1>0, <1>1 DEF Content, Complete
<1>2. CASE op[o].from # "none"
  <2>1. op[o].kind \in {"clone", "export"}
    BY <1>2 DEF OpTable, OpRow
  <2>2. op[o].from \in alive /\ Content(o) = disk[op[o].from]
    BY <1>0, <1>2, <2>1 DEF DisksApart, OpsHold, Content
  <2> QED BY <2>2 DEF DisksApart, AllUsable, Usable
<1> QED BY <1>1, <1>2

\* A copy is complete.
LEMMA CopyEnds ==
    ASSUME DiskInv, NEW o \in Ops, CopyEnd(o)
    PROVE  DiskInv'
<1> DEFINE x == op[o].id
           c == Content(o)
<1>0. OpShape /\ OpTable /\ JobsAwaited /\ MachinesKnown /\ MintedOnce /\ (~clash => DisksApart) /\ OpRow(o)
  BY DEF DiskInv, OpTable
<1>1. /\ op[o].pc = "copying" /\ running' = running /\ ending' = ending /\ menu' = menu /\ touched' = touched /\ jobs' = jobs /\ minted' = minted /\ alive' = alive
      /\ clash' = clash /\ registry' = registry
  BY DEF CopyEnd, machineVars
<1>2. op[o].kind \in {"clone", "export", "import"}
  BY <1>0, <1>1 DEF OpRow, CopyPoints
<1>3. ~clash => c \in Complete /\ Cloned(o) \subseteq Complete
  BY <1>0, <1>2, ContentComplete DEF Cloned, Complete
<1>4. Listed' = Listed
  BY <1>1 DEF Listed
<1>5. CASE op[o].kind = "export"
  <2>1. archives' = archives \cup {c} /\ Finish(o) /\ disk' = disk
    BY <1>5 DEF CopyEnd
  <2> HIDE DEF c
  <2>2. OpShape' /\ Over(o) /\ \A p \in Ops \ {o} : SameOp(p)
    BY <1>0, <2>1, OverIs
  <2>3. OpTable'
    <3>1. OpRow(o)'
      BY <1>0, <2>2 DEF OpRow, OpKinds, CopyPoints, Over
    <3> QED BY <1>0, <1>1, <2>2, <3>1, RowsStep
  <2>4. JobsAwaited' /\ MachinesKnown'
    BY <1>0, <1>1, <2>2, JobsStep, KnownStep
  <2>5. MintedOnce'
    BY <1>0, <1>1, <1>4, <2>1 DEF MintedOnce
  <2>6. ASSUME ~clash' PROVE DisksApart'
    <3>0. NamesApart /\ OpsHold /\ AllUsable /\ RunsSound /\ MachinesApart /\ "mixed" \notin archives
      BY <1>0, <1>1, <2>6 DEF DisksApart
    <3>1. NamesApart'
      BY <2>2, <3>0, NamesStep DEF Over
    <3>2. OpsHold'
      <4> SUFFICES ASSUME NEW p \in Ops
                   PROVE  /\ op'[p].kind = "start" => op'[p].id \in alive
                          /\ op'[p].kind \in {"clone", "export"} => op'[p].from \in alive /\ op'[p].from \notin running
                          /\ op'[p].kind = "delete" /\ op'[p].id \in running => StopQueued(op[p].id)'
        BY <1>1 DEF OpsHold
      <4>1. op'[p].kind = "none" \/ SameOp(p)
        BY <2>2 DEF Over
      <4>2. SameOp(p) => (StopQueued(op[p].id)' <=> StopQueued(op[p].id))
        BY <1>1 DEF StopQueued, SameOp
      <4> QED BY <3>0, <4>1, <4>2 DEF OpsHold, SameOp
    <3>3. ASSUME NEW id \in minted, Usable(id) PROVE Usable(id)'
      <4>1. ~Copying(o)' /\ disk'[id] \in Complete \cup {disk[id]}
        BY <2>1, <2>2 DEF Copying, Over
      <4> QED BY <2>2, <3>3, <4>1, UsableStep
    <3>4. AllUsable'
      BY <1>0, <1>1, <1>4, <2>2, <3>0, <3>3, UsableRest
    <3>5. RunsSound'
      BY <1>1, <2>1, <3>0 DEF RunsSound, StopQueued
    <3>6. "mixed" \notin archives'
      BY <1>1, <1>3, <2>1, <2>6, <3>0 DEF Complete
    <3>7. MachinesApart'
      BY <1>0, <1>1, <2>2, <3>0, MachinesStep DEF SameOp, Over
    <3> QED BY <3>1, <3>2, <3>4, <3>5, <3>6, <3>7 DEF DisksApart
  <2> QED BY <2>2, <2>3, <2>4, <2>5, <2>6 DEF DiskInv
<1>6. CASE op[o].kind # "export"
  <2>1. PICK d \in Cloned(o) : disk' = [disk EXCEPT ![x] = d] /\ Goto(o, "load") /\ archives' = archives
    BY <1>6 DEF CopyEnd
  <2> HIDE DEF c
  <2>2. /\ OpShape' /\ op'[o].pc = "load" /\ op'[o].seen = op[o].seen /\ op'[o].kind = op[o].kind
        /\ op'[o].id = x /\ op'[o].from = op[o].from /\ \A p \in Ops \ {o} : SameOp(p)
    BY <1>0, <2>1, MovedIs
  <2>3. Copying(o) /\ x \in minted /\ x \in Ids
    BY <1>0, <1>1, <1>6 DEF OpRow, CopyPoints, Copying, MintedOnce
  <2>4. disk'[x] = d /\ DOMAIN disk' = Ids /\ \A id \in Ids \ {x} : disk'[id] = disk[id]
    BY <1>0, <2>1, <2>3 DEF MintedOnce
  <2>5. OpTable'
    <3>1. OpRow(o)'
      BY <1>0, <1>1, <1>6, <2>2 DEF OpRow, CopyPoints
    <3> QED BY <1>0, <1>1, <2>2, <3>1, RowsStep
  <2>6. JobsAwaited' /\ MachinesKnown'
    BY <1>0, <1>1, <2>2, JobsStep, KnownStep
  <2>7. MintedOnce'
    BY <1>0, <1>1, <1>4, <2>3, <2>4 DEF MintedOnce
  <2>8. ASSUME ~clash' PROVE DisksApart'
    <3>0. NamesApart /\ OpsHold /\ AllUsable /\ RunsSound /\ MachinesApart /\ "mixed" \notin archives /\ d \in Complete
      BY <1>0, <1>1, <1>3, <2>8 DEF DisksApart
    <3>1. NamesApart'
      BY <2>2, <3>0, NamesStep
    <3>2. \A id : StopQueued(id)' <=> StopQueued(id)
      BY <1>1 DEF StopQueued
    <3>3. /\ \A p \in Ops : op'[p].kind = op[p].kind /\ op'[p].id = op[p].id /\ op'[p].from = op[p].from /\ op'[p].seen = op[p].seen
          /\ \A p \in Ops \ {o} : Copying(p)' <=> Copying(p)
          /\ ~Copying(o)'
      BY <2>2 DEF SameOp, Copying, CopyPoints
    <3>4. OpsHold'
      <4> SUFFICES ASSUME NEW p \in Ops
                   PROVE  /\ op'[p].kind = "start" => op'[p].id \in alive
                          /\ op'[p].kind \in {"clone", "export"} => op'[p].from \in alive /\ op'[p].from \notin running
                          /\ op'[p].kind = "delete" /\ op'[p].id \in running => StopQueued(op[p].id)'
        BY <1>1 DEF OpsHold
      <4>1. StopQueued(op[p].id)' <=> StopQueued(op[p].id)
        BY <1>1, <3>3 DEF StopQueued
      <4> QED BY <3>0, <3>3, <4>1 DEF OpsHold
    <3>5. ASSUME NEW id \in minted, Usable(id) PROVE Usable(id)'
      <4>1. id # x /\ id \in Ids
        BY <1>0, <2>3, <3>5 DEF Usable, MintedOnce
      <4> QED BY <2>4, <3>3, <3>5, <4>1 DEF Usable
    <3>6. PICK y : y = x
      OBVIOUS
    <3>7. Usable(y)'
      <4>1. ASSUME NEW p \in Ops, Copying(p)' PROVE op'[p].id # y
        <5>1. p # o /\ op'[p].id = op[p].id
          BY <3>3, <4>1
        <5>2. x # "none"
          BY <2>3, VenvAssumption
        <5> QED BY <3>0, <3>6, <5>1, <5>2 DEF NamesApart
      <4> QED BY <2>4, <3>0, <3>6, <4>1 DEF Usable
    <3>8. AllUsable'
      <4>1. \A id \in alive' \cup Listed' : Usable(id)'
        BY <1>0, <1>1, <1>4, <3>0, <3>5 DEF AllUsable, MintedOnce
      <4>2. \A p \in Ops : \A id \in DOMAIN op'[p].seen : Usable(id)'
        BY <1>0, <3>0, <3>3, <3>5 DEF AllUsable, OpTable, OpRow
      <4>3. ASSUME NEW p \in Ops, op'[p].kind \notin {"none", "export"}, ~Copying(p)' PROVE Usable(op[p].id)'
        <5>1. CASE p = o
          BY <2>2, <3>6, <3>7, <5>1 DEF Usable
        <5>2. CASE p # o
          <6>1. PICK id \in minted : id = op[p].id /\ Usable(id)
            BY <1>0, <3>0, <3>3, <4>3, <5>2 DEF OpTable, OpRow, AllUsable
          <6>2. Usable(id)'
            BY <3>5, <6>1
          <6> QED BY <3>3, <6>1, <6>2 DEF Usable
        <5> QED BY <5>1, <5>2
      <4> QED BY <4>1, <4>2, <4>3 DEF AllUsable
    <3>9. RunsSound'
      <4> SUFFICES ASSUME NEW id \in running
                   PROVE  id \in Ids /\ ((id \in alive /\ disk'[id] \in Complete) \/ StopQueued(id)')
        BY <1>1 DEF RunsSound
      <4>1. id \in alive => id # x
        BY <2>3, <3>0 DEF AllUsable, Usable
      <4> QED BY <2>4, <3>0, <3>2, <4>1 DEF RunsSound
    <3>10. MachinesApart'
      BY <1>0, <1>1, <2>2, <3>0, MachinesStep DEF SameOp
    <3> QED BY <2>1, <3>0, <3>1, <3>4, <3>8, <3>9, <3>10 DEF DisksApart
  <2> QED BY <2>2, <2>5, <2>6, <2>7, <2>8 DEF DiskInv
<1> QED BY <1>5, <1>6

\* The append of a job.
LEMMA JobAddedIs ==
    ASSUME jobs \in Seq(Job), NEW do \in {"boot", "stop"}, NEW id \in Ids, NEW for \in Ops \cup {"none"},
           jobs' = Append(jobs, [do |-> do, id |-> id, for |-> for])
    PROVE  JobAdded(do, id, for)
<1> DEFINE J == [do |-> do, id |-> id, for |-> for]
<1>1. J \in Job
  BY DEF Job
<1>2. jobs' = Append(jobs, J)
  OBVIOUS
<1> HIDE DEF J
<1>3. /\ jobs' \in Seq(Job) /\ Len(jobs') = Len(jobs) + 1 /\ jobs'[Len(jobs) + 1] = J
      /\ \A j \in 1..Len(jobs) : jobs'[j] = jobs[j]
  BY <1>1, <1>2
<1> QED BY <1>3 DEF JobAdded, J

\* A command begins, with a job for the main thread or without.
LEMMA IssueKeeps ==
    ASSUME DiskInv, NEW o \in Ops, NEW kind \in OpKinds \ {"none"}, NEW id, NEW from, NEW pc, NEW for \in {"none", o},
           Issue(o, kind, id, from, pc),
           kind \in {"create", "clone", "import"} => id \in Fresh,
           kind \in {"rename", "delete", "start", "stop"} => id \in alive,
           kind = "export" => id = "none",
           kind \in {"clone", "export"} => from \in alive \ running /\ pc = "look",
           kind \notin {"clone", "export"} => from = "none" /\ pc \in {"load", "main", "copy"},
           pc = "copy" => kind = "import", kind = "import" => pc = "copy",
           pc = "main" => kind = "stop",
           jobs' = jobs \/ (JobAdded("stop", id, for) /\ kind \in {"stop", "delete"} /\ (for = o => pc = "main")),
           kind = "delete" /\ id \in running => JobAdded("stop", id, for)
    PROVE  DiskInv'
<1>0. OpShape /\ OpTable /\ JobsAwaited /\ MachinesKnown /\ MintedOnce /\ (~clash => DisksApart)
  BY DEF DiskInv
<1>1. /\ op[o].kind = "none" /\ disk' = disk /\ running' = running /\ ending' = ending /\ menu' = menu
      /\ touched' = touched /\ alive' = alive
      /\ archives' = archives /\ registry' = registry /\ minted' = minted \cup ({id} \cap Ids)
      /\ clash' = (clash \/ Uses(id) # {} \/ Uses(from) # {} \/ Ending(from) \/ Dispatched(id) \/ Dispatched(from))
  BY DEF Issue, machineVars
<1>2. OpShape' /\ \A p \in Ops \ {o} : SameOp(p)
  BY <1>0, IssueEffect DEF SameOp
<1>3. /\ op'[o].kind = kind /\ op'[o].id = id /\ op'[o].from = from /\ op'[o].pc = pc /\ op'[o].seen = << >>
  BY <1>0 DEF Issue, OpShape, NoOp
<1>4. DOMAIN op'[o].seen = {}
  BY <1>3
<1>5. o # "none" /\ "none" \notin Ids
  BY VenvAssumption
<1>6. minted \subseteq minted' /\ minted' \subseteq Ids /\ (kind # "export" => id \in minted' /\ id \in Ids)
  BY <1>0, <1>1 DEF OpKinds, MintedOnce, Fresh
<1>7. OpTable'
  <2>1. OpRow(o)'
    BY <1>0, <1>3, <1>4, <1>6 DEF OpRow, OpKinds, CopyPoints, MintedOnce
  <2> QED BY <1>0, <1>2, <1>6, <2>1, RowsStep
<1>8. Listed' = Listed
  BY <1>1 DEF Listed
<1>9. MintedOnce'
  BY <1>0, <1>1, <1>6, <1>8 DEF MintedOnce
<1>10. \A j \in 1..Len(jobs) : jobs[j].for # o /\ jobs[j] \in Job
  <2> SUFFICES ASSUME NEW j \in 1..Len(jobs) PROVE jobs[j].for # o /\ jobs[j] \in Job
    OBVIOUS
  <2>1. op[o].pc = "idle"
    BY <1>0, <1>1 DEF OpTable, OpRow
  <2> QED BY <1>0, <1>5, <2>1 DEF JobsAwaited
<1>11. JobsAwaited'
  <2>1. CASE jobs' = jobs
    <3>1. op[o].pc # "main"
      BY <1>0, <1>1 DEF OpTable, OpRow
    <3> QED BY <1>0, <1>2, <2>1, <3>1, JobsStep
  <2>2. CASE JobAdded("stop", id, for) /\ (for = o => pc = "main")
    <3> DEFINE n == Len(jobs)
    <3>1. /\ jobs' \in Seq(Job) /\ Len(jobs') = n + 1 /\ n \in Nat
          /\ \A j \in 1..n : jobs'[j] = jobs[j] /\ jobs[j].for # o /\ jobs[j].for \in Ops \cup {"none"}
          /\ jobs'[n + 1].do = "stop" /\ jobs'[n + 1].id = id /\ jobs'[n + 1].for = for
      BY <1>0, <1>10, <2>2 DEF JobAdded, JobsAwaited, Job
    <3>2. ASSUME NEW j \in 1..n
          PROVE  /\ jobs'[j].do = "boot" /\ jobs'[j].for # "none" => op'[jobs'[j].for].kind = "start"
                 /\ jobs'[j].for # "none" => op'[jobs'[j].for].pc = "main" /\ op'[jobs'[j].for].id = jobs'[j].id
      BY <1>0, <1>2, <3>1 DEF JobsAwaited, SameOp
    <3> HIDE DEF n
    <3>3. \A j \in 1..Len(jobs') : j \in 1..n \/ j = n + 1
      BY <3>1
    <3>4. \A j \in 1..Len(jobs') :
             /\ jobs'[j].do = "boot" /\ jobs'[j].for # "none" => op'[jobs'[j].for].kind = "start"
             /\ jobs'[j].for # "none" => op'[jobs'[j].for].pc = "main" /\ op'[jobs'[j].for].id = jobs'[j].id
      BY <1>3, <2>2, <3>1, <3>2, <3>3
    <3>5. \A i, j \in 1..n : jobs[i].for = jobs[j].for /\ jobs[i].for # "none" => i = j
      BY <1>0 DEF JobsAwaited, n
    <3>6. \A i, j \in 1..Len(jobs') : jobs'[i].for = jobs'[j].for /\ jobs'[i].for # "none" => i = j
      BY <3>1, <3>3, <3>5
    <3> QED BY <3>1, <3>4, <3>6 DEF JobsAwaited
  <2> QED BY <2>1, <2>2
<1>13. MachinesKnown'
  <2>1. op[o].pc # "main"
    BY <1>0, <1>1 DEF OpTable, OpRow
  <2>2. jobs' = jobs \/ (JobAdded("stop", id, for) /\ id \in minted)
    BY <1>0 DEF MintedOnce
  <2> QED BY <1>0, <1>1, <1>2, <1>6, <2>1, <2>2, KnownStep
<1>12. ASSUME ~clash' PROVE DisksApart'
  <2>0. NamesApart /\ OpsHold /\ AllUsable /\ RunsSound /\ MachinesApart /\ "mixed" \notin archives
    BY <1>0, <1>1, <1>12 DEF DisksApart
  <2>1. NamesApart'
    <3>1. ASSUME NEW p \in Ops \ {o} PROVE {op[p].id, op[p].from} \cap {id, from} \subseteq {"none"}
      <4>1. CASE op[p].kind = "none"
        BY <1>0, <4>1 DEF OpTable, OpRow
      <4>2. CASE op[p].kind # "none"
        BY <1>1, <1>12, <4>2 DEF Uses, Active
      <4> QED BY <4>1, <4>2
    <3> QED BY <1>2, <1>3, <2>0, <3>1 DEF NamesApart, SameOp
  <2>2. ASSUME NEW x, StopQueued(x) PROVE StopQueued(x)'
    <3>1. PICK j \in 1..Len(jobs) : jobs[j].do = "stop" /\ jobs[j].id = x
      BY <2>2 DEF StopQueued
    <3>2. j \in 1..Len(jobs') /\ jobs'[j] = jobs[j]
      <4>1. CASE jobs' = jobs
        BY <4>1
      <4>2. CASE JobAdded("stop", id, for)
        BY <1>0, <4>2 DEF JobAdded, JobsAwaited
      <4> QED BY <4>1, <4>2
    <3> QED BY <3>1, <3>2 DEF StopQueued
  <2>3. OpsHold'
    <3> SUFFICES ASSUME NEW p \in Ops
                 PROVE  /\ op'[p].kind = "start" => op'[p].id \in alive
                        /\ op'[p].kind \in {"clone", "export"} => op'[p].from \in alive /\ op'[p].from \notin running
                        /\ op'[p].kind = "delete" /\ op'[p].id \in running => StopQueued(op[p].id)'
      BY <1>1 DEF OpsHold
    <3>1. CASE p = o
      <4>1. kind = "delete" /\ id \in running => StopQueued(id)'
        <5> SUFFICES ASSUME kind = "delete" /\ id \in running PROVE StopQueued(id)'
          OBVIOUS
        <5>1. Len(jobs) + 1 \in 1..Len(jobs') /\ jobs'[Len(jobs) + 1].do = "stop" /\ jobs'[Len(jobs) + 1].id = id
          BY <1>0 DEF JobAdded, JobsAwaited
        <5> QED BY <5>1 DEF StopQueued
      <4>2. kind = "delete" /\ id \in running => StopQueued(op[p].id)'
        BY <1>3, <3>1, <4>1 DEF StopQueued
      <4> QED BY <1>3, <3>1, <4>2
    <3>2. CASE p # o
      <4>1. SameOp(p)
        BY <1>2, <3>2
      <4>2. StopQueued(op[p].id) => StopQueued(op[p].id)'
        <5>1. PICK x : x = op[p].id
          OBVIOUS
        <5>2. StopQueued(x) => StopQueued(x)'
          BY <2>2
        <5> QED BY <4>1, <5>1, <5>2 DEF StopQueued, SameOp
      <4> QED BY <2>0, <4>1, <4>2 DEF OpsHold, SameOp
    <3> QED BY <3>1, <3>2
  <2>4. ASSUME NEW x \in minted, Usable(x) PROVE Usable(x)'
    <3>1. Copying(o)' => op'[o].id # x
      BY <1>3, <2>4 DEF Copying, Fresh, CopyPoints
    <3> QED BY <1>1, <1>2, <2>4, <3>1, UsableStep
  <2>5. kind \notin {"none", "export"} /\ ~Copying(o)' => Usable(id)'
    <3> SUFFICES ASSUME kind # "export", ~Copying(o)' PROVE Usable(id)'
      OBVIOUS
    <3>1. CASE id \in alive
      BY <1>0, <2>0, <2>4, <3>1 DEF AllUsable, MintedOnce
    <3>2. CASE id \notin alive
      <4>1. id \in Ids \ minted
        BY <1>3, <3>2 DEF OpKinds, Fresh
      <4>2. disk'[id] = "none"
        BY <1>0, <1>1, <4>1 DEF MintedOnce
      <4>3. ASSUME NEW p \in Ops, Copying(p)' PROVE op'[p].id # id
        <5>1. p # o /\ SameOp(p) /\ Copying(p)
          BY <1>2, <4>3 DEF Copying, SameOp
        <5> QED BY <1>0, <4>1, <5>1 DEF OpTable, OpRow, SameOp, Copying
      <4> QED BY <4>2, <4>3 DEF Usable, Complete
    <3> QED BY <3>1, <3>2
  <2>6. AllUsable'
    <3>1. \A x \in alive' \cup Listed' : Usable(x)'
      BY <1>0, <1>1, <1>8, <2>0, <2>4 DEF AllUsable, MintedOnce
    <3>2. ASSUME NEW p \in Ops, NEW x \in DOMAIN op'[p].seen PROVE Usable(x)'
      <4>1. p # o /\ SameOp(p)
        BY <1>2, <1>4, <3>2
      <4> QED BY <1>0, <2>0, <2>4, <4>1 DEF SameOp, AllUsable, OpTable, OpRow
    <3>3. ASSUME NEW p \in Ops, op'[p].kind \notin {"none", "export"}, ~Copying(p)' PROVE Usable(op[p].id)'
      <4>1. CASE p = o
        BY <1>3, <2>5, <3>3, <4>1 DEF Usable
      <4>2. CASE p # o
        <5>0. SameOp(p)
          BY <1>2, <4>2
        <5>1. op[p].kind \notin {"none", "export"} /\ ~Copying(p)
          BY <3>3, <5>0 DEF SameOp, Copying
        <5>2. PICK x \in minted : x = op[p].id /\ Usable(x)
          BY <1>0, <2>0, <5>1 DEF OpTable, OpRow, AllUsable
        <5>3. Usable(x)'
          BY <2>4, <5>2
        <5> QED BY <5>0, <5>2, <5>3 DEF Usable, SameOp
      <4> QED BY <4>1, <4>2
    <3> QED BY <3>1, <3>2, <3>3 DEF AllUsable
  <2>7. RunsSound'
    BY <1>1, <2>0, <2>2 DEF RunsSound
  <2>8. EndingApart'
    <3>1. ~Ending(from)
      BY <1>1, <1>12
    <3> QED BY <1>1, <1>2, <1>3, <2>0, <3>1 DEF MachinesApart, EndingApart, Ending, SameOp
  <2>9. TrayBoots'
    <3> SUFFICES ASSUME NEW j \in 1..Len(jobs'), jobs'[j].do = "boot", jobs'[j].for = "none"
                 PROVE  jobs'[j].id \in alive /\ \A p \in Ops : jobs'[j].id \notin {op'[p].id, op'[p].from}
      BY <1>1 DEF TrayBoots
    <3>1. j \in 1..Len(jobs) /\ jobs'[j] = jobs[j]
      <4>1. CASE jobs' = jobs
        BY <4>1
      <4>2. CASE JobAdded("stop", id, for)
        <5>1. Len(jobs) \in Nat
          BY <1>0 DEF JobsAwaited
        <5>2. j \in 1..Len(jobs) \/ j = Len(jobs) + 1
          BY <4>2, <5>1 DEF JobAdded
        <5> QED BY <4>2, <5>2 DEF JobAdded
      <4> QED BY <4>1, <4>2
    <3>2. jobs[j].id \in alive /\ \A p \in Ops : jobs[j].id \notin {op[p].id, op[p].from}
      BY <2>0, <3>1 DEF MachinesApart, TrayBoots
    <3>3. jobs[j].id # id /\ jobs[j].id # from
      <4>1. DOMAIN jobs = 1..Len(jobs)
        BY <1>0 DEF JobsAwaited
      <4>2. ~Dispatched(id) /\ ~Dispatched(from)
        BY <1>1, <1>12
      <4> QED BY <3>1, <4>1, <4>2 DEF Dispatched
    <3> QED BY <1>2, <1>3, <3>1, <3>2, <3>3 DEF SameOp
  <2> QED BY <1>1, <2>0, <2>1, <2>3, <2>6, <2>7, <2>8, <2>9 DEF DisksApart, MachinesApart
<1> QED BY <1>2, <1>7, <1>9, <1>11, <1>12, <1>13 DEF DiskInv

\* A list is written.
LEMMA SaveEnds ==
    ASSUME DiskInv, NEW o \in Ops, SaveEnd(o)
    PROVE  DiskInv'
<1> DEFINE x == op[o].id
           boots == op[o].kind = "start" /\ op[o].status = "booting"
           ops == CASE boots -> [op EXCEPT ![o].pc = "main", ![o].mixed = FALSE]
                    [] op[o].kind = "delete" -> [op EXCEPT ![o].pc = "remove", ![o].mixed = FALSE]
                    [] OTHER -> [op EXCEPT ![o] = NoOp]
<1>0. OpShape /\ OpTable /\ JobsAwaited /\ MachinesKnown /\ MintedOnce /\ (~clash => DisksApart) /\ OpRow(o)
  BY DEF DiskInv, OpTable
<1>1. /\ op[o].pc = "saving" /\ registry' \in {Edited(o), Torn} /\ op' = Mix(ops) /\ disk' = disk
      /\ running' = running /\ ending' = ending /\ menu' = menu /\ touched' = touched /\ minted' = minted /\ clash' = clash /\ archives' = archives
      /\ jobs' = IF boots THEN Append(jobs, [do |-> "boot", id |-> x, for |-> o]) ELSE jobs
  BY DEF SaveEnd, machineVars
<1>2. alive' = CASE op[o].kind = "delete" -> alive \ {x}
                 [] op[o].kind \in {"create", "clone", "import"} -> alive \cup {x}
                 [] OTHER -> alive
  BY DEF SaveEnd
<1>3. op[o].kind \notin {"none", "export"} /\ x \in minted /\ x \in Ids /\ ~Copying(o) /\ x # "none" /\ o # "none"
  BY <1>0, <1>1, VenvAssumption DEF OpRow, CopyPoints, Copying, MintedOnce
<1>4. /\ DOMAIN ops = Ops /\ \A p \in Ops : DOMAIN ops[p] = OpFields
      /\ \A p \in Ops \ {o} : ops[p] = op[p]
      /\ \/ /\ ops[o].kind = op[o].kind /\ ops[o].id = x /\ ops[o].from = op[o].from /\ ops[o].seen = op[o].seen
            /\ (boots /\ ops[o].pc = "main") \/ (~boots /\ op[o].kind = "delete" /\ ops[o].pc = "remove")
         \/ ~boots /\ op[o].kind # "delete" /\ ops[o] = NoOp
  <2>1. CASE boots
    BY <1>0, <2>1 DEF OpShape, OpFields
  <2>2. CASE ~boots /\ op[o].kind = "delete"
    BY <1>0, <2>2 DEF OpShape, OpFields
  <2>3. CASE ~boots /\ op[o].kind # "delete"
    BY <1>0, <2>3 DEF OpShape, OpFields, NoOp
  <2> QED BY <2>1, <2>2, <2>3
<1> HIDE DEF ops
<1>5. /\ OpShape' /\ \A p \in Ops : /\ op'[p].pc = ops[p].pc /\ op'[p].seen = ops[p].seen /\ op'[p].kind = ops[p].kind
                                    /\ op'[p].id = ops[p].id /\ op'[p].from = ops[p].from
  BY <1>1, <1>4 DEF Mix, OpShape, OpFields
<1>6. \A p \in Ops \ {o} : SameOp(p)
  BY <1>4, <1>5 DEF SameOp
<1>7. \/ /\ op'[o].kind = op[o].kind /\ op'[o].id = x /\ op'[o].from = op[o].from /\ op'[o].seen = op[o].seen
         /\ (boots /\ op'[o].pc = "main") \/ (~boots /\ op[o].kind = "delete" /\ op'[o].pc = "remove")
      \/ ~boots /\ op[o].kind # "delete" /\ Over(o)
  <2>1. DOMAIN NoOp.seen = {} /\ NoOp.kind = "none" /\ NoOp.pc = "idle" /\ NoOp.id = "none" /\ NoOp.from = "none"
    BY DEF NoOp
  <2> QED BY <1>4, <1>5, <2>1 DEF Over
<1>8. Listed' \subseteq DOMAIN op[o].seen \cup {x}
  <2>1. CASE registry' = Torn
    BY <2>1 DEF Listed
  <2>2. CASE registry' # Torn
    <3>1. Listed' = DOMAIN Edited(o)
      BY <1>1, <2>2 DEF Listed
    <3> QED BY <3>1, EditedDomain
  <2> QED BY <2>1, <2>2
<1>9. OpTable'
  <2>1. OpRow(o)'
    BY <1>0, <1>1, <1>7 DEF OpRow, OpKinds, CopyPoints, Over
  <2> QED BY <1>0, <1>1, <1>6, <2>1, RowsStep
<1>10. MintedOnce'
  <2>1. DOMAIN op[o].seen \subseteq minted
    BY <1>0 DEF OpRow
  <2>2. alive' \subseteq minted
    BY <1>0, <1>2, <1>3 DEF MintedOnce
  <2> QED BY <1>0, <1>1, <1>3, <1>8, <2>1, <2>2 DEF MintedOnce
<1>11. boots => JobAdded("boot", x, o)
  BY <1>0, <1>1, <1>3, JobAddedIs DEF JobsAwaited
<1>12. JobsAwaited'
  <2>1. CASE ~boots
    BY <1>0, <1>1, <1>6, <2>1, JobsStep
  <2>2. CASE boots
    <3> DEFINE n == Len(jobs)
    <3>1. \A j \in 1..n : jobs[j] \in Job /\ jobs[j].for # o
      BY <1>0, <1>1, <1>3 DEF JobsAwaited
    <3>2. /\ jobs' \in Seq(Job) /\ Len(jobs') = n + 1 /\ n \in Nat
          /\ \A j \in 1..n : jobs'[j] = jobs[j] /\ jobs[j].for # o /\ jobs[j].for \in Ops \cup {"none"}
          /\ jobs'[n + 1].do = "boot" /\ jobs'[n + 1].id = x /\ jobs'[n + 1].for = o
      BY <1>0, <1>11, <2>2, <3>1 DEF JobAdded, JobsAwaited, Job
    <3>3. ASSUME NEW j \in 1..n
          PROVE  /\ jobs'[j].do = "boot" /\ jobs'[j].for # "none" => op'[jobs'[j].for].kind = "start"
                 /\ jobs'[j].for # "none" => op'[jobs'[j].for].pc = "main" /\ op'[jobs'[j].for].id = jobs'[j].id
      BY <1>0, <1>6, <3>2 DEF JobsAwaited, SameOp
    <3> HIDE DEF n
    <3>4. \A j \in 1..Len(jobs') : j \in 1..n \/ j = n + 1
      BY <3>2
    <3>5. op'[o].kind = "start" /\ op'[o].pc = "main" /\ op'[o].id = x
      BY <1>7, <2>2
    <3>6. \A j \in 1..Len(jobs') :
             /\ jobs'[j].do = "boot" /\ jobs'[j].for # "none" => op'[jobs'[j].for].kind = "start"
             /\ jobs'[j].for # "none" => op'[jobs'[j].for].pc = "main" /\ op'[jobs'[j].for].id = jobs'[j].id
      BY <3>2, <3>3, <3>4, <3>5
    <3>7. \A i, j \in 1..n : jobs[i].for = jobs[j].for /\ jobs[i].for # "none" => i = j
      BY <1>0 DEF JobsAwaited, n
    <3>8. \A i, j \in 1..Len(jobs') : jobs'[i].for = jobs'[j].for /\ jobs'[i].for # "none" => i = j
      BY <3>2, <3>4, <3>7
    <3> QED BY <3>2, <3>6, <3>8 DEF JobsAwaited
  <2> QED BY <2>1, <2>2
<1>14. MachinesKnown'
  BY <1>0, <1>1, <1>3, <1>6, <1>11, KnownStep
<1>13. ASSUME ~clash' PROVE DisksApart'
  <2>0. NamesApart /\ OpsHold /\ AllUsable /\ RunsSound /\ MachinesApart /\ "mixed" \notin archives
    BY <1>0, <1>1, <1>13 DEF DisksApart
  <2>1. NamesApart'
    BY <1>6, <1>7, <2>0, NamesStep DEF Over
  <2>2. ASSUME NEW y, StopQueued(y) PROVE StopQueued(y)'
    <3>1. PICK j \in 1..Len(jobs) : jobs[j].do = "stop" /\ jobs[j].id = y
      BY <2>2 DEF StopQueued
    <3>2. j \in 1..Len(jobs') /\ jobs'[j] = jobs[j]
      <4>1. CASE jobs' = jobs
        BY <4>1
      <4>2. CASE JobAdded("boot", x, o)
        BY <1>0, <4>2 DEF JobAdded, JobsAwaited
      <4> QED BY <1>1, <1>11, <4>1, <4>2
    <3> QED BY <3>1, <3>2 DEF StopQueued
  <2>3. \A y : y \in alive /\ y # x => y \in alive'
    BY <1>2
  <2>4. op[o].kind # "delete" => alive \subseteq alive'
    BY <1>2
  <2>5. OpsHold'
    <3> SUFFICES ASSUME NEW p \in Ops
                 PROVE  /\ op'[p].kind = "start" => op'[p].id \in alive'
                        /\ op'[p].kind \in {"clone", "export"} => op'[p].from \in alive' /\ op'[p].from \notin running
                        /\ op'[p].kind = "delete" /\ op'[p].id \in running => StopQueued(op[p].id)'
      BY <1>1 DEF OpsHold
    <3>1. op'[p].kind = "none" \/ (op'[p].kind = op[p].kind /\ op'[p].id = op[p].id /\ op'[p].from = op[p].from)
      BY <1>6, <1>7 DEF SameOp, Over
    <3>2. op'[p].id = op[p].id /\ StopQueued(op[p].id) => StopQueued(op[p].id)'
      <4>1. PICK y : y = op[p].id
        OBVIOUS
      <4>2. StopQueued(y) => StopQueued(y)'
        BY <2>2
      <4> QED BY <4>1, <4>2 DEF StopQueued
    <3>3. p # o => op[p].id # x /\ op[p].from # x
      BY <1>3, <2>0 DEF NamesApart
    <3>4. op[p].kind = "start" => op[p].id \in alive'
      BY <2>0, <2>3, <2>4, <3>3 DEF OpsHold
    <3>5. op'[p].kind \in {"clone", "export"} => op[p].from \in alive' /\ op[p].from \notin running
      <4>1. CASE p = o
        BY <1>7, <2>0, <2>4, <3>1, <4>1 DEF OpsHold, Over
      <4>2. CASE p # o
        BY <2>0, <2>3, <3>1, <3>3, <4>2 DEF OpsHold
      <4> QED BY <4>1, <4>2
    <3> QED BY <2>0, <3>1, <3>2, <3>4, <3>5 DEF OpsHold
  <2>6. ASSUME NEW id, Usable(id) PROVE Usable(id)'
    <3>1. ~Copying(o)'
      BY <1>7 DEF Copying, Over, CopyPoints
    <3> QED BY <1>1, <1>6, <2>6, <3>1, UsableStep
  <2>7. AllUsable'
    <3>0. Usable(x)
      BY <1>3, <2>0 DEF AllUsable
    <3>1. \A id \in alive' \cup Listed' : Usable(id)
      BY <1>2, <1>8, <2>0, <3>0 DEF AllUsable
    <3>2. \A id \in alive' \cup Listed' : Usable(id)'
      BY <2>6, <3>1
    <3>3. ASSUME NEW p \in Ops, NEW id \in DOMAIN op'[p].seen PROVE Usable(id)'
      <4>1. op'[p].seen = op[p].seen
        BY <1>6, <1>7, <3>3 DEF SameOp, Over
      <4> QED BY <2>0, <2>6, <4>1 DEF AllUsable
    <3>4. ASSUME NEW p \in Ops, op'[p].kind \notin {"none", "export"}, ~Copying(p)' PROVE Usable(op[p].id)'
      <4>1. op'[p].kind = op[p].kind /\ op'[p].id = op[p].id /\ ~Copying(p)
        BY <1>3, <1>6, <1>7, <3>4 DEF SameOp, Over, Copying
      <4>2. PICK id : id = op[p].id /\ Usable(id)
        BY <2>0, <3>4, <4>1 DEF AllUsable
      <4>3. Usable(id)'
        BY <2>6, <4>2
      <4> QED BY <4>1, <4>2, <4>3 DEF Usable
    <3> QED BY <3>2, <3>3, <3>4 DEF AllUsable
  <2>8. RunsSound'
    <3> SUFFICES ASSUME NEW id \in running
                 PROVE  id \in Ids /\ ((id \in alive' /\ disk[id] \in Complete) \/ StopQueued(id)')
      BY <1>1 DEF RunsSound
    <3>1. CASE StopQueued(id)
      BY <2>0, <2>2, <3>1 DEF RunsSound
    <3>2. CASE ~StopQueued(id)
      <4>1. id \in Ids /\ id \in alive /\ disk[id] \in Complete
        BY <2>0, <3>2 DEF RunsSound
      <4>2. op[o].kind = "delete" => id # x
        BY <2>0, <3>2 DEF OpsHold
      <4> QED BY <2>3, <2>4, <4>1, <4>2
    <3> QED BY <3>1, <3>2
  <2>9. MachinesApart'
    <3>1. \A p \in Ops : /\ op'[p].kind \in {op[p].kind, "none"} /\ op'[p].id \in {op[p].id, "none"}
                         /\ op'[p].from \in {op[p].from, "none"}
      BY <1>6, <1>7 DEF SameOp, Over
    <3> QED BY <1>0, <1>1, <1>3, <1>11, <2>0, <2>3, <3>1, MachinesStep
  <2> QED BY <1>1, <2>0, <2>1, <2>5, <2>7, <2>8, <2>9 DEF DisksApart
<1> QED BY <1>5, <1>9, <1>10, <1>12, <1>13, <1>14 DEF DiskInv

\* The main thread does its next job.
LEMMA JobDone ==
    ASSUME DiskInv, BootJob \/ StopJob
    PROVE  DiskInv'
<1> DEFINE job == Head(jobs)
<1>0. OpShape /\ OpTable /\ JobsAwaited /\ MachinesKnown /\ MintedOnce /\ (~clash => DisksApart)
  BY DEF DiskInv
<1>1. /\ jobs # << >> /\ jobs' = Tail(jobs) /\ registry' = registry /\ archives' = archives
      /\ minted' = minted /\ alive' = alive /\ clash' = clash
  BY DEF BootJob, StopJob
<1>2. /\ 1 \in 1..Len(jobs) /\ job = jobs[1] /\ job \in Job /\ jobs' \in Seq(Job) /\ Len(jobs') = Len(jobs) - 1
      /\ \A j \in 1..Len(jobs') : jobs'[j] = jobs[j + 1] /\ j + 1 \in 1..Len(jobs) /\ j + 1 # 1
      /\ \A j \in 1..Len(jobs) : j # 1 => j - 1 \in 1..Len(jobs') /\ jobs'[j - 1] = jobs[j]
  <2>1. jobs \in Seq(Job) /\ Len(jobs) \in Nat /\ Len(jobs) >= 1
    BY <1>0, <1>1 DEF JobsAwaited
  <2>2. job = jobs[1] /\ job \in Job /\ jobs' \in Seq(Job) /\ Len(jobs') = Len(jobs) - 1
    BY <1>1, <2>1
  <2>3. \A j \in 1..Len(jobs') : jobs'[j] = jobs[j + 1] /\ j + 1 \in 1..Len(jobs) /\ j + 1 # 1
    BY <1>1, <2>1
  <2>4. ASSUME NEW j \in 1..Len(jobs), j # 1 PROVE j - 1 \in 1..Len(jobs') /\ jobs'[j - 1] = jobs[j]
    <3>1. j - 1 \in 1..Len(jobs') /\ (j - 1) + 1 = j
      BY <2>1, <2>2, <2>4
    <3> QED BY <2>3, <3>1
  <2> QED BY <2>1, <2>2, <2>3, <2>4
<1>3. /\ job.do \in {"boot", "stop"} /\ job.id \in Ids /\ job.id \in minted /\ job.for \in Ops \cup {"none"}
      /\ job.for # "none" => op[job.for].pc = "main" /\ op[job.for].id = job.id
      /\ job.for # "none" /\ job.do = "boot" => op[job.for].kind = "start"
  BY <1>0, <1>2 DEF Job, JobsAwaited, MachinesKnown
<1>4. PICK status : Answer(job, status) \/ (op' = op /\ job.do = "stop" /\ job.id \in running)
  BY DEF BootJob, StopJob
<1>5. \/ /\ job.do = "boot" /\ running' = running \cup {job.id} /\ ending' = {}
         /\ menu' = Listed /\ touched' = touched \cup {o \in Ops : op[o].pc = "copying" /\ op[o].from = job.id}
         /\ \E d \in {disk[job.id]} \cup (IF disk[job.id] = "none" THEN {"whole"} ELSE {}) :
               disk' = [disk EXCEPT ![job.id] = d]
      \/ /\ running' \subseteq running /\ disk' = disk /\ (job.do = "stop" => running' = running \ {job.id})
         /\ touched' = touched /\ menu' = menu
         /\ ending' = {} \/ (ending' = {job} /\ op' = op /\ job.id \in running)
  <2>1. CASE BootJob
    BY <2>1 DEF BootJob, machineVars
  <2>2. CASE StopJob
    BY <2>2 DEF StopJob
  <2> QED BY <2>1, <2>2
<1> HIDE DEF job
<1>6. /\ OpShape'
      /\ \A p \in Ops : /\ op'[p].kind = op[p].kind /\ op'[p].id = op[p].id /\ op'[p].from = op[p].from
                        /\ op'[p].seen = op[p].seen
                        /\ op'[p].pc = op[p].pc \/ (p = job.for /\ op'[p].pc = "load")
  <2>1. CASE op' = op
    BY <1>0, <2>1 DEF OpShape
  <2>2. CASE op' # op
    <3>1. op' = [op EXCEPT ![job.for].pc = "load", ![job.for].status = status] /\ job.for \in Ops
      BY <1>3, <1>4, <2>2 DEF Answer
    <3> QED BY <1>0, <3>1 DEF OpShape, OpFields
  <2> QED BY <2>1, <2>2
<1>7. \A p \in Ops : p = job.for => op[p].kind \in {"start", "stop"} /\ op[p].pc = "main"
  BY <1>0, <1>3, VenvAssumption DEF OpTable, OpRow
<1>8. Listed' = Listed
  BY <1>1 DEF Listed
<1>9. OpTable'
  <2> SUFFICES ASSUME NEW p \in Ops PROVE OpRow(p)'
    BY DEF OpTable
  <2>1. OpRow(p)
    BY <1>0 DEF OpTable
  <2> QED BY <1>1, <1>6, <1>7, <2>1 DEF OpRow, CopyPoints
<1>10. JobsAwaited'
  <2>1. ASSUME NEW j \in 1..Len(jobs')
        PROVE  /\ jobs'[j].do = "boot" /\ jobs'[j].for # "none" => op'[jobs'[j].for].kind = "start"
               /\ jobs'[j].for # "none" => op'[jobs'[j].for].pc = "main" /\ op'[jobs'[j].for].id = jobs'[j].id
    <3> DEFINE f == jobs'[j].for
    <3>1. PICK k \in 1..Len(jobs) : k # 1 /\ jobs'[j] = jobs[k]
      BY <1>2
    <3>2. /\ jobs[k] \in Job
          /\ jobs[k].do = "boot" /\ jobs[k].for # "none" => op[jobs[k].for].kind = "start"
          /\ jobs[k].for # "none" => op[jobs[k].for].pc = "main" /\ op[jobs[k].for].id = jobs[k].id
      BY <1>0 DEF JobsAwaited
    <3>3. f # "none" => f # job.for
      BY <1>0, <1>2, <3>1 DEF JobsAwaited
    <3>4. f \in Ops \cup {"none"}
      BY <3>1, <3>2 DEF Job
    <3> QED BY <1>6, <3>1, <3>2, <3>3, <3>4
  <2>2. ASSUME NEW i \in 1..Len(jobs'), NEW j \in 1..Len(jobs'), jobs'[i].for = jobs'[j].for, jobs'[i].for # "none"
        PROVE  i = j
    <3>1. i + 1 = j + 1
      BY <1>0, <1>2, <2>2 DEF JobsAwaited
    <3> QED BY <3>1
  <2> QED BY <1>2, <2>1, <2>2 DEF JobsAwaited
<1>11. DOMAIN disk' = Ids /\ \A id \in Ids : disk'[id] = disk[id] \/ (id = job.id /\ disk'[id] \in Complete)
  BY <1>0, <1>3, <1>5 DEF MintedOnce, Complete
<1>12. MachinesKnown'
  <2>1. menu' \subseteq minted /\ \A j \in 1..Len(jobs') : jobs'[j].id \in minted
    BY <1>0, <1>2, <1>5 DEF MachinesKnown, MintedOnce
  <2>2. ASSUME NEW e \in ending' PROVE e = job /\ op' = op
    BY <1>5, <2>2
  <2>3. ending' # {} /\ job.for # "none" => \A j \in 1..Len(jobs') : jobs'[j].for # job.for
    BY <1>0, <1>2 DEF JobsAwaited
  <2> QED BY <1>1, <1>2, <1>3, <2>1, <2>2, <2>3 DEF MachinesKnown
<1>13. MintedOnce'
  <2>1. job.do # "boot" => disk' = disk
    BY <1>5
  <2> QED BY <1>0, <1>1, <1>3, <1>8, <1>11, <2>1 DEF MintedOnce
<1>14. ASSUME ~clash' PROVE DisksApart'
  <2>0. NamesApart /\ OpsHold /\ AllUsable /\ RunsSound /\ MachinesApart /\ "mixed" \notin archives
    BY <1>0, <1>1, <1>14 DEF DisksApart
  <2>1. NamesApart'
    BY <1>6, <2>0 DEF NamesApart
  <2>2. ASSUME NEW y, StopQueued(y), y \in running' PROVE StopQueued(y)'
    <3>1. PICK j \in 1..Len(jobs) : jobs[j].do = "stop" /\ jobs[j].id = y
      BY <2>2 DEF StopQueued
    <3>2. j # 1
      BY <1>2, <1>5, <2>2, <3>1
    <3> QED BY <1>2, <3>1, <3>2 DEF StopQueued
  <2>3. job.do = "boot" => \A p \in Ops : p # job.for => op[p].id # job.id /\ op[p].from # job.id
    <3> SUFFICES ASSUME job.do = "boot", NEW p \in Ops, p # job.for PROVE op[p].id # job.id /\ op[p].from # job.id
      OBVIOUS
    <3>1. job.id # "none"
      BY <1>3, VenvAssumption
    <3>2. CASE job.for = "none"
      BY <1>2, <2>0, <3>2 DEF MachinesApart, TrayBoots
    <3>3. CASE job.for # "none"
      <4>1. job.for \in Ops /\ op[job.for].id = job.id
        BY <1>3, <3>3
      <4>2. {op[job.for].id, op[job.for].from} \cap {op[p].id, op[p].from} \subseteq {"none"}
        BY <2>0, <4>1 DEF NamesApart
      <4> QED BY <3>1, <4>1, <4>2
    <3> QED BY <3>2, <3>3
  <2>4. OpsHold'
    <3> SUFFICES ASSUME NEW p \in Ops
                 PROVE  /\ op'[p].kind = "start" => op'[p].id \in alive
                        /\ op'[p].kind \in {"clone", "export"} => op'[p].from \in alive /\ op'[p].from \notin running'
                        /\ op'[p].kind = "delete" /\ op'[p].id \in running' => StopQueued(op[p].id)'
      BY <1>1 DEF OpsHold
    <3>1. op[p].kind \in {"clone", "export", "delete"} => p # job.for
      BY <1>7
    <3>2. op[p].kind \in {"clone", "export"} => op[p].from \in alive /\ op[p].from \notin running'
      BY <1>3, <1>5, <2>0, <2>3, <3>1 DEF OpsHold
    <3>3. op[p].kind = "delete" /\ op[p].id \in running' => StopQueued(op[p].id)'
      <4> SUFFICES ASSUME op[p].kind = "delete", op[p].id \in running' PROVE StopQueued(op[p].id)'
        OBVIOUS
      <4>1. op[p].id \in running
        BY <1>5, <2>3, <3>1
      <4>2. PICK y : y = op[p].id /\ StopQueued(y) /\ y \in running'
        BY <2>0, <4>1 DEF OpsHold
      <4>3. StopQueued(y)'
        BY <2>2, <4>2
      <4> QED BY <1>6, <4>2, <4>3 DEF StopQueued
    <3> QED BY <1>6, <2>0, <3>2, <3>3 DEF OpsHold
  <2>5. \A p \in Ops : Copying(p)' <=> Copying(p)
    BY <1>6, <1>7 DEF Copying, CopyPoints
  <2>6. ASSUME NEW id \in minted, Usable(id) PROVE Usable(id)'
    <3>1. id \in Ids
      BY <1>0 DEF MintedOnce
    <3> QED BY <1>6, <1>11, <2>5, <2>6, <3>1 DEF Usable
  <2>7. AllUsable'
    <3>1. \A id \in alive' \cup Listed' : Usable(id)'
      BY <1>0, <1>1, <1>8, <2>0, <2>6 DEF AllUsable, MintedOnce
    <3>2. \A p \in Ops : \A id \in DOMAIN op'[p].seen : Usable(id)'
      BY <1>0, <1>6, <2>0, <2>6 DEF AllUsable, OpTable, OpRow
    <3>3. ASSUME NEW p \in Ops, op'[p].kind \notin {"none", "export"}, ~Copying(p)' PROVE Usable(op[p].id)'
      <4>1. PICK id \in minted : id = op[p].id /\ Usable(id)
        BY <1>0, <1>6, <2>0, <2>5, <3>3 DEF OpTable, OpRow, AllUsable
      <4>2. Usable(id)'
        BY <2>6, <4>1
      <4> QED BY <1>6, <4>1, <4>2 DEF Usable
    <3> QED BY <3>1, <3>2, <3>3 DEF AllUsable
  <2>8. RunsSound'
    <3> SUFFICES ASSUME NEW id \in running'
                 PROVE  id \in Ids /\ ((id \in alive /\ disk'[id] \in Complete) \/ StopQueued(id)')
      BY <1>1 DEF RunsSound
    <3>1. CASE id \in running
      BY <1>11, <2>0, <2>2, <3>1 DEF RunsSound
    <3>2. CASE id \notin running
      <4>1. job.do = "boot" /\ id = job.id
        BY <1>5, <3>2
      <4>2. id \in alive
        <5>1. CASE job.for = "none"
          BY <1>2, <2>0, <4>1, <5>1 DEF MachinesApart, TrayBoots
        <5>2. CASE job.for # "none"
          BY <1>3, <2>0, <4>1, <5>2 DEF OpsHold
        <5> QED BY <5>1, <5>2
      <4>3. disk[id] \in Complete
        BY <2>0, <4>2 DEF AllUsable, Usable
      <4> QED BY <1>0, <1>3, <1>11, <4>1, <4>2, <4>3 DEF MintedOnce
    <3> QED BY <3>1, <3>2
  <2>9. MachinesApart'
    <3>1. TrayBoots'
      <4> SUFFICES ASSUME NEW j \in 1..Len(jobs'), jobs'[j].do = "boot", jobs'[j].for = "none"
                   PROVE  jobs'[j].id \in alive /\ \A p \in Ops : jobs'[j].id \notin {op'[p].id, op'[p].from}
        BY <1>1 DEF TrayBoots
      <4>1. PICK k \in 1..Len(jobs) : jobs'[j] = jobs[k]
        BY <1>2
      <4>2. jobs[k].id \in alive /\ \A p \in Ops : jobs[k].id \notin {op[p].id, op[p].from}
        BY <2>0, <4>1 DEF MachinesApart, TrayBoots
      <4> QED BY <1>6, <4>1, <4>2
    <3>2. EndingApart'
      <4> SUFFICES ASSUME NEW e \in ending', NEW p \in Ops, op[p].kind \in {"clone", "export"} PROVE op[p].from # e.id
        BY <1>6 DEF EndingApart
      <4>1. e = job /\ job.id \in running
        BY <1>5
      <4> QED BY <2>0, <4>1 DEF OpsHold
    <3>3. touched' = {}
      <4>1. touched = {}
        BY <2>0 DEF MachinesApart
      <4>2. job.do = "boot" => \A p \in Ops : ~(op[p].pc = "copying" /\ op[p].from = job.id)
        <5> SUFFICES ASSUME job.do = "boot", NEW p \in Ops, op[p].from = job.id PROVE op[p].pc # "copying"
          OBVIOUS
        <5>1. p = job.for
          BY <2>3
        <5> QED BY <1>7, <5>1
      <4> QED BY <1>5, <4>1, <4>2
    <3> QED BY <3>1, <3>2, <3>3 DEF MachinesApart
  <2> QED BY <1>1, <2>0, <2>1, <2>4, <2>7, <2>8, <2>9 DEF DisksApart
<1> QED BY <1>6, <1>9, <1>10, <1>12, <1>13, <1>14 DEF DiskInv

\* The machine has ended, and the command that waited for it goes on.
LEMMA StopEnds ==
    ASSUME DiskInv, StopDone
    PROVE  DiskInv'
<1>0. OpShape /\ OpTable /\ JobsAwaited /\ MachinesKnown /\ MintedOnce /\ (~clash => DisksApart)
  BY DEF DiskInv
<1>1. /\ ending' = {} /\ menu' = Listed /\ registry' = registry /\ disk' = disk /\ archives' = archives
      /\ running' = running /\ touched' = touched /\ jobs' = jobs /\ minted' = minted /\ alive' = alive /\ clash' = clash
  BY DEF StopDone
<1>2. PICK job \in ending : Answer(job, "stopped")
  BY DEF StopDone
<1>3. /\ job.for \in Ops \cup {"none"}
      /\ job.for # "none" => op[job.for].pc = "main" /\ \A j \in 1..Len(jobs) : jobs[j].for # job.for
  BY <1>0 DEF MachinesKnown, Job
<1>4. /\ OpShape'
      /\ \A p \in Ops : /\ op'[p].kind = op[p].kind /\ op'[p].id = op[p].id /\ op'[p].from = op[p].from
                        /\ op'[p].seen = op[p].seen
                        /\ op'[p].pc = op[p].pc \/ (p = job.for /\ op'[p].pc = "load")
  <2>1. CASE job.for = "none"
    BY <1>0, <1>2, <2>1 DEF OpShape, Answer
  <2>2. CASE job.for # "none"
    <3>1. op' = [op EXCEPT ![job.for].pc = "load", ![job.for].status = "stopped"] /\ job.for \in Ops
      BY <1>2, <1>3, <2>2 DEF Answer
    <3> QED BY <1>0, <3>1 DEF OpShape, OpFields
  <2> QED BY <2>1, <2>2
<1>5. \A p \in Ops : p = job.for => op[p].kind \in {"start", "stop"} /\ op[p].pc = "main"
  BY <1>0, <1>3, VenvAssumption DEF OpTable, OpRow
<1>6. Listed' = Listed
  BY <1>1 DEF Listed
<1>7. OpTable'
  <2> SUFFICES ASSUME NEW p \in Ops PROVE OpRow(p)'
    BY DEF OpTable
  <2>1. OpRow(p)
    BY <1>0 DEF OpTable
  <2> QED BY <1>1, <1>4, <1>5, <2>1 DEF OpRow, CopyPoints
<1>8. JobsAwaited'
  <2>1. ASSUME NEW j \in 1..Len(jobs), jobs[j].for # "none"
        PROVE  op'[jobs[j].for].pc = op[jobs[j].for].pc /\ op'[jobs[j].for].id = op[jobs[j].for].id
               /\ op'[jobs[j].for].kind = op[jobs[j].for].kind
    <3>1. jobs[j] \in Job
      BY <1>0 DEF JobsAwaited
    <3>2. jobs[j].for \in Ops /\ jobs[j].for # job.for
      BY <1>3, <2>1, <3>1 DEF Job
    <3> QED BY <1>4, <3>2
  <2> QED BY <1>0, <1>1, <2>1 DEF JobsAwaited
<1>9. MachinesKnown'
  BY <1>0, <1>1 DEF MachinesKnown, MintedOnce
<1>10. MintedOnce'
  BY <1>0, <1>1, <1>6 DEF MintedOnce
<1>11. ASSUME ~clash' PROVE DisksApart'
  <2>0. NamesApart /\ OpsHold /\ AllUsable /\ RunsSound /\ MachinesApart /\ "mixed" \notin archives
    BY <1>0, <1>1, <1>11 DEF DisksApart
  <2>1. NamesApart' /\ OpsHold' /\ RunsSound'
    BY <1>1, <1>4, <2>0 DEF NamesApart, OpsHold, RunsSound, StopQueued
  <2>2. \A p \in Ops : Copying(p)' <=> Copying(p)
    BY <1>4, <1>5 DEF Copying, CopyPoints
  <2>3. AllUsable'
    BY <1>1, <1>4, <1>6, <2>0, <2>2 DEF AllUsable, Usable
  <2>4. MachinesApart'
    BY <1>1, <1>4, <2>0 DEF MachinesApart, TrayBoots, EndingApart
  <2> QED BY <1>1, <2>0, <2>1, <2>3, <2>4 DEF DisksApart
<1> QED BY <1>4, <1>7, <1>8, <1>9, <1>10, <1>11 DEF DiskInv

\* The tray dispatches a job nobody waits for.
LEMMA TrayKeeps ==
    ASSUME DiskInv, NEW id \in menu, TrayStart(id) \/ TrayStop(id)
    PROVE  DiskInv'
<1>0. OpShape /\ OpTable /\ JobsAwaited /\ MachinesKnown /\ MintedOnce /\ (~clash => DisksApart)
  BY DEF DiskInv
<1>1. /\ registry' = registry /\ disk' = disk /\ archives' = archives /\ op' = op /\ minted' = minted /\ alive' = alive
      /\ running' = running /\ ending' = ending /\ menu' = menu /\ touched' = touched
  BY DEF TrayStart, TrayStop, machineVars
<1>2. id \in minted /\ id \in Ids
  BY <1>0 DEF MachinesKnown, MintedOnce
<1>3. PICK do \in {"boot", "stop"} :
          /\ jobs' = Append(jobs, [do |-> do, id |-> id, for |-> "none"])
          /\ do = "boot" /\ ~clash' => ~clash /\ id \in alive /\ Uses(id) = {}
          /\ do = "stop" => clash' = clash
  BY DEF TrayStart, TrayStop
<1>4. JobAdded(do, id, "none")
  <2>1. jobs \in Seq(Job)
    BY <1>0 DEF JobsAwaited
  <2> QED BY <1>2, <1>3, <2>1, JobAddedIs
<1>5. /\ Len(jobs) \in Nat /\ jobs' \in Seq(Job) /\ Len(jobs') = Len(jobs) + 1
      /\ \A j \in 1..Len(jobs) : jobs'[j] = jobs[j] /\ j \in 1..Len(jobs')
      /\ \A j \in 1..Len(jobs') : \/ j \in 1..Len(jobs) /\ jobs'[j] = jobs[j]
                                  \/ j = Len(jobs) + 1 /\ jobs'[j].do = do /\ jobs'[j].id = id /\ jobs'[j].for = "none"
  <2>1. Len(jobs) \in Nat
    BY <1>0 DEF JobsAwaited
  <2>2. \A j \in 1..Len(jobs') : j \in 1..Len(jobs) \/ j = Len(jobs) + 1
    BY <1>4, <2>1 DEF JobAdded
  <2> QED BY <1>4, <2>1, <2>2 DEF JobAdded
<1>6. OpShape' /\ OpTable' /\ MintedOnce'
  BY <1>0, <1>1 DEF OpShape, OpTable, OpRow, MintedOnce, Listed
<1>7. JobsAwaited' /\ MachinesKnown'
  <2>1. JobsAwaited'
    BY <1>0, <1>1, <1>5 DEF JobsAwaited
  <2>2. MachinesKnown'
    BY <1>0, <1>1, <1>2, <1>5 DEF MachinesKnown
  <2> QED BY <2>1, <2>2
<1>8. ASSUME ~clash' PROVE DisksApart'
  <2>0. NamesApart /\ OpsHold /\ AllUsable /\ RunsSound /\ MachinesApart /\ "mixed" \notin archives
    BY <1>0, <1>3, <1>8 DEF DisksApart
  <2>1. \A y : StopQueued(y) => StopQueued(y)'
    BY <1>5 DEF StopQueued
  <2>2. NamesApart' /\ AllUsable'
    BY <1>1, <2>0 DEF NamesApart, AllUsable, Usable, Copying, Listed
  <2>3. RunsSound'
    BY <1>1, <2>0, <2>1 DEF RunsSound
  <2>4. OpsHold'
    <3> SUFFICES ASSUME NEW p \in Ops
                 PROVE  /\ op[p].kind = "start" => op[p].id \in alive
                        /\ op[p].kind \in {"clone", "export"} => op[p].from \in alive /\ op[p].from \notin running
                        /\ op[p].kind = "delete" /\ op[p].id \in running
                           => \E j \in 1..Len(jobs') : jobs'[j].do = "stop" /\ jobs'[j].id = op[p].id
      BY <1>1 DEF OpsHold, StopQueued
    <3>1. op[p].kind = "delete" /\ op[p].id \in running
          => \E j \in 1..Len(jobs) : jobs[j].do = "stop" /\ jobs[j].id = op[p].id
      BY <2>0 DEF OpsHold, StopQueued
    <3>2. op[p].kind = "delete" /\ op[p].id \in running
          => \E j \in 1..Len(jobs') : jobs'[j].do = "stop" /\ jobs'[j].id = op[p].id
      BY <1>5, <3>1
    <3> QED BY <2>0, <3>2 DEF OpsHold
  <2>5. MachinesApart'
    <3>1. EndingApart' /\ touched' = {}
      BY <1>1, <2>0 DEF MachinesApart, EndingApart
    <3>2. do = "boot" => \A p \in Ops : id \notin {op[p].id, op[p].from}
      <4> SUFFICES ASSUME do = "boot", NEW p \in Ops PROVE id \notin {op[p].id, op[p].from}
        OBVIOUS
      <4>1. p \notin Uses(id) /\ id # "none"
        BY <1>2, <1>3, <1>8, VenvAssumption
      <4>2. CASE op[p].kind = "none"
        BY <1>0, <4>1, <4>2 DEF OpTable, OpRow
      <4>3. CASE op[p].kind # "none"
        BY <4>1, <4>3 DEF Uses, Active
      <4> QED BY <4>2, <4>3
    <3>3. TrayBoots'
      BY <1>1, <1>3, <1>5, <1>8, <2>0, <3>2 DEF MachinesApart, TrayBoots
    <3> QED BY <3>1, <3>3 DEF MachinesApart
  <2> QED BY <1>1, <2>0, <2>2, <2>3, <2>4, <2>5 DEF DisksApart
<1> QED BY <1>6, <1>7, <1>8 DEF DiskInv

\* After a crash there is no command and no machine.
LEMMA CrashKeeps ==
    ASSUME DiskInv, RegistryCrash
    PROVE  DiskInv'
<1>0. MintedOnce /\ (~clash => DisksApart)
  BY DEF DiskInv
<1>1. /\ op' = [o \in Ops |-> NoOp] /\ jobs' = << >> /\ running' = {} /\ registry' = registry /\ disk' = disk
      /\ archives' = archives /\ minted' = minted /\ alive' = alive /\ clash' = clash
      /\ ending' = {} /\ touched' = {} /\ menu' = Listed
  BY DEF RegistryCrash
<1>2. OpShape' /\ \A o \in Ops : op'[o] = NoOp
  BY <1>1 DEF OpShape, OpFields, NoOp
<1>3. Listed' = Listed
  BY <1>1 DEF Listed
<1>4. MintedOnce'
  BY <1>0, <1>1, <1>3 DEF MintedOnce
<1>5. DOMAIN NoOp.seen = {} /\ NoOp.kind = "none" /\ NoOp.pc = "idle" /\ NoOp.id = "none" /\ NoOp.from = "none"
  BY DEF NoOp
<1>6. OpTable'
  BY <1>2, <1>5 DEF OpTable, OpRow, OpKinds, CopyPoints
<1>7. JobsAwaited' /\ MachinesKnown'
  BY <1>0, <1>1 DEF JobsAwaited, MachinesKnown, MintedOnce
<1>8. ASSUME ~clash' PROVE DisksApart'
  <2>0. AllUsable /\ "mixed" \notin archives
    BY <1>0, <1>1, <1>8 DEF DisksApart
  <2>1. \A o \in Ops : ~Copying(o)'
    BY <1>2, <1>5 DEF Copying
  <2>2. NamesApart' /\ OpsHold' /\ RunsSound'
    BY <1>1, <1>2, <1>5 DEF NamesApart, OpsHold, RunsSound
  <2>3. AllUsable'
    BY <1>1, <1>2, <1>3, <1>5, <2>0, <2>1 DEF AllUsable, Usable
  <2>4. MachinesApart'
    BY <1>1 DEF MachinesApart, TrayBoots, EndingApart
  <2> QED BY <1>1, <2>0, <2>2, <2>3, <2>4 DEF DisksApart
<1> QED BY <1>2, <1>4, <1>6, <1>7, <1>8 DEF DiskInv

\* Every step keeps the invariant.
LEMMA DiskStep == DiskInv /\ [RegistryNext]_registryVars => DiskInv'
<1> SUFFICES ASSUME DiskInv, [RegistryNext]_registryVars PROVE DiskInv'
  OBVIOUS
<1>0. JobsAwaited /\ MintedOnce /\ OpShape
  BY DEF DiskInv
<1>1. CASE UNCHANGED registryVars
  <2>1. /\ registry' = registry /\ disk' = disk /\ archives' = archives /\ running' = running /\ jobs' = jobs
        /\ op' = op /\ minted' = minted /\ alive' = alive /\ clash' = clash
        /\ ending' = ending /\ menu' = menu /\ touched' = touched
    BY <1>1 DEF registryVars
  <2>2. OpShape' /\ OpTable' /\ JobsAwaited' /\ MachinesKnown' /\ MintedOnce'
    BY <2>1 DEF DiskInv, OpShape, OpTable, OpRow, JobsAwaited, MachinesKnown, MintedOnce, Listed
  <2>3. ASSUME ~clash' PROVE DisksApart'
    <3>1. DisksApart
      BY <2>1, <2>3 DEF DiskInv
    <3>2. NamesApart' /\ OpsHold' /\ RunsSound'
      BY <2>1, <3>1 DEF DisksApart, NamesApart, OpsHold, RunsSound, StopQueued
    <3>3. AllUsable'
      BY <2>1, <3>1 DEF DisksApart, AllUsable, Usable, Copying, Listed
    <3>4. MachinesApart'
      BY <2>1, <3>1 DEF DisksApart, MachinesApart, TrayBoots, EndingApart
    <3> QED BY <2>1, <3>1, <3>2, <3>3, <3>4 DEF DisksApart
  <2> QED BY <2>2, <2>3 DEF DiskInv
<1>2. ASSUME NEW o \in Ops, CreateVenv(o) \/ ImportVenv(o) PROVE DiskInv'
  <2>1. jobs' = jobs
    BY <1>2 DEF CreateVenv, ImportVenv
  <2>2. PICK id \in Fresh : Issue(o, "create", id, "none", "load") \/ Issue(o, "import", id, "none", "copy")
    BY <1>2 DEF CreateVenv, ImportVenv
  <2>3. CASE Issue(o, "create", id, "none", "load")
    BY <2>1, <2>3, IssueKeeps DEF OpKinds
  <2>4. CASE Issue(o, "import", id, "none", "copy")
    BY <2>1, <2>4, IssueKeeps DEF OpKinds
  <2> QED BY <2>2, <2>3, <2>4
<1>3. ASSUME NEW o \in Ops, NEW id \in alive, RenameVenv(o, id) \/ StartVenv(o, id) PROVE DiskInv'
  <2>1. jobs' = jobs /\ (Issue(o, "rename", id, "none", "load") \/ Issue(o, "start", id, "none", "load"))
    BY <1>3 DEF RenameVenv, StartVenv
  <2>2. CASE Issue(o, "rename", id, "none", "load")
    BY <2>1, <2>2, IssueKeeps DEF OpKinds
  <2>3. CASE Issue(o, "start", id, "none", "load")
    BY <2>1, <2>3, IssueKeeps DEF OpKinds
  <2> QED BY <2>1, <2>2, <2>3
<1>4. ASSUME NEW o \in Ops, NEW id \in alive, CloneVenv(o, id) \/ ExportVenv(o, id) PROVE DiskInv'
  <2>1. jobs' = jobs /\ id \in alive \ running
    BY <1>4 DEF CloneVenv, ExportVenv
  <2>2. CASE CloneVenv(o, id)
    <3>1. PICK new \in Fresh : Issue(o, "clone", new, id, "look")
      BY <2>2 DEF CloneVenv
    <3> QED BY <2>1, <3>1, IssueKeeps DEF OpKinds
  <2>3. CASE ExportVenv(o, id)
    <3>1. Issue(o, "export", "none", id, "look")
      BY <2>3 DEF ExportVenv
    <3> QED BY <2>1, <3>1, IssueKeeps DEF OpKinds
  <2> QED BY <1>4, <2>2, <2>3
<1>5. ASSUME NEW o \in Ops, NEW id \in alive, StopVenv(o, id) PROVE DiskInv'
  <2>1. Issue(o, "stop", id, "none", "main") /\ jobs' = Append(jobs, [do |-> "stop", id |-> id, for |-> o])
    BY <1>5 DEF StopVenv
  <2>2. JobAdded("stop", id, o)
    <3>1. id \in Ids /\ jobs \in Seq(Job)
      BY <1>0 DEF MintedOnce, JobsAwaited
    <3> QED BY <2>1, <3>1, JobAddedIs
  <2> QED BY <2>1, <2>2, IssueKeeps DEF OpKinds
<1>6. ASSUME NEW o \in Ops, NEW id \in alive, DeleteVenv(o, id) PROVE DiskInv'
  <2>1. Issue(o, "delete", id, "none", "load") /\ jobs' = jobs \o StopFirst(id)
    BY <1>6 DEF DeleteVenv
  <2>2. id \in Ids /\ jobs \in Seq(Job)
    BY <1>0 DEF MintedOnce, JobsAwaited
  <2>3. CASE id \in running
    <3> DEFINE J == [do |-> "stop", id |-> id, for |-> "none"]
    <3>1. jobs' = jobs \o <<J>> /\ J \in Job
      BY <2>1, <2>2, <2>3 DEF StopFirst, Job
    <3> HIDE DEF J
    <3>2. jobs' = Append(jobs, J)
      BY <2>2, <3>1
    <3>3. JobAdded("stop", id, "none")
      BY <2>2, <3>2, JobAddedIs DEF J
    <3>4. o # "none"
      BY VenvAssumption
    <3> QED BY <2>1, <3>3, <3>4, IssueKeeps DEF OpKinds
  <2>4. CASE id \notin running
    <3>1. jobs' = jobs
      BY <2>1, <2>2, <2>4 DEF StopFirst
    <3> QED BY <2>1, <2>4, <3>1, IssueKeeps DEF OpKinds
  <2> QED BY <2>3, <2>4
<1>7. ASSUME NEW o \in Ops, Load(o) \/ SaveBegin(o) \/ SaveFails(o) \/ Look(o) \/ CopyFails(o) PROVE DiskInv'
  BY <1>7, QuietMoves
<1>8. ASSUME NEW o \in Ops, SaveEnd(o) \/ RemoveDir(o) \/ CopyBegin(o) \/ CopyEnd(o) PROVE DiskInv'
  BY <1>8, SaveEnds, RemoveKeeps, CopyBegins, CopyEnds
<1>9. ASSUME BootJob \/ StopJob \/ StopDone \/ RegistryCrash PROVE DiskInv'
  BY <1>9, JobDone, StopEnds, CrashKeeps
<1>10. ASSUME NEW id \in menu, TrayStart(id) \/ TrayStop(id) PROVE DiskInv'
  BY <1>10, TrayKeeps
<1> QED BY <1>1, <1>2, <1>3, <1>4, <1>5, <1>6, <1>7, <1>8, <1>9, <1>10 DEF RegistryNext

\* Unless two commands, the tray's included, work on one environment, or one copies
\* a disk whose machine is still ending (stop_vm takes it out of running_venvs
\* before): a machine that runs belongs to an environment that has its disk, or its
\* stop is queued; what is listed has its disk complete (a clone may be without the
\* files beside it, as clone_venv ignores errors there); and an archive is never
\* made of a disk in use.  For any number of environments and of commands at a
\* time, whatever fails or crashes.
THEOREM DisksStaySound == RegistrySpec => []DisksSound
<1>1. RegistryInit => DiskInv
  <2> SUFFICES ASSUME RegistryInit PROVE DiskInv
    OBVIOUS
  <2>1. /\ registry = [id \in First |-> "stopped"] /\ disk = [id \in Ids |-> IF id \in First THEN "whole" ELSE "none"]
        /\ archives = {} /\ running = {} /\ jobs = << >> /\ op = [o \in Ops |-> NoOp] /\ minted = First /\ alive = First
        /\ ending = {} /\ menu = First /\ touched = {}
    BY DEF RegistryInit
  <2>2. OpShape
    BY <2>1 DEF OpShape, OpFields, NoOp
  <2>3. DOMAIN NoOp.seen = {} /\ NoOp.kind = "none" /\ NoOp.pc = "idle" /\ NoOp.id = "none" /\ NoOp.from = "none"
    BY DEF NoOp
  <2>4. OpTable
    BY <2>1, <2>3 DEF OpTable, OpRow, OpKinds, CopyPoints
  <2>5. JobsAwaited /\ MachinesKnown /\ MachinesApart
    BY <2>1 DEF JobsAwaited, MachinesKnown, MachinesApart, TrayBoots, EndingApart
  <2>6. Listed \subseteq First
    BY <2>1 DEF Listed
  <2>7. MintedOnce
    BY <2>1, <2>6, VenvAssumption DEF MintedOnce
  <2>8. \A o \in Ops : ~Copying(o)
    BY <2>1, <2>3 DEF Copying
  <2>9. NamesApart /\ OpsHold /\ RunsSound
    BY <2>1, <2>3 DEF NamesApart, OpsHold, RunsSound
  <2>10. AllUsable
    BY <2>1, <2>3, <2>6, <2>8, VenvAssumption DEF AllUsable, Usable, Complete
  <2> QED BY <2>1, <2>2, <2>4, <2>5, <2>7, <2>9, <2>10 DEF DiskInv, DisksApart
<1>2. DiskInv => DisksSound
  <2> SUFFICES ASSUME DiskInv, ~clash PROVE DisksSound
    BY DEF DisksSound
  <2>1. RunsSound /\ AllUsable /\ "mixed" \notin archives /\ JobsAwaited
    BY DEF DiskInv, DisksApart
  <2>2. DOMAIN jobs = 1..Len(jobs)
    BY <2>1 DEF JobsAwaited
  <2>3. \A id \in running : \/ id \in alive /\ disk[id] \in Complete
                            \/ \E j \in DOMAIN jobs : jobs[j].do = "stop" /\ jobs[j].id = id
    BY <2>1, <2>2 DEF RunsSound, StopQueued
  <2>4. \A id \in Listed : disk[id] \in Complete
    BY <2>1 DEF AllUsable, Usable
  <2> QED BY <2>1, <2>3, <2>4 DEF DisksSound
<1> QED BY <1>1, <1>2, DiskStep, PTL DEF RegistrySpec

------------------------------------------------------------------------------
(* The cloud.                                                              *)

FileFields == {"key", "auto", "last"}
TaskFields == {"kind", "pc", "access", "refresh", "conf", "data"}

CloudShape ==
    /\ DOMAIN file = FileFields /\ DOMAIN keychain = {"access", "refresh", "key"}
    /\ DOMAIN signed = {"signedIn", "auto"} /\ keys \in Nat
    /\ DOMAIN task = Tasks /\ \A t \in Tasks : DOMAIN task[t] = TaskFields /\ DOMAIN task[t].conf = FileFields

\* The user is signed in as asked; what a task renews is not missing.
SignedAsAsked ==
    /\ \A t \in Tasks : task[t].pc = "refresh" => task[t].access # "none"
    /\ ~stale => /\ signed.signedIn = IF keychain.access = "none" THEN FALSE ELSE TRUE
                 /\ file.auto = signed.auto

KeyPoints == {"archive", "archiving", "read", "upload", "confirm", "download"}

\* There is one key, the one in the keychain: the file and the tasks have it or none,
\* a task that works on an archive has it, a record was made with it, and a key is
\* made only when there is none, by one task.
OneKey ==
    /\ file.key \in {NoKey, keychain.key}
    /\ \A t \in Tasks : task[t].pc # "savekey" => task[t].conf.key \in {NoKey, keychain.key}
    /\ \A t \in Tasks : task[t].pc = "savekey" => keychain.key = NoKey /\ task[t].conf.key # NoKey
    /\ \A t, u \in Tasks : task[t].pc = "savekey" /\ task[u].pc = "savekey" => t = u
    /\ \A t \in Tasks : task[t].pc \in KeyPoints => task[t].conf.key = keychain.key /\ keychain.key # NoKey
    /\ \A s \in snaps : s.key = keychain.key /\ s.key # NoKey

\* What is archived, uploaded and recorded is whole.
ArchiveWhole ==
    /\ tmp \in {"none", "whole"}
    /\ \A t \in Tasks : task[t].pc \in {"upload", "confirm"} => task[t].data = "whole"
    /\ \A s \in snaps : s.whole = TRUE

CloudInv ==
    /\ CloudShape /\ SignedAsAsked
    /\ ~twice /\ ~lost => OneKey
    /\ ~shared => ArchiveWhole

\* A command works on the configuration as it is, or returns.
LEMMA NoTaskIs ==
    /\ DOMAIN NoTask = TaskFields /\ DOMAIN NoTask.conf = FileFields /\ NoTask.pc = "idle" /\ NoTask.conf.key = NoKey
    /\ DOMAIN DefaultFile = FileFields /\ DefaultFile.key = NoKey /\ DefaultFile.auto = FALSE
  BY DEF NoTask, DefaultFile, TaskFields, FileFields, NoKey

LEMMA EndEffect ==
    ASSUME CloudShape, NEW t \in Tasks, End(t)
    PROVE  DOMAIN task' = Tasks /\ task'[t] = NoTask /\ \A u \in Tasks \ {t} : task'[u] = task[u]
  BY DEF CloudShape, End

LEMMA StepEffect ==
    ASSUME CloudShape, NEW t \in Tasks, NEW pc, Step(t, pc)
    PROVE  /\ DOMAIN task' = Tasks /\ DOMAIN task'[t] = TaskFields /\ \A u \in Tasks \ {t} : task'[u] = task[u]
           /\ task'[t].pc = pc /\ task'[t].conf = task[t].conf /\ task'[t].data = task[t].data
           /\ task'[t].access = task[t].access
  BY DEF CloudShape, Step, TaskFields

\* A step of one task that touches neither the configuration nor the records.
LEMMA TaskMoves ==
    ASSUME CloudInv, NEW t \in Tasks,
           UNCHANGED <<file, keychain, signed, keys, snaps, stale, twice, lost>>,
           ~shared' => ~shared /\ (tmp = "whole" \/ tmp = "none" => tmp' \in {"none", "whole"}),
           DOMAIN task' = Tasks, \A u \in Tasks \ {t} : task'[u] = task[u],
           DOMAIN task'[t] = TaskFields, DOMAIN task'[t].conf = FileFields,
           task'[t].pc = "refresh" => task'[t].access # "none",
           task'[t].pc # "savekey",
           OneKey => task'[t].conf.key \in {NoKey, keychain.key},
           OneKey /\ task'[t].pc \in KeyPoints => task'[t].conf.key = keychain.key /\ keychain.key # NoKey,
           ArchiveWhole /\ ~shared' /\ task'[t].pc \in {"upload", "confirm"} => task'[t].data = "whole"
    PROVE  CloudInv'
<1>1. CloudShape' /\ SignedAsAsked'
  BY DEF CloudInv, CloudShape, SignedAsAsked
<1>2. ~twice' /\ ~lost' => OneKey'
  BY DEF CloudInv, OneKey
<1>3. ~shared' => ArchiveWhole'
  BY DEF CloudInv, ArchiveWhole
<1> QED BY <1>1, <1>2, <1>3 DEF CloudInv

\* Every step keeps the invariant.
LEMMA CloudStep == CloudInv /\ [CloudNext]_cloudVars => CloudInv'
<1> SUFFICES ASSUME CloudInv, [CloudNext]_cloudVars PROVE CloudInv'
  OBVIOUS
<1>0. CloudShape /\ SignedAsAsked /\ (~twice /\ ~lost => OneKey) /\ (~shared => ArchiveWhole)
  BY DEF CloudInv
<1>1. CASE UNCHANGED cloudVars \/ Tick
  <2>1. UNCHANGED <<file, keychain, task, tmp, snaps, keys, signed, stale, shared, twice, lost>>
    BY <1>1 DEF cloudVars, Tick
  <2> QED BY <2>1 DEF CloudInv, CloudShape, SignedAsAsked, OneKey, ArchiveWhole
<1>2. CASE Connect
  <2>1. UNCHANGED <<file, task, tmp, snaps, keys, stale, shared, twice, lost>>
    BY <1>2 DEF Connect
  <2>2. PICK refresh \in BOOLEAN : keychain' = [keychain EXCEPT !.access = "fresh", !.refresh = @ \/ refresh]
    BY <1>2 DEF Connect
  <2>3. DOMAIN keychain' = {"access", "refresh", "key"} /\ keychain'.access = "fresh" /\ keychain'.key = keychain.key
    BY <1>0, <2>2 DEF CloudShape
  <2>4. DOMAIN signed' = {"signedIn", "auto"} /\ signed'.signedIn = TRUE /\ signed'.auto = signed.auto
    BY <1>0, <1>2 DEF Connect, CloudShape
  <2>5. CloudShape' /\ SignedAsAsked'
    BY <1>0, <2>1, <2>3, <2>4 DEF CloudShape, SignedAsAsked
  <2> QED BY <1>0, <2>1, <2>3, <2>5 DEF CloudInv, OneKey, ArchiveWhole
<1>3. CASE Disconnect
  <2>1. UNCHANGED <<task, tmp, snaps, keys, stale, shared, twice, lost>> /\ file' = DefaultFile
    BY <1>3 DEF Disconnect
  <2>2. DOMAIN keychain' = {"access", "refresh", "key"} /\ keychain'.access = "none" /\ keychain'.key = keychain.key
    BY <1>0, <1>3 DEF Disconnect, SignedOut, CloudShape
  <2>3. DOMAIN signed' = {"signedIn", "auto"} /\ signed'.signedIn = FALSE /\ signed'.auto = FALSE
    BY <1>3 DEF Disconnect
  <2>4. CloudShape' /\ SignedAsAsked'
    BY <1>0, <2>1, <2>2, <2>3, NoTaskIs DEF CloudShape, SignedAsAsked
  <2> QED BY <1>0, <2>1, <2>2, <2>4, NoTaskIs DEF CloudInv, OneKey, ArchiveWhole
<1>4. ASSUME NEW on \in BOOLEAN, SetAutoSync(on) PROVE CloudInv'
  <2>1. UNCHANGED <<keychain, task, tmp, snaps, keys, stale, shared, twice, lost>>
    BY <1>4 DEF SetAutoSync
  <2>2. /\ DOMAIN file' = FileFields /\ file'.auto = on /\ file'.key = file.key
        /\ DOMAIN signed' = {"signedIn", "auto"} /\ signed'.signedIn = signed.signedIn /\ signed'.auto = on
    BY <1>0, <1>4 DEF SetAutoSync, CloudShape, FileFields
  <2>3. CloudShape' /\ SignedAsAsked'
    BY <1>0, <2>1, <2>2 DEF CloudShape, SignedAsAsked
  <2> QED BY <1>0, <2>1, <2>2, <2>3 DEF CloudInv, OneKey, ArchiveWhole
<1>5. CASE BackupKey
  <2>1. UNCHANGED <<file, task, tmp, snaps, keys, signed, stale, shared, twice, lost>>
    BY <1>5 DEF BackupKey
  <2>2. /\ DOMAIN keychain' = {"access", "refresh", "key"} /\ keychain'.access = keychain.access
        /\ keychain'.key = file.key /\ file.key # NoKey /\ keychain.key # file.key
    BY <1>0, <1>5 DEF BackupKey, CloudShape
  <2>3. CloudShape' /\ SignedAsAsked'
    BY <1>0, <2>1, <2>2 DEF CloudShape, SignedAsAsked
  <2>4. ~OneKey
    BY <2>2 DEF OneKey
  <2> QED BY <1>0, <2>1, <2>3, <2>4 DEF CloudInv, ArchiveWhole
<1>6. CASE Expire
  <2>1. UNCHANGED <<file, task, tmp, snaps, keys, signed, stale, shared, twice, lost>> /\ keychain.access = "fresh"
    BY <1>6 DEF Expire
  <2>2. DOMAIN keychain' = {"access", "refresh", "key"} /\ keychain'.access = "expired" /\ keychain'.key = keychain.key
    BY <1>0, <1>6 DEF Expire, CloudShape
  <2>3. CloudShape' /\ SignedAsAsked'
    BY <1>0, <2>1, <2>2 DEF CloudShape, SignedAsAsked
  <2> QED BY <1>0, <2>1, <2>2, <2>3 DEF CloudInv, OneKey, ArchiveWhole
<1>7. CASE CloudCrash
  <2>1. /\ UNCHANGED <<keychain, tmp, snaps, keys, stale, shared, twice, lost>>
        /\ task' = [t \in Tasks |-> NoTask] /\ file' \in {file, DefaultFile}
    BY <1>7 DEF CloudCrash
  <2>2. DOMAIN signed' = {"signedIn", "auto"} /\ signed'.signedIn = signed.signedIn /\ signed'.auto = file'.auto
    BY <1>0, <1>7 DEF CloudCrash, CloudShape
  <2>3. CloudShape' /\ SignedAsAsked'
    BY <1>0, <2>1, <2>2, NoTaskIs DEF CloudShape, SignedAsAsked
  <2>4. ~twice' /\ ~lost' => OneKey'
    BY <1>0, <2>1, NoTaskIs DEF OneKey, KeyPoints
  <2>5. ~shared' => ArchiveWhole'
    BY <1>0, <2>1, NoTaskIs DEF ArchiveWhole
  <2> QED BY <2>3, <2>4, <2>5 DEF CloudInv
<1>21. CASE StartMachine \/ StopMachine
  <2>1. UNCHANGED <<file, keychain, task, tmp, snaps, keys, signed, stale, twice, lost>>
    BY <1>21 DEF StartMachine, StopMachine
  <2>2. ~shared' => ~shared
    <3>1. CASE StartMachine
      <4>1. shared' = (shared \/ \E t \in Tasks : task[t].pc = "archiving")
        BY <3>1 DEF StartMachine
      <4> QED BY <4>1
    <3>2. CASE StopMachine
      BY <3>2 DEF StopMachine
    <3> QED BY <1>21, <3>1, <3>2
  <2>3. CloudShape' /\ SignedAsAsked'
    BY <1>0, <2>1 DEF CloudShape, SignedAsAsked
  <2> QED BY <1>0, <2>1, <2>2, <2>3 DEF CloudInv, OneKey, ArchiveWhole
<1>8. ASSUME NEW t \in Tasks, NEW kind,
             task' = [task EXCEPT ![t] = Loaded(kind)],
             UNCHANGED <<file, keychain, tmp, snaps, keys, signed, stale, shared, twice, lost>>
      PROVE  CloudInv'
  <2>1. /\ DOMAIN Loaded(kind) = TaskFields /\ Loaded(kind).pc = "token" /\ Loaded(kind).conf = file
    BY NoTaskIs DEF Loaded, TaskFields
  <2>2. DOMAIN task' = Tasks /\ task'[t] = Loaded(kind) /\ \A u \in Tasks \ {t} : task'[u] = task[u]
    BY <1>0, <1>8 DEF CloudShape
  <2>3. DOMAIN task'[t] = TaskFields /\ task'[t].pc = "token" /\ task'[t].conf = file
    BY <2>1, <2>2
  <2>4. DOMAIN file = FileFields /\ (OneKey => file.key \in {NoKey, keychain.key}) /\ "token" \notin KeyPoints
    BY <1>0 DEF CloudShape, OneKey, KeyPoints
  <2> QED BY <1>8, <2>2, <2>3, <2>4, TaskMoves
<1>9. CASE AutoSync \/ \E u \in Users, kind \in {"sync", "restore", "call"} : Command(u, kind)
  <2>1. \E t \in Tasks : \E kind : task' = [task EXCEPT ![t] = Loaded(kind)]
    BY <1>9 DEF AutoSync, Command, Tasks
  <2>2. UNCHANGED <<file, keychain, tmp, snaps, keys, signed, stale, shared, twice, lost>>
    BY <1>9 DEF AutoSync, Command
  <2> QED BY <1>8, <2>1, <2>2
<1>10. ASSUME NEW t \in Tasks, End(t),
              UNCHANGED <<file, keychain, snaps, keys, signed, stale, shared, twice, lost>>, tmp' \in {tmp, "none"}
       PROVE  CloudInv'
  <2>1. DOMAIN task' = Tasks /\ task'[t] = NoTask /\ \A u \in Tasks \ {t} : task'[u] = task[u]
    BY <1>0, <1>10, EndEffect
  <2>2. "idle" \notin KeyPoints
    BY DEF KeyPoints
  <2> QED BY <1>10, <2>1, <2>2, NoTaskIs, TaskMoves
<1>11. ASSUME NEW t \in Tasks, Token(t) PROVE CloudInv'
  <2>1. UNCHANGED <<file, keychain, tmp, snaps, keys, signed, stale, shared, twice, lost>> /\ task[t].pc = "token"
    BY <1>11 DEF Token
  <2>2. End(t) \/ Step(t, "key") \/ (Step(t, "refresh") /\ task[t].access # "none")
    BY <1>11 DEF Token, Use
  <2>3. CASE End(t)
    BY <1>10, <2>1, <2>3
  <2>4. ASSUME NEW pc \in {"key", "refresh"}, Step(t, pc), pc = "refresh" => task[t].access # "none" PROVE CloudInv'
    <3>1. /\ DOMAIN task' = Tasks /\ DOMAIN task'[t] = TaskFields /\ \A u \in Tasks \ {t} : task'[u] = task[u]
          /\ task'[t].pc = pc /\ task'[t].conf = task[t].conf /\ task'[t].access = task[t].access
      BY <1>0, <2>4, StepEffect
    <3>2. DOMAIN task[t].conf = FileFields /\ (OneKey => task[t].conf.key \in {NoKey, keychain.key}) /\ pc \notin KeyPoints
      BY <1>0, <2>1, <2>4 DEF CloudShape, OneKey, KeyPoints
    <3> QED BY <2>1, <2>4, <3>1, <3>2, TaskMoves
  <2> QED BY <2>2, <2>3, <2>4
<1>12. ASSUME NEW t \in Tasks, Fails(t) \/ UploadFails(t) \/ Download(t) PROVE CloudInv'
  BY <1>10, <1>12 DEF Fails, UploadFails, UploadError, Download
<1>13. ASSUME NEW t \in Tasks, ArchiveBegin(t) \/ Upload(t) PROVE CloudInv'
  <2>1. /\ UNCHANGED <<file, keychain, tmp, snaps, keys, signed, stale, twice, lost>> /\ (~shared' => ~shared)
        /\ task[t].pc \in KeyPoints
        /\ Step(t, "archiving") \/ (Step(t, "confirm") /\ task[t].pc = "upload")
    <3>1. CASE ArchiveBegin(t)
      <4>1. shared' = (shared \/ Archiving # {} \/ machine # "stopped")
        BY <3>1 DEF ArchiveBegin
      <4>2. ~shared' => ~shared
        BY <4>1
      <4> QED BY <3>1, <4>2 DEF ArchiveBegin, KeyPoints
    <3>2. CASE Upload(t)
      BY <3>2 DEF Upload, KeyPoints
    <3> QED BY <1>13, <3>1, <3>2
  <2>2. /\ DOMAIN task' = Tasks /\ DOMAIN task'[t] = TaskFields /\ \A u \in Tasks \ {t} : task'[u] = task[u]
        /\ task'[t].conf = task[t].conf /\ task'[t].data = task[t].data
        /\ task'[t].pc = "archiving" \/ (task'[t].pc = "confirm" /\ task[t].pc = "upload")
    BY <1>0, <2>1, StepEffect
  <2>3. /\ DOMAIN task[t].conf = FileFields
        /\ OneKey => task[t].conf.key = keychain.key /\ keychain.key # NoKey
        /\ ArchiveWhole /\ task[t].pc = "upload" => task[t].data = "whole"
    BY <1>0, <2>1 DEF CloudShape, OneKey, ArchiveWhole
  <2> QED BY <2>1, <2>2, <2>3, TaskMoves
<1>14. ASSUME NEW t \in Tasks, ArchiveEnd(t) PROVE CloudInv'
  <2>1. /\ UNCHANGED <<file, keychain, snaps, keys, signed, stale, shared, twice, lost>> /\ task[t].pc = "archiving"
        /\ \/ Step(t, "read") /\ (~shared => tmp' = "whole")
           \/ End(t) /\ UNCHANGED tmp
    BY <1>14 DEF ArchiveEnd
  <2>2. CASE End(t) /\ UNCHANGED tmp
    BY <1>10, <2>1, <2>2
  <2>3. CASE Step(t, "read") /\ (~shared => tmp' = "whole")
    <3>1. /\ DOMAIN task' = Tasks /\ DOMAIN task'[t] = TaskFields /\ \A u \in Tasks \ {t} : task'[u] = task[u]
          /\ task'[t].conf = task[t].conf /\ task'[t].pc = "read"
      BY <1>0, <2>3, StepEffect
    <3>2. DOMAIN task[t].conf = FileFields /\ (OneKey => task[t].conf.key = keychain.key /\ keychain.key # NoKey)
      BY <1>0, <2>1 DEF CloudShape, OneKey, KeyPoints
    <3> QED BY <2>1, <2>3, <3>1, <3>2, TaskMoves
  <2> QED BY <2>1, <2>2, <2>3
<1>15. ASSUME NEW t \in Tasks, Encrypt(t) PROVE CloudInv'
  <2>1. /\ UNCHANGED <<file, keychain, snaps, keys, signed, stale, shared, twice, lost>> /\ task[t].pc = "read"
        /\ tmp' = "none"
        /\ IF tmp = "none" THEN End(t) ELSE task' = [task EXCEPT ![t].pc = "upload", ![t].data = tmp]
    BY <1>15 DEF Encrypt
  <2>2. CASE tmp = "none"
    BY <1>10, <2>1, <2>2
  <2>3. CASE tmp # "none"
    <3>1. /\ DOMAIN task' = Tasks /\ DOMAIN task'[t] = TaskFields /\ \A u \in Tasks \ {t} : task'[u] = task[u]
          /\ task'[t].conf = task[t].conf /\ task'[t].pc = "upload" /\ task'[t].data = tmp
      BY <1>0, <2>1, <2>3 DEF CloudShape, TaskFields
    <3>2. DOMAIN task[t].conf = FileFields /\ (OneKey => task[t].conf.key = keychain.key /\ keychain.key # NoKey)
      BY <1>0, <2>1 DEF CloudShape, OneKey, KeyPoints
    <3>3. ArchiveWhole => tmp = "whole"
      BY <2>3 DEF ArchiveWhole
    <3> QED BY <2>1, <2>3, <3>1, <3>2, <3>3, TaskMoves
  <2> QED BY <2>2, <2>3
<1>16. ASSUME NEW t \in Tasks, Confirm(t) \/ ConfirmLost(t) PROVE CloudInv'
  <2>1. /\ UNCHANGED <<keychain, tmp, keys, signed, stale, shared, twice, lost>> /\ task[t].pc = "confirm"
        /\ End(t) /\ snaps' = snaps \cup {Record(t)}
    BY <1>16 DEF Confirm, ConfirmLost
  <2>2. DOMAIN file' = FileFields /\ file'.key = file.key /\ file'.auto = file.auto
    BY <1>0, <1>16 DEF Confirm, ConfirmLost, CloudShape, FileFields
  <2>3. DOMAIN task' = Tasks /\ task'[t] = NoTask /\ \A u \in Tasks \ {t} : task'[u] = task[u]
    BY <1>0, <2>1, EndEffect
  <2>4. CloudShape' /\ SignedAsAsked'
    BY <1>0, <2>1, <2>2, <2>3, NoTaskIs, ZenonT(60) DEF CloudShape, SignedAsAsked
  <2>5. ~twice' /\ ~lost' => OneKey'
    <3> SUFFICES ASSUME OneKey PROVE OneKey'
      BY <1>0, <2>1
    <3>1. Record(t).key = keychain.key /\ keychain.key # NoKey
      BY <2>1 DEF Record, OneKey, KeyPoints
    <3>2. \A s \in snaps' : s.key = keychain.key /\ s.key # NoKey
      BY <2>1, <3>1 DEF OneKey
    <3> QED BY <2>1, <2>2, <2>3, <3>2, NoTaskIs DEF OneKey, KeyPoints
  <2>6. ~shared' => ArchiveWhole'
    <3> SUFFICES ASSUME ArchiveWhole PROVE ArchiveWhole'
      BY <1>0, <2>1
    <3>1. task[t].data = "whole"
      BY <2>1 DEF ArchiveWhole
    <3>2. Record(t).whole = TRUE
      BY <3>1 DEF Record
    <3>3. \A s \in snaps' : s.whole = TRUE
      BY <2>1, <3>2 DEF ArchiveWhole
    <3> QED BY <2>1, <2>3, <3>3, NoTaskIs DEF ArchiveWhole
  <2> QED BY <2>4, <2>5, <2>6 DEF CloudInv
<1>17. ASSUME NEW t \in Tasks, Refreshed(t) PROVE CloudInv'
  <2>1. /\ UNCHANGED <<tmp, snaps, keys, signed, shared, twice, lost>> /\ task[t].pc = "refresh"
        /\ file' = task[t].conf /\ (~stale' => ~stale /\ file' = file /\ task[t].access = keychain.access)
    BY <1>17 DEF Refreshed, Overwrites
  <2>2. DOMAIN keychain' = {"access", "refresh", "key"} /\ keychain'.access = "fresh" /\ keychain'.key = keychain.key
    BY <1>0, <1>17 DEF Refreshed, CloudShape
  <2>3. /\ DOMAIN task' = Tasks /\ \A u \in Tasks \ {t} : task'[u] = task[u]
        /\ DOMAIN task'[t] = TaskFields /\ DOMAIN task'[t].conf = FileFields /\ task'[t].pc \in {"idle", "key"}
        /\ task'[t].conf.key \in {NoKey, task[t].conf.key}
    <3>1. CASE task[t].kind = "call"
      <4>1. task' = [task EXCEPT ![t] = NoTask]
        BY <1>17, <3>1 DEF Refreshed
      <4> QED BY <1>0, <4>1, NoTaskIs DEF CloudShape
    <3>2. CASE task[t].kind # "call"
      <4>1. task' = [task EXCEPT ![t] = [task[t] EXCEPT !.pc = "key", !.access = "fresh"]]
        BY <1>17, <3>2 DEF Refreshed
      <4> QED BY <1>0, <4>1 DEF CloudShape, TaskFields
    <3> QED BY <3>1, <3>2
  <2>4. CloudShape'
    BY <1>0, <2>1, <2>2, <2>3 DEF CloudShape
  <2>5. SignedAsAsked'
    BY <1>0, <2>1, <2>2, <2>3 DEF SignedAsAsked
  <2>6. ~twice' /\ ~lost' => OneKey'
    BY <1>0, <2>1, <2>2, <2>3 DEF OneKey, KeyPoints
  <2>7. ~shared' => ArchiveWhole'
    BY <1>0, <2>1, <2>3 DEF ArchiveWhole
  <2> QED BY <2>4, <2>5, <2>6, <2>7 DEF CloudInv
<1>18. ASSUME NEW t \in Tasks, FindKey(t) PROVE CloudInv'
  <2> DEFINE conf == [task[t].conf EXCEPT !.key = Recover(task[t].conf)]
  <2>1. /\ UNCHANGED <<tmp, snaps, keys, signed, shared, twice, lost>> /\ task[t].pc = "key"
        /\ Recover(task[t].conf) # NoKey /\ task' = [task EXCEPT ![t].pc = After(t), ![t].conf = conf]
        /\ IF task[t].conf.key # NoKey THEN UNCHANGED <<file, keychain, stale>>
           ELSE /\ file' = conf /\ stale' = (stale \/ Overwrites(t))
                /\ keychain' = [keychain EXCEPT !.access = task[t].access, !.refresh = @ \/ task[t].refresh]
    BY <1>18 DEF FindKey
  <2>2. /\ DOMAIN conf = FileFields /\ conf.key = Recover(task[t].conf) /\ conf.auto = task[t].conf.auto
    BY <1>0 DEF CloudShape, FileFields
  <2> HIDE DEF conf
  <2>3. /\ DOMAIN task' = Tasks /\ \A u \in Tasks \ {t} : task'[u] = task[u]
        /\ DOMAIN task'[t] = TaskFields /\ task'[t].conf = conf /\ task'[t].pc = After(t)
    BY <1>0, <2>1 DEF CloudShape, TaskFields
  <2>4. After(t) \in {"archive", "download"}
    BY DEF After
  <2>5. DOMAIN keychain' = {"access", "refresh", "key"} /\ keychain'.key = keychain.key
    BY <1>0, <2>1 DEF CloudShape
  <2>6. /\ DOMAIN file' = FileFields /\ (OneKey => file'.key \in {NoKey, keychain.key})
        /\ OneKey => conf.key = keychain.key /\ keychain.key # NoKey
    <3>1. OneKey => conf.key = keychain.key /\ keychain.key # NoKey
      BY <2>1, <2>2 DEF OneKey, Recover
    <3> QED BY <1>0, <2>1, <2>2, <3>1 DEF CloudShape, OneKey
  <2>7. ~stale' => ~stale /\ keychain'.access = keychain.access /\ file'.auto = file.auto
    BY <1>0, <2>1, <2>2 DEF Overwrites, CloudShape
  <2>8. CloudShape' /\ SignedAsAsked'
    BY <1>0, <2>1, <2>2, <2>3, <2>4, <2>5, <2>6, <2>7 DEF CloudShape, SignedAsAsked
  <2>9. ~twice' /\ ~lost' => OneKey'
    BY <1>0, <2>1, <2>3, <2>4, <2>5, <2>6 DEF OneKey, KeyPoints
  <2>10. ~shared' => ArchiveWhole'
    BY <1>0, <2>1, <2>3, <2>4 DEF ArchiveWhole
  <2> QED BY <2>8, <2>9, <2>10 DEF CloudInv
<1>19. ASSUME NEW t \in Tasks, MakeKey(t) PROVE CloudInv'
  <2>1. /\ UNCHANGED <<file, keychain, tmp, snaps, signed, stale, shared, lost>> /\ task[t].pc = "key"
        /\ Recover(task[t].conf) = NoKey /\ keys' = keys + 1
        /\ task' = [task EXCEPT ![t].pc = "savekey", ![t].conf.key = keys + 1]
        /\ ~twice' => ~twice /\ \A u \in Tasks : task[u].pc # "savekey"
    BY <1>19 DEF MakeKey
  <2>2. /\ DOMAIN task' = Tasks /\ \A u \in Tasks \ {t} : task'[u] = task[u]
        /\ DOMAIN task'[t] = TaskFields /\ DOMAIN task'[t].conf = FileFields
        /\ task'[t].pc = "savekey" /\ task'[t].conf.key = keys + 1
    BY <1>0, <2>1 DEF CloudShape, TaskFields, FileFields
  <2>3. keys + 1 \in Nat /\ keys + 1 # NoKey
    BY <1>0 DEF CloudShape, NoKey
  <2>4. CloudShape' /\ SignedAsAsked'
    BY <1>0, <2>1, <2>2, <2>3 DEF CloudShape, SignedAsAsked
  <2>5. keychain.key = NoKey \/ ~OneKey
    BY <2>1 DEF Recover, OneKey
  <2>6. ~twice' /\ ~lost' => OneKey'
    BY <1>0, <2>1, <2>2, <2>3, <2>5 DEF OneKey, KeyPoints
  <2>7. ~shared' => ArchiveWhole'
    BY <1>0, <2>1, <2>2 DEF ArchiveWhole
  <2> QED BY <2>4, <2>6, <2>7 DEF CloudInv
<1>20. ASSUME NEW t \in Tasks, SaveKey(t) PROVE CloudInv'
  <2>1. /\ UNCHANGED <<tmp, snaps, keys, signed, shared, twice>> /\ task[t].pc = "savekey"
        /\ Step(t, After(t)) /\ file' = task[t].conf
        /\ ~stale' => /\ ~stale /\ task[t].access = keychain.access
                      /\ [task[t].conf EXCEPT !.key = NoKey] = [file EXCEPT !.key = NoKey]
    BY <1>20 DEF SaveKey
  <2>2. PICK fails \in BOOLEAN :
          /\ keychain' = [access |-> task[t].access, refresh |-> keychain.refresh \/ task[t].refresh,
                          key |-> IF fails THEN NoKey ELSE task[t].conf.key]
          /\ lost' = (lost \/ fails)
    BY <1>20 DEF SaveKey, Backup
  <2>3. /\ DOMAIN keychain' = {"access", "refresh", "key"} /\ keychain'.access = task[t].access
        /\ ~lost' => ~lost /\ keychain'.key = task[t].conf.key
    BY <2>2
  <2>4. /\ DOMAIN task' = Tasks /\ DOMAIN task'[t] = TaskFields /\ \A u \in Tasks \ {t} : task'[u] = task[u]
        /\ task'[t].conf = task[t].conf /\ task'[t].pc \in {"archive", "download"}
    BY <1>0, <2>1, StepEffect DEF After
  <2>5. ~stale' => ~stale /\ keychain'.access = keychain.access /\ file'.auto = file.auto
    <3>1. /\ [task[t].conf EXCEPT !.key = NoKey].auto = task[t].conf.auto
          /\ [file EXCEPT !.key = NoKey].auto = file.auto
      BY <1>0 DEF CloudShape, FileFields
    <3> QED BY <2>1, <2>3, <3>1
  <2>6. CloudShape' /\ SignedAsAsked'
    <3>1. CloudShape'
      BY <1>0, <2>1, <2>3, <2>4 DEF CloudShape
    <3>2. \A u \in Tasks : task'[u].pc = "refresh" => task'[u].access # "none"
      BY <1>0, <2>4 DEF SignedAsAsked
    <3>3. ~stale' => /\ signed'.signedIn = IF keychain'.access = "none" THEN FALSE ELSE TRUE
                     /\ file'.auto = signed'.auto
      BY <1>0, <2>1, <2>5 DEF SignedAsAsked
    <3> QED BY <3>1, <3>2, <3>3 DEF SignedAsAsked
  <2>7. ~twice' /\ ~lost' => OneKey'
    <3> SUFFICES ASSUME OneKey, ~lost' PROVE OneKey'
      BY <1>0, <2>1, <2>3
    <3>1. keychain.key = NoKey /\ task[t].conf.key # NoKey /\ keychain'.key = task[t].conf.key
      BY <2>1, <2>3 DEF OneKey
    <3>2. snaps' = {}
      BY <2>1, <3>1 DEF OneKey
    <3>3. \A u \in Tasks \ {t} : task[u].pc # "savekey" /\ task[u].pc \notin KeyPoints /\ task[u].conf.key = NoKey
      BY <2>1, <3>1 DEF OneKey
    <3> QED BY <2>1, <2>4, <3>1, <3>2, <3>3 DEF OneKey
  <2>8. ~shared' => ArchiveWhole'
    BY <1>0, <2>1, <2>4 DEF ArchiveWhole
  <2> QED BY <2>6, <2>7, <2>8 DEF CloudInv
<1> QED BY <1>1, <1>2, <1>3, <1>4, <1>5, <1>6, <1>7, <1>9, <1>11, <1>12, <1>13, <1>14, <1>15, <1>16, <1>17, <1>18,
           <1>19, <1>20, <1>21 DEF CloudNext

LEMMA CloudInitially == CloudInit => CloudInv
<1> SUFFICES ASSUME CloudInit PROVE CloudInv
  OBVIOUS
<1>1. CloudShape
  BY NoTaskIs DEF CloudInit, CloudShape
<1>2. \A t \in Tasks : task[t].pc = "idle" /\ task[t].conf.key = NoKey
  BY NoTaskIs DEF CloudInit
<1>3. SignedAsAsked
  BY <1>2, NoTaskIs DEF CloudInit, SignedAsAsked
<1>4. OneKey /\ ArchiveWhole
  BY <1>2, NoTaskIs DEF CloudInit, OneKey, KeyPoints, ArchiveWhole
<1> QED BY <1>1, <1>3, <1>4 DEF CloudInv

\* Every record of the cloud can be decrypted with the key the next restore finds, in
\* the file or in the keychain, and was uploaded whole: for any number of commands
\* beside the daily task, over sign-outs, expired tokens, crashes and lost answers,
\* as long as the keychain took the key, no two tasks made one at a time, no two
\* archived the environment at a time, and its machine was not up while one did.
THEOREM RecordsRestorable == CloudSpec => []SnapshotsRestorable
<1>1. CloudInv => SnapshotsRestorable
  <2> SUFFICES ASSUME CloudInv, NEW s \in snaps
               PROVE  /\ ~twice /\ ~lost => s.key = IF file.key # NoKey THEN file.key ELSE keychain.key
                      /\ ~shared => s.whole
    BY DEF SnapshotsRestorable
  <2> QED BY DEF CloudInv, OneKey, ArchiveWhole
<1> QED BY <1>1, CloudInitially, CloudStep, PTL DEF CloudSpec

\* The user is signed in, and the daily synchronisation is on, exactly as asked last,
\* as long as no task saved a configuration that had changed since it loaded it.
THEOREM ChoicesKept == CloudSpec => []ChoicesStick
<1>1. CloudInv => ChoicesStick
  <2> SUFFICES ASSUME CloudInv, ~stale
               PROVE  (keychain.access # "none") = signed.signedIn /\ file.auto = signed.auto
    BY DEF ChoicesStick
  <2>1. signed.signedIn = IF keychain.access = "none" THEN FALSE ELSE TRUE
    BY DEF CloudInv, SignedAsAsked
  <2>2. file.auto = signed.auto
    BY DEF CloudInv, SignedAsAsked
  <2>3. CASE keychain.access = "none"
    <3>1. signed.signedIn = FALSE
      BY <2>1, <2>3
    <3> QED BY <2>2, <2>3, <3>1
  <2>4. CASE keychain.access # "none"
    <3>1. signed.signedIn = TRUE
      BY <2>1, <2>4
    <3> QED BY <2>2, <2>4, <3>1
  <2> QED BY <2>3, <2>4
<1> QED BY <1>1, CloudInitially, CloudStep, PTL DEF CloudSpec

\* The calendar.  The three divisions of the leap years, one year on.
Leaps(y) == (y - 1969) \div 4 - (y - 1901) \div 100 + (y - 1601) \div 400

LEMMA LeapStep ==
    ASSUME NEW y \in Nat, y >= 1970
    PROVE  Leaps(y) \in Int /\ Leaps(y + 1) = Leaps(y) + IF Leap(y) THEN 1 ELSE 0
<1>1. (y + 1 - 1969) \div 4 = (y - 1969) \div 4 + IF y % 4 = 0 THEN 1 ELSE 0
  OBVIOUS
<1>2. (y + 1 - 1901) \div 100 = (y - 1901) \div 100 + IF y % 100 = 0 THEN 1 ELSE 0
  OBVIOUS
<1>3. (y + 1 - 1601) \div 400 = (y - 1601) \div 400 + IF y % 400 = 0 THEN 1 ELSE 0
  OBVIOUS
<1>4. (y % 400 = 0 => y % 100 = 0) /\ (y % 100 = 0 => y % 4 = 0)
  OBVIOUS
<1>5. PICK a \in Int, b \in Int, c \in Int :
          a = (y - 1969) \div 4 /\ b = (y - 1901) \div 100 /\ c = (y - 1601) \div 400
  OBVIOUS
<1>6. Leaps(y) = a - b + c
  BY <1>5 DEF Leaps
<1>7. Leaps(y + 1) = (a + IF y % 4 = 0 THEN 1 ELSE 0) - (b + IF y % 100 = 0 THEN 1 ELSE 0)
                     + (c + IF y % 400 = 0 THEN 1 ELSE 0)
  BY <1>1, <1>2, <1>3, <1>5 DEF Leaps
<1>8. Leap(y) <=> y % 4 = 0 /\ (y % 100 # 0 \/ y % 400 = 0)
  BY DEF Leap
<1> QED BY <1>4, <1>6, <1>7, <1>8

\* The years of the century that are no leap years are never fewer than those of the four.
LEMMA LeapBound == ASSUME NEW y \in Nat, y >= 1970 PROVE Leaps(y) <= (y - 1969) \div 4
<1>1. (y - 1601) \div 400 <= (y - 1901) \div 100
  OBVIOUS
<1>2. PICK a \in Int, b \in Int, c \in Int :
          a = (y - 1969) \div 4 /\ b = (y - 1901) \div 100 /\ c = (y - 1601) \div 400
  OBVIOUS
<1> QED BY <1>1, <1>2 DEF Leaps

LEMMA MonthStep ==
    /\ \A m \in 1..12 : DaysBefore[m] \in Nat
    /\ DaysBefore[1] = 0 /\ DaysBefore[12] = 334
    /\ \A m \in 1..11 : DaysBefore[m + 1] = DaysBefore[m] + IF m = 2 THEN 28 ELSE IF m \in {4, 6, 9, 11} THEN 30 ELSE 31
<1>1. /\ DaysBefore[1] = 0 /\ DaysBefore[2] = 31 /\ DaysBefore[3] = 59 /\ DaysBefore[4] = 90
      /\ DaysBefore[5] = 120 /\ DaysBefore[6] = 151 /\ DaysBefore[7] = 181 /\ DaysBefore[8] = 212
      /\ DaysBefore[9] = 243 /\ DaysBefore[10] = 273 /\ DaysBefore[11] = 304 /\ DaysBefore[12] = 334
  BY DEF DaysBefore
<1> QED BY <1>1

\* The days to a date as the clock and as chrono_parse_iso count them.
LEMMA EpochIs ==
    ASSUME NEW d
    PROVE  /\ EpochDays(d) = (d.year - 1970) * 365 + Leaps(d.year) + DaysBefore[d.month]
                               + (IF d.month > 2 /\ Leap(d.year) THEN 1 ELSE 0) + d.day - 1
           /\ ParseIso(d) = (d.year - 1970) * 365 + (d.year - 1969) \div 4 + DaysBefore[d.month] + d.day - 1
  BY DEF EpochDays, ParseIso, Leaps

\* The next day is the next one.
LEMMA NextDayIs ==
    ASSUME NEW d, OfCalendar(d)
    PROVE  OfCalendar(NextDay(d)) /\ EpochDays(d) \in Int /\ EpochDays(NextDay(d)) = EpochDays(d) + 1
<1>1. PICK y \in Nat, m \in 1..12, k \in Nat : d = [year |-> y, month |-> m, day |-> k] /\ y >= 1970 /\ k \in 1..DaysIn(y, m)
  BY DEF OfCalendar, DaysIn
<1>2. d.year = y /\ d.month = m /\ d.day = k
  BY <1>1
<1> DEFINE extra(i) == IF i > 2 /\ Leap(y) THEN 1 ELSE 0
<1>3. PICK l \in Int : l = Leaps(y)
  BY <1>1, LeapStep
<1>4. EpochDays(d) = (y - 1970) * 365 + l + DaysBefore[m] + extra(m) + k - 1
  BY <1>2, <1>3, EpochIs
<1>5. DaysBefore[m] \in Nat
  BY MonthStep
<1>6. CASE k < DaysIn(y, m)
  <2>1. NextDay(d) = [year |-> y, month |-> m, day |-> k + 1]
    BY <1>1, <1>2, <1>6 DEF NextDay
  <2>2. k + 1 \in 1..DaysIn(y, m)
    BY <1>1, <1>6 DEF DaysIn
  <2>3. OfCalendar(NextDay(d))
    BY <1>1, <2>1, <2>2 DEF OfCalendar
  <2>4. EpochDays(NextDay(d)) = (y - 1970) * 365 + l + DaysBefore[m] + extra(m) + (k + 1) - 1
    BY <2>1, <1>3, EpochIs
  <2> QED BY <1>1, <1>4, <1>5, <2>3, <2>4
<1>7. CASE k = DaysIn(y, m) /\ m < 12
  <2>1. NextDay(d) = [year |-> y, month |-> m + 1, day |-> 1]
    <3>1. ~(d.day < DaysIn(d.year, d.month)) /\ d.month < 12
      BY <1>1, <1>2, <1>7
    <3>2. NextDay(d) = [year |-> d.year, month |-> d.month + 1, day |-> 1]
      BY <3>1, Zenon DEF NextDay
    <3> QED BY <1>2, <3>2
  <2>2. m + 1 \in 1..12 /\ 1 \in 1..DaysIn(y, m + 1)
    BY <1>7 DEF DaysIn
  <2>3. OfCalendar(NextDay(d))
    BY <1>1, <2>1, <2>2 DEF OfCalendar
  <2>4. EpochDays(NextDay(d)) = (y - 1970) * 365 + l + DaysBefore[m + 1] + extra(m + 1) + 1 - 1
    BY <2>1, <1>3, EpochIs
  <2>5. DaysBefore[m + 1] + extra(m + 1) = DaysBefore[m] + extra(m) + k
    <3>1. DaysBefore[m + 1] = DaysBefore[m] + IF m = 2 THEN 28 ELSE IF m \in {4, 6, 9, 11} THEN 30 ELSE 31
      BY <1>7, MonthStep
    <3>2. k = IF m = 2 THEN IF Leap(y) THEN 29 ELSE 28 ELSE IF m \in {4, 6, 9, 11} THEN 30 ELSE 31
      BY <1>7 DEF DaysIn
    <3> QED BY <1>5, <1>7, <3>1, <3>2
  <2>6. DaysBefore[m + 1] \in Nat /\ extra(m) \in Nat /\ extra(m + 1) \in Nat
    BY <2>2, MonthStep
  <2> HIDE DEF extra
  <2> QED BY <1>1, <1>4, <1>5, <2>3, <2>4, <2>5, <2>6
<1>8. CASE k = DaysIn(y, m) /\ m = 12
  <2>1. NextDay(d) = [year |-> y + 1, month |-> 1, day |-> 1] /\ k = 31
    BY <1>1, <1>2, <1>8 DEF NextDay, DaysIn
  <2>2. 1 \in 1..DaysIn(y + 1, 1) /\ y + 1 \in Nat /\ y + 1 >= 1970
    BY <1>1 DEF DaysIn
  <2>3. OfCalendar(NextDay(d))
    BY <2>1, <2>2 DEF OfCalendar
  <2>4. EpochDays(NextDay(d)) = (y + 1 - 1970) * 365 + Leaps(y + 1) + 0 + 0 + 1 - 1
    BY <2>1, EpochIs, MonthStep
  <2>5. Leaps(y + 1) = l + extra(12)
    BY <1>1, <1>3, LeapStep
  <2>6. EpochDays(d) = (y - 1970) * 365 + l + 334 + extra(12) + 31 - 1
    BY <1>4, <1>8, <2>1, MonthStep
  <2> QED BY <1>1, <2>3, <2>4, <2>5, <2>6
<1> QED BY <1>1, <1>6, <1>7, <1>8 DEF DaysIn

\* The date follows the half days, and the time noted in the file is that of the
\* last synchronisation.
Elapsed == now.half + 2 * EpochDays(FirstDay)
Noted(last) ==
    /\ last.year \in Nat /\ last.year >= 1970 /\ last.month \in 1..12 /\ last.day \in Nat /\ last.half \in 0..1
    /\ 2 * EpochDays(last) + last.half = synced + 2 * EpochDays(FirstDay)

CalendarInv ==
    /\ now.half \in Nat /\ OfCalendar(now.date) /\ synced \in Int
    /\ 2 * EpochDays(now.date) + (now.half % 2) = Elapsed
    /\ ~stale => file.last = Never \/ Noted(file.last)

\* The steps other than those of the clock and of the note leave what is noted, or erase it.
LEMMA NoteKept ==
    ASSUME CloudShape, [CloudNext]_cloudVars, ~Tick, ~Confirm(AutoTask)
    PROVE  UNCHANGED <<now, synced>> /\ (~stale' => ~stale /\ file'.last \in {file.last, Never})
<1>0. "last" \in DOMAIN file /\ \A t \in Tasks : "last" \in DOMAIN task[t].conf
  BY DEF CloudShape, FileFields
<1>1. DefaultFile.last = Never
  BY DEF DefaultFile
<1> DEFINE Stays == UNCHANGED <<now, synced>> /\ (~stale' => ~stale /\ file'.last \in {file.last, Never})
<1>2. CASE UNCHANGED cloudVars
  BY <1>2 DEF cloudVars
<1>3. CASE Connect \/ BackupKey \/ Expire \/ StartMachine \/ StopMachine
  <2>1. UNCHANGED <<now, synced, stale, file>>
    BY <1>3 DEF Connect, BackupKey, Expire, StartMachine, StopMachine
  <2> QED BY <2>1
<1>4. CASE Disconnect
  BY <1>1, <1>4 DEF Disconnect
<1>5. CASE AutoSync
  BY <1>5 DEF AutoSync
<1>6. CASE CloudCrash
  BY <1>1, <1>6 DEF CloudCrash
<1>7. ASSUME NEW on \in BOOLEAN, SetAutoSync(on) PROVE Stays
  BY <1>0, <1>7 DEF SetAutoSync
<1>8. ASSUME NEW u \in Users, NEW kind, Command(u, kind) PROVE Stays
  BY <1>8 DEF Command
<1>9. ASSUME NEW t \in Tasks, Token(t) \/ Fails(t) \/ MakeKey(t) \/ ArchiveBegin(t) \/ ArchiveEnd(t) \/ Encrypt(t)
                               \/ Upload(t) \/ UploadFails(t) \/ ConfirmLost(t) \/ Download(t)
      PROVE Stays
  BY <1>9 DEF Token, Fails, MakeKey, ArchiveBegin, ArchiveEnd, Encrypt, Upload, UploadFails, ConfirmLost, Download
<1>10. ASSUME NEW t \in Tasks, Refreshed(t) PROVE Stays
  <2>1. UNCHANGED <<now, synced>> /\ file' = task[t].conf /\ (stale' <=> stale \/ Overwrites(t))
    BY <1>10 DEF Refreshed
  <2>2. ~Overwrites(t) => task[t].conf = file
    BY DEF Overwrites
  <2> QED BY <2>1, <2>2
<1>11. ASSUME NEW t \in Tasks, FindKey(t) PROVE Stays
  <2>1. UNCHANGED <<now, synced>>
    BY <1>11 DEF FindKey
  <2>2. \/ UNCHANGED <<file, stale>>
        \/ /\ file' = [task[t].conf EXCEPT !.key = Recover(task[t].conf)]
           /\ stale' = (stale \/ Overwrites(t))
    BY <1>11 DEF FindKey
  <2>3. CASE UNCHANGED <<file, stale>>
    BY <2>1, <2>3
  <2>4. CASE /\ file' = [task[t].conf EXCEPT !.key = Recover(task[t].conf)]
             /\ stale' = (stale \/ Overwrites(t))
    <3>1. ~stale' => ~stale /\ ~Overwrites(t)
      BY <2>4, Zenon
    <3>2. ~Overwrites(t) => task[t].conf = file
      BY DEF Overwrites
    <3>3. file'.last = task[t].conf.last
      BY <1>0, <2>4
    <3> QED BY <2>1, <3>1, <3>2, <3>3
  <2> QED BY <2>2, <2>3, <2>4
<1>12. ASSUME NEW t \in Tasks, SaveKey(t) PROVE Stays
  <2>1. UNCHANGED <<now, synced>> /\ file' = task[t].conf
    BY <1>12 DEF SaveKey
  <2>2. ~stale' => ~stale /\ [task[t].conf EXCEPT !.key = NoKey] = [file EXCEPT !.key = NoKey]
    BY <1>12 DEF SaveKey
  <2>3. /\ [task[t].conf EXCEPT !.key = NoKey].last = task[t].conf.last
        /\ [file EXCEPT !.key = NoKey].last = file.last
    BY <1>0
  <2> QED BY <2>1, <2>2, <2>3
<1>13. ASSUME NEW t \in Tasks, t # AutoTask, Confirm(t) PROVE Stays
  BY <1>13 DEF Confirm
<1> HIDE DEF Stays
<1>14. Stays
  BY <1>2, <1>3, <1>4, <1>5, <1>6, <1>7, <1>8, <1>9, <1>10, <1>11, <1>12, <1>13 DEF CloudNext, Stays
<1> QED BY <1>14 DEF Stays

LEMMA CalendarInitially == CloudInit => CalendarInv
<1> SUFFICES ASSUME CloudInit PROVE CalendarInv
  OBVIOUS
<1>1. now.half = 0 /\ now.date = FirstDay /\ synced = -1 /\ file.last = Never
  BY DEF CloudInit, DefaultFile
<1>2. EpochDays(FirstDay) \in Int
  BY CloudAssumption, NextDayIs
<1> QED BY <1>1, <1>2, CloudAssumption DEF CalendarInv, Elapsed

LEMMA CalendarStep == CloudInv /\ CalendarInv /\ [CloudNext]_cloudVars => CalendarInv'
<1> SUFFICES ASSUME CloudInv, CalendarInv, [CloudNext]_cloudVars PROVE CalendarInv'
  OBVIOUS
<1>0. /\ now.half \in Nat /\ OfCalendar(now.date) /\ synced \in Int
      /\ 2 * EpochDays(now.date) + (now.half % 2) = now.half + 2 * EpochDays(FirstDay)
      /\ ~stale => file.last = Never \/ Noted(file.last)
  BY DEF CalendarInv, Elapsed
<1>1. EpochDays(FirstDay) \in Int /\ EpochDays(now.date) \in Int
  BY <1>0, CloudAssumption, NextDayIs
<1>2. CASE Tick
  <2>1. /\ UNCHANGED <<file, stale, synced>> /\ now'.half = now.half + 1
        /\ now'.date = IF now.half % 2 = 1 THEN NextDay(now.date) ELSE now.date
    BY <1>2 DEF Tick
  <2>2. (~stale => file.last = Never \/ Noted(file.last))'
    BY <1>0, <2>1 DEF Noted
  <2>3. CASE now.half % 2 = 1
    <3>1. OfCalendar(now'.date) /\ EpochDays(now'.date) = EpochDays(now.date) + 1
      BY <1>0, <2>1, <2>3, NextDayIs
    <3>2. now'.half \in Nat /\ now'.half % 2 = 0
      BY <1>0, <2>1, <2>3
    <3>3. 2 * EpochDays(now'.date) + (now'.half % 2) = now'.half + 2 * EpochDays(FirstDay)
      BY <1>0, <1>1, <2>1, <2>3, <3>1, <3>2
    <3> QED BY <1>0, <2>1, <2>2, <3>1, <3>2, <3>3 DEF CalendarInv, Elapsed
  <2>4. CASE now.half % 2 # 1
    <3>1. now'.date = now.date /\ now.half % 2 = 0 /\ now'.half \in Nat /\ now'.half % 2 = 1
      BY <1>0, <2>1, <2>4
    <3>2. 2 * EpochDays(now'.date) + (now'.half % 2) = now'.half + 2 * EpochDays(FirstDay)
      BY <1>0, <1>1, <2>1, <3>1
    <3> QED BY <1>0, <2>1, <2>2, <3>1, <3>2 DEF CalendarInv, Elapsed
  <2> QED BY <2>3, <2>4
<1>3. CASE Confirm(AutoTask)
  <2>1. /\ UNCHANGED <<now, stale>> /\ synced' = now.half
        /\ file' = [file EXCEPT !.last = Stamp]
    BY <1>3 DEF Confirm
  <2>2. file'.last = Stamp
    BY <2>1 DEF CloudInv, CloudShape, FileFields
  <2>3. PICK s : s = Stamp
    OBVIOUS
  <2>4. /\ s.year = now.date.year /\ s.month = now.date.month /\ s.day = now.date.day
        /\ s.half = now.half % 2
    BY <2>3 DEF Stamp
  <2>5. EpochDays(s) = EpochDays(now.date)
    BY <2>4, EpochIs
  <2>6. /\ s.year \in Nat /\ s.year >= 1970 /\ s.month \in 1..12 /\ s.day \in Nat /\ s.half \in 0..1
    BY <1>0, <2>4 DEF OfCalendar, DaysIn
  <2>7. 2 * EpochDays(s) + s.half = now.half + 2 * EpochDays(FirstDay)
    BY <1>0, <2>4, <2>5
  <2>8. Noted(file.last)'
    BY <2>1, <2>2, <2>3, <2>6, <2>7 DEF Noted
  <2> QED BY <1>0, <2>1, <2>8 DEF CalendarInv, Elapsed
<1>4. CASE ~Tick /\ ~Confirm(AutoTask)
  <2>1. UNCHANGED <<now, synced>> /\ (~stale' => ~stale /\ file'.last \in {file.last, Never})
    BY <1>4, NoteKept DEF CloudInv
  <2>2. (~stale => file.last = Never \/ Noted(file.last))'
    BY <1>0, <2>1 DEF Noted
  <2> QED BY <1>0, <2>1, <2>2 DEF CalendarInv, Elapsed
<1> QED BY <1>2, <1>3, <1>4

\* What is due by the two calendars is due by the clock, but for the day that
\* chrono_parse_iso misses after February of a leap year.
LEMMA DueIs ==
    ASSUME CalendarInv, ~stale, file.last # Never, Due(file.last)
    PROVE  now.half - synced > IF CountedShort(file.last) THEN 0 ELSE 2
<1>1. PICK last : last = file.last
  OBVIOUS
<1>2. Noted(last) /\ now.half \in Nat /\ synced \in Int /\ 2 * EpochDays(now.date) + (now.half % 2) = Elapsed
  BY <1>1 DEF CalendarInv
<1>3. PICK e \in Int : e = EpochDays(FirstDay)
  BY CloudAssumption, NextDayIs
<1>4. PICK y \in Nat : y = last.year /\ y >= 1970
  BY <1>2 DEF Noted
<1>5. PICK l \in Int, p \in Int : l = Leaps(y) /\ p = (y - 1969) \div 4
  BY <1>4, LeapStep
<1>6. l <= p
  BY <1>4, <1>5, LeapBound
<1>7. PICK b \in Nat : b = DaysBefore[last.month]
  BY <1>2, MonthStep DEF Noted
<1>8. PICK x \in 0..1 : x = IF CountedShort(last) THEN 1 ELSE 0
  OBVIOUS
<1>9. PICK k \in Nat : k = last.day /\ last.half \in 0..1
  BY <1>2 DEF Noted
<1>10. EpochDays(last) = (y - 1970) * 365 + l + b + x + k - 1
  BY <1>4, <1>5, <1>7, <1>8, <1>9, EpochIs DEF CountedShort
<1>11. ParseIso(last) = (y - 1970) * 365 + p + b + k - 1
  BY <1>4, <1>5, <1>7, <1>9, EpochIs
<1>12. 2 * EpochDays(last) + last.half = synced + 2 * e
  BY <1>2, <1>3, <1>9 DEF Noted
<1>13. now.half + 2 * e - (2 * ParseIso(last) + last.half) > 2
  <2>1. 2 * EpochDays(now.date) + (now.half % 2) - (2 * ParseIso(last) + last.half) > 2
    BY <1>1, Zenon DEF Due
  <2>2. 2 * EpochDays(now.date) + (now.half % 2) = now.half + 2 * e
    BY <1>2, <1>3 DEF Elapsed
  <2>3. EpochDays(now.date) \in Int
    BY NextDayIs DEF CalendarInv
  <2>4. ParseIso(last) \in Int
    BY <1>11
  <2> QED BY <1>2, <1>9, <2>1, <2>2, <2>3, <2>4
<1>14. now.half - synced > 2 - 2 * x
  BY <1>2, <1>6, <1>9, <1>10, <1>11, <1>12, <1>13
<1> QED BY <1>1, <1>2, <1>8, <1>14

\* No other step begins a synchronisation of the daily task.
LEMMA OnlyAutoSyncBegins ==
    ASSUME CloudShape, [CloudNext]_cloudVars, task[AutoTask].kind = "none", task'[AutoTask].kind = "sync"
    PROVE  AutoSync
<1>0. AutoTask \in Tasks /\ DOMAIN task = Tasks /\ \A t \in Tasks : DOMAIN task[t] = TaskFields
  BY DEF CloudShape, Tasks
<1>1. NoTask.kind = "none"
  BY DEF NoTask
<1> SUFFICES ASSUME ~AutoSync PROVE FALSE
  OBVIOUS
<1>2. CASE UNCHANGED cloudVars \/ Tick \/ Connect \/ Disconnect \/ BackupKey \/ Expire \/ StartMachine \/ StopMachine
  <2>1. UNCHANGED task
    BY <1>2 DEF cloudVars, Tick, Connect, Disconnect, BackupKey, Expire, StartMachine, StopMachine
  <2> QED BY <2>1
<1>3. CASE CloudCrash
  <2>1. task' = [t \in Tasks |-> NoTask]
    BY <1>3 DEF CloudCrash
  <2> QED BY <1>0, <1>1, <2>1
<1>4. ASSUME NEW on \in BOOLEAN, SetAutoSync(on) PROVE FALSE
  BY <1>4 DEF SetAutoSync
<1>5. ASSUME NEW u \in Users, NEW kind, Command(u, kind) PROVE FALSE
  <2>1. task' = [task EXCEPT ![u] = Loaded(kind)] /\ u # AutoTask
    BY <1>5, CloudAssumption DEF Command
  <2>2. task'[AutoTask] = task[AutoTask]
    BY <1>0, <2>1
  <2> QED BY <2>2
<1>6. ASSUME NEW t \in Tasks, End(t) PROVE FALSE
  BY <1>0, <1>1, <1>6 DEF End
<1>7. ASSUME NEW t \in Tasks, NEW pc, Step(t, pc) PROVE FALSE
  BY <1>0, <1>7 DEF Step, TaskFields
<1>8. ASSUME NEW t \in Tasks, Token(t) PROVE FALSE
  <2>1. End(t) \/ Step(t, "key") \/ Step(t, "refresh")
    BY <1>8 DEF Token, Use
  <2> QED BY <1>6, <1>7, <2>1
<1>9. ASSUME NEW t \in Tasks, Fails(t) \/ UploadFails(t) \/ Confirm(t) \/ ConfirmLost(t) \/ Download(t) PROVE FALSE
  BY <1>6, <1>9 DEF Fails, UploadFails, UploadError, Confirm, ConfirmLost, Download
<1>10. ASSUME NEW t \in Tasks, ArchiveBegin(t) \/ Upload(t) \/ SaveKey(t) PROVE FALSE
  BY <1>7, <1>10 DEF ArchiveBegin, Upload, SaveKey
<1>11. ASSUME NEW t \in Tasks, ArchiveEnd(t) PROVE FALSE
  BY <1>6, <1>7, <1>11 DEF ArchiveEnd
<1>12. ASSUME NEW t \in Tasks, Encrypt(t) PROVE FALSE
  <2>1. End(t) \/ task' = [task EXCEPT ![t].pc = "upload", ![t].data = tmp]
    BY <1>12 DEF Encrypt
  <2>2. CASE task' = [task EXCEPT ![t].pc = "upload", ![t].data = tmp]
    BY <1>0, <2>2 DEF TaskFields
  <2> QED BY <1>6, <2>1, <2>2
<1>13. ASSUME NEW t \in Tasks, Refreshed(t) PROVE FALSE
  <2>1. task' = [task EXCEPT ![t] = IF @.kind = "call" THEN NoTask ELSE [@ EXCEPT !.pc = "key", !.access = "fresh"]]
    BY <1>13 DEF Refreshed
  <2>2. CASE task[t].kind = "call"
    BY <1>0, <1>1, <2>1, <2>2
  <2>3. CASE task[t].kind # "call"
    BY <1>0, <2>1, <2>3 DEF TaskFields
  <2> QED BY <2>2, <2>3
<1>14. ASSUME NEW t \in Tasks, FindKey(t) PROVE FALSE
  <2>1. PICK conf : task' = [task EXCEPT ![t].pc = After(t), ![t].conf = conf]
    BY <1>14 DEF FindKey
  <2> QED BY <1>0, <2>1 DEF TaskFields
<1>15. ASSUME NEW t \in Tasks, MakeKey(t) PROVE FALSE
  <2>1. task' = [task EXCEPT ![t].pc = "savekey", ![t].conf.key = keys + 1]
    BY <1>15 DEF MakeKey
  <2> QED BY <1>0, <2>1 DEF TaskFields
<1> QED BY <1>2, <1>3, <1>4, <1>5, <1>8, <1>9, <1>10, <1>11, <1>12, <1>13, <1>14, <1>15 DEF CloudNext

\* An automatic synchronisation begins only when the last one that was noted is more
\* than 24 hours ago, or half a day where the calendar is counted short, for any first
\* day since the epoch and any number of days.
THEOREM OncePerDay == CloudSpec => DailySync
<1>1. ASSUME CloudInv, CalendarInv, [CloudNext]_cloudVars,
             task[AutoTask].kind = "none", task'[AutoTask].kind = "sync"
      PROVE  stale \/ file.last = Never \/ now.half - synced > IF CountedShort(file.last) THEN 0 ELSE 2
  <2>1. AutoSync
    BY <1>1, OnlyAutoSyncBegins DEF CloudInv
  <2>2. Due(file.last)
    BY <2>1 DEF AutoSync
  <2> QED BY <1>1, <2>2, DueIs
<1> QED BY <1>1, CloudInitially, CloudStep, CalendarInitially, CalendarStep, PTL DEF CloudSpec, DailySync

------------------------------------------------------------------------------
(* The session index and the session directories.                          *)

Statuses == Finished \cup {"none", "running", "terminated"}
VacuumPoints == {"open", "compress", "remove", "vacuumed"}
CleanupPoints == {"backfill", "vacuum", "age", "cap", "dirs", "cull", "culled", "purge", "orphans", "fresh"}
SessionPoints == {"made", "recorded", "live"}
Points == {"down", "scratch", "mark", "ready"} \cup CleanupPoints \cup VacuumPoints \cup SessionPoints

Row == [status : Statuses, vacuumed : BOOLEAN, counted : Nat, created : Nat]
Dir == [dir : BOOLEAN, scratch : BOOLEAN, db : Nat \cup {NoFile}, gz : Nat \cup {NoFile, Partial}]
Process == [pc : Points, todo : SUBSET Sessions, session : 0..MaxSessions, image : Nat,
            then : {"down", "vacuum", "ready"}]

SessionTypes ==
    /\ row \in [Sessions -> Row] /\ dirs \in [Sessions -> Dir] /\ stored \in [Sessions -> Nat]
    /\ proc \in [Procs -> Process] /\ started \in 0..MaxSessions /\ day \in Nat

OneUp == \A p, q \in Procs : proc[p].pc # "down" /\ proc[q].pc # "down" => p = q

\* The process has marked what ran before it, and is not done with its clean-up.
CleansUp(p) == proc[p].pc \in CleanupPoints \/ (proc[p].pc \in VacuumPoints /\ proc[p].then = "vacuum")

\* What the clean-up has reached so far.
CleanedSoFar(p) ==
    /\ CleansUp(p) => \A s \in Sessions : row[s].status # "running" /\ ~dirs[s].scratch
    /\ proc[p].pc = "mark" => \A s \in Sessions : ~dirs[s].scratch
    /\ proc[p].pc \in {"purge", "orphans"} => \A s \in Sessions : row[s].status = "terminated" => ~dirs[s].dir
    /\ proc[p].pc = "fresh" => \A s \in Sessions : dirs[s].dir => row[s].status \notin {"none", "terminated"}
    /\ proc[p].pc \in {"culled"} \cup VacuumPoints \cup SessionPoints => proc[p].session \in Sessions

\* The figures of a database that holds events are in the index, but for those that
\* the next start does not count.
Counted(s) == dirs[s].db # NoFile /\ stored[s] > 0 /\ s \notin behind => row[s].counted = stored[s]

\* What a process knows of the session it works on: its database is there and
\* complete until the archive holds the same, and its figures are in the index
\* before it is archived.
Holds(p) ==
    /\ proc[p].pc \in SessionPoints \/ (proc[p].pc \in VacuumPoints /\ proc[p].then # "vacuum")
          => proc[p].session <= started
    /\ proc[p].pc \in {"made", "recorded"} => stored[proc[p].session] = 0
    /\ proc[p].pc \in {"recorded", "live"} => row[proc[p].session].status # "none"
    /\ proc[p].pc = "live" => dirs[proc[p].session].db # NoFile
    /\ proc[p].pc = "open" /\ proc[p].then # "vacuum" => dirs[proc[p].session].db # NoFile
    /\ proc[p].pc = "vacuum" \/ (proc[p].pc \in VacuumPoints /\ proc[p].then = "vacuum")
          => \A s \in proc[p].todo : Counted(s)
    /\ proc[p].pc \in {"open", "compress", "remove"} => Counted(proc[p].session)
    /\ proc[p].pc = "compress" => /\ dirs[proc[p].session].db # NoFile
                                  /\ proc[p].session \in late \/ dirs[proc[p].session].db = proc[p].image
    /\ proc[p].pc = "remove" => /\ dirs[proc[p].session].db # NoFile
                                /\ proc[p].session \in late \/ dirs[proc[p].session].gz = dirs[proc[p].session].db

\* A database that exists holds every event; a session to come has none.
FilesExact ==
    /\ \A s \in Sessions : dirs[s].db # NoFile => dirs[s].dir /\ dirs[s].db = stored[s]
    /\ \A s \in Sessions : s > started => stored[s] = 0 /\ row[s].counted = 0

\* A session that is over has all of its figures in the index or none.
Live(s) == \E p \in Procs : proc[p].pc = "live" /\ proc[p].session = s
Reckoned == \A s \in Sessions : dirs[s].dir /\ s \notin behind => row[s].counted \in {0, stored[s]} \/ Live(s)

ProcInv(p) == CleanedSoFar(p) /\ Holds(p)

SessionInv == SessionTypes /\ OneUp /\ (\A p \in Procs : ProcInv(p)) /\ FilesExact /\ Reckoned /\ TelemetryKept

------------------------------------------------------------------------------
(* What the operators of the model do.                                     *)

\* The oldest of some sessions is one of them.
LEMMA MinIn == ASSUME NEW S \in SUBSET Sessions, S # {} PROVE Min(S) \in S
<1> DEFINE R == {ss \in Nat \X Nat : ss[1] < ss[2]}
<1>1. IsWellFoundedOn(R, Nat)
  BY NatLessThanWellFounded, Zenon DEF OpToRel
<1>2. S \subseteq Nat
  BY IndexAssumption DEF Sessions
<1>3. PICK m \in S : \A y \in S : <<y, m>> \notin R
  BY <1>1, <1>2, WFMin, Zenon
<1>4. ASSUME NEW y \in S PROVE m <= y
  <2>1. m \in Nat /\ y \in Nat /\ <<y, m>> \notin R
    BY <1>2, <1>3
  <2>2. ~(y < m)
    BY <2>1
  <2> QED BY <2>1, <2>2
<1> QED BY <1>4 DEF Min

LEMMA PointsAre ==
    /\ VacuumPoints \subseteq Points /\ CleanupPoints \subseteq Points /\ SessionPoints \subseteq Points
    /\ {"down", "scratch", "mark", "ready"} \subseteq Points
  BY DEF Points

LEMMA StepToEffect ==
    ASSUME SessionTypes, NEW p \in Procs, NEW pc \in Points, StepTo(p, pc)
    PROVE  /\ proc' \in [Procs -> Process] /\ proc'[p].pc = pc /\ \A q \in Procs \ {p} : proc'[q] = proc[q]
           /\ proc'[p].todo = proc[p].todo /\ proc'[p].session = proc[p].session
           /\ proc'[p].image = proc[p].image /\ proc'[p].then = proc[p].then
  BY DEF SessionTypes, StepTo, Process

LEMMA WorkEffect ==
    ASSUME SessionTypes, NEW p \in Procs, NEW pc \in Points, NEW S \in SUBSET Sessions, Work(p, pc, S)
    PROVE  /\ proc' \in [Procs -> Process] /\ proc'[p].pc = pc /\ \A q \in Procs \ {p} : proc'[q] = proc[q]
           /\ proc'[p].todo = S
  BY DEF SessionTypes, Work, Process

LEMMA SetStatusEffect ==
    ASSUME SessionTypes, NEW S \in SUBSET Sessions, NEW status \in Statuses, SetStatus(S, status)
    PROVE  /\ row' \in [Sessions -> Row]
           /\ \A s \in Sessions :
                 /\ row'[s].counted = row[s].counted
                 /\ row'[s].status = IF s \in S /\ row[s].status # "none" THEN status ELSE row[s].status
<1> DEFINE new == [s \in S |-> [row[s] EXCEPT !.status = status]]
<1>1. row' = [s \in Sessions |-> IF s \in S /\ row[s].status # "none" THEN new[s] ELSE row[s]]
  BY DEF SetStatus, Update
<1>2. \A s \in S : new[s] \in Row /\ new[s].counted = row[s].counted /\ new[s].status = status
  BY DEF SessionTypes, Row
<1> HIDE DEF new
<1> QED BY <1>1, <1>2 DEF SessionTypes

LEMMA EmptyIs == Empty \in Dir /\ ~Empty.dir /\ ~Empty.scratch /\ Empty.db = NoFile /\ NoFile \notin Nat
  BY DEF Empty, Dir, NoFile, Partial

LEMMA NoRowIs == NoRow \in Row /\ NoRow.status = "none" /\ NoRow.counted = 0
  BY DEF NoRow, Row, Statuses

LEMMA RemoveDirsEffect ==
    ASSUME SessionTypes, NEW S \in SUBSET Sessions, RemoveDirs(S)
    PROVE  /\ dirs' \in [Sessions -> Dir]
           /\ \A s \in S : ~dirs'[s].dir /\ ~dirs'[s].scratch /\ dirs'[s].db = NoFile
           /\ \A s \in Sessions \ S : dirs'[s] = dirs[s]
  BY EmptyIs DEF SessionTypes, RemoveDirs

LEMMA DownIs == Down \in Process /\ Down.pc = "down"
  BY IndexAssumption DEF Down, Process, Points

\* The other processes are down, so an invariant of processes is one of the process
\* that moved.
LEMMA OnlyOne ==
    ASSUME OneUp, NEW p \in Procs, proc[p].pc # "down" \/ \A q \in Procs : proc[q].pc = "down",
           \A q \in Procs \ {p} : proc'[q] = proc[q], ProcInv(p)'
    PROVE  OneUp' /\ \A q \in Procs : ProcInv(q)'
<1>1. \A q \in Procs \ {p} : proc'[q].pc = "down"
  BY DEF OneUp
<1>2. OneUp'
  BY <1>1 DEF OneUp
<1>3. ASSUME NEW q \in Procs \ {p} PROVE ProcInv(q)'
  BY <1>1, <1>3 DEF ProcInv, CleanedSoFar, CleansUp, Holds, CleanupPoints, VacuumPoints, SessionPoints
<1> QED BY <1>2, <1>3

\* The figures of a session stay, are all counted, or go with its directory.
FiguresStay ==
    \A s \in Sessions : \/ row'[s].counted = row[s].counted
                        \/ row[s].counted = 0 /\ row'[s].counted = stored[s]
                        \/ ~dirs'[s].dir /\ row'[s].counted = 0

LEMMA ReckonedStays ==
    ASSUME OneUp, Reckoned, FiguresStay, stored' = stored, behind' = behind, NEW p \in Procs,
           proc[p].pc # "down" \/ \A q \in Procs : proc[q].pc = "down", proc[p].pc # "live",
           \A s \in Sessions : dirs'[s].dir => dirs[s].dir
    PROVE  Reckoned'
<1>1. \A s : ~Live(s)
  BY DEF Live, OneUp
<1>2. ASSUME NEW s \in Sessions, dirs'[s].dir, s \notin behind PROVE row'[s].counted \in {0, stored[s]}
  BY <1>1, <1>2 DEF Reckoned, FiguresStay
<1> QED BY <1>2 DEF Reckoned

\* A step that commits no event keeps the telemetry, if a directory stays as it is or
\* goes and figures stay in the index.
LEMMA FilesStay ==
    ASSUME UNCHANGED <<stored, behind, late, started>>, OneUp, FilesExact, Reckoned, TelemetryKept, FiguresStay,
           NEW p \in Procs, proc[p].pc # "down" \/ \A q \in Procs : proc[q].pc = "down", proc[p].pc # "live",
           \A s \in Sessions :
              \/ dirs'[s].dir = dirs[s].dir /\ dirs'[s].db = dirs[s].db /\ dirs'[s].gz = dirs[s].gz
              \/ ~dirs'[s].dir /\ dirs'[s].db = NoFile
    PROVE  FilesExact' /\ Reckoned' /\ TelemetryKept'
<1>1. Reckoned'
  BY ReckonedStays
<1>2. FilesExact'
  BY DEF FilesExact, FiguresStay
<1>3. TelemetryKept'
  BY DEF TelemetryKept, FiguresStay
<1> QED BY <1>1, <1>2, <1>3

------------------------------------------------------------------------------
(* The clean-up.                                                           *)

\* A step of the clean-up moves between two points without a session.
LEMMA CleanupMoves ==
    ASSUME SessionInv, NEW p \in Procs, proc[p].pc \notin {"down", "live"}, proc' \in [Procs -> Process],
           \A q \in Procs \ {p} : proc'[q] = proc[q],
           row' \in [Sessions -> Row], dirs' \in [Sessions -> Dir], UNCHANGED <<stored, behind, late, started, day>>,
           CleanedSoFar(p)', proc'[p].pc \in CleanupPoints \cup {"mark", "scratch"},
           proc'[p].pc = "vacuum" => \A s \in proc'[p].todo : Counted(s)',
           \A s \in Sessions :
              \/ dirs'[s].dir = dirs[s].dir /\ dirs'[s].db = dirs[s].db /\ dirs'[s].gz = dirs[s].gz
              \/ ~dirs'[s].dir /\ dirs'[s].db = NoFile,
           FiguresStay
    PROVE  SessionInv'
<1>1. SessionTypes'
  BY DEF SessionInv, SessionTypes
<1>2. Holds(p)'
  BY DEF Holds, CleanupPoints, VacuumPoints, SessionPoints
<1>3. OneUp' /\ \A q \in Procs : ProcInv(q)'
  BY <1>2, OnlyOne DEF SessionInv, ProcInv
<1>4. FilesExact' /\ Reckoned' /\ TelemetryKept'
  BY FilesStay DEF SessionInv
<1> QED BY <1>1, <1>3, <1>4 DEF SessionInv

\* Every step of cleanup_stale_sessions keeps the invariant.
LEMMA CleanupStep == ASSUME SessionInv, NEW p \in Procs, Cleanup(p) PROVE SessionInv'
<1>0. /\ SessionTypes /\ OneUp /\ CleanedSoFar(p) /\ Holds(p) /\ FilesExact /\ Reckoned /\ TelemetryKept
      /\ row \in [Sessions -> Row] /\ dirs \in [Sessions -> Dir] /\ proc[p].todo \in SUBSET Sessions
  BY DEF SessionInv, ProcInv, SessionTypes, Process
<1>a. \A S : WithStatus(S) \in SUBSET Sessions
  BY DEF WithStatus
<1>b. {"terminated", "crashed", "none", "running"} \subseteq Statuses
  BY DEF Statuses, Finished
<1>c. \A pc \in CleanupPoints : pc \in Points
  BY PointsAre
<1>1. ASSUME DeleteScratch(p) PROVE SessionInv'
  <2>1. proc[p].pc = "scratch" /\ StepTo(p, "mark") /\ UNCHANGED <<row, stored, behind, late, started, day>>
    BY <1>1 DEF DeleteScratch
  <2>2. /\ dirs' \in [Sessions -> Dir] /\ \A s \in Sessions : ~dirs'[s].scratch
        /\ \A s \in Sessions : dirs'[s].dir = dirs[s].dir /\ dirs'[s].db = dirs[s].db /\ dirs'[s].gz = dirs[s].gz
    BY <1>0, <1>1 DEF DeleteScratch, Dir
  <2>3. proc' \in [Procs -> Process] /\ proc'[p].pc = "mark" /\ \A q \in Procs \ {p} : proc'[q] = proc[q]
    BY <1>0, <2>1, PointsAre, StepToEffect
  <2>4. CleanedSoFar(p)'
    BY <2>2, <2>3 DEF CleanedSoFar, CleansUp, CleanupPoints, VacuumPoints, SessionPoints
  <2> QED BY <1>0, <2>1, <2>2, <2>3, <2>4, CleanupMoves DEF FiguresStay
<1>2. ASSUME MarkRunningAsCrashed(p) PROVE SessionInv'
  <2>1. /\ proc[p].pc = "mark" /\ SetStatus(WithStatus({"running"}), "crashed")
        /\ StepTo(p, "backfill") /\ UNCHANGED <<dirs, stored, behind, late, started, day>>
    BY <1>2 DEF MarkRunningAsCrashed
  <2>2. /\ row' \in [Sessions -> Row]
        /\ \A s \in Sessions : row'[s].counted = row[s].counted /\ row'[s].status # "running"
    <3> DEFINE S == WithStatus({"running"})
    <3>1. SetStatus(S, "crashed") /\ S \in SUBSET Sessions /\ "crashed" \in Statuses
      BY <1>a, <1>b, <2>1
    <3>2. \A s \in Sessions : row[s].status = "running" <=> s \in S
      BY DEF WithStatus
    <3> HIDE DEF S
    <3>3. /\ row' \in [Sessions -> Row]
          /\ \A s \in Sessions :
                /\ row'[s].counted = row[s].counted
                /\ row'[s].status = IF s \in S /\ row[s].status # "none" THEN "crashed" ELSE row[s].status
      BY <1>0, <3>1, SetStatusEffect
    <3> QED BY <3>2, <3>3
  <2>3. proc' \in [Procs -> Process] /\ proc'[p].pc = "backfill" /\ \A q \in Procs \ {p} : proc'[q] = proc[q]
    BY <1>0, <2>1, <1>c, StepToEffect DEF CleanupPoints
  <2>4. CleanedSoFar(p)'
    BY <1>0, <2>1, <2>2, <2>3 DEF CleanedSoFar, CleansUp, CleanupPoints, VacuumPoints, SessionPoints
  <2>5. proc'[p].pc \in CleanupPoints /\ proc'[p].pc # "vacuum"
    BY <2>3 DEF CleanupPoints
  <2> QED BY <1>0, <2>1, <2>2, <2>3, <2>4, <2>5, CleanupMoves DEF FiguresStay
<1>3. ASSUME Backfill(p) PROVE SessionInv'
  <2>1. /\ proc[p].pc = "backfill" /\ Work(p, "vacuum", Unvacuumed) /\ UNCHANGED <<dirs, stored, behind, late, started, day>>
        /\ row' = [s \in Sessions |->
                      IF row[s].status \in {"crashed", "stopped"} /\ row[s].counted = 0 /\ dirs[s].db # NoFile
                      THEN [row[s] EXCEPT !.counted = dirs[s].db] ELSE row[s]]
    BY <1>3 DEF Backfill
  <2>2. /\ row' \in [Sessions -> Row]
        /\ \A s \in Sessions :
              /\ row'[s].status = row[s].status
              /\ row'[s].counted = IF row[s].status \in {"crashed", "stopped"} /\ row[s].counted = 0
                                      /\ dirs[s].db # NoFile
                                   THEN dirs[s].db ELSE row[s].counted
    BY <1>0, <2>1 DEF Row, Dir
  <2>3. /\ proc' \in [Procs -> Process] /\ proc'[p].pc = "vacuum" /\ \A q \in Procs \ {p} : proc'[q] = proc[q]
        /\ proc'[p].todo = Unvacuumed
    <3>1. Unvacuumed \in SUBSET Sessions
      BY DEF Unvacuumed, WithStatus
    <3> QED BY <1>0, <2>1, <1>c, <3>1, WorkEffect DEF CleanupPoints
  <2>4. CleanedSoFar(p)'
    BY <1>0, <2>1, <2>2, <2>3 DEF CleanedSoFar, CleansUp, CleanupPoints, VacuumPoints, SessionPoints
  <2>5. ASSUME NEW s \in Unvacuumed PROVE Counted(s)'
    <3>1. s \in Sessions /\ row[s].status \in {"crashed", "stopped"}
      BY DEF Unvacuumed, WithStatus
    <3>2. dirs[s].db # NoFile => dirs[s].db = stored[s]
      BY <1>0, <2>5, <3>1 DEF FilesExact
    <3>3. ~Live(s)
      BY <1>0, <2>1 DEF Live, OneUp
    <3>4. dirs[s].db # NoFile /\ s \notin behind => row[s].counted \in {0, stored[s]}
      BY <1>0, <3>1, <3>3 DEF Reckoned, FilesExact
    <3> QED BY <2>1, <2>2, <3>1, <3>2, <3>4 DEF Counted
  <2>6. proc'[p].pc \in CleanupPoints
    BY <2>3 DEF CleanupPoints
  <2>7. FiguresStay
    BY <1>0, <2>2 DEF FiguresStay, FilesExact
  <2> QED BY <1>0, <2>1, <2>2, <2>3, <2>4, <2>5, <2>6, <2>7, CleanupMoves
<1>4. ASSUME VacuumNext(p) PROVE SessionInv'
  <2> DEFINE s == Min(proc[p].todo)
  <2>1. proc[p].pc = "vacuum" /\ s \in Sessions /\ s \in proc[p].todo /\ UNCHANGED <<row, dirs, stored, behind, late, started, day>>
    BY <1>0, <1>4, MinIn DEF VacuumNext
  <2> HIDE DEF s
  <2>2. /\ proc' \in [Procs -> Process] /\ \A q \in Procs \ {p} : proc'[q] = proc[q]
        /\ proc'[p].pc = "open" /\ proc'[p].session = s /\ proc'[p].then = "vacuum"
        /\ proc'[p].todo = proc[p].todo \ {s}
    <3>1. proc' = [proc EXCEPT ![p].pc = "open", ![p].session = s, ![p].then = "vacuum", ![p].todo = @ \ {s}]
      BY <1>4 DEF VacuumNext, s
    <3>2. "open" \in Points
      BY PointsAre DEF VacuumPoints
    <3> QED BY <1>0, <2>1, <3>1, <3>2 DEF SessionTypes, Process, Sessions
  <2>3. CleanedSoFar(p)'
    BY <1>0, <2>1, <2>2 DEF CleanedSoFar, CleansUp, CleanupPoints, VacuumPoints, SessionPoints
  <2>4. Holds(p)'
    BY <1>0, <2>1, <2>2 DEF Holds, VacuumPoints, SessionPoints, Counted
  <2>5. OneUp' /\ \A q \in Procs : ProcInv(q)'
    BY <1>0, <2>1, <2>2, <2>3, <2>4, OnlyOne DEF ProcInv
  <2>6. SessionTypes'
    BY <1>0, <2>1, <2>2 DEF SessionTypes
  <2>7. FilesExact' /\ Reckoned' /\ TelemetryKept'
    BY <1>0, <2>1, FilesStay DEF FiguresStay
  <2> QED BY <2>5, <2>6, <2>7 DEF SessionInv
<1>5. ASSUME VacuumDone(p) PROVE SessionInv'
  <2>1. proc[p].pc = "vacuum" /\ StepTo(p, "age") /\ UNCHANGED <<row, dirs, stored, behind, late, started, day>>
    BY <1>5 DEF VacuumDone
  <2>2. proc' \in [Procs -> Process] /\ proc'[p].pc = "age" /\ \A q \in Procs \ {p} : proc'[q] = proc[q]
    BY <1>0, <2>1, <1>c, StepToEffect DEF CleanupPoints
  <2>3. CleanedSoFar(p)'
    BY <1>0, <2>1, <2>2 DEF CleanedSoFar, CleansUp, CleanupPoints, VacuumPoints, SessionPoints
  <2>4. proc'[p].pc \in CleanupPoints /\ proc'[p].pc # "vacuum"
    BY <2>2 DEF CleanupPoints
  <2> QED BY <1>0, <2>1, <2>2, <2>3, <2>4, CleanupMoves DEF FiguresStay
<1>6. ASSUME TerminateOlder(p) \/ TerminateExcess(p) PROVE SessionInv'
  <2>1. PICK S \in SUBSET Sessions : SetStatus(S, "terminated")
    BY <1>6, <1>a DEF TerminateOlder, TerminateExcess
  <2>2. /\ proc[p].pc \in {"age", "cap"} /\ UNCHANGED <<dirs, stored, behind, late, started, day>>
        /\ \E pc \in {"cap", "dirs"} : StepTo(p, pc)
    BY <1>6 DEF TerminateOlder, TerminateExcess
  <2>3. proc' \in [Procs -> Process] /\ proc'[p].pc \in {"cap", "dirs"} /\ \A q \in Procs \ {p} : proc'[q] = proc[q]
    BY <1>0, <2>2, <1>c, StepToEffect DEF CleanupPoints
  <2>4. /\ row' \in [Sessions -> Row]
        /\ \A s \in Sessions : /\ row'[s].counted = row[s].counted
                               /\ row'[s].status \in {row[s].status, "terminated"}
    BY <1>0, <1>b, <2>1, SetStatusEffect
  <2>5. CleanedSoFar(p)'
    BY <1>0, <2>2, <2>3, <2>4 DEF CleanedSoFar, CleansUp, CleanupPoints, VacuumPoints, SessionPoints
  <2>6. proc'[p].pc \in CleanupPoints /\ proc'[p].pc # "vacuum"
    BY <2>3 DEF CleanupPoints
  <2> QED BY <1>0, <2>2, <2>3, <2>4, <2>5, <2>6, CleanupMoves DEF FiguresStay
<1>7. ASSUME CullStart(p) \/ CullDone(p) PROVE SessionInv'
  <2>1. /\ proc[p].pc \in {"dirs", "cull"} /\ UNCHANGED <<row, dirs, stored, behind, late, started, day>>
        /\ \E pc \in {"dirs", "cull"}, S \in SUBSET Sessions : Work(p, pc, S)
    BY <1>7, <1>a DEF CullStart, CullDone
  <2>2. proc' \in [Procs -> Process] /\ proc'[p].pc \in {"dirs", "cull"} /\ \A q \in Procs \ {p} : proc'[q] = proc[q]
    BY <1>0, <2>1, <1>c, WorkEffect DEF CleanupPoints
  <2>3. CleanedSoFar(p)'
    BY <1>0, <2>1, <2>2 DEF CleanedSoFar, CleansUp, CleanupPoints, VacuumPoints, SessionPoints
  <2>4. proc'[p].pc \in CleanupPoints /\ proc'[p].pc # "vacuum"
    BY <2>2 DEF CleanupPoints
  <2> QED BY <1>0, <2>1, <2>2, <2>3, <2>4, CleanupMoves DEF FiguresStay
<1>8. ASSUME CullDir(p) PROVE SessionInv'
  <2> DEFINE s == Min(proc[p].todo)
  <2>1. /\ proc[p].pc = "cull" /\ s \in Sessions /\ RemoveDirs({s}) /\ UNCHANGED <<row, stored, behind, late, started, day>>
    BY <1>0, <1>8, MinIn DEF CullDir
  <2> HIDE DEF s
  <2>2. /\ proc' \in [Procs -> Process] /\ \A q \in Procs \ {p} : proc'[q] = proc[q]
        /\ proc'[p].pc \in {"cull", "culled"} /\ proc'[p].session = s
    <3>1. proc' = [proc EXCEPT ![p].pc = IF dirs[s].dir THEN "culled" ELSE @, ![p].session = s, ![p].todo = @ \ {s}]
      BY <1>8 DEF CullDir, s
    <3>2. "culled" \in Points
      BY PointsAre DEF CleanupPoints
    <3>3. s \in 0..MaxSessions /\ proc \in [Procs -> Process] /\ proc[p].todo \ {s} \in SUBSET Sessions
      BY <1>0, <2>1 DEF SessionTypes, Sessions
    <3> DEFINE new == [[[proc[p] EXCEPT !.pc = IF dirs[s].dir THEN "culled" ELSE @] EXCEPT !.session = s]
                       EXCEPT !.todo = @ \ {s}]
    <3>4. new \in Process /\ new.pc \in {"cull", "culled"} /\ new.session = s
      BY <2>1, <3>2, <3>3 DEF Process
    <3>5. proc' = [proc EXCEPT ![p] = new]
      BY <3>1, <3>3
    <3> HIDE DEF new
    <3> QED BY <3>3, <3>4, <3>5
  <2>3. /\ dirs' \in [Sessions -> Dir]
        /\ \A t \in Sessions : dirs'[t] = dirs[t] \/ (~dirs'[t].dir /\ ~dirs'[t].scratch /\ dirs'[t].db = NoFile)
    BY <1>0, <2>1, RemoveDirsEffect
  <2>4. CleanedSoFar(p)'
    BY <1>0, <2>1, <2>2, <2>3 DEF CleanedSoFar, CleansUp, CleanupPoints, VacuumPoints, SessionPoints
  <2>5. proc'[p].pc \in CleanupPoints /\ proc'[p].pc # "vacuum"
    BY <2>2 DEF CleanupPoints
  <2> QED BY <1>0, <2>1, <2>2, <2>3, <2>4, <2>5, CleanupMoves DEF FiguresStay
<1>9. ASSUME CullMark(p) PROVE SessionInv'
  <2>1. /\ proc[p].pc = "culled" /\ SetStatus({proc[p].session}, "terminated") /\ StepTo(p, "cull")
        /\ UNCHANGED <<dirs, stored, behind, late, started, day>>
    BY <1>9 DEF CullMark
  <2>2. proc' \in [Procs -> Process] /\ proc'[p].pc = "cull" /\ \A q \in Procs \ {p} : proc'[q] = proc[q]
    BY <1>0, <2>1, <1>c, StepToEffect DEF CleanupPoints
  <2>3. {proc[p].session} \in SUBSET Sessions
    BY <1>0, <2>1 DEF CleanedSoFar
  <2>4. /\ row' \in [Sessions -> Row]
        /\ \A s \in Sessions : /\ row'[s].counted = row[s].counted
                               /\ row'[s].status \in {row[s].status, "terminated"}
    BY <1>0, <1>b, <2>1, <2>3, SetStatusEffect, ZenonT(60)
  <2>5. CleanedSoFar(p)'
    BY <1>0, <2>1, <2>2, <2>4 DEF CleanedSoFar, CleansUp, CleanupPoints, VacuumPoints, SessionPoints
  <2>6. proc'[p].pc \in CleanupPoints /\ proc'[p].pc # "vacuum"
    BY <2>2 DEF CleanupPoints
  <2> QED BY <1>0, <2>1, <2>2, <2>4, <2>5, <2>6, CleanupMoves DEF FiguresStay
<1>10. ASSUME RemoveTerminated(p) PROVE SessionInv'
  <2>1. /\ proc[p].pc = "dirs" /\ RemoveDirs(WithStatus({"terminated"})) /\ StepTo(p, "purge")
        /\ UNCHANGED <<row, stored, behind, late, started, day>>
    BY <1>10 DEF RemoveTerminated
  <2>2. proc' \in [Procs -> Process] /\ proc'[p].pc = "purge" /\ \A q \in Procs \ {p} : proc'[q] = proc[q]
    BY <1>0, <2>1, <1>c, StepToEffect DEF CleanupPoints
  <2>3. /\ dirs' \in [Sessions -> Dir]
        /\ \A t \in Sessions : dirs'[t] = dirs[t] \/ (~dirs'[t].dir /\ ~dirs'[t].scratch /\ dirs'[t].db = NoFile)
        /\ \A t \in Sessions : row[t].status = "terminated" => ~dirs'[t].dir
    BY <1>0, <1>a, <2>1, RemoveDirsEffect DEF WithStatus
  <2>4. CleanedSoFar(p)'
    BY <1>0, <2>1, <2>2, <2>3 DEF CleanedSoFar, CleansUp, CleanupPoints, VacuumPoints, SessionPoints
  <2>5. proc'[p].pc \in CleanupPoints /\ proc'[p].pc # "vacuum"
    BY <2>2 DEF CleanupPoints
  <2> QED BY <1>0, <2>1, <2>2, <2>3, <2>4, <2>5, CleanupMoves DEF FiguresStay
<1>11. ASSUME Purge(p) PROVE SessionInv'
  <2>1. proc[p].pc = "purge" /\ StepTo(p, "orphans") /\ UNCHANGED <<dirs, stored, behind, late, started, day>>
    BY <1>11 DEF Purge
  <2>2. proc' \in [Procs -> Process] /\ proc'[p].pc = "orphans" /\ \A q \in Procs \ {p} : proc'[q] = proc[q]
    BY <1>0, <2>1, <1>c, StepToEffect DEF CleanupPoints
  <2>3. /\ row' \in [Sessions -> Row]
        /\ \A s \in Sessions :
              \/ row'[s] = row[s]
              \/ row[s].status = "terminated" /\ row'[s].status = "none" /\ row'[s].counted = 0
    BY <1>0, <1>11, NoRowIs DEF Purge
  <2>4. CleanedSoFar(p)'
    BY <1>0, <2>1, <2>2, <2>3 DEF CleanedSoFar, CleansUp, CleanupPoints, VacuumPoints, SessionPoints
  <2>5. proc'[p].pc \in CleanupPoints /\ proc'[p].pc # "vacuum"
    BY <2>2 DEF CleanupPoints
  <2>6. FiguresStay
    BY <1>0, <2>1, <2>3 DEF CleanedSoFar, FiguresStay
  <2> QED BY <1>0, <2>1, <2>2, <2>3, <2>4, <2>5, <2>6, CleanupMoves
<1>12. ASSUME RemoveOrphans(p) PROVE SessionInv'
  <2>1. /\ proc[p].pc = "orphans" /\ RemoveDirs(WithStatus({"none"})) /\ StepTo(p, "fresh")
        /\ UNCHANGED <<row, stored, behind, late, started, day>>
    BY <1>12 DEF RemoveOrphans
  <2>2. proc' \in [Procs -> Process] /\ proc'[p].pc = "fresh" /\ \A q \in Procs \ {p} : proc'[q] = proc[q]
    BY <1>0, <2>1, <1>c, StepToEffect DEF CleanupPoints
  <2>3. /\ dirs' \in [Sessions -> Dir]
        /\ \A t \in Sessions : dirs'[t] = dirs[t] \/ (~dirs'[t].dir /\ ~dirs'[t].scratch /\ dirs'[t].db = NoFile)
        /\ \A t \in Sessions : row[t].status = "none" => ~dirs'[t].dir
    BY <1>0, <1>a, <2>1, RemoveDirsEffect DEF WithStatus
  <2>4. CleanedSoFar(p)'
    BY <1>0, <2>1, <2>2, <2>3 DEF CleanedSoFar, CleansUp, CleanupPoints, VacuumPoints, SessionPoints
  <2>5. proc'[p].pc \in CleanupPoints /\ proc'[p].pc # "vacuum"
    BY <2>2 DEF CleanupPoints
  <2> QED BY <1>0, <2>1, <2>2, <2>3, <2>4, <2>5, CleanupMoves DEF FiguresStay
<1> QED BY <1>1, <1>2, <1>3, <1>4, <1>5, <1>6, <1>7, <1>8, <1>9, <1>10, <1>11, <1>12 DEF Cleanup

------------------------------------------------------------------------------
(* vacuum_session.                                                         *)

\* What has to be shown of a step of one process.
LEMMA ProcessMoves ==
    ASSUME SessionInv, NEW p \in Procs, proc[p].pc # "down" \/ \A q \in Procs : proc[q].pc = "down",
           SessionTypes', \A q \in Procs \ {p} : proc'[q] = proc[q],
           CleanedSoFar(p)', Holds(p)' /\ FilesExact' /\ Reckoned' /\ TelemetryKept'
    PROVE  SessionInv'
<1>1. OneUp' /\ \A q \in Procs : ProcInv(q)'
  BY OnlyOne DEF SessionInv, ProcInv
<1> QED BY <1>1 DEF SessionInv

\* Every step of vacuum_session keeps the invariant.
LEMMA VacuumStep == ASSUME SessionInv, NEW p \in Procs, Vacuum(p) PROVE SessionInv'
<1> DEFINE s == proc[p].session
<1>0. /\ SessionTypes /\ OneUp /\ CleanedSoFar(p) /\ Holds(p) /\ FilesExact /\ Reckoned /\ TelemetryKept
      /\ row \in [Sessions -> Row] /\ dirs \in [Sessions -> Dir] /\ proc[p].todo \in SUBSET Sessions
      /\ proc[p].image \in Nat /\ proc[p].then \in {"down", "vacuum", "ready"}
  BY DEF SessionInv, ProcInv, SessionTypes, Process
<1>a. VacuumPoints \subseteq Points /\ proc[p].then \in Points
  BY <1>0 DEF Points, CleanupPoints
<1>b. NoFile \notin Nat /\ Partial # NoFile
  BY DEF NoFile, Partial
<1>c. proc[p].pc \in VacuumPoints => s \in Sessions
  BY <1>0 DEF CleanedSoFar
<1>1. ASSUME VacuumFails(p) PROVE SessionInv'
  <2>1. /\ proc[p].pc \in {"open", "compress"} /\ StepTo(p, proc[p].then)
        /\ UNCHANGED <<row, dirs, stored, behind, late, started, day>>
    BY <1>1 DEF VacuumFails
  <2>2. /\ proc' \in [Procs -> Process] /\ proc'[p].pc = proc[p].then /\ proc'[p].todo = proc[p].todo
        /\ \A q \in Procs \ {p} : proc'[q] = proc[q]
    BY <1>0, <1>a, <2>1, StepToEffect
  <2>3. CleanedSoFar(p)'
    BY <1>0, <2>1, <2>2 DEF CleanedSoFar, CleansUp, CleanupPoints, VacuumPoints, SessionPoints
  <2>4. Holds(p)'
    BY <1>0, <2>1, <2>2 DEF Holds, VacuumPoints, SessionPoints, Counted
  <2>5. FilesExact' /\ Reckoned' /\ TelemetryKept'
    BY <1>0, <2>1, FilesStay DEF FiguresStay
  <2>6. SessionTypes'
    BY <1>0, <2>1, <2>2 DEF SessionTypes
  <2> QED BY <2>1, <2>2, <2>3, <2>4, <2>5, <2>6, ProcessMoves
<1>2. ASSUME VacuumOpen(p) PROVE SessionInv'
  <2>1. /\ proc[p].pc = "open" /\ dirs[s].db # NoFile /\ UNCHANGED <<row, stored, behind, late, started, day>>
        /\ dirs' = [dirs EXCEPT ![s].gz = Partial]
        /\ proc' = [proc EXCEPT ![p].pc = "compress", ![p].image = dirs[s].db]
    BY <1>2 DEF VacuumOpen, Current, File
  <2>2. s \in Sessions /\ dirs[s].db \in Nat
    BY <1>0, <1>c, <2>1 DEF VacuumPoints, Dir
  <2>3. /\ dirs' \in [Sessions -> Dir] /\ \A t \in Sessions \ {s} : dirs'[t] = dirs[t]
        /\ dirs'[s].db = dirs[s].db /\ dirs'[s].dir = dirs[s].dir /\ dirs'[s].scratch = dirs[s].scratch
    BY <1>0, <2>1, <2>2 DEF Dir
  <2>4. /\ proc' \in [Procs -> Process] /\ \A q \in Procs \ {p} : proc'[q] = proc[q]
        /\ proc'[p].pc = "compress" /\ proc'[p].image = dirs[s].db /\ proc'[p].session = s
        /\ proc'[p].todo = proc[p].todo /\ proc'[p].then = proc[p].then
    BY <1>0, <1>a, <2>1, <2>2 DEF SessionTypes, Process, VacuumPoints
  <2>5. CleanedSoFar(p)'
    BY <1>0, <2>1, <2>3, <2>4 DEF CleanedSoFar, CleansUp, CleanupPoints, VacuumPoints, SessionPoints
  <2>6. Holds(p)'
    BY <1>0, <2>1, <2>2, <2>3, <2>4 DEF Holds, VacuumPoints, SessionPoints, Counted
  <2>7. FilesExact' /\ Reckoned' /\ TelemetryKept'
    <3>1. Reckoned'
      BY <1>0, <2>1, <2>3, ReckonedStays DEF FiguresStay
    <3>2. FilesExact' /\ TelemetryKept'
      BY <1>0, <1>b, <2>1, <2>2, <2>3 DEF FilesExact, TelemetryKept
    <3> QED BY <3>1, <3>2
  <2>8. SessionTypes'
    BY <1>0, <2>1, <2>3, <2>4 DEF SessionTypes
  <2> QED BY <2>1, <2>4, <2>5, <2>6, <2>7, <2>8, ProcessMoves
<1>3. ASSUME VacuumCompress(p) PROVE SessionInv'
  <2>1. /\ proc[p].pc = "compress" /\ UNCHANGED <<row, stored, behind, late, started, day>>
        /\ dirs' = [dirs EXCEPT ![s].gz = proc[p].image] /\ StepTo(p, "remove")
    BY <1>3 DEF VacuumCompress, Current, File
  <2>2. s \in Sessions
    BY <1>c, <2>1 DEF VacuumPoints
  <2>3. /\ dirs' \in [Sessions -> Dir] /\ \A t \in Sessions \ {s} : dirs'[t] = dirs[t]
        /\ dirs'[s].db = dirs[s].db /\ dirs'[s].dir = dirs[s].dir /\ dirs'[s].scratch = dirs[s].scratch
        /\ dirs'[s].gz = proc[p].image
    BY <1>0, <2>1, <2>2 DEF Dir
  <2>4. /\ proc' \in [Procs -> Process] /\ \A q \in Procs \ {p} : proc'[q] = proc[q]
        /\ proc'[p].pc = "remove" /\ proc'[p].session = s
        /\ proc'[p].todo = proc[p].todo /\ proc'[p].then = proc[p].then
    BY <1>0, <1>a, <2>1, StepToEffect DEF VacuumPoints
  <2>5. CleanedSoFar(p)'
    BY <1>0, <2>1, <2>3, <2>4 DEF CleanedSoFar, CleansUp, CleanupPoints, VacuumPoints, SessionPoints
  <2>6. dirs[s].db # NoFile /\ (s \in late \/ dirs[s].db = proc[p].image) /\ dirs[s].db = stored[s]
    BY <1>0, <1>b, <2>1, <2>2 DEF Holds, FilesExact
  <2>7. Holds(p)'
    BY <1>0, <2>1, <2>2, <2>3, <2>4, <2>6 DEF Holds, VacuumPoints, SessionPoints, Counted
  <2>8. FilesExact' /\ Reckoned' /\ TelemetryKept'
    <3>1. Reckoned'
      BY <1>0, <2>1, <2>3, ReckonedStays DEF FiguresStay
    <3>2. FilesExact' /\ TelemetryKept'
      BY <1>0, <1>b, <2>1, <2>2, <2>3, <2>6 DEF FilesExact, TelemetryKept
    <3> QED BY <3>1, <3>2
  <2>9. SessionTypes'
    BY <1>0, <2>1, <2>3, <2>4 DEF SessionTypes
  <2> QED BY <2>1, <2>4, <2>5, <2>7, <2>8, <2>9, ProcessMoves
<1>4. ASSUME VacuumRemove(p) PROVE SessionInv'
  <2>1. /\ proc[p].pc = "remove" /\ UNCHANGED <<row, stored, behind, late, started, day>>
        /\ dirs' = [dirs EXCEPT ![s].db = NoFile] /\ StepTo(p, "vacuumed")
    BY <1>4 DEF VacuumRemove, Current
  <2>2. s \in Sessions
    BY <1>c, <2>1 DEF VacuumPoints
  <2>3. /\ dirs' \in [Sessions -> Dir] /\ \A t \in Sessions \ {s} : dirs'[t] = dirs[t]
        /\ dirs'[s].db = NoFile /\ dirs'[s].dir = dirs[s].dir /\ dirs'[s].scratch = dirs[s].scratch
        /\ dirs'[s].gz = dirs[s].gz
    BY <1>0, <2>1, <2>2 DEF Dir
  <2>4. /\ proc' \in [Procs -> Process] /\ \A q \in Procs \ {p} : proc'[q] = proc[q]
        /\ proc'[p].pc = "vacuumed" /\ proc'[p].session = s
        /\ proc'[p].todo = proc[p].todo /\ proc'[p].then = proc[p].then
    BY <1>0, <1>a, <2>1, StepToEffect DEF VacuumPoints
  <2>5. CleanedSoFar(p)'
    BY <1>0, <2>1, <2>3, <2>4 DEF CleanedSoFar, CleansUp, CleanupPoints, VacuumPoints, SessionPoints
  <2>6. /\ dirs[s].db # NoFile /\ (s \notin late => dirs[s].gz = dirs[s].db) /\ dirs[s].db = stored[s]
        /\ stored[s] > 0 /\ s \notin behind => row[s].counted = stored[s]
    BY <1>0, <2>1, <2>2 DEF Holds, FilesExact, Counted
  <2>7. Holds(p)'
    BY <1>0, <2>1, <2>2, <2>3, <2>4 DEF Holds, VacuumPoints, SessionPoints, Counted
  <2>8. FilesExact' /\ Reckoned' /\ TelemetryKept'
    <3>1. Reckoned'
      BY <1>0, <2>1, <2>3, ReckonedStays DEF FiguresStay
    <3>2. FilesExact' /\ TelemetryKept'
      BY <1>0, <1>b, <2>1, <2>2, <2>3, <2>6 DEF FilesExact, TelemetryKept
    <3> QED BY <3>1, <3>2
  <2>9. SessionTypes'
    BY <1>0, <2>1, <2>3, <2>4 DEF SessionTypes
  <2> QED BY <2>1, <2>4, <2>5, <2>7, <2>8, <2>9, ProcessMoves
<1>5. ASSUME MarkVacuumed(p) PROVE SessionInv'
  <2>1. /\ proc[p].pc = "vacuumed" /\ UNCHANGED <<dirs, stored, behind, late, started, day>> /\ StepTo(p, proc[p].then)
        /\ Update([t \in {s} |-> [row[t] EXCEPT !.status = "vacuumed", !.vacuumed = TRUE]])
    BY <1>5 DEF MarkVacuumed, Current
  <2>2. s \in Sessions
    BY <1>c, <2>1 DEF VacuumPoints
  <2>3. /\ row' \in [Sessions -> Row] /\ \A t \in Sessions : row'[t].counted = row[t].counted
        /\ \A t \in Sessions : row'[t].status \in {row[t].status, "vacuumed"}
    <3>1. row' = [t \in Sessions |-> IF t = s /\ row[t].status # "none"
                                     THEN [row[s] EXCEPT !.status = "vacuumed", !.vacuumed = TRUE] ELSE row[t]]
      BY <2>1, <2>2 DEF Update
    <3>2. "vacuumed" \in Statuses
      BY DEF Statuses, Finished
    <3> QED BY <1>0, <2>2, <3>1, <3>2 DEF Row
  <2>4. /\ proc' \in [Procs -> Process] /\ proc'[p].pc = proc[p].then /\ proc'[p].todo = proc[p].todo
        /\ \A q \in Procs \ {p} : proc'[q] = proc[q]
    BY <1>0, <1>a, <2>1, StepToEffect
  <2>5. CleanedSoFar(p)'
    BY <1>0, <2>1, <2>3, <2>4 DEF CleanedSoFar, CleansUp, CleanupPoints, VacuumPoints, SessionPoints
  <2>6. Holds(p)'
    BY <1>0, <2>1, <2>3, <2>4 DEF Holds, VacuumPoints, SessionPoints, Counted
  <2>7. FilesExact' /\ Reckoned' /\ TelemetryKept'
    BY <1>0, <2>1, <2>3, FilesStay DEF FiguresStay
  <2>8. SessionTypes'
    BY <1>0, <2>1, <2>3, <2>4 DEF SessionTypes
  <2> QED BY <2>1, <2>4, <2>5, <2>6, <2>7, <2>8, ProcessMoves
<1> QED BY <1>1, <1>2, <1>3, <1>4, <1>5 DEF Vacuum

------------------------------------------------------------------------------
(* A session, and the end of a process.                                    *)

\* Every step of a session keeps the invariant.
LEMMA SessionStep == ASSUME SessionInv, NEW p \in Procs, Session(p) PROVE SessionInv'
<1> DEFINE s == proc[p].session
<1>0. /\ SessionTypes /\ OneUp /\ CleanedSoFar(p) /\ Holds(p) /\ FilesExact /\ Reckoned /\ TelemetryKept
      /\ row \in [Sessions -> Row] /\ dirs \in [Sessions -> Dir] /\ stored \in [Sessions -> Nat]
      /\ proc \in [Procs -> Process] /\ started \in 0..MaxSessions /\ MaxSessions \in Nat /\ day \in Nat
  BY IndexAssumption DEF SessionInv, ProcInv, SessionTypes
<1>a. SessionPoints \subseteq Points /\ "ready" \in Points /\ "open" \in Points
  BY DEF Points, VacuumPoints
<1>b. NoFile \notin Nat
  BY DEF NoFile
<1>c. proc[p].pc \in SessionPoints \cup VacuumPoints => s \in Sessions
  BY <1>0 DEF CleanedSoFar
<1>1. ASSUME MakeDir(p) PROVE SessionInv'
  <2> DEFINE n == started + 1
             d == [Empty EXCEPT !.dir = TRUE, !.scratch = p \in Cli]
  <2>1. /\ proc[p].pc \in {"fresh", "ready"} /\ started < MaxSessions /\ started' = n /\ UNCHANGED <<row, stored, behind, late, day>>
        /\ dirs' = [dirs EXCEPT ![n] = d] /\ proc' = [proc EXCEPT ![p].pc = "made", ![p].session = n]
    BY <1>1 DEF MakeDir
  <2>2. n \in Sessions /\ n \in 0..MaxSessions
    BY <1>0, <2>1 DEF Sessions
  <2>3. d \in Dir /\ d.db = NoFile
    <3>1. ASSUME NEW b \in BOOLEAN
          PROVE  LET e == [Empty EXCEPT !.dir = TRUE, !.scratch = b] IN e \in Dir /\ e.db = NoFile
      BY DEF Empty, Dir
    <3>2. CASE p \in Cli
      <4>1. (p \in Cli) = TRUE
        BY <3>2
      <4> QED BY <3>1, <4>1
    <3>3. CASE p \notin Cli
      <4>1. (p \in Cli) = FALSE
        BY <3>3
      <4> QED BY <3>1, <4>1
    <3> QED BY <3>2, <3>3
  <2> HIDE DEF n, d
  <2>4. /\ dirs' \in [Sessions -> Dir] /\ dirs'[n].db = NoFile /\ \A t \in Sessions \ {n} : dirs'[t] = dirs[t]
    BY <1>0, <2>1, <2>2, <2>3
  <2>5. /\ proc' \in [Procs -> Process] /\ \A q \in Procs \ {p} : proc'[q] = proc[q]
        /\ proc'[p].pc = "made" /\ proc'[p].session = n
    BY <1>0, <1>a, <2>1, <2>2 DEF Process, SessionPoints
  <2>6. SessionTypes'
    BY <1>0, <2>1, <2>2, <2>4, <2>5 DEF SessionTypes
  <2>7. CleanedSoFar(p)'
    BY <2>2, <2>5 DEF CleanedSoFar, CleansUp, CleanupPoints, VacuumPoints
  <2>8. stored[n] = 0 /\ row[n].counted = 0
    BY <1>0, <2>2 DEF FilesExact, n, Sessions
  <2>9. Holds(p)'
    BY <2>1, <2>2, <2>5, <2>8 DEF Holds, VacuumPoints
  <2>10. FilesExact' /\ Reckoned' /\ TelemetryKept'
    <3>1. \A t \in Sessions : t > n => t > started
      BY <1>0 DEF n, Sessions
    <3>2. \A t : ~Live(t)
      BY <1>0, <2>1 DEF Live, OneUp
    <3>3. Reckoned'
      BY <1>0, <2>1, <2>4, <2>8, <3>2 DEF Reckoned
    <3>4. FilesExact' /\ TelemetryKept'
      BY <1>0, <2>1, <2>4, <2>8, <3>1 DEF FilesExact, TelemetryKept
    <3> QED BY <3>3, <3>4
  <2> QED BY <2>1, <2>5, <2>6, <2>7, <2>9, <2>10, ProcessMoves
<1>2. ASSUME CreateSession(p) PROVE SessionInv'
  <2> DEFINE r == [NoRow EXCEPT !.status = "running", !.created = day]
  <2>1. /\ proc[p].pc = "made" /\ row' = [row EXCEPT ![s] = r] /\ StepTo(p, "recorded")
        /\ UNCHANGED <<dirs, stored, behind, late, started, day>>
    BY <1>2 DEF CreateSession, Current
  <2>2. r \in Row /\ r.status = "running" /\ r.counted = 0 /\ s \in Sessions
    BY <1>0, <1>c, <2>1 DEF NoRow, Row, Statuses, SessionPoints
  <2> HIDE DEF r
  <2>3. row' \in [Sessions -> Row] /\ row'[s].status = "running" /\ row'[s].counted = 0 /\ \A t \in Sessions \ {s} : row'[t] = row[t]
    BY <1>0, <2>1, <2>2
  <2>4. /\ proc' \in [Procs -> Process] /\ \A q \in Procs \ {p} : proc'[q] = proc[q]
        /\ proc'[p].pc = "recorded" /\ proc'[p].session = s
    BY <1>0, <1>a, <2>1, StepToEffect DEF SessionPoints
  <2>5. SessionTypes'
    BY <1>0, <2>1, <2>3, <2>4 DEF SessionTypes
  <2>6. CleanedSoFar(p)'
    BY <2>2, <2>4 DEF CleanedSoFar, CleansUp, CleanupPoints, VacuumPoints
  <2>7. stored[s] = 0 /\ s <= started
    BY <1>0, <2>1 DEF Holds, SessionPoints
  <2>8. Holds(p)'
    BY <2>1, <2>3, <2>4, <2>7 DEF Holds, VacuumPoints
  <2>9. FilesExact' /\ Reckoned' /\ TelemetryKept'
    <3>1. \A t : ~Live(t)
      BY <1>0, <2>1 DEF Live, OneUp
    <3>2. Reckoned'
      BY <1>0, <2>1, <2>3, <3>1 DEF Reckoned
    <3>3. FilesExact' /\ TelemetryKept'
      BY <1>0, <2>1, <2>3, <2>7 DEF FilesExact, TelemetryKept
    <3> QED BY <3>2, <3>3
  <2> QED BY <2>1, <2>4, <2>5, <2>6, <2>8, <2>9, ProcessMoves
<1>3. ASSUME OpenDb(p) PROVE SessionInv'
  <2>1. /\ proc[p].pc = "recorded" /\ dirs' = [dirs EXCEPT ![s].dir = TRUE, ![s].db = 0] /\ StepTo(p, "live")
        /\ UNCHANGED <<row, stored, behind, late, started, day>> /\ s \in Sessions
    BY <1>3, <1>c DEF OpenDb, Current, SessionPoints
  <2>2. dirs' \in [Sessions -> Dir] /\ dirs'[s].db = 0 /\ dirs'[s].dir /\ \A t \in Sessions \ {s} : dirs'[t] = dirs[t]
    BY <1>0, <2>1, ZenonT(60) DEF Dir
  <2>3. /\ proc' \in [Procs -> Process] /\ \A q \in Procs \ {p} : proc'[q] = proc[q]
        /\ proc'[p].pc = "live" /\ proc'[p].session = s
    BY <1>0, <1>a, <2>1, StepToEffect DEF SessionPoints
  <2>4. SessionTypes'
    BY <1>0, <2>1, <2>2, <2>3 DEF SessionTypes
  <2>5. CleanedSoFar(p)'
    BY <2>1, <2>3 DEF CleanedSoFar, CleansUp, CleanupPoints, VacuumPoints
  <2>6. stored[s] = 0 /\ s <= started /\ row[s].status # "none"
    BY <1>0, <2>1 DEF Holds, SessionPoints
  <2>7. Holds(p)'
    BY <1>b, <2>1, <2>2, <2>3, <2>6 DEF Holds, VacuumPoints
  <2>8. FilesExact' /\ Reckoned' /\ TelemetryKept'
    <3>1. (\A t \in Sessions : t = s => Live(t)') /\ \A t : ~Live(t)
      BY <1>0, <2>1, <2>3 DEF Live, OneUp
    <3>2. Reckoned'
      <4> HIDE DEF s
      <4> QED BY <1>0, <2>1, <2>2, <3>1 DEF Reckoned
    <3>3. FilesExact' /\ TelemetryKept'
      BY <1>0, <2>1, <2>2, <2>6 DEF FilesExact, TelemetryKept
    <3> QED BY <3>2, <3>3
  <2> QED BY <2>1, <2>3, <2>4, <2>5, <2>7, <2>8, ProcessMoves
<1>4. ASSUME BootFails(p) PROVE SessionInv'
  <2>1. proc[p].pc = "recorded" /\ StepTo(p, "ready") /\ UNCHANGED <<row, dirs, stored, behind, late, started, day>>
    BY <1>4 DEF BootFails
  <2>2. proc' \in [Procs -> Process] /\ proc'[p].pc = "ready" /\ \A q \in Procs \ {p} : proc'[q] = proc[q]
    BY <1>0, <1>a, <2>1, StepToEffect
  <2>3. SessionTypes'
    BY <1>0, <2>1, <2>2 DEF SessionTypes
  <2>4. CleanedSoFar(p)' /\ Holds(p)'
    BY <2>2 DEF CleanedSoFar, CleansUp, CleanupPoints, VacuumPoints, SessionPoints, Holds
  <2>5. FilesExact' /\ Reckoned' /\ TelemetryKept'
    BY <1>0, <2>1, FilesStay DEF FiguresStay
  <2> QED BY <2>1, <2>2, <2>3, <2>4, <2>5, ProcessMoves
<1>5. ASSUME LogEvent(p) PROVE SessionInv'
  <2>1. /\ UNCHANGED <<row, proc, started, day>> /\ stored' = [stored EXCEPT ![s] = @ + 1]
        /\ proc[p].pc = "live" \/ Stopping(p)
        /\ dirs' = IF dirs[s].db = NoFile THEN dirs ELSE [dirs EXCEPT ![s].db = @ + 1]
        /\ behind' = IF proc[p].pc = "live" THEN behind ELSE behind \cup {s}
        /\ late' = IF proc[p].pc \in {"live", "open"} THEN late ELSE late \cup {s}
    BY <1>5 DEF LogEvent, Current, File
  <2>2. s \in Sessions /\ proc[p].pc # "down"
    BY <1>c, <2>1 DEF Stopping, SessionPoints, VacuumPoints
  <2>3. stored' \in [Sessions -> Nat] /\ stored'[s] = stored[s] + 1 /\ \A t \in Sessions \ {s} : stored'[t] = stored[t]
    BY <1>0, <2>1, <2>2
  <2>4. /\ dirs' \in [Sessions -> Dir] /\ \A t \in Sessions \ {s} : dirs'[t] = dirs[t]
        /\ dirs'[s].db = IF dirs[s].db = NoFile THEN NoFile ELSE dirs[s].db + 1
        /\ dirs'[s].dir = dirs[s].dir /\ dirs'[s].scratch = dirs[s].scratch /\ dirs'[s].gz = dirs[s].gz
    <3>1. CASE dirs[s].db = NoFile
      BY <1>0, <2>1, <3>1
    <3>2. CASE dirs[s].db # NoFile
      <4>1. dirs[s] \in Dir /\ dirs[s].db \in Nat
        BY <1>0, <2>2, <3>2 DEF Dir
      <4>2. dirs' = [dirs EXCEPT ![s] = [dirs[s] EXCEPT !.db = @ + 1]]
        BY <2>1, <3>2
      <4>3. /\ [dirs[s] EXCEPT !.db = @ + 1] \in Dir
            /\ [dirs[s] EXCEPT !.db = @ + 1].db = dirs[s].db + 1
            /\ [dirs[s] EXCEPT !.db = @ + 1].dir = dirs[s].dir
            /\ [dirs[s] EXCEPT !.db = @ + 1].scratch = dirs[s].scratch
            /\ [dirs[s] EXCEPT !.db = @ + 1].gz = dirs[s].gz
        BY <4>1 DEF Dir
      <4> QED BY <1>0, <2>2, <3>2, <4>2, <4>3
    <3> QED BY <3>1, <3>2
  <2>5. SessionTypes'
    BY <1>0, <2>1, <2>3, <2>4 DEF SessionTypes
  <2>6. CleanedSoFar(p)'
    BY <1>0, <2>1, <2>4 DEF CleanedSoFar, CleansUp
  <2>7. /\ s <= started /\ behind \subseteq behind' /\ late \subseteq late'
        /\ proc[p].pc \in {"live", "open"} => dirs[s].db # NoFile
        /\ dirs[s].db # NoFile => dirs[s].db = stored[s] /\ dirs'[s].db = stored'[s] /\ dirs'[s].db # NoFile
    <3>1. s <= started /\ (proc[p].pc \in {"live", "open"} => dirs[s].db # NoFile)
      BY <1>0, <2>1 DEF Holds, Stopping, SessionPoints, VacuumPoints
    <3>2. dirs[s].db # NoFile => dirs[s].db = stored[s]
      BY <1>0, <2>2 DEF FilesExact
    <3>3. stored[s] \in Nat
      BY <1>0, <2>2
    <3>4. dirs[s].db # NoFile => dirs'[s].db = stored'[s] /\ dirs'[s].db # NoFile
      BY <1>b, <2>3, <2>4, <3>2, <3>3
    <3> QED BY <2>1, <3>1, <3>2, <3>4
  <2>8. Holds(p)'
    <3>1. proc[p].pc # "live" => s \in behind'
      BY <2>1
    <3>2. proc[p].pc \notin {"live", "open"} => s \in late'
      BY <2>1
    <3>3. proc[p].pc = "live" \/ (proc[p].pc \in VacuumPoints /\ proc[p].then # "vacuum")
      BY <2>1 DEF Stopping, VacuumPoints
    <3> HIDE DEF s
    <3> QED BY <1>0, <2>1, <2>3, <2>4, <2>7, <3>1, <3>2, <3>3 DEF Holds, VacuumPoints, SessionPoints, Counted, s
  <2>9. FilesExact' /\ Reckoned' /\ TelemetryKept'
    <3>1. \A t \in Sessions : t > started => t # s
      BY <1>0, <2>2, <2>7 DEF Sessions
    <3>2. FilesExact'
      BY <1>0, <2>1, <2>2, <2>3, <2>4, <2>7, <3>1 DEF FilesExact
    <3>3. proc' = proc
      BY <2>1
    <3>4. \A t \in Sessions : (Live(t) => Live(t)') /\ (t = s => t \in behind' \/ Live(t)')
      <4>1. \A t \in Sessions : Live(t) => Live(t)'
        BY <3>3 DEF Live
      <4>2. \A t \in Sessions : t = s => t \in behind' \/ Live(t)'
        BY <2>1, <3>3 DEF Live
      <4> QED BY <4>1, <4>2
    <3>5. Reckoned'
      <4> HIDE DEF s
      <4> QED BY <1>0, <2>1, <2>3, <2>4, <2>7, <3>4 DEF Reckoned
    <3>6. dirs[s].db = NoFile => s \in late'
      BY <2>1, <2>7
    <3>7. TelemetryKept'
      BY <1>0, <2>1, <2>3, <2>4, <2>7, <3>6 DEF TelemetryKept
    <3> QED BY <3>2, <3>5, <3>7
  <2> QED BY <2>1, <2>2, <2>5, <2>6, <2>8, <2>9, ProcessMoves
<1>6. ASSUME Flush(p) PROVE SessionInv'
  <2>1. /\ proc[p].pc = "live" /\ s \in Sessions /\ UNCHANGED <<dirs, stored, proc, behind, late, started, day>>
        /\ Update([t \in {s} |-> Rollup(row[t], p)])
    BY <1>6, <1>c DEF Flush, Current, SessionPoints
  <2>2. /\ row' \in [Sessions -> Row] /\ \A t \in Sessions : row'[t].status = row[t].status
        /\ \A t \in Sessions \ {s} : row'[t] = row[t]
    BY <1>0, <2>1 DEF Update, Rollup, File, Current, Row, Dir
  <2>3. row'[s].counted \in {row[s].counted, dirs[s].db}
    BY <1>0, <2>1 DEF Update, Rollup, File, Current, Row, Dir
  <2>4. SessionTypes'
    BY <1>0, <2>1, <2>2 DEF SessionTypes
  <2>5. CleanedSoFar(p)'
    BY <1>0, <2>1, <2>2 DEF CleanedSoFar, CleansUp
  <2>6. Holds(p)'
    BY <1>0, <2>1, <2>2 DEF Holds, VacuumPoints
  <2>7. dirs[s].db # NoFile
    BY <1>0, <2>1 DEF Holds
  <2>8. FilesExact' /\ Reckoned' /\ TelemetryKept'
    <3>1. Live(s)' /\ \A t : Live(t) => t = s
      BY <1>0, <2>1 DEF Live, OneUp
    <3>2. Reckoned'
      BY <1>0, <2>1, <2>2, <3>1 DEF Reckoned
    <3>3. s <= started
      BY <1>0, <2>1 DEF Holds, SessionPoints
    <3>4. \A t \in Sessions : t > started => t # s
      BY <1>0, <2>1, <3>3 DEF Sessions
    <3>5. FilesExact' /\ TelemetryKept'
      BY <1>0, <2>1, <2>2, <2>7, <3>4 DEF FilesExact, TelemetryKept
    <3> QED BY <3>2, <3>5
  <2> QED BY <2>1, <2>4, <2>5, <2>6, <2>8, ProcessMoves
<1>7. ASSUME CleanupSession(p) PROVE SessionInv'
  <2>1. /\ proc[p].pc = "live" /\ s \in Sessions /\ UNCHANGED <<stored, behind, late, started, day>>
        /\ dirs' = [dirs EXCEPT ![s].scratch = FALSE]
        /\ Update([t \in {s} |-> [Rollup(row[t], p) EXCEPT !.status = "stopped"]])
        /\ proc' = [proc EXCEPT ![p].pc = "open", ![p].then = IF p \in Cli THEN "down" ELSE "ready"]
    BY <1>7, <1>c DEF CleanupSession, Current, SessionPoints
  <2>2. /\ row' \in [Sessions -> Row] /\ \A t \in Sessions \ {s} : row'[t] = row[t]
        /\ dirs[s].db # NoFile /\ row[s].status # "none" => row'[s].counted = dirs[s].db
    <3> DEFINE r == [Rollup(row[s], p) EXCEPT !.status = "stopped"]
    <3>1. row' = [t \in Sessions |-> IF t = s /\ row[t].status # "none" THEN r ELSE row[t]]
      BY <2>1 DEF Update
    <3>2. "stopped" \in Statuses
      BY DEF Statuses, Finished
    <3>3. r \in Row /\ (dirs[s].db # NoFile => r.counted = dirs[s].db)
      BY <1>0, <2>1, <3>2, SMTT(30) DEF Rollup, File, Current, Row, Dir
    <3> HIDE DEF r
    <3> QED BY <1>0, <2>1, <3>1, <3>3
  <2>3. /\ dirs' \in [Sessions -> Dir]
        /\ \A t \in Sessions : dirs'[t].db = dirs[t].db /\ dirs'[t].gz = dirs[t].gz /\ dirs'[t].dir = dirs[t].dir
    BY <1>0, <2>1, ZenonT(60) DEF Dir
  <2>4. /\ proc' \in [Procs -> Process] /\ \A q \in Procs \ {p} : proc'[q] = proc[q]
        /\ proc'[p].pc = "open" /\ proc'[p].session = s /\ proc'[p].then # "vacuum"
    BY <1>0, <1>a, <2>1, ZenonT(60) DEF Process
  <2>5. SessionTypes'
    BY <1>0, <2>1, <2>2, <2>3, <2>4 DEF SessionTypes
  <2>6. CleanedSoFar(p)'
    BY <2>1, <2>4 DEF CleanedSoFar, CleansUp, CleanupPoints
  <2>7. /\ dirs[s].db # NoFile /\ row[s].status # "none" /\ dirs[s].db = stored[s] /\ s <= started
        /\ row'[s].counted = stored[s]
    BY <1>0, <2>1, <2>2 DEF Holds, FilesExact, SessionPoints
  <2>8. Holds(p)'
    BY <2>1, <2>2, <2>3, <2>4, <2>7 DEF Holds, SessionPoints, Counted
  <2>9. FilesExact' /\ Reckoned' /\ TelemetryKept'
    <3>1. \A t : Live(t) => t = s
      BY <1>0, <2>1 DEF Live, OneUp
    <3>2. Reckoned'
      BY <1>0, <2>1, <2>2, <2>3, <2>7, <3>1 DEF Reckoned
    <3>3. \A t \in Sessions : t > started => t # s
      BY <1>0, <2>1, <2>7 DEF Sessions
    <3>4. FilesExact' /\ TelemetryKept'
      BY <1>0, <2>1, <2>2, <2>3, <2>7, <3>3 DEF FilesExact, TelemetryKept
    <3> QED BY <3>2, <3>4
  <2> QED BY <2>1, <2>4, <2>5, <2>6, <2>8, <2>9, ProcessMoves
<1> QED BY <1>1, <1>2, <1>3, <1>4, <1>5, <1>6, <1>7 DEF Session

\* Every step keeps the invariant, as long as one process runs at a time.
LEMMA IndexStep == ~Overlap /\ SessionInv /\ [SessionNext]_sessionVars => SessionInv'
<1> SUFFICES ASSUME ~Overlap, SessionInv, [SessionNext]_sessionVars PROVE SessionInv'
  OBVIOUS
<1>0. SessionTypes /\ OneUp /\ FilesExact /\ Reckoned /\ TelemetryKept
  BY DEF SessionInv
<1>1. CASE UNCHANGED sessionVars
  BY <1>1 DEF sessionVars, SessionInv, SessionTypes, OneUp, ProcInv, CleanedSoFar, CleansUp, Holds, Counted,
              FilesExact, Reckoned, Live, TelemetryKept
<1>2. CASE DayPasses
  <2>1. UNCHANGED <<row, dirs, stored, proc, behind, late, started>> /\ day' = day + 1
    BY <1>2 DEF DayPasses
  <2>2. SessionTypes'
    BY <1>0, <2>1 DEF SessionTypes
  <2> QED BY <2>1, <2>2 DEF SessionInv, OneUp, ProcInv, CleanedSoFar, CleansUp, Holds, Counted, FilesExact,
             Reckoned, Live, TelemetryKept
<1>3. ASSUME NEW p \in Procs, Start(p) PROVE SessionInv'
  <2> DEFINE new == [Down EXCEPT !.pc = "scratch"]
  <2>1. /\ UNCHANGED <<row, dirs, stored, behind, late, started, day>> /\ proc' = [proc EXCEPT ![p] = new]
        /\ \A q \in Procs : proc[q].pc = "down"
    BY <1>3 DEF Start
  <2>2. new \in Process /\ new.pc = "scratch"
    BY IndexAssumption DEF Down, Process, Points
  <2> HIDE DEF new
  <2>3. proc' \in [Procs -> Process] /\ proc'[p].pc = "scratch" /\ \A q \in Procs \ {p} : proc'[q] = proc[q]
    BY <1>0, <2>1, <2>2 DEF SessionTypes
  <2>4. SessionTypes'
    BY <1>0, <2>1, <2>3 DEF SessionTypes
  <2>5. CleanedSoFar(p)' /\ Holds(p)'
    BY <2>3 DEF CleanedSoFar, CleansUp, CleanupPoints, VacuumPoints, SessionPoints, Holds
  <2>6. FilesExact' /\ Reckoned' /\ TelemetryKept'
    BY <1>0, <2>1, FilesStay DEF FiguresStay
  <2> QED BY <2>1, <2>3, <2>4, <2>5, <2>6, ProcessMoves
<1>4. ASSUME NEW p \in Procs, Crash(p) PROVE SessionInv'
  <2> DEFINE s == proc[p].session
  <2>1. /\ proc[p].pc # "down" /\ UNCHANGED <<row, dirs, stored, late, started, day>> /\ proc' = [proc EXCEPT ![p] = Down]
        /\ behind \subseteq behind'
        /\ proc[p].pc = "live" => s \in behind' \/ row[s].counted \in {0, stored[s]}
    BY <1>4 DEF Crash, Current
  <2>2. proc' \in [Procs -> Process] /\ proc'[p].pc = "down" /\ \A q \in Procs \ {p} : proc'[q] = proc[q]
    BY <1>0, <2>1, DownIs DEF SessionTypes
  <2>3. SessionTypes'
    BY <1>0, <2>1, <2>2 DEF SessionTypes
  <2>4. CleanedSoFar(p)' /\ Holds(p)'
    BY <2>2 DEF CleanedSoFar, CleansUp, CleanupPoints, VacuumPoints, SessionPoints, Holds
  <2>5. FilesExact' /\ Reckoned' /\ TelemetryKept'
    <3>1. \A t : Live(t) => proc[p].pc = "live" /\ t = s
      BY <1>0, <2>1 DEF Live, OneUp
    <3>2. Reckoned'
      BY <1>0, <2>1, <3>1 DEF Reckoned
    <3>3. FilesExact' /\ TelemetryKept'
      BY <1>0, <2>1 DEF FilesExact, TelemetryKept
    <3> QED BY <3>2, <3>3
  <2> QED BY <2>1, <2>2, <2>3, <2>4, <2>5, ProcessMoves
<1> QED BY <1>1, <1>2, <1>3, <1>4, CleanupStep, VacuumStep, SessionStep DEF SessionNext

LEMMA IndexInitially == SessionInit => SessionInv
<1> SUFFICES ASSUME SessionInit PROVE SessionInv
  OBVIOUS
<1>1. SessionTypes /\ \A p \in Procs : proc[p].pc = "down"
  BY EmptyIs, NoRowIs, DownIs, IndexAssumption DEF SessionInit, SessionTypes
<1>2. OneUp /\ \A p \in Procs : ProcInv(p)
  BY <1>1 DEF OneUp, ProcInv, CleanedSoFar, CleansUp, Holds, CleanupPoints, VacuumPoints, SessionPoints
<1>3. FilesExact /\ Reckoned /\ TelemetryKept
  BY EmptyIs, NoRowIs DEF SessionInit, FilesExact, Reckoned, TelemetryKept
<1> QED BY <1>1, <1>2, <1>3 DEF SessionInv

\* When a process has cleaned up, nothing is left of the ones that died before it, at
\* whatever point they died and however often: no session that is called running,
\* no scratch disk, no directory that the index has terminated or does not know.
THEOREM CleanupRecovers == ASSUME ~Overlap PROVE SessionSpec => []StartupRecovers
<1>1. SessionInv => StartupRecovers
  <2> SUFFICES ASSUME SessionInv, NEW p \in Procs, proc[p].pc = "fresh", NEW s \in Sessions
               PROVE  row[s].status # "running" /\ ~dirs[s].scratch /\ (dirs[s].dir => row[s].status \in Finished)
    BY DEF StartupRecovers
  <2>1. CleanedSoFar(p) /\ row[s].status \in Statuses
    BY DEF SessionInv, ProcInv, SessionTypes, Row
  <2> QED BY <2>1 DEF CleanedSoFar, CleansUp, CleanupPoints, Statuses
<1> QED BY <1>1, IndexInitially, IndexStep, PTL DEF SessionSpec

\* A session directory that is still there holds every event that was committed, in
\* the database or in a complete archive, and a database is removed only when the
\* index has the figures of all of these events: wherever processes die, one after
\* the other.  Not so for the events committed while the session is archived, nor
\* for the figures of a session that got events after they were taken or that died
\* between two flushes.
THEOREM EventsNeverLost == ASSUME ~Overlap PROVE SessionSpec => []TelemetryKept
<1>1. SessionInv => TelemetryKept
  BY DEF SessionInv
<1> QED BY <1>1, IndexInitially, IndexStep, PTL DEF SessionSpec
==============================================================================
