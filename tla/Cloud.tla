-------------------------------- MODULE Cloud --------------------------------
(***************************************************************************)
(* Cloud synchronisation: the configuration in cloud.json and the keychain,*)
(* sign-in, the refresh of the access token, the encryption key, and the   *)
(* synchronisation of an environment, by hand and once a day.              *)
(* A command works on the configuration it loaded when it began and saves  *)
(* that one after it waited for the server.                                *)
(***************************************************************************)
EXTENDS Integers, Sequences, FiniteSets, TLC

CONSTANTS
    Users,      \* commands of the frontend in flight
    AutoTask,   \* the task of start_auto_sync
    FirstDay,   \* the date of the first day: [year, month, day]
    MaxTicks,   \* bound: half days that pass
    MaxCalls,   \* bound: commands issued
    MaxKeys,    \* bound: keys generated
    MaxFaults   \* bound: keychain failures, crashes and expired tokens

VARIABLES
    file,       \* cloud.json: [key, auto, last]
    keychain,   \* [access, refresh, key]
    task,       \* user or AutoTask -> its state
    machine,    \* the environment's: "stopped", "running", or "ending" when
                \* stop_vm has taken it out of running_venvs
    tmp,        \* archive of the environment in the temporary directory
    snaps,      \* records of the cloud: [key, whole]
    now,        \* the clock: [half, date], half days since FirstDay
    calls, keys, faults,    \* counters of the bounds
    signed,     \* what the user asked for last: [signedIn, auto]
    stale,      \* a task saved a configuration that had changed since it loaded it
    shared,     \* two tasks worked on the archive at a time, or one of them and
                \* the machine on the disk
    twice,      \* two tasks generated a key at a time
    lost,       \* a write of the keychain or of the file failed
    synced      \* half day of the last automatic synchronisation, -1 before

cloudVars == <<file, keychain, task, machine, tmp, snaps, now, calls, keys, faults, signed, stale, shared, twice, lost, synced>>

Tasks == Users \cup {AutoTask}
NoKey == 0
Never == [year |-> 0, month |-> 0, day |-> 0, half |-> 0]
DefaultFile == [key |-> NoKey, auto |-> FALSE, last |-> Never]
NoTask == [kind |-> "none", pc |-> "idle", access |-> "none", refresh |-> FALSE, conf |-> DefaultFile,
           data |-> "none"]

CloudInit ==
    /\ file = DefaultFile /\ keychain = [access |-> "none", refresh |-> FALSE, key |-> NoKey]
    /\ task = [t \in Tasks |-> NoTask] /\ tmp = "none" /\ snaps = {}
    /\ machine = "stopped" /\ now = [half |-> 0, date |-> FirstDay]
    /\ calls = 0 /\ keys = 0 /\ faults = 0
    /\ signed = [signedIn |-> FALSE, auto |-> FALSE]
    /\ stale = FALSE /\ shared = FALSE /\ twice = FALSE /\ lost = FALSE /\ synced = -1

------------------------------------------------------------------------------
(* Dates.                                                                  *)

Leap(year) == year % 4 = 0 /\ (year % 100 # 0 \/ year % 400 = 0)
DaysIn(year, month) ==
    IF month = 2 THEN IF Leap(year) THEN 29 ELSE 28
    ELSE IF month \in {4, 6, 9, 11} THEN 30 ELSE 31

NextDay(d) ==
    IF d.day < DaysIn(d.year, d.month) THEN [d EXCEPT !.day = @ + 1]
    ELSE IF d.month < 12 THEN [year |-> d.year, month |-> d.month + 1, day |-> 1]
    ELSE [year |-> d.year + 1, month |-> 1, day |-> 1]

\* A date the clock can show.
OfCalendar(d) ==
    /\ d = [year |-> d.year, month |-> d.month, day |-> d.day]
    /\ d.year \in Nat /\ d.year >= 1970 /\ d.month \in 1..12 /\ d.day \in 1..DaysIn(d.year, d.month)

\* start_auto_sync is no command of the frontend.
ASSUME CloudAssumption == OfCalendar(FirstDay) /\ AutoTask \notin Users

DaysBefore == <<0, 31, 59, 90, 120, 151, 181, 212, 243, 273, 304, 334>>

\* The days from the epoch to a date as chrono_parse_iso counts them.
ParseIso(d) == (d.year - 1970) * 365 + (d.year - 1969) \div 4 + DaysBefore[d.month] + d.day - 1

\* The days from the epoch to a date as the clock counts them.
EpochDays(d) ==
    LET leaps == (d.year - 1969) \div 4 - (d.year - 1901) \div 100 + (d.year - 1601) \div 400
    IN (d.year - 1970) * 365 + leaps + DaysBefore[d.month]
       + (IF d.month > 2 /\ Leap(d.year) THEN 1 ELSE 0) + d.day - 1

\* Due when the 24 hours are over to the second.
DueEarly(last) ==
    last # Never => 2 * EpochDays(now.date) + (now.half % 2) - (2 * ParseIso(last) + last.half) >= 2

\* More than 24 hours since the last automatic synchronisation.
Due(last) ==
    last # Never => 2 * EpochDays(now.date) + (now.half % 2) - (2 * ParseIso(last) + last.half) > 2

Tick ==
    /\ now.half < MaxTicks
    /\ now' = [half |-> now.half + 1, date |-> IF now.half % 2 = 1 THEN NextDay(now.date) ELSE now.date]
    /\ UNCHANGED <<file, keychain, task, machine, tmp, snaps, calls, keys, faults, signed, stale, shared, twice, lost, synced>>

------------------------------------------------------------------------------
(* The configuration.                                                      *)

\* Takes a new key whenever the file has none.
RecoverNothing(conf) == conf.key

\* get_or_create_key before it generates one: the file, then the keychain.
Recover(conf) == IF conf.key # NoKey THEN conf.key ELSE keychain.key

\* The fields of the configuration a task loaded that others changed since.
Overwrites(t) == task[t].conf # file \/ task[t].access # keychain.access

Holding == {t \in Tasks : task[t].kind # "none"}

\* cloud_connect and the end of cloud_login: only a login brings a refresh token.
Connect ==
    /\ calls < MaxCalls /\ ~signed.signedIn /\ calls' = calls + 1
    /\ \E refresh \in BOOLEAN :
          keychain' = [keychain EXCEPT !.access = "fresh", !.refresh = @ \/ refresh]
    /\ signed' = [signed EXCEPT !.signedIn = TRUE]
    /\ UNCHANGED <<file, task, machine, tmp, snaps, now, keys, faults, stale, shared, twice, lost, synced>>

SignedOut == [keychain EXCEPT !.access = "none", !.refresh = FALSE]

Disconnect ==
    /\ calls < MaxCalls /\ signed.signedIn /\ calls' = calls + 1
    /\ keychain' = SignedOut /\ file' = DefaultFile
    /\ signed' = [signedIn |-> FALSE, auto |-> FALSE]
    /\ UNCHANGED <<task, machine, tmp, snaps, now, keys, faults, stale, shared, twice, lost, synced>>

SetAutoSync(on) ==
    /\ calls < MaxCalls /\ signed.signedIn /\ signed.auto # on /\ calls' = calls + 1
    /\ file' = [file EXCEPT !.auto = on] /\ signed' = [signed EXCEPT !.auto = on]
    /\ UNCHANGED <<keychain, task, machine, tmp, snaps, now, keys, faults, stale, shared, twice, lost, synced>>

\* cloud_backup_key.
BackupKey ==
    /\ calls < MaxCalls /\ file.key # NoKey /\ keychain.key # file.key /\ calls' = calls + 1
    /\ keychain' = [keychain EXCEPT !.key = file.key]
    /\ UNCHANGED <<file, task, machine, tmp, snaps, now, keys, faults, signed, stale, shared, twice, lost, synced>>

------------------------------------------------------------------------------
(* A command that needs a token: "sync", "restore", or "call" for the      *)
(* status, the list of snapshots, the portal and the remote sessions.      *)

Loaded(kind) ==
    [NoTask EXCEPT !.kind = kind, !.pc = "token", !.access = keychain.access,
                   !.refresh = keychain.refresh, !.conf = file]

\* The check of cloud_sync_venv, before it waits for a token and for the key.
NotRunning == machine # "running"

Command(u, kind) ==
    /\ task[u].kind = "none" /\ calls < MaxCalls /\ calls' = calls + 1
    /\ (kind = "restore" => snaps # {}) /\ (kind = "sync" => NotRunning)
    /\ task' = [task EXCEPT ![u] = Loaded(kind)]
    /\ UNCHANGED <<file, keychain, machine, tmp, snaps, now, keys, faults, signed, stale, shared, twice, lost, synced>>

\* start_auto_sync finds that a synchronisation is due, of what does not run.
AutoSync ==
    /\ task[AutoTask].kind = "none" /\ file.auto /\ keychain.access # "none" /\ Due(file.last) /\ NotRunning
    /\ calls < MaxCalls /\ calls' = calls + 1
    /\ task' = [task EXCEPT ![AutoTask] = Loaded("sync")]
    /\ UNCHANGED <<file, keychain, machine, tmp, snaps, now, keys, faults, signed, stale, shared, twice, lost, synced>>

End(t) == task' = [task EXCEPT ![t] = NoTask]
Step(t, pc) == task' = [task EXCEPT ![t].pc = pc]

\* What a command does with its token.
Use(t) == IF task[t].kind = "call" THEN End(t) ELSE Step(t, "key")

\* is_token_expired.
Valid(access) == access = "fresh"

\* get_valid_token: the token is good, is missing, or has to be refreshed.
Token(t) ==
    /\ task[t].pc = "token"
    /\ CASE Valid(task[t].access) -> Use(t)
         [] task[t].access # "none" /\ task[t].refresh -> Step(t, "refresh")
         [] OTHER -> End(t)
    /\ UNCHANGED <<file, keychain, machine, tmp, snaps, now, calls, keys, faults, signed, stale, shared, twice, lost, synced>>

\* The server answers: the loaded configuration is saved with the new tokens.
Refreshed(t) ==
    /\ task[t].pc = "refresh"
    /\ stale' = (stale \/ Overwrites(t))
    /\ keychain' = [keychain EXCEPT !.access = "fresh", !.refresh = TRUE]
    /\ file' = task[t].conf
    /\ task' = [task EXCEPT ![t] = IF @.kind = "call" THEN NoTask ELSE [@ EXCEPT !.pc = "key", !.access = "fresh"]]
    /\ UNCHANGED <<machine, tmp, snaps, now, calls, keys, faults, signed, shared, twice, lost, synced>>

\* Any request of a command may fail, and the command returns.
Fails(t) ==
    /\ task[t].pc \in {"refresh", "confirm", "download"} /\ End(t)
    /\ UNCHANGED <<file, keychain, machine, tmp, snaps, now, calls, keys, faults, signed, stale, shared, twice, lost, synced>>

------------------------------------------------------------------------------
(* The key.                                                                *)

After(t) == IF task[t].kind = "sync" THEN "archive" ELSE "download"

\* The loaded configuration has a key, or the keychain has; the latter is saved.
FindKey(t) ==
    /\ task[t].pc = "key" /\ Recover(task[t].conf) # NoKey
    /\ LET conf == [task[t].conf EXCEPT !.key = Recover(task[t].conf)]
       IN /\ task' = [task EXCEPT ![t].pc = After(t), ![t].conf = conf]
          /\ IF task[t].conf.key # NoKey THEN UNCHANGED <<file, keychain, stale>>
             ELSE /\ file' = conf /\ stale' = (stale \/ Overwrites(t))
                  /\ keychain' = [keychain EXCEPT !.access = task[t].access, !.refresh = @ \/ task[t].refresh]
    /\ UNCHANGED <<machine, tmp, snaps, now, calls, keys, faults, signed, shared, twice, lost, synced>>

\* No key anywhere: one is made.
MakeKey(t) ==
    /\ task[t].pc = "key" /\ Recover(task[t].conf) = NoKey /\ keys < MaxKeys
    /\ keys' = keys + 1
    /\ task' = [task EXCEPT ![t].pc = "savekey", ![t].conf.key = keys + 1]
    /\ twice' = (twice \/ \E s \in Tasks : task[s].pc = "savekey")
    /\ UNCHANGED <<file, keychain, machine, tmp, snaps, now, calls, faults, signed, stale, shared, lost, synced>>

\* What the keychain holds after the best-effort backup.
Backup(t) == task[t].conf.key

SaveKey(t) ==
    /\ task[t].pc = "savekey" /\ Step(t, After(t))
    /\ file' = task[t].conf
    /\ stale' = (stale \/ [task[t].conf EXCEPT !.key = NoKey] # [file EXCEPT !.key = NoKey]
                       \/ task[t].access # keychain.access)
    /\ \E fails \in IF faults < MaxFaults THEN BOOLEAN ELSE {FALSE} :
          /\ keychain' = [access |-> task[t].access, refresh |-> keychain.refresh \/ task[t].refresh,
                          key |-> IF fails THEN NoKey ELSE Backup(t)]
          /\ lost' = (lost \/ fails) /\ faults' = IF fails THEN faults + 1 ELSE faults
    /\ UNCHANGED <<machine, tmp, snaps, now, calls, keys, signed, shared, twice, synced>>

------------------------------------------------------------------------------
(* cloud_sync_venv and cloud_restore_snapshot.                             *)

Archiving == {t \in Tasks : task[t].pc \in {"archiving", "read"}}

\* create_archive writes a path that only the environment's id makes unique.
ArchiveBegin(t) ==
    /\ task[t].pc = "archive" /\ Step(t, "archiving")
    /\ shared' = (shared \/ Archiving # {} \/ machine # "stopped")
    /\ UNCHANGED <<file, keychain, machine, tmp, snaps, now, calls, keys, faults, signed, stale, twice, lost, synced>>

\* The archive is renamed; another writer of its path, or of the disk it was made
\* of, may have spoilt it, or taken it away, and the disk may be full.
ArchiveEnd(t) ==
    /\ task[t].pc = "archiving"
    /\ \/ /\ Step(t, "read")
          /\ tmp' \in IF shared THEN {"whole", "mixed"} ELSE {"whole"}
       \/ End(t) /\ UNCHANGED tmp
    /\ UNCHANGED <<file, keychain, machine, snaps, now, calls, keys, faults, signed, stale, shared, twice, lost, synced>>

\* The archive is read, removed and encrypted.
Encrypt(t) ==
    /\ task[t].pc = "read"
    /\ IF tmp = "none" THEN End(t) ELSE task' = [task EXCEPT ![t].pc = "upload", ![t].data = tmp]
    /\ tmp' = "none"
    /\ UNCHANGED <<file, keychain, machine, snaps, now, calls, keys, faults, signed, stale, shared, twice, lost, synced>>

Record(t) == [key |-> task[t].conf.key, whole |-> task[t].data = "whole"]

\* prepare and the upload itself.
Upload(t) ==
    /\ task[t].pc = "upload" /\ Step(t, "confirm")
    /\ UNCHANGED <<file, keychain, machine, tmp, snaps, now, calls, keys, faults, signed, stale, shared, twice, lost, synced>>

UploadError(t) == End(t)

UploadFails(t) ==
    /\ task[t].pc = "upload" /\ UploadError(t)
    /\ UNCHANGED <<file, keychain, machine, tmp, snaps, now, calls, keys, faults, signed, stale, shared, twice, lost, synced>>

\* now_iso.
Stamp == [year |-> now.date.year, month |-> now.date.month, day |-> now.date.day, half |-> now.half % 2]

\* Notes the time in the configuration that the task began with.
ConfirmOld(t) ==
    /\ task[t].pc = "confirm" /\ End(t)
    /\ snaps' = snaps \cup {Record(t)}
    /\ file' = IF t = AutoTask THEN [task[t].conf EXCEPT !.last = Stamp] ELSE file
    /\ synced' = IF t = AutoTask THEN now.half ELSE synced
    /\ UNCHANGED <<keychain, machine, tmp, now, calls, keys, faults, signed, stale, shared, twice, lost>>

\* The confirmation; the automatic task loads the configuration again and notes the time.
Confirm(t) ==
    /\ task[t].pc = "confirm" /\ End(t)
    /\ snaps' = snaps \cup {Record(t)}
    /\ file' = IF t = AutoTask THEN [file EXCEPT !.last = Stamp] ELSE file
    /\ synced' = IF t = AutoTask THEN now.half ELSE synced
    /\ UNCHANGED <<keychain, machine, tmp, now, calls, keys, faults, signed, stale, shared, twice, lost>>

\* The confirmation reaches the server and its answer is lost.
ConfirmLost(t) ==
    /\ task[t].pc = "confirm" /\ End(t) /\ snaps' = snaps \cup {Record(t)}
    /\ UNCHANGED <<file, keychain, machine, tmp, now, calls, keys, faults, signed, stale, shared, twice, lost, synced>>

\* decrypt_bytes fails with another key; the archive is imported or the command fails.
Download(t) ==
    /\ task[t].pc = "download" /\ End(t)
    /\ UNCHANGED <<file, keychain, machine, tmp, snaps, now, calls, keys, faults, signed, stale, shared, twice, lost, synced>>

------------------------------------------------------------------------------
(* The environment.                                                        *)

\* boot_venv, at any time; the archive may be at work on the disk.
StartMachine ==
    /\ machine = "stopped" /\ calls < MaxCalls /\ calls' = calls + 1
    /\ machine' = "running" /\ shared' = (shared \/ \E t \in Tasks : task[t].pc = "archiving")
    /\ UNCHANGED <<file, keychain, task, tmp, snaps, now, keys, faults, signed, stale, twice, lost, synced>>

\* stop_vm: the machine goes on for 1.5 seconds after it left running_venvs.
StopMachine ==
    /\ machine # "stopped" /\ machine' = IF machine = "running" THEN "ending" ELSE "stopped"
    /\ UNCHANGED <<file, keychain, task, tmp, snaps, now, calls, keys, faults, signed, stale, shared, twice, lost, synced>>

\* An hour is over.
Expire ==
    /\ faults < MaxFaults /\ keychain.access = "fresh" /\ faults' = faults + 1
    /\ keychain' = [keychain EXCEPT !.access = "expired"]
    /\ UNCHANGED <<file, task, machine, tmp, snaps, now, calls, keys, signed, stale, shared, twice, lost, synced>>

\* The program dies, in a write of cloud.json perhaps: load_config then takes
\* the default.
CloudCrash ==
    /\ faults < MaxFaults /\ Holding # {} /\ faults' = faults + 1
    /\ task' = [t \in Tasks |-> NoTask] /\ machine' = "stopped" /\ file' \in {file, DefaultFile}
    /\ signed' = [signed EXCEPT !.auto = file'.auto]
    /\ UNCHANGED <<keychain, tmp, snaps, now, calls, keys, stale, shared, twice, lost, synced>>

CloudNext ==
    \/ Tick \/ Connect \/ Disconnect \/ BackupKey \/ AutoSync \/ StartMachine \/ StopMachine \/ Expire \/ CloudCrash
    \/ \E on \in BOOLEAN : SetAutoSync(on)
    \/ \E u \in Users, kind \in {"sync", "restore", "call"} : Command(u, kind)
    \/ \E t \in Tasks : \/ Token(t) \/ Refreshed(t) \/ Fails(t) \/ FindKey(t) \/ MakeKey(t) \/ SaveKey(t)
                        \/ ArchiveBegin(t) \/ ArchiveEnd(t) \/ Encrypt(t) \/ Upload(t) \/ UploadFails(t)
                        \/ Confirm(t) \/ ConfirmLost(t) \/ Download(t)

CloudSpec == CloudInit /\ [][CloudNext]_cloudVars

------------------------------------------------------------------------------
(* Properties.                                                             *)

\* The tasks and the stores keep their types; a task that works on an archive
\* has a key, and one that waits for a new token has a token to renew it with.
CloudTypeOK ==
    /\ file.key \in 0..keys /\ keychain.key \in 0..keys
    /\ keychain.access \in {"none", "fresh", "expired"} /\ tmp \in {"none", "mixed", "whole"}
    /\ \A t \in Tasks :
          /\ task[t].pc \in {"savekey", "archive", "archiving", "read", "upload", "confirm", "download"}
                => task[t].conf.key # NoKey /\ task[t].access = "fresh"
          /\ task[t].pc = "refresh" => task[t].refresh

\* Every snapshot the cloud has a record of can be restored.  It is encrypted
\* with the key that the next restore will use, over signing out, crashes and
\* lost files, as long as the keychain took the key and no two tasks made one at
\* the same time.  And it was uploaded whole: an archive, an upload or a
\* confirmation that fails leaves no record of something less, as long as no two
\* tasks archive the environment at a time and its machine is not up while one
\* does.  (cloud_sync_venv looks at running_venvs once, before it waits for a
\* token; a start after that, or a machine that is still ending, is outside.)
SnapshotsRestorable ==
    \A s \in snaps :
        /\ ~twice /\ ~lost => s.key = IF file.key # NoKey THEN file.key ELSE keychain.key
        /\ ~shared => s.whole

\* The user is signed in, and the daily synchronisation is on, exactly as asked
\* last, unless a task that waited for the server saved what it loaded before.
ChoicesStick ==
    ~stale => (keychain.access # "none") = signed.signedIn /\ file.auto = signed.auto

\* The days that chrono_parse_iso counts one too few: after February of a leap year.
CountedShort(d) == d.month > 2 /\ Leap(d.year)

\* An automatic synchronisation begins only when the last one that was noted is
\* more than 24 hours ago on the clock; or, if that was on a day that is counted
\* short, at another time at least.  This holds over the ends of months and of
\* years, for the two calendars that are compared differ.
DailySync ==
    [][task[AutoTask].kind = "none" /\ task'[AutoTask].kind = "sync"
         => stale \/ file.last = Never
            \/ now.half - synced > IF CountedShort(file.last) THEN 0 ELSE 2]_cloudVars
==============================================================================
