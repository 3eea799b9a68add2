---------------------------- MODULE SessionIndex ----------------------------
(***************************************************************************)
(* The session index (main.db) and the session directories.  A process of  *)
(* clawcage, desktop or command line, first cleans up what earlier ones    *)
(* left, then runs sessions: each has a directory, a row of the index and  *)
(* a telemetry database that is compressed when the session stops.  A      *)
(* process may die between any two steps.                                  *)
(***************************************************************************)
EXTENDS Integers, FiniteSets, FiniteSetsExt

CONSTANTS
    Procs,          \* processes
    Cli,            \* those that run a command and exit
    Overlap,        \* a process may start while another one runs
    MaxSessions,    \* bound: sessions
    MaxEvents,      \* bound: events logged
    MaxDay,         \* bound: days
    Retention,      \* vm.retention_days
    KeptSessions,   \* vm.max_sessions
    PurgeAfter      \* vm.terminated_retention_days

ASSUME IndexAssumption ==
    /\ Cli \subseteq Procs
    /\ Overlap \in BOOLEAN
    /\ {MaxSessions, MaxEvents, MaxDay, Retention, KeptSessions, PurgeAfter} \subseteq Nat

VARIABLES
    row,        \* main.db: the row of each session
    dirs,       \* the directory of each session
    stored,     \* the events committed to each session's database
    proc,       \* the processes: where they are and what they hold
    behind,     \* sessions whose figures in the index were short when their process
                \* died, or got an event after their figures were taken
    late,       \* sessions that got an event after their database was read to be archived
    started,    \* sessions started so far, in the order of created_at
    day         \* the clock

sessionVars == <<row, dirs, stored, proc, behind, late, started, day>>

Sessions == 1..MaxSessions
NoFile == -1        \* the file does not exist
Partial == -2       \* the file is half written
Empty == [dir |-> FALSE, scratch |-> FALSE, db |-> NoFile, gz |-> NoFile]
NoRow == [status |-> "none", vacuumed |-> FALSE, counted |-> 0, created |-> 0]
Down == [pc |-> "down", todo |-> {}, session |-> 0, image |-> 0, then |-> "down"]

SessionInit ==
    /\ row = [s \in Sessions |-> NoRow]
    /\ dirs = [s \in Sessions |-> Empty]
    /\ stored = [s \in Sessions |-> 0]
    /\ proc = [p \in Procs |-> Down]
    /\ behind = {} /\ late = {}
    /\ started = 0
    /\ day = 0

Finished == {"stopped", "crashed", "vacuumed"}
WithStatus(S) == {s \in Sessions : row[s].status \in S}

StepTo(p, pc) == proc' = [proc EXCEPT ![p].pc = pc]
Work(p, pc, todo) == proc' = [proc EXCEPT ![p].pc = pc, ![p].todo = todo]

\* UPDATE sessions SET ... gives the rows of DOMAIN new their new values; a row
\* that was purged is not there.
Update(new) ==
    row' = [s \in Sessions |->
               IF s \in DOMAIN new /\ row[s].status # "none" THEN new[s] ELSE row[s]]
SetStatus(S, status) == Update([s \in S |-> [row[s] EXCEPT !.status = status]])

RemoveDirs(S) == dirs' = [s \in Sessions |-> IF s \in S THEN Empty ELSE dirs[s]]

------------------------------------------------------------------------------
(* The start of a process: cleanup_stale_sessions.                         *)

Start(p) ==
    /\ proc[p].pc = "down"
    /\ Overlap \/ \A q \in Procs : proc[q].pc = "down"
    /\ proc' = [proc EXCEPT ![p] = [Down EXCEPT !.pc = "scratch"]]
    /\ UNCHANGED <<row, dirs, stored, behind, late, started, day>>

DeleteScratch(p) ==
    /\ proc[p].pc = "scratch"
    /\ dirs' = [s \in Sessions |-> [dirs[s] EXCEPT !.scratch = FALSE]]
    /\ StepTo(p, "mark")
    /\ UNCHANGED <<row, stored, behind, late, started, day>>

\* A clean-up that forgets the sessions that were running.
MarkNothing(p) ==
    /\ proc[p].pc = "mark"
    /\ StepTo(p, "backfill")
    /\ UNCHANGED <<row, dirs, stored, behind, late, started, day>>

MarkRunningAsCrashed(p) ==
    /\ proc[p].pc = "mark"
    /\ SetStatus(WithStatus({"running"}), "crashed")
    /\ StepTo(p, "backfill")
    /\ UNCHANGED <<dirs, stored, behind, late, started, day>>

Unvacuumed == {s \in WithStatus({"stopped", "crashed"}) : ~row[s].vacuumed}

\* Sessions without figures get them from their database.  The sessions to
\* vacuum are looked up next.
Backfill(p) ==
    /\ proc[p].pc = "backfill"
    /\ row' = [s \in Sessions |->
                  IF /\ row[s].status \in {"crashed", "stopped"}
                     /\ row[s].counted = 0 /\ dirs[s].db # NoFile
                  THEN [row[s] EXCEPT !.counted = dirs[s].db] ELSE row[s]]
    /\ Work(p, "vacuum", Unvacuumed)
    /\ UNCHANGED <<dirs, stored, behind, late, started, day>>

\* vacuum_session, on the oldest session left.
VacuumNext(p) ==
    /\ proc[p].pc = "vacuum" /\ proc[p].todo # {}
    /\ LET s == Min(proc[p].todo)
       IN proc' = [proc EXCEPT ![p].pc = "open", ![p].session = s, ![p].then = "vacuum",
                               ![p].todo = @ \ {s}]
    /\ UNCHANGED <<row, dirs, stored, behind, late, started, day>>

VacuumDone(p) ==
    /\ proc[p].pc = "vacuum" /\ proc[p].todo = {}
    /\ StepTo(p, "age")
    /\ UNCHANGED <<row, dirs, stored, behind, late, started, day>>

\* terminate_older_than_days
TerminateOlder(p) ==
    /\ proc[p].pc = "age"
    /\ SetStatus({s \in WithStatus(Finished) : row[s].created < day - Retention}, "terminated")
    /\ StepTo(p, "cap")
    /\ UNCHANGED <<dirs, stored, behind, late, started, day>>

\* The rows that ORDER BY created_at DESC LIMIT max returns.
Newest(max) ==
    LET known == {s \in Sessions : row[s].status # "none"}
    IN {s \in known : Cardinality({t \in known : t > s}) < max}

\* terminate_excess_sessions
TerminateExcess(p) ==
    /\ proc[p].pc = "cap"
    /\ SetStatus(WithStatus(Finished) \ Newest(KeptSessions), "terminated")
    /\ StepTo(p, "dirs")
    /\ UNCHANGED <<dirs, stored, behind, late, started, day>>

\* The directories are too large: stopped_sessions_oldest_first.
CullStart(p) ==
    /\ proc[p].pc = "dirs"
    /\ Work(p, "cull", WithStatus(Finished))
    /\ UNCHANGED <<row, dirs, stored, behind, late, started, day>>

\* Disk culling: while the directories are too large, the oldest one goes.
CullDir(p) ==
    /\ proc[p].pc = "cull" /\ proc[p].todo # {}
    /\ LET s == Min(proc[p].todo)
       IN /\ proc' = [proc EXCEPT ![p].pc = IF dirs[s].dir THEN "culled" ELSE @,
                                  ![p].session = s, ![p].todo = @ \ {s}]
          /\ RemoveDirs({s})
    /\ UNCHANGED <<row, stored, behind, late, started, day>>

CullMark(p) ==
    /\ proc[p].pc = "culled"
    /\ SetStatus({proc[p].session}, "terminated")
    /\ StepTo(p, "cull")
    /\ UNCHANGED <<dirs, stored, behind, late, started, day>>

\* The directories fit the budget, or no session is left to remove.
CullDone(p) ==
    /\ proc[p].pc \in {"dirs", "cull"}
    /\ Work(p, "dirs", {})
    /\ UNCHANGED <<row, dirs, stored, behind, late, started, day>>

RemoveTerminated(p) ==
    /\ proc[p].pc = "dirs"
    /\ RemoveDirs(WithStatus({"terminated"}))
    /\ StepTo(p, "purge")
    /\ UNCHANGED <<row, stored, behind, late, started, day>>

\* purge_terminated_older_than_days
Purge(p) ==
    /\ proc[p].pc = "purge"
    /\ row' = [s \in Sessions |->
                  IF row[s].status = "terminated" /\ row[s].created < day - PurgeAfter
                  THEN NoRow ELSE row[s]]
    /\ StepTo(p, "orphans")
    /\ UNCHANGED <<dirs, stored, behind, late, started, day>>

\* Directories without a row go.
RemoveOrphans(p) ==
    /\ proc[p].pc = "orphans"
    /\ RemoveDirs(WithStatus({"none"}))
    /\ StepTo(p, "fresh")
    /\ UNCHANGED <<row, stored, behind, late, started, day>>

------------------------------------------------------------------------------
(* vacuum_and_compress_session_db, and mark_vacuumed.                      *)

Current(p) == proc[p].session
File(p) == dirs[Current(p)]

\* Nothing to compress (or the directory is gone): the session is left as it is.
VacuumFails(p) ==
    /\ \/ proc[p].pc = "open" /\ File(p).db = NoFile
       \/ proc[p].pc = "compress" /\ ~File(p).dir
    /\ StepTo(p, proc[p].then)
    /\ UNCHANGED <<row, dirs, stored, behind, late, started, day>>

\* A vacuum that removes the database before the archive is complete.
VacuumOpenRemoves(p) ==
    /\ proc[p].pc = "open" /\ File(p).db # NoFile
    /\ dirs' = [dirs EXCEPT ![Current(p)].gz = Partial, ![Current(p)].db = NoFile]
    /\ proc' = [proc EXCEPT ![p].pc = "compress", ![p].image = File(p).db]
    /\ UNCHANGED <<row, stored, behind, late, started, day>>

\* The database is read, and session.db.gz created.
VacuumOpen(p) ==
    /\ proc[p].pc = "open" /\ File(p).db # NoFile
    /\ dirs' = [dirs EXCEPT ![Current(p)].gz = Partial]
    /\ proc' = [proc EXCEPT ![p].pc = "compress", ![p].image = File(p).db]
    /\ UNCHANGED <<row, stored, behind, late, started, day>>

VacuumCompress(p) ==
    /\ proc[p].pc = "compress" /\ File(p).dir
    /\ dirs' = [dirs EXCEPT ![Current(p)].gz = proc[p].image]
    /\ StepTo(p, "remove")
    /\ UNCHANGED <<row, stored, behind, late, started, day>>

\* session.db is removed.
VacuumRemove(p) ==
    /\ proc[p].pc = "remove"
    /\ dirs' = [dirs EXCEPT ![Current(p)].db = NoFile]
    /\ StepTo(p, "vacuumed")
    /\ UNCHANGED <<row, stored, behind, late, started, day>>

MarkVacuumed(p) ==
    /\ proc[p].pc = "vacuumed"
    /\ Update([s \in {Current(p)} |-> [row[s] EXCEPT !.status = "vacuumed", !.vacuumed = TRUE]])
    /\ StepTo(p, proc[p].then)
    /\ UNCHANGED <<dirs, stored, behind, late, started, day>>

------------------------------------------------------------------------------
(* A session.                                                              *)

\* The session's directory is made; the command line keeps its scratch disk there.
MakeDir(p) ==
    /\ proc[p].pc \in {"fresh", "ready"}
    /\ started < MaxSessions
    /\ started' = started + 1
    /\ dirs' = [dirs EXCEPT ![started + 1] = [Empty EXCEPT !.dir = TRUE, !.scratch = p \in Cli]]
    /\ proc' = [proc EXCEPT ![p].pc = "made", ![p].session = started + 1]
    /\ UNCHANGED <<row, stored, behind, late, day>>

\* create_session
CreateSession(p) ==
    /\ proc[p].pc = "made"
    /\ row' = [row EXCEPT ![Current(p)] = [NoRow EXCEPT !.status = "running", !.created = day]]
    /\ StepTo(p, "recorded")
    /\ UNCHANGED <<dirs, stored, behind, late, started, day>>

\* The machine boots, and DbWriter::open makes the database (and the directory).
OpenDb(p) ==
    /\ proc[p].pc = "recorded"
    /\ dirs' = [dirs EXCEPT ![Current(p)].dir = TRUE, ![Current(p)].db = 0]
    /\ StepTo(p, "live")
    /\ UNCHANGED <<row, stored, behind, late, started, day>>

\* The machine does not boot.  The desktop goes on; the command line exits
\* without cleaning up, which is a Crash.
BootFails(p) ==
    /\ proc[p].pc = "recorded" /\ p \notin Cli
    /\ StepTo(p, "ready")
    /\ UNCHANGED <<row, dirs, stored, behind, late, started, day>>

Stopping(p) == proc[p].then # "vacuum" /\ proc[p].pc \in {"open", "compress", "remove", "vacuumed"}

\* The writer thread commits an event; it may still hold some when the session
\* stops.  What it writes to a database that was removed goes to no file.
LogEvent(p) ==
    /\ proc[p].pc = "live" \/ Stopping(p)
    /\ MapThenSumSet(LAMBDA s : stored[s], Sessions) < MaxEvents
    /\ stored' = [stored EXCEPT ![Current(p)] = @ + 1]
    /\ dirs' = IF File(p).db = NoFile THEN dirs ELSE [dirs EXCEPT ![Current(p)].db = @ + 1]
    /\ behind' = IF proc[p].pc = "live" THEN behind ELSE behind \cup {Current(p)}
    /\ late' = IF proc[p].pc \in {"live", "open"} THEN late ELSE late \cup {Current(p)}
    /\ UNCHANGED <<row, proc, started, day>>

\* The figures a reader of the database finds, if there is one.
Rollup(r, p) == IF File(p).db = NoFile THEN r ELSE [r EXCEPT !.counted = File(p).db]

\* The desktop copies the figures to the index every 30 seconds.
Flush(p) ==
    /\ proc[p].pc = "live" /\ p \notin Cli
    /\ Update([s \in {Current(p)} |-> Rollup(row[s], p)])
    /\ UNCHANGED <<dirs, stored, proc, behind, late, started, day>>

\* stop_vm or the end of run_cli: cleanup_session, then vacuum_session.
CleanupSession(p) ==
    /\ proc[p].pc = "live"
    /\ dirs' = [dirs EXCEPT ![Current(p)].scratch = FALSE]
    /\ Update([s \in {Current(p)} |-> [Rollup(row[s], p) EXCEPT !.status = "stopped"]])
    /\ proc' = [proc EXCEPT ![p].pc = "open", ![p].then = IF p \in Cli THEN "down" ELSE "ready"]
    /\ UNCHANGED <<stored, behind, late, started, day>>

\* The process ends, by itself or not.
Crash(p) ==
    /\ proc[p].pc # "down"
    /\ proc' = [proc EXCEPT ![p] = Down]
    /\ behind' = IF proc[p].pc = "live" /\ row[Current(p)].counted \notin {0, stored[Current(p)]}
                 THEN behind \cup {Current(p)} ELSE behind
    /\ UNCHANGED <<row, dirs, stored, late, started, day>>

DayPasses ==
    /\ day < MaxDay
    /\ day' = day + 1
    /\ UNCHANGED <<row, dirs, stored, proc, behind, late, started>>

------------------------------------------------------------------------------
Cleanup(p) ==
    \/ DeleteScratch(p) \/ MarkRunningAsCrashed(p) \/ Backfill(p)
    \/ VacuumNext(p) \/ VacuumDone(p) \/ TerminateOlder(p) \/ TerminateExcess(p)
    \/ CullStart(p) \/ CullDir(p) \/ CullMark(p) \/ CullDone(p)
    \/ RemoveTerminated(p) \/ Purge(p) \/ RemoveOrphans(p)

Vacuum(p) ==
    VacuumFails(p) \/ VacuumOpen(p) \/ VacuumCompress(p) \/ VacuumRemove(p) \/ MarkVacuumed(p)

Session(p) ==
    \/ MakeDir(p) \/ CreateSession(p) \/ OpenDb(p) \/ BootFails(p)
    \/ LogEvent(p) \/ Flush(p) \/ CleanupSession(p)

SessionNext ==
    \/ \E p \in Procs : Start(p) \/ Cleanup(p) \/ Vacuum(p) \/ Session(p) \/ Crash(p)
    \/ DayPasses

SessionSpec == SessionInit /\ [][SessionNext]_sessionVars

------------------------------------------------------------------------------
(* Properties.                                                             *)

\* The state has its type.
SessionTypeOK ==
    /\ row \in [Sessions -> [status : Finished \cup {"none", "running", "terminated"},
                             vacuumed : BOOLEAN, counted : 0..MaxEvents, created : 0..MaxDay]]
    /\ dirs \in [Sessions -> [dir : BOOLEAN, scratch : BOOLEAN, db : NoFile..MaxEvents,
                              gz : Partial..MaxEvents]]
    /\ stored \in [Sessions -> 0..MaxEvents]
    /\ started \in 0..MaxSessions /\ day \in 0..MaxDay

\* What a session did is not forgotten, wherever a process died.  A session
\* directory that is still there holds every event that was committed, in the
\* database or in a complete archive, and a database is removed only when the
\* index has the figures of all of these events.  This excludes the events that the
\* writer thread commits while the session is being archived, and the figures of a
\* session that got events after they were taken, or whose process died between
\* two flushes: the next start counts only what has no figures at all.
TelemetryKept ==
    \A s \in Sessions :
        dirs[s].dir /\ stored[s] > 0 /\ s \notin late =>
            /\ stored[s] \in {dirs[s].db, dirs[s].gz}
            /\ dirs[s].db = NoFile /\ s \notin behind => row[s].counted = stored[s]

\* When a process has cleaned up, nothing is left of the ones that died: no
\* session that is called running, no scratch disk, no directory of a session
\* that was terminated or that the index does not know.
StartupRecovers ==
    \A p \in Procs : proc[p].pc = "fresh" =>
        \A s \in Sessions :
            /\ row[s].status # "running" /\ ~dirs[s].scratch
            /\ dirs[s].dir => row[s].status \in Finished
==============================================================================
