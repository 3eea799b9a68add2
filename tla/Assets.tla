-------------------------------- MODULE Assets --------------------------------
(***************************************************************************)
(* The root file system: a boot, or the command line in a process of its   *)
(* own, that does not find it downloads it to a temporary file, checks its *)
(* hash and renames it.  All downloads use one temporary path.             *)
(***************************************************************************)
EXTENDS Naturals, FiniteSets

CONSTANTS
    Boots,          \* boots that need the root file system
    MaxFiles        \* bound: files created at the temporary path

ASSUME AssetAssumption == MaxFiles \in Nat

VARIABLES
    content,    \* file -> "part", "good" or "bad"; files are numbered as they are created
    tmpFile,    \* the file at the temporary path; 0 for none
    destFile,   \* the file at the final path; 0 for none
    fetch,      \* boot -> [pc, file]
    used,       \* what the machines booted from
    together    \* a download opened the temporary file while another was at work

assetVars == <<content, tmpFile, destFile, fetch, used, together>>

AssetInit ==
    /\ content = [f \in 1..MaxFiles |-> "none"] /\ tmpFile = 0 /\ destFile = 0
    /\ fetch = [b \in Boots |-> [pc |-> "idle", file |-> 0]]
    /\ used = {} /\ together = FALSE

At(b, pc) == fetch' = [fetch EXCEPT ![b].pc = pc]
Boot(f) == used' = used \cup {content[f]}

\* resolve_rootfs looks whether the file is there; otherwise cleanup_unrecognized
\* removes what is left at the temporary path and the download begins.
ResolveRootfs(b) ==
    /\ fetch[b].pc \in {"idle", "failed"}
    /\ IF destFile # 0
       THEN At(b, "booted") /\ Boot(destFile) /\ UNCHANGED tmpFile
       ELSE At(b, "request") /\ tmpFile' = 0 /\ UNCHANGED used
    /\ UNCHANGED <<content, destFile, together>>

\* The files made so far, also those that were removed since.
Files == {f \in 1..MaxFiles : content[f] # "none"}

\* The server answers: File::create makes the temporary file or empties it.
CreateTmp(b) ==
    /\ fetch[b].pc = "request"
    /\ \E f \in 1..MaxFiles :
          /\ f = IF tmpFile # 0 THEN tmpFile ELSE Cardinality(Files) + 1
          /\ fetch' = [fetch EXCEPT ![b] = [pc |-> "stream", file |-> f]]
          /\ content' = [content EXCEPT ![f] = "part"] /\ tmpFile' = f
          /\ together' = (together \/ \E c \in Boots \ {b} : fetch[c].pc \in {"stream", "verify", "verified"})
    /\ UNCHANGED <<destFile, used>>

\* The stream ends; a file another download emptied since has a hole in it.
StreamEnds(b) ==
    /\ fetch[b].pc = "stream" /\ At(b, "verify")
    /\ content' \in {[content EXCEPT ![fetch[b].file] = c] : c \in {"good", "bad"}}
                    \cup (IF together THEN {content} ELSE {})
    /\ UNCHANGED <<tmpFile, destFile, used, together>>

\* The request or the stream fails, or the process ends: the file stays.
FetchFails(b) ==
    /\ fetch[b].pc \in {"request", "stream", "verified"} /\ At(b, "failed")
    /\ UNCHANGED <<content, tmpFile, destFile, used, together>>

\* A file is taken for what the server said it was.
MatchesAny == TRUE

\* hash_file and the hash of the manifest.
Matches == tmpFile # 0 /\ content[tmpFile] = "good"

\* The file at the path is hashed; one that does not match is removed.
VerifyTmp(b) ==
    /\ fetch[b].pc = "verify"
    /\ IF Matches THEN At(b, "verified") /\ UNCHANGED tmpFile ELSE At(b, "failed") /\ tmpFile' = 0
    /\ UNCHANGED <<content, destFile, used, together>>

\* rename moves what is at the path by now; the machine boots from it.
RenameTmp(b) ==
    /\ fetch[b].pc = "verified"
    /\ IF tmpFile = 0 THEN At(b, "failed") /\ UNCHANGED <<tmpFile, destFile, used>>
       ELSE At(b, "booted") /\ destFile' = tmpFile /\ tmpFile' = 0 /\ Boot(tmpFile)
    /\ UNCHANGED <<content, together>>

AssetNext ==
    \E b \in Boots : \/ ResolveRootfs(b) \/ CreateTmp(b) \/ StreamEnds(b) \/ FetchFails(b)
                     \/ VerifyTmp(b) \/ RenameTmp(b)

AssetSpec == AssetInit /\ [][AssetNext]_assetVars

------------------------------------------------------------------------------
(* Properties.                                                             *)

\* A machine boots only from a root file system whose hash was checked, although
\* resolve_rootfs looks only whether the file exists: a failed, cut off or wrong
\* download never gets to the final path, as long as no download begins while
\* another one is at work.
BootsVerified == ~together => used \cup {content[f] : f \in {destFile} \ {0}} \subseteq {"good"}
==============================================================================
