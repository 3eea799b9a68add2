------------------------------- MODULE MCStore -------------------------------
(***************************************************************************)
(* What the host keeps on disk and in the cloud.  The parts share no       *)
(* variable, so a behaviour runs one of them, picked by part.              *)
(* Sessions: a command line and a desktop, one process at a time.          *)
(* Registry: three environments and two commands at a time.  Cloud: one    *)
(* user beside the daily task, over a leap day and the next one.  Remote:  *)
(* two environments and two servers.  Assets: two boots that need a file.  *)
(***************************************************************************)
EXTENDS SessionIndex, VenvRegistry, Cloud, RemoteMode, Assets

VARIABLE part
storeVars == <<part, sessionVars, registryVars, cloudVars, remoteVars, assetVars>>

MCLeapDay == [year |-> 2028, month |-> 2, day |-> 29]

Init ==
    /\ part \in {"sessions", "registry", "cloud", "remote", "assets"}
    /\ SessionInit /\ RegistryInit /\ CloudInit /\ RemoteInit /\ AssetInit

Next ==
    \/ part = "sessions" /\ SessionNext /\ UNCHANGED <<part, registryVars, cloudVars, remoteVars, assetVars>>
    \/ part = "registry" /\ RegistryNext /\ UNCHANGED <<part, sessionVars, cloudVars, remoteVars, assetVars>>
    \/ part = "cloud" /\ CloudNext /\ UNCHANGED <<part, sessionVars, registryVars, remoteVars, assetVars>>
    \/ part = "remote" /\ RemoteNext /\ UNCHANGED <<part, sessionVars, registryVars, cloudVars, assetVars>>
    \/ part = "assets" /\ AssetNext /\ UNCHANGED <<part, sessionVars, registryVars, cloudVars, remoteVars>>

Spec == Init /\ [][Next]_storeVars
==============================================================================
