---------------------------- MODULE MCVmLifecycle ----------------------------
(* Small instances of VmLifecycle for TLC.                                 *)
EXTENDS VmLifecycle
==============================================================================
