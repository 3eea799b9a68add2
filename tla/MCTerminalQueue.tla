--------------------------- MODULE MCTerminalQueue ---------------------------
(***************************************************************************)
(* Both directions of the terminal.  They share no variable, so a          *)
(* behaviour runs one of them, picked by part.  Output: the capacity is 2  *)
(* instead of 64, which a run of four or five chunks fills.  Input: two    *)
(* environments with two sessions each, where the second machine may get   *)
(* the descriptors of the first.                                           *)
(***************************************************************************)
EXTENDS TerminalQueue, TerminalInput

VARIABLE part
terminalVars == <<part, vars, inputVars>>

TerminalInit == part \in {"output", "input"} /\ Init /\ InputInit

TerminalNext ==
    \/ part = "output" /\ Next /\ UNCHANGED <<part, inputVars>>
    \/ part = "input" /\ InputNext /\ UNCHANGED <<part, vars>>

TerminalSpec == TerminalInit /\ [][TerminalNext]_terminalVars /\ Fairness
==============================================================================
