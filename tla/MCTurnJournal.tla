---------------------------- MODULE MCTurnJournal ----------------------------
(* Instances of TurnJournal for TLC: processes and turns are               *)
(* interchangeable.                                                        *)
EXTENDS TurnJournal, TLC

Symmetric == Permutations(Processes) \cup Permutations(Turns)
=============================================================================
