--------------------------- MODULE SessionHistory ---------------------------
(***************************************************************************)
(* What a stored session promises its readers, whoever writes it: rows are *)
(* added at the end, a rewrite only takes rows off the end and leaves the  *)
(* title, and a deleted session never changes again.                       *)
(***************************************************************************)
EXTENDS Naturals, Sequences, SequencesExt

CONSTANTS Titles

VARIABLES history, title, deleted

hvars == <<history, title, deleted>>

Init == history = <<>> /\ title \in Titles /\ deleted = FALSE

\* Rows kept back by a failed save come with the next one, a title's included.
Extend == ~deleted /\ IsPrefix(history, history') /\ title' \in Titles /\ UNCHANGED deleted

Rewrite == /\ ~deleted
           /\ Len(history') < Len(history) /\ IsPrefix(history', history)
           /\ UNCHANGED <<title, deleted>>

Delete == ~deleted /\ deleted' = TRUE /\ UNCHANGED <<history, title>>

Next == Extend \/ Rewrite \/ Delete

Spec == Init /\ [][Next]_hvars
=============================================================================
