-------------------------- MODULE MCSpineScheduler --------------------------
(* Instances of SpineScheduler for TLC: sessions are interchangeable.      *)
EXTENDS SpineScheduler, TLC

OnePermitEach == [c \in Classes |-> 1]

=============================================================================
