--------------------------- MODULE MCTerminalRpc ---------------------------
(* The front ends TLC explores.                                            *)
EXTENDS TerminalRpc

CONSTANTS t1, t2

\* A turn that asks twice, with every timer.
Timed == [turns |-> {t1}, calls |-> 2, switches |-> 0, timers |-> TRUE, slow |-> FALSE]

\* The same, a change of session, and a thread that outlives its turn.
Late == [turns |-> {t1}, calls |-> 2, switches |-> 1, timers |-> TRUE, slow |-> TRUE]

\* Two turns and a change of session, without any timer.
Patient == [turns |-> {t1, t2}, calls |-> 1, switches |-> 1, timers |-> FALSE, slow |-> FALSE]

\* Two turns whose threads outlive them, without any timer.
Crossing == [turns |-> {t1, t2}, calls |-> 1, switches |-> 0, timers |-> FALSE, slow |-> TRUE]

FrontEnds == {Timed, Late, Patient, Crossing}
=============================================================================
