---------------------------- MODULE MCAgentTurn ----------------------------
(* The agents whose turns TLC explores. *)
EXTENDS AgentTurn

\* Two turns, structured messages, and a disk and threads that obey.
Orderly == [turns |-> 2, native |-> TRUE, steps |-> 2, calls |-> 0,
            candidates |-> 1, overflows |-> 0, recoveries |-> 0, curator |-> 0,
            injected |-> 0, slow |-> FALSE, faults |-> FALSE]

\* The first thread may live on beside the second turn's.
Late == [Orderly EXCEPT !.slow = TRUE, !.steps = 1]

\* Two turns and a disk that may fail.
Faulty == [Orderly EXCEPT !.faults = TRUE]

\* One turn with everything that can happen to a request.
Rich == [turns |-> 1, native |-> TRUE, steps |-> 2, calls |-> 0,
         candidates |-> 1, overflows |-> 1, recoveries |-> 1, curator |-> 1,
         injected |-> 1, slow |-> FALSE, faults |-> TRUE]

\* One turn whose tool calls and answers are text.
Text == [Rich EXCEPT !.native = FALSE, !.injected = 0]

\* One turn with three model calls, the curator wanting as many, and a chain.
Limited == [Rich EXCEPT !.steps = 3, !.calls = 3, !.curator = 3]
Chained == [Limited EXCEPT !.candidates = 2]

\* All of them; and the one that shows what an interrupted turn leaves behind.
Agents == {Orderly, Late, Faulty, Rich, Text, Limited, Chained}
Interrupted == {Orderly}
============================================================================
