-------------------------- MODULE MCDurableDelivery --------------------------
(* The gateways TLC explores.                                              *)
EXTENDS DurableDelivery

File(n, i, b, a) == [name |-> n, id |-> i, body |-> b, allowed |-> a]

\* A message, its copy and a conflicting use of its identity; and two
\* messages and one of a sender who is not allowed.
CopyAndConflict == {File(1, "one", "a", TRUE), File(2, "one", "a", TRUE),
                    File(3, "one", "b", TRUE)}
TwoMessages == {File(1, "one", "a", TRUE), File(4, "two", "a", TRUE),
                File(5, "two", "a", FALSE)}

\* Two attempts, two restarts, a retry, and writes that may fail.
Faulty == [files |-> CopyAndConflict, attempts |-> 2, starts |-> 3,
           retries |-> 1, intrusions |-> 1, faults |-> TRUE]

\* One attempt, a crash or an orderly stop, and writes that work.
Orderly == [files |-> TwoMessages, attempts |-> 1, starts |-> 2,
            retries |-> 0, intrusions |-> 1, faults |-> FALSE]

AllFiles == CopyAndConflict \cup TwoMessages
Gateways == {Faulty, Orderly}
=============================================================================
