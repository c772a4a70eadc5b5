--------------------------- MODULE StrategyStack ---------------------------
(***************************************************************************)
(* What the activations and rollbacks of RepoAgent's evolver promise       *)
(* (repoagent/evolver/activation.py, deployment.py): of each label a stack *)
(* of strategies, the top one in use.  Activating pushes, rolling back     *)
(* takes the top away and brings back the one it replaced, and only one    *)
(* label is in use at a time, for a strategy is a whole snapshot.          *)
(***************************************************************************)
EXTENDS Naturals, Sequences

CONSTANTS Labels, Strategies

VARIABLE stack  \* of each label, the strategies in use, the current one last

StackInit == stack = [l \in Labels |-> <<>>]

Push(l, c) ==
  /\ \A k \in Labels \ {l} : stack[k] = <<>>
  /\ stack' = [stack EXCEPT ![l] = Append(@, c)]

Pop(l) ==
  /\ stack[l] # <<>>
  /\ stack' = [stack EXCEPT ![l] = SubSeq(@, 1, Len(@) - 1)]

StackSpec ==
  /\ StackInit
  /\ [][\E l \in Labels : Pop(l) \/ \E c \in Strategies : Push(l, c)]_stack
=============================================================================
