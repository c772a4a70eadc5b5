-------------------------- MODULE MCAgentLifetime --------------------------
(* One agent whose ask may be cancelled, to see what is left of it.        *)
EXTENDS AgentLifetime, TLC

CONSTANTS a1, n1, n2

Notes == a1 :> n1

Spec == LifeInit /\ [][LifeNext]_lifeVars
=============================================================================
