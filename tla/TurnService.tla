---------------------------- MODULE TurnService ----------------------------
(***************************************************************************)
(* What the session scheduler promises its callers, with no queues, tasks, *)
(* semaphores or cancellation flags: every accepted turn is served once,   *)
(* by itself or inside one host turn of its own session; a session serves  *)
(* one turn at a time; a host's verdict is decided once and is what its    *)
(* children are settled with, before the host itself is answered.          *)
(***************************************************************************)
CONSTANTS Turns,      \* every turn a client may ever submit
          Sessions,   \* the conversations turns belong to
          NoTurn

VARIABLES session,    \* the session of each turn
          phase,      \* "new", "queued", "active", "merged" or "done"
          host,       \* the turn that a merged turn rides on
          verdict,    \* how an active turn ended, "none" until it has
          answer      \* what the turn's handle returns

vars == <<session, phase, host, verdict, answer>>

Verdicts == {"completed", "failed", "cancelled", "raised"}

Init ==
  /\ session \in [Turns -> Sessions \cup {NoTurn}]
  /\ phase   = [t \in Turns |-> "new"]
  /\ host    = [t \in Turns |-> NoTurn]
  /\ verdict = [t \in Turns |-> "none"]
  /\ answer  = [t \in Turns |-> "none"]

Accept(t) ==
  /\ phase[t] = "new"
  /\ phase' = [phase EXCEPT ![t] = "queued"]
  /\ \E s \in Sessions : session' = [session EXCEPT ![t] = s]
  /\ UNCHANGED <<host, verdict, answer>>

(* A session starts its next turn only when it serves no other. *)
Serve(t) ==
  /\ phase[t] = "queued"
  /\ \A u \in Turns : phase[u] = "active" => session[u] # session[t]
  /\ phase' = [phase EXCEPT ![t] = "active"]
  /\ UNCHANGED <<session, host, verdict, answer>>

(* The active turn h takes over queued turns of its own session, as long   *)
(* as its own outcome is open.                                             *)
Absorb(h) ==
  /\ phase[h] = "active" /\ verdict[h] = "none"
  /\ \E S \in SUBSET {t \in Turns : phase[t] = "queued"
                                      /\ session[t] = session[h]} :
       /\ phase' = [t \in Turns |-> IF t \in S THEN "merged" ELSE phase[t]]
       /\ host'  = [t \in Turns |-> IF t \in S THEN h ELSE host[t]]
  /\ UNCHANGED <<session, verdict, answer>>

Decide(h) ==
  /\ phase[h] = "active" /\ verdict[h] = "none"
  /\ \E v \in Verdicts : verdict' = [verdict EXCEPT ![h] = v]
  /\ UNCHANGED <<session, phase, host, answer>>

(* A merged turn gets its host's verdict, or the error of recording it. *)
Settle(t) ==
  /\ phase[t] = "merged"
  /\ verdict[host[t]] \in Verdicts
  /\ \E a \in {verdict[host[t]], "raised"} : answer' = [answer EXCEPT ![t] = a]
  /\ phase' = [phase EXCEPT ![t] = "done"]
  /\ host'  = [host EXCEPT ![t] = NoTurn]
  /\ UNCHANGED <<session, verdict>>

(* The host is answered after the turns it absorbed, or together with them *)
(* when the run itself raised.                                             *)
Finish(h) ==
  LET riders == {t \in Turns : host[t] = h}
      ended  == riders \cup {h}
  IN /\ phase[h] = "active" /\ verdict[h] \in Verdicts
     /\ riders = {} \/ verdict[h] = "raised"
     /\ phase'   = [t \in Turns |-> IF t \in ended THEN "done" ELSE phase[t]]
     /\ answer'  = [t \in Turns |-> IF t \in ended THEN verdict[h]
                                                   ELSE answer[t]]
     /\ host'    = [t \in Turns |-> IF t \in riders THEN NoTurn ELSE host[t]]
     /\ verdict' = [verdict EXCEPT ![h] = "none"]
     /\ UNCHANGED session

(* A queued turn that its owner, its session or the shutdown cancels. *)
Withdraw(t) ==
  /\ phase[t] = "queued"
  /\ phase' = [phase EXCEPT ![t] = "done"]
  /\ \E a \in {"cancelled", "raised"} : answer' = [answer EXCEPT ![t] = a]
  /\ UNCHANGED <<session, host, verdict>>

Next == \E t \in Turns : \/ Accept(t) \/ Serve(t) \/ Absorb(t) \/ Decide(t)
                         \/ Settle(t) \/ Finish(t) \/ Withdraw(t)

Spec == Init /\ [][Next]_vars
=============================================================================
