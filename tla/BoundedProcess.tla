--------------------------- MODULE BoundedProcess ---------------------------
(***************************************************************************)
(* One command of a tool or of a sandbox: run_bounded_process in           *)
(* repoagent/tool_execution.py starts a process group, polls it against a  *)
(* deadline and a cancellation token (providers/base.py), and answers for  *)
(* how it ended.  The token may be cancelled by another thread, which then *)
(* kills the group itself, through a callback, while this one polls.       *)
(*                                                                         *)
(* The group is a leader, the command itself, and one child of it.  poll() *)
(* and killpg() are two steps: what they act on may change in between.     *)
(* Reading the output, beyond waiting for it, is left out.                 *)
(***************************************************************************)
EXTENDS Naturals

Members == {"leader", "child"}
ProcessThreads == {"runner", "canceller"}

VARIABLES
  command,    \* what kind of command it is; a step never changes it
  group,      \* each member's state; the leader stays "exited" until polled
  killed,     \* the members a signal of ours ended
  deadline,   \* TRUE once control.deadline has passed
  cancelled,  \* the token's event
  callbacks,  \* TRUE while cancel_process is in the token's table
  pc,         \* where each thread is
  back,       \* where the runner goes on after a callback it ran itself
  status,     \* the runner's local variable
  signal,     \* termination_signal: TRUE when it names a signal
  reported    \* callback_signal is not empty

processVars == <<command, group, killed, deadline, cancelled, callbacks, pc, back, status,
          signal, reported>>
groupVars == <<group, killed>>
tokenVars == <<cancelled, callbacks>>

\* Who ignores SIGTERM, and whether the leader may end before its child.
Commands == [stubborn : SUBSET Members, detaches : BOOLEAN]
Stubborn == command.stubborn
Detaches == command.detaches

MemberStates == {"unborn", "alive", "exited", "reaped"}
RunnerPlaces == {"idle", "entry", "register", "callback", "kill", "append", "poll",
           "check", "term", "sigterm", "grace", "force", "sigkill", "wait",
           "settle", "leave", "read", "done"}
Statuses == {"completed", "running", "cancelled", "timeout"}

ProcessTypes ==
  /\ command \in Commands
  /\ group \in [Members -> MemberStates] /\ killed \subseteq Members
  /\ deadline \in BOOLEAN /\ cancelled \in BOOLEAN /\ callbacks \in BOOLEAN
  /\ pc \in [ProcessThreads -> RunnerPlaces] /\ back \in RunnerPlaces
  /\ status \in Statuses /\ signal \in BOOLEAN /\ reported \in BOOLEAN

ProcessInit ==
  /\ command \in Commands
  /\ group = [m \in Members |-> "unborn"] /\ killed = {}
  /\ deadline = FALSE /\ cancelled = FALSE /\ callbacks = FALSE
  /\ pc = [runner |-> "entry", canceller |-> "idle"] /\ back = "poll"
  /\ status = "completed" /\ signal = FALSE /\ reported = FALSE

Alive(m) == group[m] = "alive"
At(thread, place) == pc[thread] = place
Goto(thread, place) == pc' = [pc EXCEPT ![thread] = place]

\* ToolExecutionControl.status()
ControlStatus == IF cancelled THEN "cancelled"
                 ELSE IF deadline THEN "timeout" ELSE "running"

---------------------------------------------------------------------------
(* The process group *)

Fork ==
  /\ Alive("leader") /\ group["child"] = "unborn"
  /\ group' = [group EXCEPT !["child"] = "alive"]
  /\ UNCHANGED <<killed, deadline, tokenVars, pc, back, status, signal, reported>>

Exit(m) ==
  /\ Alive(m)
  /\ m = "leader" => Detaches \/ ~Alive("child")
  /\ group' = [group EXCEPT ![m] = "exited"]
  /\ UNCHANGED <<killed, deadline, tokenVars, pc, back, status, signal, reported>>

DeadlinePasses ==
  /\ ~deadline /\ deadline' = TRUE
  /\ UNCHANGED <<groupVars, tokenVars, pc, back, status, signal, reported>>

\* process.poll() collects a leader that has exited; TRUE when it still runs.
Polled == [group EXCEPT !["leader"] = IF @ = "exited" THEN "reaped" ELSE @]

\* Faulty: the process is signalled, not its group.
FaultyKillpg(force) ==
  LET hit == {m \in {"leader"} : Alive(m) /\ (force \/ m \notin Stubborn)} IN
  /\ group' = [m \in Members |-> IF m \in hit THEN "exited" ELSE group[m]]
  /\ killed' = killed \cup hit

\* os.killpg: SIGKILL ends every living member, SIGTERM those that heed it.
Killpg(force) ==
  LET hit == {m \in Members : Alive(m) /\ (force \/ m \notin Stubborn)} IN
  /\ group' = [m \in Members |-> IF m \in hit THEN "exited" ELSE group[m]]
  /\ killed' = killed \cup hit

\* killpg finds a process to signal, otherwise ProcessLookupError gives "".
GroupExists == group["leader"] # "reaped" \/ Alive("child")

---------------------------------------------------------------------------
(* The callback cancel_process, in whichever thread runs it *)

After(thread) == IF thread = "canceller" THEN "done" ELSE back

CallbackPolls(thread) ==
  /\ At(thread, "callback")
  /\ group' = Polled
  /\ Goto(thread, IF Alive("leader") THEN "kill" ELSE After(thread))
  /\ UNCHANGED <<killed, deadline, tokenVars, back, status, signal, reported>>

CallbackKills(thread) ==
  /\ At(thread, "kill")
  /\ Killpg(TRUE)
  /\ Goto(thread, IF GroupExists THEN "append" ELSE After(thread))
  /\ UNCHANGED <<deadline, tokenVars, back, status, signal, reported>>

CallbackAppends(thread) ==
  /\ At(thread, "append")
  /\ reported' = TRUE /\ Goto(thread, After(thread))
  /\ UNCHANGED <<groupVars, deadline, tokenVars, back, status, signal>>

\* CancellationToken.cancel(): the event is set and the table emptied under
\* the lock, the callbacks run after it.
CancelToken ==
  /\ At("canceller", "idle")
  /\ cancelled' = TRUE /\ callbacks' = FALSE
  /\ Goto("canceller", IF callbacks THEN "callback" ELSE "done")
  /\ UNCHANGED <<groupVars, deadline, back, status, signal, reported>>

---------------------------------------------------------------------------
(* run_bounded_process *)

\* A command whose time is over before it starts is not started.
Start ==
  /\ At("runner", "entry")
  /\ IF ControlStatus = "running"
       THEN /\ group' = [group EXCEPT !["leader"] = "alive"]
            /\ Goto("runner", "register") /\ UNCHANGED status
       ELSE /\ status' = ControlStatus /\ Goto("runner", "done")
            /\ UNCHANGED group
  /\ UNCHANGED <<killed, deadline, tokenVars, back, signal, reported>>

\* add_callback: a token that is cancelled already runs it here and now.
Register ==
  /\ At("runner", "register")
  /\ IF cancelled
       THEN Goto("runner", "callback") /\ UNCHANGED callbacks
       ELSE Goto("runner", "poll") /\ callbacks' = TRUE
  /\ UNCHANGED <<groupVars, deadline, cancelled, back, status, signal, reported>>

Poll ==
  /\ At("runner", "poll")
  /\ group' = Polled
  /\ Goto("runner", IF Alive("leader") THEN "check" ELSE "settle")
  /\ UNCHANGED <<killed, deadline, tokenVars, back, status, signal, reported>>

Check ==
  /\ At("runner", "check")
  /\ status' = ControlStatus
  /\ Goto("runner", IF ControlStatus = "running" THEN "poll" ELSE "term")
  /\ UNCHANGED <<groupVars, deadline, tokenVars, back, signal, reported>>

\* _reap_process: a signal, a grace period, and force for a leader that stays.
ReapPolls(place, next) ==
  /\ At("runner", place)
  /\ group' = Polled
  /\ Goto("runner", IF Alive("leader") THEN next
                    ELSE IF place = "term" THEN "grace" ELSE "wait")
  /\ UNCHANGED <<killed, deadline, tokenVars, back, status, signal, reported>>

ReapSignals(place, force, next) ==
  /\ At("runner", place)
  /\ Killpg(force)
  /\ signal' = (signal \/ GroupExists)
  /\ Goto("runner", next)
  /\ UNCHANGED <<deadline, tokenVars, back, status, reported>>

\* Faulty: the grace period is not followed by force.
FaultyGrace ==
  /\ At("runner", "grace")
  /\ Goto("runner", "wait")
  /\ UNCHANGED <<groupVars, deadline, tokenVars, back, status, signal, reported>>

\* process.wait(timeout=grace) returns with the leader, or does not.
Grace ==
  /\ At("runner", "grace")
  /\ IF Alive("leader")
       THEN Goto("runner", "force") /\ UNCHANGED group
       ELSE Goto("runner", "settle") /\ group' = Polled
  /\ UNCHANGED <<killed, deadline, tokenVars, back, status, signal, reported>>

Wait ==
  /\ At("runner", "wait") /\ ~Alive("leader")
  /\ group' = Polled /\ Goto("runner", "settle")
  /\ UNCHANGED <<killed, deadline, tokenVars, back, status, signal, reported>>

\* Faulty: only the poll that found the process running looks at the token.
FaultySettle ==
  /\ At("runner", "settle")
  /\ status' = IF status = "running" THEN "completed" ELSE status
  /\ Goto("runner", "leave")
  /\ UNCHANGED <<groupVars, deadline, tokenVars, back, signal, reported>>

Settle ==
  /\ At("runner", "settle")
  /\ status' = IF cancelled THEN "cancelled"
               ELSE IF status = "running" THEN "completed" ELSE status
  /\ Goto("runner", "leave")
  /\ UNCHANGED <<groupVars, deadline, tokenVars, back, signal, reported>>

\* remove_callback, then the joins of the two readers.
Unregister ==
  /\ At("runner", "leave")
  /\ callbacks' = FALSE /\ Goto("runner", "read")
  /\ UNCHANGED <<groupVars, deadline, cancelled, back, status, signal, reported>>

Return ==
  /\ At("runner", "read")
  /\ signal' = (signal \/ reported) /\ Goto("runner", "done")
  /\ UNCHANGED <<groupVars, deadline, tokenVars, back, status, reported>>

Reap == \/ ReapPolls("term", "sigterm") \/ ReapSignals("sigterm", FALSE, "grace")
        \/ Grace
        \/ ReapPolls("force", "sigkill") \/ ReapSignals("sigkill", TRUE, "wait")
        \/ Wait

Callback(thread) ==
  CallbackPolls(thread) \/ CallbackKills(thread) \/ CallbackAppends(thread)

RunnerStep == \/ Start \/ Register \/ Poll \/ Check \/ Reap \/ Settle \/ Unregister
              \/ Return \/ Callback("runner")

\* The command was answered for; what is left of the group goes its own way.
Returned == At("runner", "done")

ProcessNext ==
  /\ UNCHANGED command
  /\ \/ RunnerStep \/ CancelToken \/ Callback("canceller")
     \/ Fork \/ (\E m \in Members : Exit(m)) \/ DeadlinePasses
     \/ Returned /\ UNCHANGED processVars

---------------------------------------------------------------------------
(* Properties *)

\* A command that we killed is never reported as completed, whichever thread
\* killed it and whenever the other one looked.
KilledIsNotCompleted == Returned /\ status = "completed" => killed = {}

\* A command stopped for its deadline or by a cancellation leaves no member of
\* its process group alive ("Run and reap one process group"), if its child
\* heeds SIGTERM and does not outlive it of its own accord: only the leader is
\* waited for, so a child that ignores the first signal never gets a second.
GroupIsReaped ==
  Returned /\ status \in {"timeout", "cancelled"} /\ ~Detaches =>
     \A m \in Members \ (Stubborn \cap {"child"}) : ~Alive(m)

\* The answer is true to the group: a killed command is not called completed,
\* and what was stopped is gone.
AnswerIsTrue == ProcessTypes /\ KilledIsNotCompleted /\ GroupIsReaped

\* Once its time is over or it is cancelled, the caller of a command that never
\* ends by itself and ignores SIGTERM still does not wait for ever.
CommandWaits == (deadline \/ cancelled) /\ ~Returned
=============================================================================
