--------------------------- MODULE ContextCurator ---------------------------
(***************************************************************************)
(* The history that goes with a request (repoagent/context_engine).  Each  *)
(* turn, the segment of CuratorSegmentBuilder is the whole session while   *)
(* that is short, else what a model, the curator, plans with its tools,    *)
(* within a number of steps and a time, else a plan made without it.  The  *)
(* relevance of messages and the archives it wrote are in files, and may   *)
(* be those of a process that died.  The curator's provider runs in a      *)
(* thread of its own, and its calls count as calls of the turn.            *)
(*                                                                         *)
(* Messages are their places in the session.  A message's size is one;     *)
(* the system prompt, the tools and the user's message are left out of     *)
(* the capacity.  Relevance is a number of tenths.                         *)
(***************************************************************************)
EXTENDS Naturals, Sequences, FiniteSets, FiniteSetsExt

CONSTANTS
  Sessions,       \* the sessions: sequences of messages, which begin a turn,
                  \* make calls or are the result of one
  Capacity,       \* what is left of the window for the history
  Threshold,      \* the size of the history from which the curator is asked
  Protected,      \* how many messages at the beginning are protected
  RecentWindow,   \* the last messages that are relevant because they are
  FallbackRecent, \* the last messages in a plan without the curator
  FallbackBest,   \* and the most relevant ones in it
  MaxSteps,       \* curator_max_steps
  CallLimit,      \* max_provider_calls of the turn
  MaxTunes,       \* bound: changes of relevance and archives, for ever
  MaxAssemblies,  \* bound: assemblies
  MaxKills        \* bound: deaths of the process

(* A message is somebody's, makes the calls of an answer, or is the result  *)
(* of a call; 0 is the result of none.                                      *)
SessionMessages == [role : {"user", "assistant", "tool"}, calls : SUBSET Nat, result : Nat]

\* What a loop records whose thread ends with its turn: a result is that of one
\* message's call, comes after it in the same turn, and makes no calls itself.
Orderly(s) ==
  \A m, r \in DOMAIN s : s[r].result \in s[m].calls =>
    /\ m < r /\ s[r].calls = {} /\ \A k \in (m + 1)..r : s[k].role # "user"
    /\ \A n \in DOMAIN s : s[r].result \in s[n].calls => n = m

ASSUME CuratorAssumption ==
  /\ \A s \in Sessions : s \in Seq(SessionMessages) /\ Orderly(s)
  /\ {Capacity, Threshold, CallLimit, MaxSteps} \subseteq Nat \ {0} /\ Threshold <= Capacity
  /\ {Protected, RecentWindow, FallbackRecent, FallbackBest, MaxTunes,
      MaxAssemblies, MaxKills} \subseteq Nat

VARIABLES
  transcript, \* the session; a step never changes it
  visible,    \* how much of it there is by now
  segmentAt,  \* what the segment builder is doing
  thenTo,     \* what it does once the manifest is saved
  relevance,  \* the manifest: of each message
  archived,   \* and the archive that it names, 0 for none
  onDisk,     \* the manifest's file: what it holds of both
  archives,   \* the archive files: the messages in each
  providerOn, \* the curator's provider runs, in its thread
  modelCalls, \* the calls of this turn
  steps,      \* the curator's steps
  plan,       \* history: the messages of the plan that was built, closed
  outgoing,   \* the history of the segment
  route,      \* how it was found: fast, slow or fallback
  tunes, assemblies, kills

curatorVars == <<transcript, visible, segmentAt, thenTo, relevance, archived, onDisk,
                 archives, providerOn, modelCalls, steps, plan, outgoing, route,
                 tunes, assemblies, kills>>
manifestVars == <<relevance, archived>>
resultVars == <<plan, outgoing, route>>
callVars == <<providerOn, modelCalls, steps>>
curatorBounds == <<tunes, assemblies, kills>>

Ids == 1..visible
OpensTurn(m) == transcript[m].role = "user"
Calls(m) == transcript[m].calls
ResultOf(m) == transcript[m].result
NoManifest == [relevance |-> <<>>, archived |-> <<>>]

CuratorInit ==
  /\ transcript \in Sessions /\ visible = 0
  /\ segmentAt = "rest" /\ thenTo = "rest"
  /\ relevance = <<>> /\ archived = <<>> /\ onDisk = NoManifest /\ archives = <<>>
  /\ providerOn = FALSE /\ modelCalls = 0 /\ steps = 0
  /\ plan = {} /\ outgoing = {} /\ route = "none"
  /\ tunes = 0 /\ assemblies = 0 /\ kills = 0

At1(place) == segmentAt = place

---------------------------------------------------------------------------
(* HistoryTrimmer                                                          *)

FaultyClosed(ids) == {m \in ids : \E u \in ids : OpensTurn(u) /\ u <= m}

\* canonical_ids: a call brings its results and a result the call, with the
\* other results of the message that made it; then all before a user's
\* message goes.
Closed(ids) ==
  LET parents == ids \cup {m \in Ids : Calls(m) \cap {ResultOf(r) : r \in ids} # {}}
      whole == parents \cup {r \in Ids : \E m \in parents : ResultOf(r) \in Calls(m)}
  IN {m \in whole : \E u \in whole : OpensTurn(u) /\ u <= m}

\* _turn_groups: the messages of a set, parted where a user's message begins.
Group(ids, u) == {m \in ids : u <= m /\ \A v \in ids : OpensTurn(v) /\ v <= m => v <= u}
Groups(ids) == {Group(ids, u) : u \in {m \in ids : OpensTurn(m)}}
Shielded(group) == \E m \in group : m <= Protected
MaxRelevance(group) == Max({relevance[m] : m \in group})
Before(g, h) == \/ MaxRelevance(g) < MaxRelevance(h)
                \/ MaxRelevance(g) = MaxRelevance(h) /\ Max(g) < Max(h)

Fits(ids, extra) == Cardinality(ids) + extra <= Capacity

FaultyDroppable(ids) == Groups(ids)
Droppable(ids) == {g \in Groups(ids) : ~Shielded(g)}

Least(ids) == CHOOSE g \in Droppable(ids) : \A h \in Droppable(ids) : h # g => Before(g, h)

\* trim: the least relevant turn goes, and what is left is closed again,
\* until it fits or there is none to drop.
Trimmed(ids, extra) ==
  LET Trim[s \in SUBSET Ids] ==
        IF Fits(s, extra) \/ Droppable(s) = {} THEN s ELSE Trim[Closed(s \ Least(s))]
  IN Trim[Closed(ids)]

\* structural_errors: here only a call without a result is left to find.
Unanswered(ids) ==
  \E m \in ids : \E c \in Calls(m) : \A r \in ids : ResultOf(r) # c

---------------------------------------------------------------------------
(* One assembly                                                            *)

Go(place) == segmentAt' = place /\ UNCHANGED thenTo
Saving(place) == segmentAt' = "saving" /\ thenTo' = place

\* build_manifest: what the file says of a message, raised for the first and
\* the last ones.
Prior(m) == IF m <= Len(onDisk.relevance) THEN onDisk.relevance[m] ELSE 5
Raised(m, last) == Max({Prior(m), IF m > last - RecentWindow THEN 7 ELSE 0,
                        IF m <= Protected THEN 8 ELSE 0})
TurnEndsAt(m) == m < Len(transcript) => OpensTurn(m + 1)

BeginAssembly ==
  /\ At1("rest") /\ assemblies < MaxAssemblies /\ assemblies' = assemblies + 1
  /\ \E last \in visible..Len(transcript) :
       /\ last > 0 /\ TurnEndsAt(last) /\ visible' = last
       /\ relevance' = [m \in 1..last |-> Raised(m, last)]
       /\ archived' = [m \in 1..last |->
            IF m <= Len(onDisk.archived) THEN onDisk.archived[m] ELSE 0]
  /\ Saving("choose")
  /\ UNCHANGED <<onDisk, archives, callVars, resultVars, tunes, kills>>

\* save_manifest, a file that is written over.
Save ==
  /\ At1("saving")
  /\ onDisk' = [relevance |-> relevance, archived |-> archived]
  /\ segmentAt' = thenTo
  /\ UNCHANGED <<visible, thenTo, manifestVars, archives, callVars, resultVars, curatorBounds>>

\* A short history goes as it is, from its first user's message.
Choose ==
  /\ At1("choose")
  /\ IF visible < Threshold
       THEN /\ outgoing' = {m \in Ids : \E u \in Ids : OpensTurn(u) /\ u <= m}
            /\ route' = "fast" /\ Go("done")
       ELSE Go("ask") /\ UNCHANGED <<outgoing, route>>
  /\ UNCHANGED <<visible, manifestVars, onDisk, archives, callVars, plan, curatorBounds>>

\* invoke_curator leaves one call to the main agent.
MayAsk == modelCalls < CallLimit - 1
AskCurator ==
  /\ At1("ask")
  /\ IF steps < MaxSteps /\ MayAsk
       THEN /\ Go("asked") /\ providerOn' = TRUE /\ steps' = steps + 1
            /\ UNCHANGED modelCalls
       ELSE Go("fallback") /\ UNCHANGED callVars
  /\ UNCHANGED <<visible, manifestVars, onDisk, archives, resultVars, curatorBounds>>

\* The provider's thread ends, with an answer or an error, and is counted.
ProviderReturns ==
  /\ providerOn /\ providerOn' = FALSE /\ modelCalls' = modelCalls + 1
  /\ UNCHANGED <<visible, segmentAt, thenTo, manifestVars, onDisk, archives, steps,
                 resultVars, curatorBounds>>

\* Calls of tools; an error, or an answer without any, is the end of it.
TakeAnswer ==
  /\ At1("asked") /\ ~providerOn
  /\ Go("act") \/ Go("fallback")
  /\ UNCHANGED <<visible, manifestVars, onDisk, archives, callVars, resultVars, curatorBounds>>

\* curator_timeout_seconds is over: CuratorProvider cancels the request.
TimeIsUp ==
  /\ At1("asked") /\ Go("joining")
  /\ UNCHANGED <<visible, manifestVars, onDisk, archives, callVars, resultVars, curatorBounds>>

FaultyJoined == TRUE
\* and awaits its thread before it lets the cancellation go on.
Joined == ~providerOn
JoinProvider ==
  /\ At1("joining") /\ Joined /\ Go("fallback")
  /\ UNCHANGED <<visible, manifestVars, onDisk, archives, callVars, resultVars, curatorBounds>>

\* archive_messages: the file, then the manifest that names it.
Archive ==
  /\ At1("act") /\ tunes < MaxTunes /\ tunes' = tunes + 1
  /\ \E group \in Groups(Ids) :
       /\ archives' = Append(archives, group)
       /\ archived' = [m \in Ids |-> IF m \in group THEN Len(archives) + 1 ELSE archived[m]]
       /\ relevance' = [m \in Ids |-> IF m \in group THEN Min({relevance[m], 4})
                                      ELSE relevance[m]]
  /\ Saving("act")
  /\ UNCHANGED <<visible, onDisk, callVars, resultVars, assemblies, kills>>

SetRelevance ==
  /\ At1("act") /\ tunes < MaxTunes /\ tunes' = tunes + 1
  /\ \E m \in Ids, r \in {0, 10} : relevance' = [relevance EXCEPT ![m] = r]
  /\ Saving("act")
  /\ UNCHANGED <<visible, archived, onDisk, archives, callVars, resultVars, assemblies, kills>>

FaultyAcceptable(ids, extra) == Fits(ids, extra)
\* curator_build_context: a plan that, trimmed, fits and is whole is the last
\* thing the curator does; of another it hears what is wrong.
Acceptable(ids, extra) == Fits(ids, extra) /\ ~Unanswered(ids)
BuildContext ==
  /\ At1("act")
  /\ \E ids \in {Closed(s) : s \in SUBSET Ids}, injected \in {0, 1} :
       LET kept == Trimmed(ids, injected) IN
       /\ Acceptable(kept, injected)
       /\ plan' = ids /\ outgoing' = kept /\ route' = "slow"
  /\ Go("done")
  /\ UNCHANGED <<visible, manifestVars, onDisk, archives, callVars, curatorBounds>>

\* The calls of this answer are done, those that only look included.
NextStep ==
  /\ At1("act") /\ Go("ask")
  /\ UNCHANGED <<visible, manifestVars, onDisk, archives, callVars, resultVars, curatorBounds>>

\* fallback_plan: protected, most relevant and recent; with a note of its own.
Better(m, n) ==
  \/ relevance[m] > relevance[n]
  \/ relevance[m] = relevance[n] /\ m > n
FallbackPlan ==
  {m \in Ids : \/ m <= Protected \/ m > visible - FallbackRecent
               \/ Cardinality({n \in Ids : Better(n, m)}) < FallbackBest}
Fallback ==
  /\ At1("fallback")
  /\ plan' = Closed(FallbackPlan) /\ outgoing' = Trimmed(FallbackPlan, 1)
  /\ route' = "fallback"
  /\ Go("done")
  /\ UNCHANGED <<visible, manifestVars, onDisk, archives, callVars, curatorBounds>>

\* What an assembly leaves is in the files.
Cleared ==
  /\ relevance' = <<>> /\ archived' = <<>> /\ modelCalls' = 0 /\ steps' = 0
  /\ plan' = {} /\ outgoing' = {} /\ route' = "none"
  /\ Go("rest") /\ providerOn' = FALSE

\* The main agent's calls, and the end of the turn.
TurnGoesOn ==
  /\ At1("done") /\ Cleared
  /\ UNCHANGED <<visible, onDisk, archives, curatorBounds>>

\* The process dies, perhaps while it writes the manifest; another begins
\* with what the files hold, and reads a torn one as an empty one.
KillProcess ==
  /\ kills < MaxKills /\ kills' = kills + 1
  /\ segmentAt # "rest" /\ Cleared
  /\ \/ UNCHANGED onDisk
     \/ At1("saving") /\ onDisk' = NoManifest
  /\ UNCHANGED <<visible, archives, tunes, assemblies>>

AssemblyWork ==
  \/ Save \/ Choose \/ AskCurator \/ ProviderReturns \/ TakeAnswer \/ JoinProvider
  \/ NextStep \/ Fallback \/ TurnGoesOn
CuratorTool == Archive \/ SetRelevance \/ BuildContext
CuratorNext ==
  /\ UNCHANGED transcript
  /\ AssemblyWork \/ CuratorTool \/ BeginAssembly \/ TimeIsUp \/ KillProcess

---------------------------------------------------------------------------
(* Properties                                                              *)

CuratorTypes ==
  /\ segmentAt \in {"rest", "saving", "choose", "ask", "asked", "joining", "act", "fallback", "done"}
  /\ outgoing \subseteq Ids /\ plan \subseteq Ids /\ steps <= MaxSteps
  /\ Len(relevance) = Len(archived)

\* Whichever way it was found, the history sent begins with a user's message
\* and parts no call from its results ("Tool call/result adjacency closure");
\* one the curator planned has every call answered, and fits; one that does
\* not fit has nothing left that may be dropped.
HistoryIsWhole ==
  At1("done") =>
    /\ outgoing # {} => OpensTurn(Min(outgoing))
    /\ \A m \in Ids, r \in Ids : ResultOf(r) \in Calls(m) => (m \in outgoing <=> r \in outgoing)
    /\ route = "slow" => Fits(outgoing, 0) /\ ~Unanswered(outgoing)
    /\ Fits(outgoing, 0) \/ \A g \in Groups(outgoing) : Shielded(g)

\* The turns that were dropped for the budget are unprotected, and less
\* relevant than any unprotected turn that stayed.
LeastRelevantGo ==
  At1("done") /\ route # "fast" =>
    LET planned == Groups(Closed(plan)) IN
    \A g \in planned : g \cap outgoing = {} =>
      /\ ~Shielded(g)
      /\ \A h \in planned : h \subseteq outgoing /\ ~Shielded(h) => Before(g, h)

\* "Join the provider before fallback can start or accounting is finalized"
\* (runtime.py:84): no thread of the curator outlives its part in the
\* assembly, all its calls are counted, and one is left for the main agent;
\* what the manifest calls archived is in a file, whenever a process died.
CuratorIsContained ==
  /\ providerOn => segmentAt \in {"asked", "joining"}
  /\ At1("done") /\ route # "fast" => modelCalls = steps /\ modelCalls < CallLimit
  /\ \A m \in 1..Len(onDisk.archived) :
       onDisk.archived[m] # 0 => m \in archives[onDisk.archived[m]]

ContextIsSound == CuratorTypes /\ HistoryIsWhole /\ LeastRelevantGo /\ CuratorIsContained

\* An assembly ends, whatever the curator does and however long it takes.
AssemblyWaits == ~At1("rest")
=============================================================================
