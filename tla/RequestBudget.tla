--------------------------- MODULE RequestBudget ---------------------------
(***************************************************************************)
(* What of a turn goes into its requests (repoagent/agent_loop.py with     *)
(* context_manager.py, conversation.py, compaction.py and                  *)
(* context_overflow.py).  In a "text" session the prompt holds it all, in  *)
(* sections that are reduced to a total; in a "structured" one the history *)
(* and the turn's own messages go along, fitted into the same total; in a  *)
(* "native" one they go as they are.  A provider that finds a request too  *)
(* long is asked again with less of it.                                    *)
(*                                                                         *)
(* A message has a size and, for each part of it, one of overhead; texts   *)
(* and arguments are left out.                                             *)
(***************************************************************************)
EXTENDS Naturals, Integers, Sequences, FiniteSets, FiniteSetsExt, SequencesExt

CONSTANTS
  Modes,        \* of those: text, structured, native
  Pasts,        \* the histories of sessions: sequences of messages
  Growths,      \* what a turn may add at a time: sequences of messages
  Texts,        \* the sizes of a prompt's sections, before its own request
  Budgets,      \* segment_token_budgets
  Floors,       \* the least of each section's budget that it asks for
  Explicit,     \* the sections whose floor was configured
  Order,        \* reduction_order
  RequestSize,  \* of the current request
  TotalBudget,  \* total_token_budget
  Window,       \* what the provider takes
  Recent,       \* HISTORY_RECENT_WINDOW of the compactor
  KeptResults,  \* OVERFLOW_KEEP_RECENT_TOOL_RESULTS
  MaxShrinks,   \* OVERFLOW_MAX_COMPRESS_RETRIES
  Placeholder,  \* the size of what stands for an elided output
  MaxToolRounds     \* bound: what a turn adds

ASSUME BudgetAssumption ==
  /\ {RequestSize, TotalBudget, Window, Recent, KeptResults, MaxShrinks,
      Placeholder, MaxToolRounds} \subseteq Nat
  /\ ToSet(Order) = DOMAIN Budgets /\ Explicit \subseteq DOMAIN Floors
  /\ "history" \in DOMAIN Budgets /\ "prefix" \in DOMAIN Budgets

VARIABLES
  mode, past, texts, \* of this turn; a step never changes them
  spoken,     \* provider_messages, without the prompt before the first request
  historyCap, \* prompt_segment_budget_overrides, TotalBudget for none
  prompt,     \* the budgets of the prompt's sections, as they were reduced
  request,    \* request_messages
  requestAt,  \* build, sent, answered, refused, failed or done
  shrinks,    \* overflow_compress_retries
  rounds

budgetVars == <<mode, past, texts, spoken, historyCap, prompt, request, requestAt,
                shrinks, rounds>>
turnKind == <<mode, past, texts>>

Cost(m) == 1 + m.size + Cardinality(m.calls)
TotalOf(ms) == FoldLeft(LAMBDA sum, m : sum + Cost(m), 0, ms)
IsResult(m) == m.role = "tool"
Keep(ms, Op(_)) == SelectSeq(ms, Op)
Each(ms, Op(_)) == <<>> \o [k \in 1..Len(ms) |-> Op(ms[k])]
Positions(ms, Op(_)) == {k \in 1..Len(ms) : Op(ms[k])}
InOrder(ms, S) == SelectSeq([k \in 1..Len(ms) |-> k], LAMBDA k : k \in S)
WithSize(m, n) == [m EXCEPT !.size = n, !.full = FALSE]

---------------------------------------------------------------------------
(* conversation.py: the history of earlier turns as messages               *)

\* _user_turn_groups: what comes before the first user's message is left out.
UserTurns(h) ==
  LET starts == Positions(h, LAMBDA m : m.role = "user")
      EndOf(k) == IF {j \in starts : j > k} = {} THEN Len(h) ELSE Min({j \in starts : j > k}) - 1
  IN Each(InOrder(h, starts), LAMBDA k : SubSeq(h, k, EndOf(k)))

FaultyPaired(acc, m) == [out |-> Append(acc.out, m), pending |-> {}]

\* _messages_from_group: a result whose call is not pending, as in sessions
\* whose calls are texts, gets a message that makes it.
Paired(acc, m) ==
  CASE m.role = "user" -> [out |-> Append(acc.out, m), pending |-> {}]
    [] m.role = "assistant" ->
         [out |-> IF m.size = 0 /\ m.calls = {} THEN acc.out ELSE Append(acc.out, m),
          pending |-> m.calls]
    [] m.role = "tool" /\ m.of \in acc.pending ->
         [out |-> Append(acc.out, m), pending |-> acc.pending \ {m.of}]
    [] OTHER ->
         [out |-> acc.out \o <<[role |-> "assistant", size |-> 0, calls |-> {m.of},
                                 of |-> 0, full |-> TRUE], m>>,
          pending |-> {}]
Messages(group) == FoldLeft(Paired, [out |-> <<>>, pending |-> {}], group).out

\* The binary search for the longest text that still fits.
Longest(high, Fits(_)) ==
  LET B[lo \in 0..high + 1, hi \in -1..high, best \in 0..high] ==
        LET mid == (lo + hi) \div 2 IN
        IF lo > hi THEN best
        ELSE IF Fits(mid) THEN B[mid + 1, hi, mid] ELSE B[lo, mid - 1, best]
  IN B[0, high, 0]
LargestOf(ms) == Max({0} \cup {m.size : m \in ToSet(ms)})

\* _fit_group: the clip of every text that lets the turn in, if any does.
ClipTo(m, limit) == IF m.size <= limit THEN m
                    ELSE WithSize(m, IF limit = 0 THEN 1 ELSE limit + 1)
FitGroup(group, budget) ==
  LET Cut(limit) == Messages(Each(group, LAMBDA m : ClipTo(m, limit)))
      Enough(limit) == TotalOf(Cut(limit)) <= budget
  IN IF budget <= 0 \/ ~Enough(0) THEN <<>> ELSE Cut(Longest(LargestOf(group), Enough))

\* build_structured_history: the newest turns, until one does not fit.
StructuredHistory(h, budget) ==
  LET turns == UserTurns(h)
      Take[n \in 0..Len(turns), left \in 0..budget] ==
        IF n = 0 THEN <<>>
        ELSE LET whole == Messages(turns[n])
                 group == IF TotalOf(whole) > left /\ n = Len(turns)
                          THEN FitGroup(turns[n], left) ELSE whole
             IN IF group = <<>> \/ TotalOf(group) > left THEN <<>>
                ELSE Take[n - 1, left - TotalOf(group)] \o group
  IN Take[Len(turns), budget]

---------------------------------------------------------------------------
(* context_overflow.py                                                     *)

Latest(ms) ==
  LET makers == Positions(ms, LAMBDA m : m.calls # {}) IN
  IF makers = {} THEN {} ELSE ms[Max(makers)].calls

\* _elide_old_outputs_to_budget: the largest output first, none of the latest.
Elidable(ms) ==
  Positions(ms, LAMBDA m : IsResult(m) /\ m.of \notin Latest(ms) /\ m.size > Placeholder)
ElideOld(ms) ==
  LET E[n \in 0..Len(ms)] ==
        IF n = 0 THEN ms
        ELSE LET out == E[n - 1] IN
             IF TotalOf(out) <= TotalBudget \/ Elidable(out) = {} THEN out
             ELSE LET k == CHOOSE k \in Elidable(out) : \A j \in Elidable(out) :
                             \/ out[k].size > out[j].size
                             \/ out[k].size = out[j].size /\ k <= j
                  IN ReplaceAt(out, k, WithSize(out[k], Placeholder)) \o <<>>
  IN E[Len(ms)]

Exchange(ms, k) == {k} \cup Positions(ms, LAMBDA m : IsResult(m) /\ m.of \in ms[k].calls)
Complete(ms) ==
  {k \in 1..Len(ms) : ms[k].calls # {}
                      /\ Cardinality(Exchange(ms, k)) = 1 + Cardinality(ms[k].calls)}
Without(ms, gone) == Each(InOrder(ms, (1..Len(ms)) \ gone), LAMBDA k : ms[k])

\* Faulty: the message that made the calls goes, their results stay.
FaultyFirstOut(ms) == {Min(Complete(ms))}
FirstOut(ms) == Exchange(ms, Min(Complete(ms)))

\* _drop_old_tool_exchanges_to_budget: whole exchanges, all but the last.
DropOld(ms) ==
  LET D[n \in 0..Len(ms)] ==
        IF n = 0 THEN ms
        ELSE LET out == D[n - 1] IN
             IF TotalOf(out) <= TotalBudget \/ Cardinality(Complete(out)) <= 1 THEN out
             ELSE Without(out, FirstOut(out))
  IN D[Len(ms)]

ThoughtOnly(m) == m.role = "assistant" /\ m.size = 0 /\ m.calls = {}
ClipMessage(m, limit) ==
  IF m.role = "user" \/ m.size <= limit THEN m
  ELSE WithSize(m, IF IsResult(m) THEN Placeholder ELSE IF limit = 0 THEN 1 ELSE limit + 1)
ClippedAt(ms, limit) == Each(ms, LAMBDA m : ClipMessage(m, limit))

\* fit_messages_to_token_budget
Fit(ms) ==
  LET spared == DropOld(ElideOld(Keep(ms, LAMBDA m : ~ThoughtOnly(m))))
      Enough(limit) == TotalOf(ClippedAt(spared, limit)) <= TotalBudget IN
  IF TotalOf(ms) <= TotalBudget THEN ms
  ELSE IF TotalOf(spared) <= TotalBudget THEN spared
  ELSE IF ~Enough(0) THEN ms
  ELSE ClippedAt(spared, Longest(LargestOf(Keep(spared, LAMBDA m : m.role # "user")), Enough))

\* emergency_shrink_messages, and _history: all outputs but the last few.
Shrunk(ms) ==
  LET results == Positions(ms, IsResult)
      old == {k \in results : Cardinality({j \in results : j > k}) >= KeptResults}
  IN <<>> \o [k \in 1..Len(ms) |->
        IF k \in old /\ ms[k].full THEN WithSize(ms[k], Placeholder) ELSE ms[k]]

---------------------------------------------------------------------------
(* context_manager.py and compaction.py: the prompt                        *)

\* The compactor: from the newest entry on, each whole, clipped or dropped;
\* recent ones may be clipped to what is left, older ones to a little.
Compacted(h, budget) ==
  LET C[k \in 1..Len(h) + 1] ==
        IF k > Len(h) THEN 0
        ELSE LET used == C[k + 1]
                 recent == k > Len(h) - Recent
                 size == Cost(h[k])
                 clip == IF recent THEN Min({size, Max({0, budget - used})}) ELSE Min({size, 1})
             IN IF used + size <= budget THEN used + size
                ELSE IF used + clip <= budget THEN used + clip ELSE used
  IN C[1]

\* prompt_history_override: once an overflow has shrunk it, it is shrunk
\* again before each prompt.
HistoryShown == IF historyCap = TotalBudget THEN past \o spoken ELSE Shrunk(past \o spoken)
Rendered(section, budget) ==
  IF section = "history" THEN Compacted(HistoryShown, budget)
  ELSE Min({texts[section], budget})
PromptSize(budgets) ==
  RequestSize + FoldSet(LAMBDA s, sum : sum + Rendered(s, budgets[s]), 0, DOMAIN budgets)

FaultyFloorOf(section, relaxed) == IF relaxed THEN 0 ELSE Floors[section]

\* Floors that nobody configured give way before the total does.
FloorOf(section, relaxed) ==
  IF relaxed /\ section # "prefix" /\ section \notin Explicit THEN 0 ELSE Floors[section]
Reducible(budgets, relaxed) ==
  {n \in 1..Len(Order) : budgets[Order[n]] > FloorOf(Order[n], relaxed)}

\* ContextManager.build: by the overflow, from the first section in the
\* order that is above its floor, until the prompt fits or none is.
Reduced(start) ==
  LET total == FoldSet(LAMBDA s, sum : sum + start[s], 0, DOMAIN start)
      R[n \in 0..total + 1] ==
        IF n = 0 THEN [budgets |-> start, relaxed |-> FALSE]
        ELSE LET now == R[n - 1]
                 over == PromptSize(now.budgets) - TotalBudget
                 open == Reducible(now.budgets, now.relaxed)
                 s == Order[Min(open)]
             IN IF over <= 0 THEN now
                ELSE IF open = {} THEN [now EXCEPT !.relaxed = TRUE]
                ELSE [now EXCEPT !.budgets[s] =
                        Max({FloorOf(s, now.relaxed), now.budgets[s] - over})]
  IN R[total + 1]

---------------------------------------------------------------------------
(* The turn's requests                                                     *)

NoPrompt == [budgets |-> Budgets, relaxed |-> FALSE]
CurrentRequest == [role |-> "user", size |-> RequestSize, calls |-> {}, of |-> 0, full |-> TRUE]

BudgetInit ==
  /\ mode \in Modes /\ past \in Pasts /\ texts \in Texts
  /\ spoken = <<>> /\ historyCap = TotalBudget /\ prompt = NoPrompt /\ request = <<>>
  /\ requestAt = "build" /\ shrinks = 0 /\ rounds = 0

BuildPrompt ==
  /\ requestAt = "build" /\ mode = "text"
  /\ LET built == Reduced([Budgets EXCEPT !["history"] = Min({@, historyCap})]) IN
     /\ prompt' = built
     /\ requestAt' = IF PromptSize(built.budgets) <= TotalBudget THEN "sent" ELSE "refused"
  /\ UNCHANGED <<turnKind, spoken, historyCap, request, shrinks, rounds>>

\* The first time, what there was before the turn, in what the current
\* request leaves; then the turn's own messages after it.  admit refuses
\* what is still too long.
BuildMessages ==
  /\ requestAt = "build" /\ mode # "text"
  /\ LET before == IF mode = "native" THEN past
                   ELSE StructuredHistory(past, Max({0, TotalBudget - Cost(CurrentRequest)}))
         all == IF spoken = <<>> THEN Append(before, CurrentRequest) ELSE spoken
         out == IF mode = "native" THEN all ELSE Fit(all)
     IN /\ spoken' = all /\ request' = out
        /\ requestAt' = IF TotalOf(out) <= TotalBudget THEN "sent" ELSE "refused"
  /\ UNCHANGED <<turnKind, historyCap, prompt, shrinks, rounds>>

SizeSent == IF mode = "text" THEN PromptSize(prompt.budgets) ELSE TotalOf(request)

\* Calls and their results, a message of the user, or a thought on its own.
Answered ==
  /\ requestAt = "sent" /\ SizeSent <= Window
  /\ \/ /\ rounds < MaxToolRounds /\ rounds' = rounds + 1
        /\ \E more \in Growths :
             spoken' = spoken \o [k \in 1..Len(more) |->
               [more[k] EXCEPT !.calls = {c + 10 * rounds : c \in more[k].calls},
                               !.of = IF IsResult(more[k]) THEN @ + 10 * rounds ELSE 0]]
        /\ requestAt' = "build"
     \/ requestAt' = "done" /\ UNCHANGED <<spoken, rounds>>
  /\ UNCHANGED <<turnKind, historyCap, prompt, request, shrinks>>

\* The provider says that the request is too long.  A history that was shrunk
\* has nothing more to give; a structured request has been fitted already.
Shrinkable ==
  /\ shrinks < MaxShrinks
  /\ \/ mode = "native" /\ Shrunk(request) # request
     \/ /\ mode = "text" /\ historyCap = TotalBudget
        /\ Shrunk(past \o spoken) # past \o spoken
        /\ Rendered("history", prompt.budgets["history"]) > 1
TooLong ==
  /\ requestAt = "sent" /\ SizeSent > Window
  /\ IF Shrinkable
       THEN /\ requestAt' = "build" /\ shrinks' = shrinks + 1
            /\ IF mode = "native" THEN spoken' = Shrunk(request) /\ UNCHANGED historyCap
               ELSE /\ historyCap' = Rendered("history", prompt.budgets["history"]) \div 2
                    /\ UNCHANGED spoken
       ELSE requestAt' = "failed" /\ UNCHANGED <<shrinks, spoken, historyCap>>
  /\ UNCHANGED <<turnKind, prompt, request, rounds>>

RequestStep == BuildPrompt \/ BuildMessages \/ Answered \/ TooLong
BudgetNext == RequestStep

---------------------------------------------------------------------------
(* Properties                                                              *)

BudgetTypes ==
  /\ requestAt \in {"build", "sent", "refused", "failed", "done"} /\ shrinks <= MaxShrinks
  /\ \A m \in ToSet(spoken) \cup ToSet(request) :
       m.role \in {"user", "assistant", "tool"} /\ m.size \in Nat

\* "Without orphaning native Tool call/result pairs" (context_overflow.py:55),
\* over the selection of the history, the elision, the dropping and the
\* clipping together: each result that is sent follows the message that made
\* its call, and a call that had its result keeps it.
ResultsFollowCalls(ms) ==
  \A k \in 1..Len(ms) : IsResult(ms[k]) => \E j \in 1..k - 1 : ms[k].of \in ms[j].calls
NothingIsParted ==
  mode = "structured" /\ requestAt = "sent" =>
    /\ ResultsFollowCalls(request)
    /\ \A j \in 1..Len(request) : \A c \in request[j].calls :
         (\E k \in 1..Len(spoken) : spoken[k].of = c) => \E k \in 1..Len(request) : request[k].of = c

\* What is sent is the least that had to be given up: the user's messages
\* stay as they are; a result of the latest calls is cut only when no older
\* exchange is left, and an exchange goes only when every older output is
\* elided.  Nothing is given up when nothing has to be.
UsersOf(ms) == Keep(ms, LAMBDA m : m.role = "user")
LeastIsGivenUp ==
  mode = "structured" /\ requestAt = "sent" =>
    /\ UsersOf(request) = UsersOf(spoken)
    /\ TotalOf(request) <= TotalBudget /\ (TotalOf(spoken) <= TotalBudget => request = spoken)
    /\ \A m \in ToSet(spoken) : IsResult(m) /\ m.of \in Latest(spoken) /\ m \notin ToSet(request) =>
         Cardinality(Complete(request)) <= 1
    /\ (\E k \in Complete(spoken) : spoken[k] \notin ToSet(request)) => Elidable(request) = {}

\* "Explicit floors and the system prefix remain protected"
\* (context_manager.py:401), and a section gives way only after all before
\* it in the order have: the prompt that is sent fits, or none could.
Gives(s) == prompt.budgets[s] < (IF s = "history" THEN Min({Budgets[s], historyCap}) ELSE Budgets[s])
PromptIsReducedInOrder ==
  mode = "text" /\ requestAt \in {"sent", "refused"} =>
    /\ \A s \in Explicit \cup {"prefix"} : Gives(s) => prompt.budgets[s] >= Floors[s]
    /\ \A n \in 1..Len(Order) : Gives(Order[n]) =>
         \A k \in 1..n - 1 : prompt.budgets[Order[k]] <= Floors[Order[k]]
    /\ requestAt = "refused" => Reducible(prompt.budgets, TRUE) = {}
    /\ requestAt = "sent" => PromptSize(prompt.budgets) <= TotalBudget

RequestIsSound == BudgetTypes /\ NothingIsParted /\ LeastIsGivenUp /\ PromptIsReducedInOrder
=============================================================================
