--------------------------- MODULE ProviderChain ---------------------------
(***************************************************************************)
(* One model request (repoagent/providers): a chain of providers, chosen   *)
(* by the router, is tried in order by FallbackModelClient, for a streamed *)
(* answer (stream_model) or a whole one (generate_model).  A client keeps  *)
(* one HTTP response, which a callback of the request's cancellation token *)
(* closes from another thread while this one reads it.                     *)
(*                                                                         *)
(* A provider is the number of times its complete() tries a request: one   *)
(* for Ollama, three for the OpenAI- and Anthropic-compatible clients.     *)
(* Payloads, headers, usage and what the text says are left out.           *)
(***************************************************************************)
EXTENDS Naturals, Sequences, FiniteSets

CONSTANTS
  Chains,    \* the chains the router may choose
  MaxDeltas  \* bound: pieces of text in one stream

ASSUME ChainAssumption ==
  /\ \A c \in Chains : c \in Seq(Nat \ {0}) /\ Len(c) > 0
  /\ MaxDeltas \in Nat

VARIABLES
  chain,     \* the providers of this request; a step never changes it
  streams,   \* whether it is streamed; a step never changes it
  turnOf,    \* the index of the provider that is asked
  httpAt,    \* what its client is doing
  tried,     \* how often complete() has sent this request
  stopped,   \* the token is cancelled
  hooked,    \* response.close is among the token's callbacks
  shut,      \* a callback has closed the response
  final,     \* the last event of the stream has been read
  shown,     \* history: the provider behind each event the caller has seen
  failures,  \* ProviderAttempts that failed
  answer,    \* what the caller is left with
  stale      \* history: the token was cancelled before this provider's turn

chainVars == <<chain, streams, turnOf, httpAt, tried, stopped, hooked, shut, final,
               shown, failures, answer, stale>>
responseVars == <<hooked, shut, final>>

Safe == {"connection", "timeout", "server", "rate_limit", "billing", "model_unavailable"}
Firm == {"context_overflow", "auth", "request", "protocol"}
Retried == {"connection", "timeout", "server"}
Nothing == [kind |-> "pending", from |-> 0, failed |-> 0]

ChainInit ==
  /\ chain \in Chains /\ streams \in BOOLEAN
  /\ turnOf = 1 /\ httpAt = "begin" /\ tried = 0
  /\ stopped = FALSE /\ hooked = FALSE /\ shut = FALSE /\ final = FALSE
  /\ shown = <<>> /\ failures = <<>> /\ answer = Nothing /\ stale = FALSE

Asked(place) == httpAt = place
Settled == Asked("done")

---------------------------------------------------------------------------
(* How a provider's turn ends                                              *)

\* Faulty: what was streamed before the failure is forgotten.
FaultyMayContinue(e) == e \in Safe /\ turnOf < Len(chain)

\* _raise_or_continue: only errors that are safe to fall back on, and only
\* before anything of this provider's stream was passed on.
MayContinue(e) == shown = <<>> /\ e \in Safe /\ turnOf < Len(chain)

\* Every way out of a client's stream passes the finally that takes the
\* callback out of the token.
FaultyLetGo == hooked' = hooked
LetGo == hooked' = FALSE

Raise(e) ==
  /\ httpAt' = "done" /\ answer' = [kind |-> e, from |-> 0, failed |-> Len(failures')]
  /\ UNCHANGED <<turnOf, tried, stale>>

Fail(e) ==
  /\ failures' = Append(failures, [by |-> turnOf, category |-> e])
  /\ IF MayContinue(e)
       THEN /\ turnOf' = turnOf + 1 /\ httpAt' = "begin" /\ tried' = 0
            /\ stale' = stopped /\ UNCHANGED answer
       ELSE Raise(e)
  /\ LetGo /\ shut' = FALSE /\ final' = FALSE /\ UNCHANGED <<shown, stopped>>

\* A cancelled request, and an error the clients have no category for, leave
\* the chain at once.
Leave(e) ==
  /\ UNCHANGED failures /\ Raise(e)
  /\ LetGo /\ shut' = FALSE /\ final' = FALSE /\ UNCHANGED <<shown, stopped>>

Step(place) ==
  /\ httpAt' = place
  /\ UNCHANGED <<turnOf, tried, stopped, shown, failures, answer, stale>>

\* _cancelled_during_io: an I/O error of a cancelled request is that.
IOFails(e) == IF stopped THEN Leave("cancelled")
              ELSE IF e = "unexpected" THEN Leave(e) ELSE Fail(e)

---------------------------------------------------------------------------
(* The request                                                             *)

FaultyBegin ==
  /\ Asked("begin")
  /\ Step("send") /\ UNCHANGED responseVars

\* raise_if_cancelled before anything is sent.
Begin ==
  /\ Asked("begin")
  /\ IF stopped THEN Leave("cancelled") ELSE Step("send") /\ UNCHANGED responseVars

\* complete(): the token is not looked at between the tries, or in the pauses.
\* A timeout that the server reports (408) is not tried again.
Send ==
  /\ Asked("send") /\ ~streams
  /\ \/ Step("body") /\ UNCHANGED responseVars
     \/ /\ tried + 1 < chain[turnOf] /\ httpAt' = "pause" /\ tried' = tried + 1
        /\ UNCHANGED <<turnOf, stopped, shown, failures, answer, stale, responseVars>>
     \/ \E e \in Safe \cup Firm :
          /\ e \in Retried \ {"timeout"} => tried + 1 >= chain[turnOf]
          /\ Fail(e)

\* A body or a line of which no text and no call of a tool can be made.
Unreadable == Fail("protocol")

Pause == Asked("pause") /\ Step("send") /\ UNCHANGED responseVars

Body ==
  /\ Asked("body")
  /\ IF stopped THEN Leave("cancelled")
     ELSE Unreadable \/ (Step("result") /\ UNCHANGED responseVars)

\* stream(): one try.  An HTTP error is what its status says; a connection
\* that fails is a cancellation when the request is cancelled; a read that
\* times out has no category of its own.
Open ==
  /\ Asked("send") /\ streams
  /\ \/ Step("hook") /\ UNCHANGED responseVars
     \/ \E e \in (Safe \cup Firm) \ {"connection", "protocol"} : Fail(e)
     \/ IOFails("connection") \/ IOFails("unexpected")

\* add_callback: on a cancelled token the response is closed here and now.
Hook ==
  /\ Asked("hook")
  /\ IF stopped THEN Leave("cancelled")
     ELSE Step("read") /\ hooked' = TRUE /\ UNCHANGED <<shut, final>>

\* A line of the stream; the token is looked at before the line is.
ReadLine ==
  /\ Asked("read")
  /\ IF stopped THEN Leave("cancelled")
     ELSE \/ Len(shown) < MaxDeltas /\ Step("pass") /\ UNCHANGED responseVars
          \/ Step("read") /\ final' = TRUE /\ UNCHANGED <<hooked, shut>>
          \/ Unreadable

\* The end of the stream.
Exhausted ==
  /\ Asked("read")
  /\ IF stopped THEN Leave("cancelled")
     ELSE IF ~final THEN Fail("protocol")
     ELSE Step("result") /\ LetGo /\ UNCHANGED <<shut, final>>

Broken == Asked("read") /\ (IOFails("connection") \/ IOFails("unexpected"))

\* A server that does not stream sends one body: cut short by the callback it
\* is not JSON, which is looked at before the token.
PlainBody ==
  /\ Asked("read") /\ shown = <<>> /\ ~final
  /\ \/ shut /\ Unreadable
     \/ IF stopped THEN Leave("cancelled")
        ELSE Step("plain") /\ UNCHANGED responseVars

\* stream_model passes an event on unless the token was cancelled meanwhile.
PassedOn(place) ==
  IF stopped THEN Leave("cancelled")
  ELSE /\ shown' = Append(shown, turnOf) /\ httpAt' = place
       /\ UNCHANGED <<turnOf, tried, stopped, failures, answer, stale, responseVars>>
Pass == Asked("pass") /\ PassedOn("read")

\* The events of a whole body; its text and calls may both be absent.
Events ==
  /\ Asked("plain")
  /\ \/ Len(shown) < MaxDeltas /\ PassedOn("plain")
     \/ Step("result") /\ LetGo /\ UNCHANGED <<shut, final>>

\* The completed event, after the calls of tools; the last look at the token.
Result ==
  /\ Asked("result")
  /\ IF stopped THEN Leave("cancelled")
     ELSE \/ streams /\ Len(shown) < MaxDeltas /\ PassedOn("result")
          \/ /\ httpAt' = "done"
             /\ answer' = [kind |-> "result", from |-> turnOf, failed |-> Len(failures)]
             /\ UNCHANGED <<turnOf, tried, stopped, shown, failures, stale, responseVars>>

\* CancellationToken.cancel: the callbacks run in the thread that cancels.
Cancel ==
  /\ ~stopped /\ ~Settled
  /\ stopped' = TRUE /\ hooked' = FALSE /\ shut' = hooked
  /\ UNCHANGED <<turnOf, httpAt, tried, final, shown, failures, answer, stale>>

RequestWork ==
  \/ Begin \/ Send \/ Pause \/ Body \/ Open \/ Hook \/ ReadLine \/ Exhausted \/ Broken
  \/ PlainBody \/ Pass \/ Events \/ Result
ChainNext == UNCHANGED <<chain, streams>> /\ (RequestWork \/ Cancel)

---------------------------------------------------------------------------
(* Properties                                                              *)

HttpPlaces == {"begin", "send", "pause", "body", "hook", "read", "pass", "plain",
               "result", "done"}
ChainTypes ==
  /\ turnOf \in 1..Len(chain) /\ httpAt \in HttpPlaces /\ tried < chain[turnOf]
  /\ {stopped, hooked, shut, final, stale} \subseteq BOOLEAN
  /\ answer.kind \in Safe \cup Firm \cup {"pending", "result", "cancelled", "unexpected"}

\* "Explicit provider fallback without mixing partial response streams"
\* (fallback.py:1): whatever fails and whenever it is cancelled, all that the
\* caller has seen, and the result, are one provider's; the attempts on record
\* are those that failed, in their order, each but the last with an error that
\* is safe to fall back on.  No provider whose turn comes after the
\* cancellation is sent the request, and no callback of a response that was
\* left stays behind in the token.
OneVoice ==
  /\ ChainTypes
  /\ \A k \in 1..Len(shown) : shown[k] = turnOf
  /\ answer.kind = "result" =>
       answer.from = turnOf /\ Len(failures) = turnOf - 1
  /\ \A k \in 1..Len(failures) :
       failures[k].by = k /\ (k < turnOf => failures[k].category \in Safe)
  /\ answer.kind \in Safe => turnOf = Len(chain) \/ shown # <<>>
  /\ stale => Asked("begin") \/ answer.kind = "cancelled"
  /\ hooked => streams /\ httpAt \in {"read", "pass", "plain"}

\* A request comes to an end, in whatever state its cancellation finds it.
RequestWaits == ~Settled
=============================================================================
