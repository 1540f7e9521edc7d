-------------------------- MODULE WebhookDelivery --------------------------
(***************************************************************************)
(* Webhooks: dispatch, called by the services of grants and grant requests *)
(* inside the transaction of a request, and the delivery tasks it leaves   *)
(* in the event loop of the process, with their retries.  Tasks are kept   *)
(* in memory only and run while the request still has to commit.           *)
(*                                                                         *)
(* A receiver is outside: it takes a body or not, answers with success, a  *)
(* refusal (4xx, which counts as delivered) or an error (5xx), and its     *)
(* answer can be lost or late.  One process; a crash ends all its tasks.   *)
(***************************************************************************)
EXTENDS Naturals, FiniteSets

CONSTANTS Request,       \* requests that announce an event
          Hook,          \* ids of webhook_subscriptions
          EventOf,       \* EventOf[r]: the event that request r announces
          WorkspaceOf,   \* WorkspaceOf[r]: the workspace of request r
          KnownEvent,    \* ALL_WEBHOOK_EVENTS
          EventsOf,      \* EventsOf[h]: the events of subscription h
          ScopeOf,       \* ScopeOf[h]: its workspace, or AllWorkspaces
          AllWorkspaces,
          MaxRetries     \* _MAX_WEBHOOK_RETRIES

\* Subscriptions are validated: they name known events only.
ASSUME EventsAssumption == \A h \in Hook : EventsOf[h] \subseteq KnownEvent
ASSUME RetriesAssumption == MaxRetries \in Nat \ {0}

VARIABLES hook,     \* hook[h]: the row of subscription h
          test,     \* the test delivery under way, which has no row in webhook_deliveries yet
          request,  \* request[r]: how far request r is
          closed,   \* closed[r]: subscriptions already deleted when r began (history)
          task      \* task[r][h]: the delivery of r's event to h

hookVars == <<hook, test, request, closed, task>>

Stage   == {"new", "working", "announced", "committed", "rolledback"}
Settled == {"delivered", "failed", "lost"}
TaskPc  == {"none", "posting", "accepted", "refused", "error", "sleeping"} \cup Settled

\* accepted and missed are history: bodies the receiver took with success, and
\* answers to them that the task did not get.
Task == [pc : TaskPc, attempt : Nat, accepted : Nat, missed : Nat]
NoTask == [pc |-> "none", attempt |-> 0, accepted |-> 0, missed |-> 0]

Tests  == [hook : SUBSET Hook, answer : {"none", "success", "failed"}]
NoTest == [hook |-> {}, answer |-> "none"]

HookTypeOK ==
    /\ hook \in [Hook -> {"absent", "active", "inactive"}]
    /\ test \in Tests
    /\ request \in [Request -> Stage]
    /\ closed \in [Request -> SUBSET Hook]
    /\ task \in [Request -> [Hook -> Task]]

HookInit ==
    /\ hook = [h \in Hook |-> "absent"]
    /\ test = NoTest
    /\ request = [r \in Request |-> "new"]
    /\ closed = [r \in Request |-> {}]
    /\ task = [r \in Request |-> [h \in Hook |-> NoTask]]

------------------------------------------------------------------------------
(* Subscriptions                                                            *)

CreateHook(h) ==
    /\ hook[h] = "absent"
    /\ hook' = [hook EXCEPT ![h] = "active"]
    /\ UNCHANGED <<test, request, closed, task>>

\* DELETE keeps the row, inactive; nothing makes it active again.
DeleteHook(h) ==
    /\ hook[h] # "absent"
    /\ hook' = [hook EXCEPT ![h] = "inactive"]
    /\ UNCHANGED <<test, request, closed, task>>

\* POST /webhooks/{id}/test posts once, whether the row is active or not ...
PostTest(h) ==
    /\ hook[h] # "absent"
    /\ test = NoTest
    /\ \E answer \in {"success", "failed"} : test' = [hook |-> {h}, answer |-> answer]
    /\ UNCHANGED <<hook, request, closed, task>>

\* ... and writes its row in webhook_deliveries afterwards.  Bound: one test at a time.
RecordTest(h) ==
    /\ test.hook = {h}
    /\ test' = NoTest
    /\ UNCHANGED <<hook, request, closed, task>>

------------------------------------------------------------------------------
(* The request                                                              *)

Begin(r) ==
    /\ request[r] = "new"
    /\ request' = [request EXCEPT ![r] = "working"]
    /\ closed' = [closed EXCEPT ![r] = {h \in Hook : hook[h] = "inactive"}]
    /\ UNCHANGED <<hook, test, task>>

\* Mutant: the column active is not looked at.
MatchesDeleted(r, h) ==
    /\ hook[h] # "absent"
    /\ EventOf[r] \in EventsOf[h]
    /\ ScopeOf[h] \in {AllWorkspaces, WorkspaceOf[r]}

Matches(r, h) ==
    /\ hook[h] = "active"
    /\ EventOf[r] \in EventsOf[h]
    /\ ScopeOf[h] \in {AllWorkspaces, WorkspaceOf[r]}

Started(r, hs) == [h \in Hook |-> IF h \in hs THEN [NoTask EXCEPT !.pc = "posting"]
                                              ELSE task[r][h]]

\* dispatch: an event that is not known is dropped; when the subscriptions cannot
\* be loaded there are none.  Each task posts as soon as the request waits.
Announce(r) ==
    /\ request[r] = "working"
    /\ \E hs \in IF EventOf[r] \in KnownEvent
                 THEN {{h \in Hook : Matches(r, h)}, {}}
                 ELSE {{}} :
         task' = [task EXCEPT ![r] = Started(r, hs)]
    /\ request' = [request EXCEPT ![r] = "announced"]
    /\ UNCHANGED <<hook, test, closed>>

Commit(r) ==
    /\ request[r] = "announced"
    /\ request' = [request EXCEPT ![r] = "committed"]
    /\ UNCHANGED <<hook, test, closed, task>>

Rollback(r) ==
    /\ request[r] \in {"working", "announced"}
    /\ request' = [request EXCEPT ![r] = "rolledback"]
    /\ UNCHANGED <<hook, test, closed, task>>

------------------------------------------------------------------------------
(* Delivery                                                                 *)

\* Bound on what a task counts, more than the code's attempts.
Tally(n) == IF n <= MaxRetries THEN n + 1 ELSE n

\* Mutant: the last attempt is followed by another wait.
AfterFailureForEver(attempt) == "sleeping"

AfterFailure(attempt) == IF attempt < MaxRetries - 1 THEN "sleeping" ELSE "failed"

\* The receiver takes the body and makes up its answer.
Receive(r, h) ==
    /\ task[r][h].pc = "posting"
    /\ \/ task' = [task EXCEPT ![r][h].pc = "accepted", ![r][h].accepted = Tally(@)]
       \/ \E answer \in {"refused", "error"} : task' = [task EXCEPT ![r][h].pc = answer]
    /\ UNCHANGED <<hook, test, request, closed>>

\* Mutant: a refusal is tried again, and so is a success.
DeliverAndRepeat(r, h) ==
    /\ task[r][h].pc \in {"accepted", "refused"}
    /\ task' = [task EXCEPT ![r][h].pc = AfterFailure(task[r][h].attempt)]
    /\ UNCHANGED <<hook, test, request, closed>>

\* The answer arrives and is below 500.
Deliver(r, h) ==
    /\ task[r][h].pc \in {"accepted", "refused"}
    /\ task' = [task EXCEPT ![r][h].pc = "delivered"]
    /\ UNCHANGED <<hook, test, request, closed>>

\* The attempt fails: an error is answered, the post cannot be made, or the answer,
\* whatever it was, pauses for longer than _DELIVERY_TIMEOUT.
FailAttempt(r, h) ==
    /\ task[r][h].pc \in {"posting", "accepted", "refused", "error"}
    /\ task' = [task EXCEPT ![r][h].pc = AfterFailure(task[r][h].attempt),
                            ![r][h].missed = IF task[r][h].pc = "accepted" THEN Tally(@) ELSE @]
    /\ UNCHANGED <<hook, test, request, closed>>

Retry(r, h) ==
    /\ task[r][h].pc = "sleeping"
    /\ task' = [task EXCEPT ![r][h].pc = "posting",
                            ![r][h].attempt = Tally(@)]
    /\ UNCHANGED <<hook, test, request, closed>>

\* The process ends: requests under way are rolled back, tasks and tests are gone.
Crash ==
    /\ request' = [r \in Request |-> IF request[r] \in {"working", "announced"}
                                     THEN "rolledback" ELSE request[r]]
    /\ task' = [r \in Request |-> [h \in Hook |->
                   IF task[r][h].pc \in {"none"} \cup Settled THEN task[r][h]
                   ELSE [task[r][h] EXCEPT !.pc = "lost"]]]
    /\ test' = NoTest
    /\ UNCHANGED <<hook, closed>>

------------------------------------------------------------------------------
Attempt(r, h) == Receive(r, h) \/ Deliver(r, h) \/ FailAttempt(r, h) \/ Retry(r, h)

HookNext ==
    \/ \E h \in Hook : CreateHook(h) \/ DeleteHook(h) \/ PostTest(h) \/ RecordTest(h)
    \/ \E r \in Request : Begin(r) \/ Announce(r) \/ Commit(r) \/ Rollback(r)
    \/ \E r \in Request, h \in Hook : Attempt(r, h)
    \/ Crash

HookSpec == HookInit /\ [][HookNext]_hookVars

\* The receiver's answer is on its way.  The timeout is one of every single read, so
\* that an answer which keeps coming in small parts keeps the task for ever.
Answering == {"accepted", "refused", "error"}

\* Otherwise the event loop runs the task: a connection or a first byte that does not
\* come times out, and sleeps are finite.  Where the loop stays blocked instead (see
\* EventLoop) a probe restarts the process; this is said of processes that have one.
Advance(r, h) == /\ task[r][h].pc \in {"posting", "sleeping"}
                 /\ Receive(r, h) \/ FailAttempt(r, h) \/ Retry(r, h) \/ Crash

HookFairness == \A r \in Request, h \in Hook : WF_hookVars(Advance(r, h))

------------------------------------------------------------------------------
(* Properties                                                               *)

Received(r, h) == task[r][h].accepted > 0

\* A subscription that was deleted before a request began gets nothing of its
\* event, although the subscriptions are read while they change and tasks outlive
\* the deletion (_load_subscriptions, deactivate).
NothingAfterDeletion ==
    \A r \in Request : \A h \in closed[r] : task[r][h] = NoTask

\* A receiver that took an event with success gets it again only when its answer
\* did not arrive, and never more often than there are attempts
\* (_deliver_with_retry).
DuplicatesExplained ==
    \A r \in Request, h \in Hook :
        /\ task[r][h].accepted <= task[r][h].missed + 1
        /\ task[r][h].accepted <= MaxRetries

\* Every delivery ends, unless its receiver keeps an answer open for ever: delivered,
\* given up after the last attempt, or lost with the process (_deliver_with_retry
\* returns or swallows the last exception).
DeliveriesSettle ==
    \A r \in Request, h \in Hook :
        \/ task[r][h].pc # "none" ~> task[r][h].pc \in Settled
        \/ <>[](task[r][h].pc \in Answering)

\* What docs/webhooks.md says of the events: the receiver of grant_request.approved
\* may conclude that the request was approved.  The event is sent before the commit.
AnnouncedHappened ==
    \A r \in Request, h \in Hook : Received(r, h) => request[r] # "rolledback"
==============================================================================
