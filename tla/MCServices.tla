----------------------------- MODULE MCServices -----------------------------
(***************************************************************************)
(* Finite instances of the services around the decisions: webhooks, jobs,  *)
(* the rate limiter, and the start of the program on its database.  They   *)
(* share no state: an instance runs one of them, chosen at the start, and  *)
(* leaves the others where they begin.                                     *)
(***************************************************************************)
EXTENDS WebhookDelivery, WorkerJobs, RateLimiter, Migrations, TLC

CONSTANTS r1, h1, h2, j1, j2, j3, w1, w2, all, free, enterprise

VARIABLE part

vars == <<part, hookVars, jobVars, limiterVars, migrationVars>>

TypeOK == HookTypeOK /\ JobTypeOK /\ LimiterTypeOK /\ MigrationTypeOK

Init ==
    /\ part \in {"hooks", "jobs", "limiter", "start"}
    /\ HookInit /\ JobInit /\ LimiterInit /\ MigrationInit
    /\ part # "start" => release = [s \in Starter |-> 1] /\ db.origin = "fresh"

Next ==
    \/ part = "hooks" /\ HookNext /\ UNCHANGED <<part, jobVars, limiterVars, migrationVars>>
    \/ part = "jobs" /\ JobNext /\ UNCHANGED <<part, hookVars, limiterVars, migrationVars>>
    \/ part = "limiter" /\ LimiterNext /\ UNCHANGED <<part, hookVars, jobVars, migrationVars>>
    \/ part = "start" /\ MigrationNext /\ UNCHANGED <<part, hookVars, jobVars, limiterVars>>

Spec == Init /\ [][Next]_vars

FairSpec == Spec /\ (part = "hooks" => HookFairness)

\* Deliveries to two receivers share nothing but the process: h2 wants another event.
Events       == r1 :> "approved"
Workspaces   == r1 :> "ws1"
Subscribed   == h1 :> {"approved", "denied"} @@ h2 :> {"denied"}
Scopes       == h1 :> all @@ h2 :> "ws1"
Kinds        == j1 :> "email" @@ j2 :> "export" @@ j3 :> "webhook"
Limits       == free :> 1 @@ enterprise :> all

\* One migration of each kind, and with them one whose column the baseline makes.
Releases     == <<Baseline, AuditTriggers, AuditSeq>>
MoreReleases == <<Baseline, AuditTriggers, TokenLookup, AuditSeq>>
==============================================================================
