----------------------------- MODULE WorkerJobs -----------------------------
(***************************************************************************)
(* Background jobs: enqueue_job, the functions the worker runs and their   *)
(* dead-letter queue.  arq is outside: it runs a queued job, keeps its     *)
(* result, takes any exception of the job as its failure, and runs a job   *)
(* again only when the worker ended under it, up to max_tries times.       *)
(*                                                                         *)
(* The daily anchor is AnchorJob.  enqueue_job has no caller under src.    *)
(***************************************************************************)
EXTENDS Naturals, FiniteSets

CONSTANTS Job,
          KindOf,      \* KindOf[j]: "webhook", "email" or "export"
          MaxTries     \* WorkerSettings.max_tries, and MAX_JOB_RETRIES

ASSUME KindAssumption == KindOf \in [Job -> {"webhook", "email", "export"}]
ASSUME TriesAssumption == MaxTries \in Nat \ {0}

VARIABLES queueUp,   \* Redis answers
          job        \* job[j]: as arq has it, and its effects

jobVars == <<queueUp, job>>

JobState == {"new", "dropped", "queued", "running", "complete", "failed"}
Return   == {"none", "skipped", "sent", "exported", "error"}

\* effects (history): mails accepted by the server, or files opened for writing.
Record == [state : JobState, tries : 0..MaxTries, returned : Return, effects : 0..MaxTries,
           interrupted : 0..MaxTries]

NewJob == [state |-> "new", tries |-> 0, returned |-> "none", effects |-> 0, interrupted |-> 0]

JobTypeOK == queueUp \in BOOLEAN /\ job \in [Job -> Record]

JobInit == queueUp = TRUE /\ job = [j \in Job |-> NewJob]

\* enqueue_job: an error is logged, and the job is gone.
Enqueue(j) ==
    /\ job[j].state = "new"
    /\ job' = [job EXCEPT ![j].state = IF queueUp THEN "queued" ELSE "dropped"]
    /\ UNCHANGED queueUp

QueueFails    == queueUp /\ queueUp' = FALSE /\ UNCHANGED job
QueueRecovers == ~queueUp /\ queueUp' = TRUE /\ UNCHANGED job

\* arq takes the job; after max_tries it fails it without a call.
Take(j) ==
    /\ queueUp /\ job[j].state = "queued"
    /\ job' = IF job[j].tries < MaxTries
              THEN [job EXCEPT ![j].state = "running", ![j].tries = @ + 1]
              ELSE [job EXCEPT ![j].state = "failed"]
    /\ UNCHANGED queueUp

\* What a mail or an export does outside, and what it will return; a crash may come
\* between.  The backend "noop" sends no mail, an export without a destination writes
\* no file, and neither shows in what is returned.
DoWork(j) ==
    /\ job[j].state = "running" /\ KindOf[j] \in {"email", "export"}
    /\ job[j].returned = "none"
    /\ \E n \in 0..1 :
          job' = [job EXCEPT ![j].effects = @ + n,
                             ![j].returned = IF KindOf[j] = "email" THEN "sent" ELSE "exported"]
    /\ UNCHANGED queueUp

Finish(j, state, returned) ==
    /\ job' = [job EXCEPT ![j].state = state, ![j].returned = returned]
    /\ UNCHANGED queueUp

\* webhook_delivery looks its subscription up in the tenant "", where there is none.
SkipWebhook(j) ==
    /\ job[j].state = "running" /\ KindOf[j] = "webhook"
    /\ Finish(j, "complete", "skipped")

Succeed(j) ==
    /\ job[j].state = "running" /\ job[j].returned # "none"
    /\ Finish(j, "complete", job[j].returned)

\* Mutant: arq takes an exception of the job for a reason to run it again.
FailAndRunAgain(j) ==
    /\ job[j].state = "running"
    /\ \/ KindOf[j] = "email"  /\ Finish(j, "queued", "none")
       \/ KindOf[j] = "export" /\ job[j].returned = "none" /\ Finish(j, "complete", "error")

\* attempt keeps its default of 0 and is below MAX_JOB_RETRIES: a mail that cannot be
\* sent, or whose acceptance is not heard of, raises and never reaches the dead-letter
\* queue.  An export returns its error, with nothing written or a part of its file.
Fail(j) ==
    /\ job[j].state = "running"
    /\ \/ KindOf[j] = "email" /\ Finish(j, "failed", "none")
       \/ /\ KindOf[j] = "export" /\ job[j].returned = "none"
          /\ \E n \in 0..1 :
                job' = [job EXCEPT ![j].state = "complete", ![j].returned = "error",
                                   ![j].effects = @ + n]
          /\ UNCHANGED queueUp

\* The worker ends: the jobs it was running will be taken again.
WorkerEnds ==
    /\ \E j \in Job : job[j].state = "running"
    /\ job' = [j \in Job |-> IF job[j].state = "running"
                             THEN [job[j] EXCEPT !.state = "queued", !.returned = "none",
                                                 !.interrupted = @ + 1]
                             ELSE job[j]]
    /\ UNCHANGED queueUp

Work(j) == Take(j) \/ DoWork(j) \/ SkipWebhook(j) \/ Succeed(j) \/ Fail(j)

JobNext ==
    \/ \E j \in Job : Enqueue(j) \/ Work(j)
    \/ QueueFails \/ QueueRecovers \/ WorkerEnds

JobSpec == JobInit /\ [][JobNext]_jobVars

------------------------------------------------------------------------------
(* Properties                                                               *)

\* What arq calls complete: get_job_status answers it for any return.
Answer(j) ==
    CASE job[j].state = "complete" -> "complete"
      [] job[j].state = "failed"   -> "failed"
      [] OTHER                     -> "not_found"

\* A mail is sent, and a file written, at most once more for every time the worker ended
\* under the job, and never more often than arq tries it: a job that fails, before its
\* effect, half-way or after it, is not retried (email_notification, audit_export under
\* arq).
EffectsExplained ==
    \A j \in Job : /\ job[j].effects <= job[j].interrupted + 1
                   /\ job[j].effects <= MaxTries
==============================================================================
