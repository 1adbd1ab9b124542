-------------------------- MODULE AttachmentQueue --------------------------
(***************************************************************************)
(* attachment_queue: every attachment.queue row is processed by queue_job  *)
(* jobs that run on several workers, and at the same time by users who     *)
(* press the buttons of its form.  All of them meet in one SQL row, which  *)
(* they lock with SELECT ... FOR UPDATE NOWAIT.                            *)
(*                                                                         *)
(* A transaction reads the row as of its first query (REPEATABLE READ), so *)
(* the state it sees may be stale by the time it asks for the lock;        *)
(* PostgreSQL then answers with an OperationalError, like for a row that   *)
(* somebody else has locked.  Writers that take no explicit lock (create,  *)
(* button_reschedule, set_done) wait for the lock and are retried on a     *)
(* conflict by Odoo, so they are single steps taken while the row is free. *)
(***************************************************************************)
EXTENDS Naturals, FiniteSets, Functions

CONSTANTS Attachments,   \* rows of attachment_queue
          Jobs,          \* queue_job records that can ever be enqueued
          Workers,       \* processes that perform jobs
          Users,         \* sessions that press the buttons
          None,          \* "no job" / "no attachment"
          MaxRetries,    \* max_retries of the job function (queue_job: 5)
          MaxFaults,     \* bound on serialization errors, crashes, user errors
          Unmailable     \* attachments with failure_emails whose send_mail may raise

ASSUME QueueAssumption == /\ Workers \cap Users = {}
                          /\ None \notin Attachments /\ None \notin Jobs
                          /\ MaxRetries \in Nat \ {0}
                          /\ MaxFaults \in Nat
                          /\ Unmailable \subseteq Attachments

VARIABLES state,    \* Attachments -> committed state of the row, "absent" before create
          job,      \* Jobs -> [state, att, retry] of the queue_job record
          tx,       \* process -> its open transaction
          sched,    \* history: how often the attachment was made pending
          runs,     \* history: how often run() was committed
          faults    \* serialization errors, crashes and user errors so far

vars == <<state, job, tx, sched, runs, faults>>

Procs == Workers \cup Users

(***************************************************************************)
(* phase "begun": the snapshot is taken, the row is not locked yet;        *)
(* "locked": the lock is held; "ran": run() has written "done", not yet    *)
(* committed; "raised": the failure is committed, RetryableJobError is on  *)
(* its way to the job runner.  seen is the state in the snapshot, stale    *)
(* says that the row was rewritten since.                                  *)
(***************************************************************************)
IdleTx == [phase |-> "idle", att |-> None, job |-> None, seen |-> "absent", stale |-> FALSE]

FreshJob == [state |-> "none", att |-> None, retry |-> 0]

BeginTx(a, j) == [phase |-> "begun", att |-> a, job |-> j, seen |-> state[a], stale |-> FALSE]

Holds(p, a) == tx[p].att = a /\ tx[p].phase \in {"locked", "ran"}

Free(a) == \A p \in Procs : ~ Holds(p, a)

\* The transactions after the rows S were rewritten by a commit.
Touched(S) == [p \in Procs |-> IF tx[p].phase = "begun" /\ tx[p].att \in S
                               THEN [tx[p] EXCEPT !.stale = TRUE] ELSE tx[p]]

Init == /\ state = [a \in Attachments |-> "absent"]
        /\ job = [j \in Jobs |-> FreshJob]
        /\ tx = [p \in Procs |-> IdleTx]
        /\ sched = [a \in Attachments |-> 0]
        /\ runs = [a \in Attachments |-> 0]
        /\ faults = 0

----------------------------------------------------------------------------
(* Users: create, the reschedule button and wizard, set_done *)

\* _schedule_jobs: one new job per attachment, in the caller's transaction.
ScheduleJobs(S, f) ==
  /\ \A a \in S : job[f[a]].state = "none"
  /\ job' = [j \in Jobs |-> IF \E a \in S : f[a] = j
                            THEN [state |-> "pending", att |-> CHOOSE a \in S : f[a] = j, retry |-> 0]
                            ELSE job[j]]
  /\ sched' = [a \in Attachments |-> IF a \in S THEN sched[a] + 1 ELSE sched[a]]

\* The write of state = "pending" that comes before the jobs are enqueued.
MakePending(S) ==
  state' = [a \in Attachments |-> IF a \in S THEN "pending" ELSE state[a]]

Create(S, f) ==
  /\ \A a \in S : state[a] = "absent"
  /\ MakePending(S)
  /\ ScheduleJobs(S, f)
  /\ UNCHANGED <<tx, runs, faults>>

Reschedule(S, f) ==
  /\ \A a \in S : state[a] # "absent" /\ Free(a)
  /\ MakePending(S)
  /\ tx' = Touched(S)
  /\ ScheduleJobs(S, f)
  /\ UNCHANGED <<runs, faults>>

SetDone(a) ==
  /\ state[a] # "absent" /\ Free(a)
  /\ state' = [state EXCEPT ![a] = "done"]
  /\ tx' = Touched({a})
  /\ UNCHANGED <<job, sched, runs, faults>>

----------------------------------------------------------------------------
(* The locked section shared by run_as_job and button_manual_run *)

\* queue_job (external): a worker marks a pending job started, commits, and
\* opens the transaction in which run_as_job is called.
JobStart(w, j) ==
  /\ tx[w].phase = "idle" /\ job[j].state = "pending"
  /\ job' = [job EXCEPT ![j].state = "started"]
  /\ tx' = [tx EXCEPT ![w] = BeginTx(job[j].att, j)]
  /\ UNCHANGED <<state, sched, runs, faults>>

\* A user presses "Manual Run" (button_manual_run).
UserBegin(u, a) ==
  /\ tx[u].phase = "idle" /\ state[a] # "absent"
  /\ tx' = [tx EXCEPT ![u] = BeginTx(a, None)]
  /\ UNCHANGED <<state, job, sched, runs, faults>>

\* SELECT ... FOR UPDATE NOWAIT succeeds only on a free row that was not
\* rewritten since the snapshot.  (The definitions named Definition_Variant are
\* mutations of the definition that follows them; nothing else uses them.)
CanLock_AnySnapshot(p) == Free(tx[p].att)

CanLock_NoLock(p) == ~ tx[p].stale

CanLock(p) == Free(tx[p].att) /\ ~ tx[p].stale

Lock(p) ==
  /\ tx[p].phase = "begun" /\ CanLock(p)
  /\ tx' = [tx EXCEPT ![p].phase = "locked"]
  /\ UNCHANGED <<state, job, sched, runs, faults>>

\* The transaction of p ends (commit or rollback) and its job, if it has one,
\* is left as r.
Finish(p, r) ==
  /\ tx' = [tx EXCEPT ![p] = IdleTx]
  /\ job' = IF p \in Workers THEN [job EXCEPT ![tx[p].job] = r] ELSE job

JobAs(p, s) == [job[tx[p].job] EXCEPT !.state = s]

\* A job whose retry counts: queue_job increments retry at each attempt.
JobRetried(p, s) == [JobAs(p, s) EXCEPT !.retry = @ + 1]

\* The refusal counts as an attempt (no ignore_retry).
LockBusy_Counted(p) ==
  /\ tx[p].phase = "begun" /\ ~ CanLock(p)
  /\ Finish(p, JobRetried(p, IF p \in Workers /\ job[tx[p].job].retry + 1 >= MaxRetries
                             THEN "failed" ELSE "pending"))
  /\ UNCHANGED <<state, sched, runs, faults>>

\* The lock is refused: RetryableJobError(ignore_retry=True) puts the job back
\* without counting the attempt, a user gets a UserError.
LockBusy(p) ==
  /\ tx[p].phase = "begun" /\ ~ CanLock(p)
  /\ Finish(p, JobAs(p, "pending"))
  /\ UNCHANGED <<state, sched, runs, faults>>

\* if self.state != "done"
MustRun_Always(p) == tx[p].phase = "locked"

MustRun(p) == tx[p].seen # "done"

Skip(p) ==
  /\ tx[p].phase = "locked" /\ ~ MustRun(p)
  /\ Finish(p, JobAs(p, "done"))
  /\ UNCHANGED <<state, sched, runs, faults>>

\* run(): _run() succeeds and the row is set to done in the open transaction.
RunOk(p) ==
  /\ tx[p].phase = "locked" /\ MustRun(p)
  /\ tx' = [tx EXCEPT ![p].phase = "ran"]
  /\ UNCHANGED <<state, job, sched, runs, faults>>

\* The transaction is committed with a new value of its row.
CommitRow(p, s, r) ==
  /\ state' = [state EXCEPT ![tx[p].att] = s]
  /\ tx' = [Touched({tx[p].att}) EXCEPT ![p] = r]

Commit(p) ==
  /\ tx[p].phase = "ran"
  /\ CommitRow(p, "done", IdleTx)
  /\ runs' = [runs EXCEPT ![tx[p].att] = @ + 1]
  /\ job' = IF p \in Workers THEN [job EXCEPT ![tx[p].job] = JobAs(p, "done")] ELSE job
  /\ UNCHANGED <<sched, faults>>

----------------------------------------------------------------------------
(* How run_as_job and button_manual_run fail *)

\* Any exception but the two below (an OperationalError that is no concurrency
\* error included): the savepoint is rolled back, the failure is written and
\* the exception swallowed, so the job itself ends well.
JobFail(w) ==
  /\ tx[w].phase = "locked" /\ MustRun(w)
  /\ CommitRow(w, "failed", IdleTx)
  /\ job' = [job EXCEPT ![tx[w].job] = JobAs(w, "done")]
  /\ UNCHANGED <<sched, runs, faults>>

\* send_mail raises inside _set_attachment_failure: nothing catches it, the
\* whole transaction is rolled back and queue_job fails the job.
JobFailMailError(w) ==
  /\ tx[w].att \in Unmailable
  /\ tx[w].phase = "locked" /\ MustRun(w)
  /\ Finish(w, JobRetried(w, "failed"))
  /\ UNCHANGED <<state, sched, runs, faults>>

\* A PostgreSQL concurrency error while running or committing: everything is
\* rolled back and queue_job postpones the job whatever its retry count.
JobSerialize(w) ==
  /\ faults < MaxFaults /\ faults' = faults + 1
  /\ \/ tx[w].phase = "locked" /\ MustRun(w)
     \/ tx[w].phase = "ran"
  /\ Finish(w, JobRetried(w, "pending"))
  /\ UNCHANGED <<state, sched, runs>>

\* _run raises RetryableJobError: the failure is committed, which gives the
\* lock back, and the exception is raised again.
JobRetryable(w) ==
  /\ tx[w].phase = "locked" /\ MustRun(w)
  /\ CommitRow(w, "failed", [tx[w] EXCEPT !.phase = "raised"])
  /\ UNCHANGED <<job, sched, runs, faults>>

\* queue_job (external) receives it: another attempt unless max_retries is met.
JobRaised(w) ==
  /\ tx[w].phase = "raised"
  /\ Finish(w, JobRetried(w, IF job[tx[w].job].retry + 1 >= MaxRetries
                             THEN "failed" ELSE "pending"))
  /\ UNCHANGED <<state, sched, runs, faults>>

\* run() raises in button_manual_run, or its commit fails: a plain rollback.
UserRunErr(u) ==
  /\ faults < MaxFaults /\ faults' = faults + 1
  /\ \/ tx[u].phase = "locked" /\ MustRun(u)
     \/ tx[u].phase = "ran"
  /\ tx' = [tx EXCEPT ![u] = IdleTx]
  /\ UNCHANGED <<state, job, sched, runs>>

\* The worker process dies; PostgreSQL rolls back, the job stays "started".
Crash(w) ==
  /\ faults < MaxFaults /\ faults' = faults + 1
  /\ tx[w].phase # "idle"
  /\ tx' = [tx EXCEPT ![w] = IdleTx]
  /\ UNCHANGED <<state, job, sched, runs>>

\* queue_job (external) requeues the jobs of dead workers.
RequeueDead(j) ==
  /\ job[j].state = "started" /\ \A w \in Workers : tx[w].job # j
  /\ job' = [job EXCEPT ![j].state = "pending"]
  /\ UNCHANGED <<state, tx, sched, runs, faults>>

----------------------------------------------------------------------------
UserEdit == \/ \E S \in (SUBSET Attachments) \ {{}} : \E f \in Injection(S, Jobs) :
                  Create(S, f) \/ Reschedule(S, f)
            \/ \E a \in Attachments : SetDone(a)

\* What a process that has a transaction open does next.
Proceed(p) == Lock(p) \/ LockBusy(p) \/ Skip(p) \/ RunOk(p) \/ Commit(p)

WorkerStep(w) == \/ Proceed(w) \/ JobFail(w) \/ JobFailMailError(w)
                 \/ JobSerialize(w) \/ JobRetryable(w) \/ JobRaised(w)

UserStep(u) == Proceed(u) \/ UserRunErr(u)

Next == \/ UserEdit
        \/ \E w \in Workers, j \in Jobs : JobStart(w, j)
        \/ \E u \in Users, a \in Attachments : UserBegin(u, a)
        \/ \E w \in Workers : WorkerStep(w) \/ Crash(w)
        \/ \E u \in Users : UserStep(u)
        \/ \E j \in Jobs : RequeueDead(j)

(***************************************************************************)
(* A request or a job that has begun goes on (Odoo's time limits end it    *)
(* otherwise), the job runner requeues dead jobs, and it hands every job   *)
(* that keeps returning to pending to a worker again (it orders them by    *)
(* priority and date).  Nobody is obliged to press a button.               *)
(***************************************************************************)
Fairness == /\ \A w \in Workers : WF_vars(WorkerStep(w))
            /\ \A u \in Users : WF_vars(UserStep(u))
            /\ \A j \in Jobs : WF_vars(RequeueDead(j))
            /\ \A j \in Jobs : SF_vars(\E w \in Workers : JobStart(w, j))

Spec == Init /\ [][Next]_vars

FairSpec == Spec /\ Fairness

----------------------------------------------------------------------------
(* Properties *)

RowState == {"absent", "pending", "failed", "done"}

\* Every variable stays in its type: rows, job records and open transactions
\* only ever take the values the models declare (state of attachment.queue,
\* state and retry of queue.job).
TypeOK ==
  /\ state \in [Attachments -> RowState]
  /\ job \in [Jobs -> [state : {"none", "pending", "started", "done", "failed"},
                       att : Attachments \cup {None}, retry : Nat]]
  /\ tx \in [Procs -> [phase : {"idle", "begun", "locked", "ran", "raised"},
                       att : Attachments \cup {None}, job : Jobs \cup {None},
                       seen : RowState, stale : BOOLEAN]]
  /\ sched \in [Attachments -> Nat] /\ runs \in [Attachments -> Nat]
  /\ faults \in Nat

\* Being made pending once (create, button_reschedule) allows one committed
\* run(): a worker and a user, two jobs of the same attachment, or a retried
\* job after a crash never process the same file a second time.
AtMostOncePerSchedule == \A a \in Attachments : runs[a] <= sched[a]

\* run() of one attachment is never executing in two transactions at once,
\* which is what the FOR UPDATE NOWAIT of run_as_job and button_manual_run
\* is for; a user racing a worker is the usual case.
NoConcurrentRun ==
  \A a \in Attachments, p, q \in Procs : Holds(p, a) /\ Holds(q, a) => p = q

\* j will still be attempted, not counting an attempt that has already ended
\* in a committed failure.
LiveJob(j) == /\ job[j].state \in {"pending", "started"}
              /\ \A w \in Workers : tx[w].phase = "raised" => tx[w].job # j

\* "We would not want a pending attachment with no related pending job": a
\* pending row always has a job that is going to process it, through lock
\* refusals, retries, exhausted max_retries and crashes, provided its failure
\* mails can be sent (run_as_job).
PendingHasJob ==
  \A a \in Attachments \ Unmailable : state[a] = "pending" =>
     \E j \in Jobs : job[j].att = a /\ LiveJob(j)

\* Every pending attachment is eventually processed or recorded as failed,
\* provided its failure mails can be sent.
PendingIsHandled ==
  \A a \in Attachments \ Unmailable : state[a] = "pending" ~> state[a] \in {"failed", "done"}

\* The interleaved, crash-prone implementation behaves like the atomic
\* lifecycle of AttachmentLifecycle; in particular no stale worker ever
\* overwrites "done" with a failure or runs a completed attachment.
Lifecycle == INSTANCE AttachmentLifecycle
               WITH Attachments <- Attachments, state <- state, sched <- sched, runs <- runs
ImplementsLifecycle == Lifecycle!Spec

============================================================================
