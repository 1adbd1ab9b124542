-------------------------- MODULE AttachmentProofs -------------------------
(***************************************************************************)
(* Proofs about AttachmentQueue for any number of attachments, jobs,       *)
(* workers and users, any max_retries and any number of faults; and, in    *)
(* the last section, about AttachmentImport for any number of tasks, files *)
(* and passes.  The two share no state.                                    *)
(***************************************************************************)
EXTENDS AttachmentQueue, AttachmentImport, FiniteSetTheorems, SequenceTheorems, TLAPS

JobType == [state : {"none", "pending", "started", "done", "failed"},
            att : Attachments \cup {None}, retry : Nat]

TxType == [phase : {"idle", "begun", "locked", "ran", "raised"},
           att : Attachments \cup {None}, job : Jobs \cup {None},
           seen : RowState, stale : BOOLEAN]

\* An idle process has no transaction; an open one is about an existing row,
\* and a worker's is about the row of the started job it performs.
TxInv ==
  \A p \in Procs :
     /\ tx[p].phase = "idle" => tx[p].job = None
     /\ tx[p].phase # "idle" => tx[p].att \in Attachments /\ state[tx[p].att] # "absent"
     /\ p \in Users => tx[p].job = None /\ tx[p].phase # "raised"
     /\ p \in Workers /\ tx[p].phase # "idle" =>
           /\ tx[p].job \in Jobs
           /\ job[tx[p].job].state = "started"
           /\ job[tx[p].job].att = tx[p].att

\* What a transaction has seen is still true unless it is marked stale, and it
\* is true for as long as the lock is held.
SeenInv ==
  \A p \in Procs :
     /\ tx[p].phase = "begun" /\ ~ tx[p].stale => tx[p].seen = state[tx[p].att]
     /\ tx[p].phase \in {"locked", "ran"} => tx[p].seen = state[tx[p].att]
     /\ tx[p].phase = "ran" => tx[p].seen # "done"

\* A job is performed by one worker at a time.
OneWorkerPerJob ==
  \A v, w \in Workers : tx[v].job = tx[w].job /\ tx[v].job # None => v = w

\* An enqueued job belongs to an existing row.
JobInv == \A j \in Jobs : job[j].state # "none" =>
             job[j].att \in Attachments /\ state[job[j].att] # "absent"

\* A row that is not done still has a run to its credit.
CreditInv == \A a \in Attachments :
   /\ runs[a] <= sched[a]
   /\ state[a] \in {"pending", "failed"} => runs[a] + 1 <= sched[a]

IInv == /\ TypeOK /\ TxInv /\ SeenInv /\ OneWorkerPerJob /\ JobInv
        /\ NoConcurrentRun /\ CreditInv

USE QueueAssumption

LEMMA InitIInv == Init => IInv
  BY DEF Init, IInv, TypeOK, TxInv, SeenInv, OneWorkerPerJob, JobInv, NoConcurrentRun,
         CreditInv, Holds, IdleTx, FreshJob, Procs, RowState

\* Marking transactions stale changes nothing else about them.
LEMMA TouchedFacts ==
  ASSUME TypeOK, NEW S
  PROVE  /\ Touched(S) \in [Procs -> TxType]
         /\ \A p \in Procs :
              /\ Touched(S)[p].phase = tx[p].phase /\ Touched(S)[p].att = tx[p].att
              /\ Touched(S)[p].job = tx[p].job /\ Touched(S)[p].seen = tx[p].seen
              /\ tx[p].phase = "begun" /\ ~ Touched(S)[p].stale => tx[p].att \notin S /\ ~ tx[p].stale
<1>0. \A p \in Procs : tx[p] \in TxType
  BY DEF TypeOK, TxType
<1> SUFFICES ASSUME NEW p \in Procs
             PROVE  /\ Touched(S)[p] \in TxType
                    /\ Touched(S)[p].phase = tx[p].phase /\ Touched(S)[p].att = tx[p].att
                    /\ Touched(S)[p].job = tx[p].job /\ Touched(S)[p].seen = tx[p].seen
                    /\ tx[p].phase = "begun" /\ ~ Touched(S)[p].stale => tx[p].att \notin S /\ ~ tx[p].stale
  BY DEF Touched
<1>1. CASE tx[p].phase = "begun" /\ tx[p].att \in S
  <2>1. Touched(S)[p] = [tx[p] EXCEPT !.stale = TRUE]
    BY <1>1 DEF Touched
  <2>2. [tx[p] EXCEPT !.stale = TRUE] \in TxType
    BY <1>0 DEF TxType
  <2>3. [tx[p] EXCEPT !.stale = TRUE].stale
    BY <1>0 DEF TxType
  <2> QED BY <1>0, <2>1, <2>2, <2>3 DEF TxType
<1>2. CASE ~ (tx[p].phase = "begun" /\ tx[p].att \in S)
  <2>1. Touched(S)[p] = tx[p]
    BY <1>2 DEF Touched
  <2> QED BY <1>0, <1>2, <2>1
<1> QED BY <1>1, <1>2

LEMMA CreateStep ==
  ASSUME IInv, NEW S \in SUBSET Attachments, NEW f \in Injection(S, Jobs), Create(S, f)
  PROVE  IInv'
<1> USE DEF Create, MakePending, ScheduleJobs, IInv
<1>0. f \in [S -> Jobs]
  BY DEF Injection
<1>a. \A j \in Jobs : (\E a \in S : f[a] = j) => (CHOOSE a \in S : f[a] = j) \in S
  OBVIOUS
<1>1. TypeOK'
  BY <1>0, <1>a DEF TypeOK, RowState
<1>b. \A a \in Attachments : state[a] # "absent" => state'[a] = state[a]
  BY DEF TypeOK
<1>c. \A j \in Jobs : job[j].state # "none" => job'[j] = job[j]
  BY <1>0 DEF TypeOK
<1>2. TxInv'
  BY <1>b, <1>c DEF TxInv, TypeOK
<1>3. SeenInv'
  BY <1>b DEF SeenInv, TxInv
<1>4. OneWorkerPerJob' /\ NoConcurrentRun'
  BY DEF OneWorkerPerJob, NoConcurrentRun, Holds
<1>5. JobInv'
  BY <1>0, <1>a DEF JobInv, TypeOK
<1>6. CreditInv'
  BY DEF CreditInv, TypeOK
<1> QED BY <1>1, <1>2, <1>3, <1>4, <1>5, <1>6

\* The rows S are rewritten while nobody holds their lock, by a step that
\* leaves the tx of everyone else alone but for the stale marks.
LEMMA RescheduleStep ==
  ASSUME IInv, NEW S \in SUBSET Attachments, NEW f \in Injection(S, Jobs), Reschedule(S, f)
  PROVE  IInv'
<1> USE DEF Reschedule, MakePending, ScheduleJobs, IInv
<1>0. f \in [S -> Jobs]
  BY DEF Injection
<1>a. \A j \in Jobs : (\E a \in S : f[a] = j) => (CHOOSE a \in S : f[a] = j) \in S
  OBVIOUS
<1>1. TypeOK'
  <2>1. tx' \in [Procs -> TxType]
    BY TouchedFacts
  <2>2. job' \in [Jobs -> JobType]
    BY <1>0, <1>a DEF TypeOK, JobType
  <2>3. state' \in [Attachments -> RowState] /\ sched' \in [Attachments -> Nat]
    BY DEF TypeOK, RowState
  <2> QED BY <2>1, <2>2, <2>3 DEF TypeOK, TxType, JobType
<1>b. \A a \in Attachments : state[a] # "absent" => state'[a] # "absent"
  BY DEF TypeOK
<1>c. \A j \in Jobs : job[j].state # "none" => job'[j] = job[j]
  BY <1>0 DEF TypeOK
<1>d. \A p \in Procs : /\ tx'[p].phase = tx[p].phase /\ tx'[p].att = tx[p].att
                       /\ tx'[p].job = tx[p].job /\ tx'[p].seen = tx[p].seen
  BY TouchedFacts
<1>2. TxInv'
  BY <1>b, <1>c, <1>d DEF TxInv, TypeOK
<1>3. SeenInv'
  <2> SUFFICES ASSUME NEW p \in Procs
               PROVE /\ tx'[p].phase = "begun" /\ ~ tx'[p].stale => tx'[p].seen = state'[tx'[p].att]
                     /\ tx'[p].phase \in {"locked", "ran"} => tx'[p].seen = state'[tx'[p].att]
                     /\ tx'[p].phase = "ran" => tx'[p].seen # "done"
    BY DEF SeenInv
  <2>1. tx'[p].phase = "begun" /\ ~ tx'[p].stale => tx[p].att \notin S /\ ~ tx[p].stale
    BY <1>d, TouchedFacts
  <2>2. tx'[p].phase \in {"locked", "ran"} => tx[p].att \notin S
    BY <1>d DEF Free, Holds
  <2> QED BY <1>d, <2>1, <2>2 DEF SeenInv, TxInv, TypeOK
<1>4. OneWorkerPerJob' /\ NoConcurrentRun'
  BY <1>d DEF OneWorkerPerJob, NoConcurrentRun, Holds, Procs
<1>5. JobInv'
  BY <1>0, <1>a DEF JobInv, TypeOK
<1>6. CreditInv'
  BY DEF CreditInv, TypeOK
<1> QED BY <1>1, <1>2, <1>3, <1>4, <1>5, <1>6

LEMMA SetDoneStep ==
  ASSUME IInv, NEW a \in Attachments, SetDone(a)
  PROVE  IInv'
<1> USE DEF IInv
<1>1. TypeOK'
  <2>1. tx' \in [Procs -> TxType]
    BY TouchedFacts DEF SetDone
  <2>2. state' \in [Attachments -> RowState]
    BY DEF SetDone, TypeOK, RowState
  <2> QED BY <2>1, <2>2 DEF SetDone, TypeOK, TxType
<1>b. /\ \A b \in Attachments : state'[b] = IF b = a THEN "done" ELSE state[b]
      /\ UNCHANGED <<job, sched, runs>>
  BY DEF SetDone, TypeOK
<1>c. state[a] # "absent" /\ \A p \in Procs : ~ Holds(p, a)
  BY DEF SetDone, Free
<1>d. \A p \in Procs : /\ tx'[p].phase = tx[p].phase /\ tx'[p].att = tx[p].att
                       /\ tx'[p].job = tx[p].job /\ tx'[p].seen = tx[p].seen
                       /\ tx[p].phase = "begun" /\ ~ tx'[p].stale => tx[p].att # a /\ ~ tx[p].stale
  BY TouchedFacts DEF SetDone
<1>2. TxInv'
  BY <1>b, <1>c, <1>d DEF TxInv
<1>3. SeenInv'
  BY <1>b, <1>c, <1>d DEF SeenInv, TxInv, Holds
<1>4. OneWorkerPerJob' /\ NoConcurrentRun'
  BY <1>d DEF OneWorkerPerJob, NoConcurrentRun, Holds, Procs
<1>5. JobInv' /\ CreditInv'
  BY <1>b DEF JobInv, CreditInv
<1> QED BY <1>1, <1>2, <1>3, <1>4, <1>5

LEMMA JobStartStep ==
  ASSUME IInv, NEW w \in Workers, NEW j \in Jobs, JobStart(w, j)
  PROVE  IInv'
<1> USE DEF JobStart, BeginTx, IInv, Procs
<1>1. TypeOK'
  BY DEF TypeOK, JobInv
<1>2. TxInv'
  BY DEF TxInv, TypeOK, JobInv
<1>3. SeenInv'
  BY DEF SeenInv, TypeOK
<1>4. OneWorkerPerJob'
  BY DEF OneWorkerPerJob, TxInv, TypeOK
<1>5. NoConcurrentRun'
  BY DEF NoConcurrentRun, Holds, TypeOK
<1>6. JobInv' /\ CreditInv'
  BY DEF JobInv, CreditInv, TypeOK
<1> QED BY <1>1, <1>2, <1>3, <1>4, <1>5, <1>6

LEMMA UserBeginStep ==
  ASSUME IInv, NEW u \in Users, NEW a \in Attachments, UserBegin(u, a)
  PROVE  IInv'
<1> USE DEF UserBegin, BeginTx, IInv, Procs
<1>1. TypeOK'
  BY DEF TypeOK
<1>2. TxInv'
  BY DEF TxInv, TypeOK
<1>3. SeenInv'
  BY DEF SeenInv, TypeOK
<1>4. OneWorkerPerJob' /\ NoConcurrentRun'
  BY DEF OneWorkerPerJob, NoConcurrentRun, Holds, TxInv, TypeOK
<1>5. JobInv' /\ CreditInv'
  BY DEF JobInv, CreditInv, TypeOK
<1> QED BY <1>1, <1>2, <1>3, <1>4, <1>5

LEMMA LockStep ==
  ASSUME IInv, NEW p \in Procs, Lock(p)
  PROVE  IInv'
<1> USE DEF Lock, IInv
<1>1. TypeOK'
  BY DEF TypeOK
<1>2. TxInv'
  BY DEF TxInv, TypeOK
<1>3. SeenInv'
  BY DEF SeenInv, CanLock, TypeOK
<1>4. OneWorkerPerJob'
  BY DEF OneWorkerPerJob, TypeOK, Procs
<1>5. NoConcurrentRun'
  BY DEF NoConcurrentRun, Holds, CanLock, Free, TypeOK
<1>6. JobInv' /\ CreditInv'
  BY DEF JobInv, CreditInv
<1> QED BY <1>1, <1>2, <1>3, <1>4, <1>5, <1>6

LEMMA RunOkStep ==
  ASSUME IInv, NEW p \in Procs, RunOk(p)
  PROVE  IInv'
<1> USE DEF RunOk, IInv
<1>1. TypeOK'
  BY DEF TypeOK
<1>2. TxInv'
  BY DEF TxInv, TypeOK
<1>3. SeenInv'
  BY DEF SeenInv, MustRun, TypeOK
<1>4. OneWorkerPerJob' /\ NoConcurrentRun'
  BY DEF OneWorkerPerJob, NoConcurrentRun, Holds, TypeOK, Procs
<1>5. JobInv' /\ CreditInv'
  BY DEF JobInv, CreditInv
<1> QED BY <1>1, <1>2, <1>3, <1>4, <1>5

\* A transaction that ends without having changed the row, whatever happens
\* to its job.
LEMMA RollbackStep ==
  ASSUME IInv, NEW p \in Procs,
         tx' = [tx EXCEPT ![p] = IdleTx],
         job' \in [Jobs -> JobType],
         \A j \in Jobs : /\ job'[j].att = job[j].att
                         /\ job[j].state = "none" => job'[j].state = "none"
                         /\ (p \in Users \/ j # tx[p].job) => job'[j] = job[j],
         UNCHANGED <<state, sched, runs>>, faults' \in Nat
  PROVE  IInv'
<1> USE DEF IInv, IdleTx
<1>1. TypeOK'
  BY DEF TypeOK, JobType, RowState
<1>2. TxInv'
  BY DEF TxInv, OneWorkerPerJob, TypeOK, Procs
<1>3. SeenInv' /\ NoConcurrentRun'
  BY DEF SeenInv, NoConcurrentRun, Holds, TypeOK
<1>4. OneWorkerPerJob'
  BY DEF OneWorkerPerJob, TypeOK, Procs
<1>5. JobInv' /\ CreditInv'
  BY DEF JobInv, CreditInv, TypeOK
<1> QED BY <1>1, <1>2, <1>3, <1>4, <1>5

\* Finish(p, r) with one of the job records the actions pass to it.
LEMMA FinishStep ==
  ASSUME IInv, NEW p \in Procs, tx[p].phase # "idle",
         NEW s \in {"pending", "started", "done", "failed"}, NEW r \in {JobAs(p, s), JobRetried(p, s)},
         Finish(p, r), UNCHANGED <<state, sched, runs>>, faults' \in Nat
  PROVE  IInv'
<1>1. p \in Workers =>
        /\ tx[p].job \in Jobs /\ r \in JobType
        /\ r.att = job[tx[p].job].att /\ job[tx[p].job].state = "started"
  <2> SUFFICES ASSUME p \in Workers PROVE <1>1!2
    OBVIOUS
  <2>1. tx[p].job \in Jobs /\ job[tx[p].job].state = "started" /\ job[tx[p].job] \in JobType
    BY DEF IInv, TxInv, TypeOK, JobType
  <2>2. JobAs(p, s) \in JobType /\ JobAs(p, s).att = job[tx[p].job].att
    BY <2>1 DEF JobAs, JobType
  <2>3. JobRetried(p, s) \in JobType /\ JobRetried(p, s).att = job[tx[p].job].att
    BY <2>2 DEF JobRetried, JobType
  <2> QED BY <2>1, <2>2, <2>3
<1>2. job' \in [Jobs -> JobType]
  BY <1>1 DEF IInv, TypeOK, JobType, Finish
<1>3. \A j \in Jobs : /\ job'[j].att = job[j].att
                      /\ job[j].state = "none" => job'[j].state = "none"
                      /\ (p \in Users \/ j # tx[p].job) => job'[j] = job[j]
  BY <1>1 DEF IInv, TypeOK, Finish, Procs
<1> QED BY <1>2, <1>3, RollbackStep DEF Finish

\* A transaction that commits its row as s, not "absent", and becomes r.
LEMMA CommitRowStep ==
  ASSUME IInv, NEW p \in Procs, tx[p].phase \in {"locked", "ran"}, tx[p].seen # "done",
         NEW s \in {"done", "failed"}, NEW r \in TxType, CommitRow(p, s, r),
         \/ r.phase = "idle" /\ r.job = None
         \/ /\ r.phase = "raised" /\ r.job = tx[p].job /\ r.att = tx[p].att
            /\ p \in Workers /\ job' = job,
         job' \in [Jobs -> JobType],
         \A j \in Jobs : /\ job'[j].att = job[j].att
                         /\ job[j].state = "none" => job'[j].state = "none"
                         /\ (p \in Users \/ j # tx[p].job) => job'[j] = job[j],
         runs' = IF s = "done" THEN [runs EXCEPT ![tx[p].att] = @ + 1] ELSE runs,
         UNCHANGED <<sched, faults>>
  PROVE  IInv'
<1> USE DEF IInv
<1>0. /\ tx[p].att \in Attachments
      /\ state[tx[p].att] = tx[p].seen
      /\ state[tx[p].att] \in {"pending", "failed"}
  BY DEF TxInv, SeenInv, TypeOK, RowState
<1>b. \A b \in Attachments : state'[b] = IF b = tx[p].att THEN s ELSE state[b]
  BY DEF CommitRow, TypeOK
<1>d. \A q \in Procs \ {p} :
        /\ tx'[q].phase = tx[q].phase /\ tx'[q].att = tx[q].att
        /\ tx'[q].job = tx[q].job /\ tx'[q].seen = tx[q].seen
        /\ tx[q].phase = "begun" /\ ~ tx'[q].stale => tx[q].att # tx[p].att /\ ~ tx[q].stale
  BY TouchedFacts DEF CommitRow
<1>e. tx'[p] = r
  BY TouchedFacts DEF CommitRow
<1>1. TypeOK'
  <2>1. tx' \in [Procs -> TxType]
    BY TouchedFacts DEF CommitRow
  <2>2. state' \in [Attachments -> RowState]
    BY DEF CommitRow, TypeOK, RowState
  <2>3. runs' \in [Attachments -> Nat]
    BY <1>0 DEF TypeOK
  <2> QED BY <2>1, <2>2, <2>3 DEF TypeOK, TxType, JobType
<1>2. TxInv'
  <2> SUFFICES ASSUME NEW q \in Procs PROVE TxInv!(q)'
    BY DEF TxInv
  <2>1. CASE q = p
    BY <1>0, <1>b, <1>e, <2>1 DEF TxInv, Procs
  <2>2. CASE q # p
    <3>1. q \in Workers => tx[q].job # tx[p].job \/ p \in Users \/ tx[q].job = None
      BY <2>2 DEF OneWorkerPerJob, Procs
    <3>2. q \in Workers /\ tx[q].phase # "idle" => job'[tx[q].job] = job[tx[q].job]
      BY <3>1 DEF TxInv
    <3> QED BY <1>0, <1>b, <1>d, <2>2, <3>2 DEF TxInv
  <2> QED BY <2>1, <2>2
<1>3. SeenInv'
  <2> SUFFICES ASSUME NEW q \in Procs PROVE SeenInv!(q)'
    BY DEF SeenInv
  <2>1. CASE q = p
    BY <1>e, <2>1
  <2>2. CASE q # p
    <3>1. tx[q].phase \in {"locked", "ran"} => tx[q].att # tx[p].att
      BY <1>0, <2>2 DEF NoConcurrentRun, Holds
    <3> QED BY <1>b, <1>d, <2>2, <3>1 DEF SeenInv, TxInv
  <2> QED BY <2>1, <2>2
<1>4. OneWorkerPerJob'
  BY <1>d, <1>e DEF OneWorkerPerJob, Procs
<1>5. NoConcurrentRun'
  BY <1>d, <1>e DEF NoConcurrentRun, Holds
<1>6. JobInv'
  BY <1>b DEF JobInv
<1>7. CreditInv'
  BY <1>0, <1>b DEF CreditInv, TypeOK
<1> QED BY <1>1, <1>2, <1>3, <1>4, <1>5, <1>6, <1>7

LEMMA CommitStep ==
  ASSUME IInv, NEW p \in Procs, Commit(p)
  PROVE  IInv'
<1>1. p \in Workers => tx[p].job \in Jobs /\ job[tx[p].job].state = "started"
  BY DEF Commit, IInv, TxInv
<1>2. tx[p].seen # "done"
  BY DEF Commit, IInv, SeenInv
<1>3. job' \in [Jobs -> JobType]
  BY <1>1 DEF Commit, JobAs, IInv, TypeOK, JobType
<1>4. \A j \in Jobs : /\ job'[j].att = job[j].att
                      /\ job[j].state = "none" => job'[j].state = "none"
                      /\ (p \in Users \/ j # tx[p].job) => job'[j] = job[j]
  BY <1>1 DEF Commit, JobAs, IInv, TypeOK
<1>5. IdleTx \in TxType /\ IdleTx.phase = "idle" /\ IdleTx.job = None
  BY DEF IdleTx, TxType, RowState
<1> QED BY <1>2, <1>3, <1>4, <1>5, CommitRowStep DEF Commit

LEMMA JobFailStep ==
  ASSUME IInv, NEW w \in Workers, JobFail(w)
  PROVE  IInv'
<1>0. w \in Procs
  BY DEF Procs
<1>1. tx[w].job \in Jobs /\ job[tx[w].job].state = "started"
  BY <1>0 DEF JobFail, IInv, TxInv
<1>3. job' \in [Jobs -> JobType]
  BY <1>1 DEF JobFail, JobAs, IInv, TypeOK, JobType
<1>4. \A j \in Jobs : /\ job'[j].att = job[j].att
                      /\ job[j].state = "none" => job'[j].state = "none"
                      /\ (w \in Users \/ j # tx[w].job) => job'[j] = job[j]
  BY <1>1 DEF JobFail, JobAs, IInv, TypeOK
<1>5. IdleTx \in TxType /\ IdleTx.phase = "idle" /\ IdleTx.job = None
  BY DEF IdleTx, TxType, RowState
<1> QED BY <1>0, <1>3, <1>4, <1>5, CommitRowStep DEF JobFail, MustRun

LEMMA JobRetryableStep ==
  ASSUME IInv, NEW w \in Workers, JobRetryable(w)
  PROVE  IInv'
<1>0. w \in Procs
  BY DEF Procs
<1>1. job' \in [Jobs -> JobType]
  BY DEF JobRetryable, IInv, TypeOK, JobType
<1> DEFINE r == [tx[w] EXCEPT !.phase = "raised"]
<1>2. r \in TxType /\ r.phase = "raised" /\ r.job = tx[w].job /\ r.att = tx[w].att
  BY <1>0 DEF IInv, TypeOK, TxType
<1> QED BY <1>0, <1>1, <1>2, CommitRowStep DEF JobRetryable, MustRun

LEMMA RequeueDeadStep ==
  ASSUME IInv, NEW j \in Jobs, RequeueDead(j)
  PROVE  IInv'
<1> USE DEF RequeueDead, IInv
<1>1. TypeOK'
  BY DEF TypeOK
<1>2. TxInv'
  BY DEF TxInv, TypeOK
<1>3. SeenInv' /\ OneWorkerPerJob' /\ NoConcurrentRun' /\ CreditInv'
  BY DEF SeenInv, OneWorkerPerJob, NoConcurrentRun, Holds, CreditInv
<1>4. JobInv'
  BY DEF JobInv, TypeOK
<1> QED BY <1>1, <1>2, <1>3, <1>4

\* The steps that end a transaction without touching the row.
LEMMA FinishSteps ==
  ASSUME IInv, NEW p \in Procs,
         \/ LockBusy(p) \/ Skip(p)
         \/ p \in Workers /\ (JobFailMailError(p) \/ JobSerialize(p) \/ JobRaised(p))
  PROVE  IInv'
<1>0. faults \in Nat
  BY DEF IInv, TypeOK
<1>1. CASE LockBusy(p)
  BY <1>0, <1>1, FinishStep DEF LockBusy
<1>2. CASE Skip(p)
  BY <1>0, <1>2, FinishStep DEF Skip
<1>3. CASE JobFailMailError(p)
  BY <1>0, <1>3, FinishStep DEF JobFailMailError
<1>4. CASE JobSerialize(p)
  BY <1>0, <1>4, FinishStep DEF JobSerialize
<1>5. CASE JobRaised(p)
  BY <1>0, <1>5, FinishStep DEF JobRaised
<1> QED BY <1>1, <1>2, <1>3, <1>4, <1>5

LEMMA AbortSteps ==
  ASSUME IInv, NEW p \in Procs, (p \in Users /\ UserRunErr(p)) \/ (p \in Workers /\ Crash(p))
  PROVE  IInv'
<1>1. job' \in [Jobs -> JobType] /\ faults' \in Nat
  BY DEF UserRunErr, Crash, IInv, TypeOK, JobType
<1> QED BY <1>1, RollbackStep DEF UserRunErr, Crash

LEMMA NextIInv == IInv /\ [Next]_vars => IInv'
<1> SUFFICES ASSUME IInv, [Next]_vars PROVE IInv'
  OBVIOUS
<1>1. CASE UserEdit
  BY <1>1, CreateStep, RescheduleStep, SetDoneStep DEF UserEdit
<1>2. CASE \E w \in Workers, j \in Jobs : JobStart(w, j)
  BY <1>2, JobStartStep
<1>3. CASE \E u \in Users, a \in Attachments : UserBegin(u, a)
  BY <1>3, UserBeginStep
<1>4. ASSUME NEW p \in Procs, Proceed(p) PROVE IInv'
  BY <1>4, LockStep, FinishSteps, RunOkStep, CommitStep DEF Proceed
<1>5. ASSUME NEW w \in Workers, WorkerStep(w) \/ Crash(w) PROVE IInv'
  BY <1>4, <1>5, FinishSteps, JobFailStep, JobRetryableStep, AbortSteps DEF WorkerStep, Procs
<1>6. ASSUME NEW u \in Users, UserStep(u) PROVE IInv'
  <2>1. u \in Procs
    BY DEF Procs
  <2>2. CASE Proceed(u)
    BY <1>4, <2>1, <2>2
  <2>3. CASE UserRunErr(u)
    BY <2>1, <2>3, AbortSteps
  <2> QED BY <1>6, <2>2, <2>3 DEF UserStep
<1>7. CASE \E j \in Jobs : RequeueDead(j)
  BY <1>7, RequeueDeadStep
<1>8. CASE UNCHANGED vars
  BY <1>8 DEF vars, IInv, TypeOK, TxInv, SeenInv, OneWorkerPerJob, JobInv,
              NoConcurrentRun, CreditInv, Holds
<1> QED BY <1>1, <1>2, <1>3, <1>5, <1>6, <1>7, <1>8 DEF Next

\* The inductive invariant holds throughout.
THEOREM Invariance == Spec => []IInv
  BY InitIInv, NextIInv, PTL DEF Spec

\* No variable of the queue ever leaves its type.
THEOREM TypeCorrect == Spec => []TypeOK
<1>1. IInv => TypeOK
  BY DEF IInv
<1> QED BY <1>1, Invariance, PTL

\* A file is never processed more often than it was scheduled.
THEOREM OncePerSchedule == Spec => []AtMostOncePerSchedule
<1>1. IInv => AtMostOncePerSchedule
  BY DEF IInv, CreditInv, AtMostOncePerSchedule
<1> QED BY <1>1, Invariance, PTL

\* run() of one attachment is never in progress twice.
THEOREM MutualExclusion == Spec => []NoConcurrentRun
<1>1. IInv => NoConcurrentRun
  BY DEF IInv
<1> QED BY <1>1, Invariance, PTL

----------------------------------------------------------------------------
(* "We would not want a pending attachment with no related pending job" *)

\* A job survives a step that keeps it enqueued for the same row and lets no
\* worker raise out of it.
LEMMA PendingKept ==
  ASSUME PendingHasJob, NEW S \in SUBSET Attachments,
         \A a \in Attachments \ S : state'[a] = "pending" => state[a] = "pending",
         \A j \in Jobs : /\ LiveJob(j)
                         /\ job[j].att \notin S
                         /\ job[j].att \in Attachments => state'[job[j].att] = "pending"
                         => LiveJob(j)' /\ job'[j].att = job[j].att,
         \A a \in S : state'[a] = "pending" => \E j \in Jobs : job'[j].att = a /\ LiveJob(j)'
  PROVE  PendingHasJob'
  BY DEF PendingHasJob

LEMMA GrantKeepsJobs ==
  ASSUME IInv, PendingHasJob, NEW S \in SUBSET Attachments, NEW f \in Injection(S, Jobs),
         Create(S, f) \/ Reschedule(S, f)
  PROVE  PendingHasJob'
<1>0. /\ f \in [S -> Jobs] /\ \A a, b \in S : f[a] = f[b] => a = b
      /\ \A a \in S : job[f[a]].state = "none"
  BY DEF Injection, IsInjective, Create, Reschedule, ScheduleJobs
<1>1. \A a \in Attachments \ S : state'[a] = state[a]
  BY DEF Create, Reschedule, MakePending
<1>2. \A w \in Workers : tx'[w].phase = tx[w].phase /\ tx'[w].job = tx[w].job
  BY TouchedFacts DEF IInv, Create, Reschedule, Procs
<1>3. \A j \in Jobs : job[j].state # "none" => job'[j] = job[j]
  BY <1>0 DEF Create, Reschedule, ScheduleJobs
<1>4. \A j \in Jobs : LiveJob(j) => LiveJob(j)' /\ job'[j].att = job[j].att
  BY <1>2, <1>3 DEF LiveJob
<1>5. ASSUME NEW a \in S PROVE \E j \in Jobs : job'[j].att = a /\ LiveJob(j)'
  <2>1. job'[f[a]] = [state |-> "pending", att |-> a, retry |-> 0]
    <3>1. (CHOOSE b \in S : f[b] = f[a]) = a
      BY <1>0
    <3> QED BY <1>0, <3>1 DEF Create, Reschedule, ScheduleJobs
  <2>2. \A w \in Workers : tx[w].phase = "raised" => tx[w].job # f[a]
    BY <1>0 DEF IInv, TxInv, Procs
  <2> QED BY <1>0, <1>2, <2>1, <2>2 DEF LiveJob
<1> QED BY <1>1, <1>4, <1>5, PendingKept

\* A step that changes the job of one transaction only, to r, and ends that
\* transaction: r stays enqueued, or was raising, or its row is not pending.
LEMMA EndKeepsJobs ==
  ASSUME IInv, PendingHasJob, NEW p \in Procs, tx[p].phase # "idle",
         \A a \in Attachments : state'[a] = "pending" => state[a] = "pending",
         \A q \in Procs \ {p} : tx'[q].phase = tx[q].phase /\ tx'[q].job = tx[q].job,
         tx'[p].phase # "raised" \/ state'[tx[p].att] # "pending",
         \A j \in Jobs : p \in Users \/ j # tx[p].job => job'[j] = job[j],
         p \in Workers => \/ tx[p].phase = "raised"
                          \/ state'[tx[p].att] # "pending"
                          \/ tx[p].att \in Unmailable
                          \/ /\ job'[tx[p].job].att = tx[p].att
                             /\ job'[tx[p].job].state \in {"pending", "started"},
         tx'[p].job \in {tx[p].job, None}
  PROVE  PendingHasJob'
<1>1. ASSUME NEW j \in Jobs, LiveJob(j), job[j].att \in Attachments \ Unmailable,
             state'[job[j].att] = "pending"
      PROVE  LiveJob(j)' /\ job'[j].att = job[j].att
  <2>1. CASE p \in Workers /\ j = tx[p].job
    <3>1. job[j].att = tx[p].att /\ tx[p].phase # "raised"
      BY <1>1, <2>1 DEF IInv, TxInv, LiveJob, Procs
    <3>2. \A q \in Workers \ {p} : tx[q].job # j
      BY <2>1 DEF IInv, OneWorkerPerJob
    <3> QED BY <1>1, <2>1, <3>1, <3>2 DEF LiveJob, Procs
  <2>2. CASE ~ (p \in Workers /\ j = tx[p].job)
    <3>1. job'[j] = job[j]
      BY <2>2 DEF Procs
    <3> QED BY <1>1, <2>2, <3>1 DEF LiveJob, Procs
  <2> QED BY <2>1, <2>2
<1> QED BY <1>1 DEF PendingHasJob

LEMMA FinishKeepsJobs ==
  ASSUME IInv, PendingHasJob, NEW p \in Procs,
         \/ LockBusy(p) \/ Skip(p)
         \/ p \in Workers /\ (JobFailMailError(p) \/ JobSerialize(p) \/ JobRaised(p))
  PROVE  PendingHasJob'
<1>1. tx[p].phase # "idle" /\ UNCHANGED state
  BY DEF LockBusy, Skip, JobFailMailError, JobSerialize, JobRaised
<1>2. PICK r : Finish(p, r) /\ \/ tx[p].phase = "raised"
                               \/ state[tx[p].att] # "pending"
                               \/ tx[p].att \in Unmailable
                               \/ r \in {JobAs(p, "pending"), JobRetried(p, "pending")}
  BY DEF LockBusy, Skip, JobFailMailError, JobSerialize, JobRaised, MustRun, IInv, SeenInv
<1>3. \A q \in Procs \ {p} : tx'[q] = tx[q]
  BY <1>2 DEF Finish
<1>4. tx'[p].phase = "idle" /\ tx'[p].job = None
  BY <1>2 DEF Finish, IdleTx, IInv, TypeOK
<1>5. \A j \in Jobs : p \in Users \/ j # tx[p].job => job'[j] = job[j]
  BY <1>2 DEF Finish, IInv, TypeOK
<1>6. p \in Workers => /\ tx[p].job \in Jobs /\ job'[tx[p].job] = r
                       /\ job[tx[p].job].att = tx[p].att /\ job[tx[p].job] \in JobType
  BY <1>1, <1>2 DEF Finish, IInv, TypeOK, TxInv, JobType
<1>7. p \in Workers /\ r \in {JobAs(p, "pending"), JobRetried(p, "pending")} =>
         r.state = "pending" /\ r.att = tx[p].att
  <2> SUFFICES ASSUME p \in Workers
               PROVE /\ JobAs(p, "pending").state = "pending" /\ JobAs(p, "pending").att = tx[p].att
                     /\ JobRetried(p, "pending").state = "pending"
                     /\ JobRetried(p, "pending").att = tx[p].att
    OBVIOUS
  <2>1. JobAs(p, "pending") \in JobType /\ JobAs(p, "pending").state = "pending"
        /\ JobAs(p, "pending").att = tx[p].att
    BY <1>6 DEF JobAs, JobType
  <2> QED BY <2>1 DEF JobRetried, JobType
<1> QED BY <1>1, <1>2, <1>3, <1>4, <1>5, <1>6, <1>7, EndKeepsJobs

LEMMA CommitKeepsJobs ==
  ASSUME IInv, PendingHasJob, NEW p \in Procs,
         Commit(p) \/ (p \in Workers /\ (JobFail(p) \/ JobRetryable(p)))
  PROVE  PendingHasJob'
<1>1. tx[p].phase # "idle" /\ tx[p].att \in Attachments
  BY DEF Commit, JobFail, JobRetryable, IInv, TxInv
<1>2. PICK s \in {"done", "failed"}, r \in {IdleTx, [tx[p] EXCEPT !.phase = "raised"]} :
        CommitRow(p, s, r)
  BY DEF Commit, JobFail, JobRetryable
<1>3. state'[tx[p].att] # "pending" /\ \A a \in Attachments : state'[a] = "pending" => state[a] = "pending"
  BY <1>1, <1>2 DEF CommitRow, IInv, TypeOK
<1>4. \A q \in Procs \ {p} : tx'[q].phase = tx[q].phase /\ tx'[q].job = tx[q].job
  BY <1>2, TouchedFacts DEF CommitRow, IInv
<1>5. tx'[p].job \in {tx[p].job, None}
  <2>1. tx'[p] = r
    BY <1>2, TouchedFacts DEF CommitRow, IInv
  <2> QED BY <2>1 DEF IdleTx, IInv, TypeOK
<1>6. \A j \in Jobs : p \in Users \/ j # tx[p].job => job'[j] = job[j]
  BY DEF Commit, JobFail, JobRetryable, IInv, TypeOK
<1> QED BY <1>1, <1>3, <1>4, <1>5, <1>6, EndKeepsJobs

LEMMA NextKeepsJobs ==
  ASSUME IInv, PendingHasJob, [Next]_vars
  PROVE  PendingHasJob'
<1>1. CASE \E S \in (SUBSET Attachments) \ {{}} : \E f \in Injection(S, Jobs) :
                  Create(S, f) \/ Reschedule(S, f)
  BY <1>1, GrantKeepsJobs
<1>2. ASSUME NEW a \in Attachments, SetDone(a) PROVE PendingHasJob'
  <2>1. \A w \in Workers : tx'[w].phase = tx[w].phase /\ tx'[w].job = tx[w].job
    BY <1>2, TouchedFacts DEF SetDone, IInv, Procs
  <2>2. /\ job' = job
        /\ \A b \in Attachments : state'[b] = "pending" => state[b] = "pending"
    BY <1>2 DEF SetDone, IInv, TypeOK
  <2> QED BY <2>1, <2>2 DEF PendingHasJob, LiveJob
<1>3. ASSUME NEW w \in Workers, NEW j \in Jobs, JobStart(w, j) PROVE PendingHasJob'
  BY <1>3 DEF JobStart, BeginTx, PendingHasJob, LiveJob, IInv, TypeOK, Procs
<1>4. ASSUME NEW u \in Users, NEW a \in Attachments, UserBegin(u, a) PROVE PendingHasJob'
  BY <1>4 DEF UserBegin, BeginTx, PendingHasJob, LiveJob, Procs, IInv, TypeOK
<1>5. ASSUME NEW p \in Procs, Lock(p) \/ RunOk(p) PROVE PendingHasJob'
  BY <1>5 DEF Lock, RunOk, PendingHasJob, LiveJob, Procs, IInv, TypeOK
<1>6. ASSUME NEW p \in Procs, (p \in Users /\ UserRunErr(p)) \/ (p \in Workers /\ Crash(p))
      PROVE PendingHasJob'
  <2>1. tx' = [tx EXCEPT ![p] = IdleTx] /\ UNCHANGED <<state, job>>
    BY <1>6 DEF UserRunErr, Crash
  <2>2. \A w \in Workers : tx'[w].phase = "raised" => tx[w].phase = "raised" /\ tx'[w].job = tx[w].job
    BY <2>1 DEF IdleTx, Procs, IInv, TypeOK
  <2> QED BY <2>1, <2>2 DEF PendingHasJob, LiveJob
<1>7. ASSUME NEW j \in Jobs, RequeueDead(j) PROVE PendingHasJob'
  BY <1>7 DEF RequeueDead, PendingHasJob, LiveJob, IInv, TypeOK
<1>8. CASE UNCHANGED vars
  BY <1>8 DEF vars, PendingHasJob, LiveJob
<1>9. ASSUME NEW p \in Procs, Proceed(p) PROVE PendingHasJob'
  <2>1. CASE Lock(p) \/ RunOk(p)
    BY <1>5, <2>1
  <2>2. CASE LockBusy(p) \/ Skip(p)
    BY <2>2, FinishKeepsJobs
  <2>3. CASE Commit(p)
    BY <2>3, CommitKeepsJobs
  <2> QED BY <1>9, <2>1, <2>2, <2>3 DEF Proceed
<1>10. ASSUME NEW w \in Workers, WorkerStep(w) PROVE PendingHasJob'
  <2>1. w \in Procs
    BY DEF Procs
  <2> QED BY <1>9, <1>10, <2>1, FinishKeepsJobs, CommitKeepsJobs DEF WorkerStep
<1>11. ASSUME NEW u \in Users, UserStep(u) PROVE PendingHasJob'
  <2>1. u \in Procs
    BY DEF Procs
  <2>2. CASE Proceed(u)
    BY <1>9, <2>1, <2>2
  <2>3. CASE UserRunErr(u)
    BY <1>6, <2>1, <2>3
  <2> QED BY <1>11, <2>2, <2>3 DEF UserStep
<1>12. ASSUME NEW w \in Workers, Crash(w) PROVE PendingHasJob'
  <2>1. w \in Procs
    BY DEF Procs
  <2> QED BY <1>6, <1>12, <2>1
<1>13. CASE Next
  BY <1>1, <1>2, <1>3, <1>4, <1>7, <1>10, <1>11, <1>12, <1>13 DEF Next, UserEdit
<1> QED BY <1>8, <1>13

\* A pending attachment whose failure mails can be sent always has a job that
\* is going to attempt it.
THEOREM PendingAlwaysHasJob == Spec => []PendingHasJob
<1>1. Init => PendingHasJob
  BY DEF Init, PendingHasJob
<1>2. IInv /\ PendingHasJob /\ [Next]_vars => PendingHasJob'
  BY NextKeepsJobs
<1> QED BY <1>1, <1>2, Invariance, PTL DEF Spec

----------------------------------------------------------------------------
(* Refinement of the atomic lifecycle *)

\* Locks, snapshots, jobs, retries and crashes are invisible in the committed
\* row: the queue implements AttachmentLifecycle.
THEOREM LifecycleRefined == Spec => ImplementsLifecycle
<1>1. Init => Lifecycle!Init
  BY DEF Init, Lifecycle!Init
<1>2. ASSUME IInv, [Next]_vars PROVE [Lifecycle!Next]_(Lifecycle!vars)
  <2> USE DEF Lifecycle!vars
  <2>1. ASSUME NEW S \in (SUBSET Attachments) \ {{}}, NEW f \in Injection(S, Jobs), Create(S, f)
        PROVE  Lifecycle!Next
    <3>1. Lifecycle!Create(S)
      <4>1. S # {} /\ S \subseteq Attachments
        OBVIOUS
      <4> QED BY <2>1, <4>1 DEF Create, MakePending, ScheduleJobs, Lifecycle!Create, Lifecycle!Grant
    <3> QED BY <3>1 DEF Lifecycle!Next
  <2>2. ASSUME NEW S \in (SUBSET Attachments) \ {{}}, NEW f \in Injection(S, Jobs), Reschedule(S, f)
        PROVE  Lifecycle!Next
    <3>1. Lifecycle!Reschedule(S)
      <4>1. S # {} /\ S \subseteq Attachments
        OBVIOUS
      <4> QED BY <2>2, <4>1 DEF Reschedule, MakePending, ScheduleJobs, Lifecycle!Reschedule, Lifecycle!Grant
    <3> QED BY <3>1 DEF Lifecycle!Next
  <2>3. ASSUME NEW a \in Attachments, SetDone(a) PROVE Lifecycle!Next
    BY <2>3 DEF SetDone, Lifecycle!Next, Lifecycle!SetDone
  <2>4. ASSUME NEW p \in Procs, tx[p].phase \in {"locked", "ran"}, tx[p].seen # "done"
        PROVE  tx[p].att \in Attachments /\ state[tx[p].att] \in {"pending", "failed"}
    BY <1>2, <2>4 DEF IInv, TypeOK, TxInv, SeenInv, RowState
  <2>5. ASSUME NEW p \in Procs, Commit(p) PROVE Lifecycle!Next
    <3>1. tx[p].seen # "done"
      BY <1>2, <2>5 DEF Commit, IInv, SeenInv
    <3> QED BY <2>4, <2>5, <3>1 DEF Commit, CommitRow, Lifecycle!Next, Lifecycle!Run
  <2>6. ASSUME NEW w \in Workers, JobFail(w) \/ JobRetryable(w) PROVE Lifecycle!Next
    BY <2>4, <2>6 DEF JobFail, JobRetryable, MustRun, CommitRow, Procs, Lifecycle!Next, Lifecycle!Fail
  <2>7. ASSUME NEW p \in Procs, \/ Lock(p) \/ LockBusy(p) \/ Skip(p) \/ RunOk(p) \/ Crash(p)
                                \/ JobFailMailError(p) \/ JobSerialize(p) \/ JobRaised(p)
                                \/ UserRunErr(p)
        PROVE  UNCHANGED <<state, sched, runs>>
    BY <2>7 DEF Lock, LockBusy, Skip, RunOk, Crash, JobFailMailError, JobSerialize, JobRaised,
                UserRunErr
  <2>8. ASSUME \/ \E w \in Workers, j \in Jobs : JobStart(w, j)
               \/ \E u \in Users, a \in Attachments : UserBegin(u, a)
               \/ \E j \in Jobs : RequeueDead(j)
               \/ UNCHANGED vars
        PROVE  UNCHANGED <<state, sched, runs>>
    BY <2>8 DEF JobStart, UserBegin, RequeueDead, vars
  <2>9. CASE UserEdit
    BY <2>1, <2>2, <2>3, <2>9 DEF UserEdit
  <2>10. CASE \E w \in Workers : WorkerStep(w) \/ Crash(w)
    BY <2>5, <2>6, <2>7, <2>10 DEF WorkerStep, Proceed, Procs
  <2>11. CASE \E u \in Users : UserStep(u)
    BY <2>5, <2>7, <2>11 DEF UserStep, Proceed, Procs
  <2> QED BY <1>2, <2>8, <2>9, <2>10, <2>11 DEF Next
<1> QED BY <1>1, <1>2, Invariance, PTL DEF Spec, ImplementsLifecycle, Lifecycle!Spec

----------------------------------------------------------------------------
(* AttachmentImport: a pass that has taken a file away holds its only copy    *)
(* until it commits.                                                          *)

\* The names that a pass has listed are files of its task, and it has read a version that
\* was deposited.
PassTrue(t) ==
  /\ t.phase # "idle" => t.tasks # << >>
  /\ t.phase \in {"files", "created", "managed"} =>
       \A n \in t.todo : <<Head(t.tasks), n>> \in Files
  /\ t.phase \in {"created", "managed"} =>
       t.name \in t.todo /\ t.version \in 1 .. arrived[<<Head(t.tasks), t.name>>]

\* Of what is not deleted, the server or the archive has every version.
StillThere ==
  \A f \in Files : \A v \in 1 .. arrived[f] :
    AfterImport[f[1]] # "delete" => remote[f] = v \/ Version(f, v) \in archived

\* The pass p has taken f away.
Took(p, f) == pass[p].phase = "managed" /\ Current(p) = f

\* One pass takes a file away, which is imported once, when it is gone for good.
TakenOnce ==
  \A f \in Files : AfterImport[f[1]] \in {"move", "delete"} =>
    /\ rows[Version(f, 1)] <= 1
    /\ rows[Version(f, 1)] = 1 => remote[f] = 0 /\ arrived[f] = 1
    /\ \A p \in Passes : Took(p, f) =>
         remote[f] = 0 /\ arrived[f] = 1 /\ rows[Version(f, 1)] = 0
    /\ \A p, q \in Passes : Took(p, f) /\ Took(q, f) => p = q

FilesInv ==
  /\ ImportTypeOK /\ (\A p \in Passes : PassTrue(pass[p])) /\ StillThere
  /\ DepositedOnce({"delete"}) => NoFileLost
  /\ DepositedOnce({"move", "delete"}) => TakenOnce

\* A pass may have no tasks.
LEMMA NoTasks == << >> \in Seq(Tasks)
OBVIOUS

\* A process that has no pass.
LEMMA IdleFits == IdlePass \in PassType /\ PassTrue(IdlePass) /\ IdlePass.phase = "idle"
BY NoTasks DEF IdlePass, PassType, PassTrue

\* A pass that begins, or goes on after an exception, with some tasks.
LEMMA FreshPass ==
  ASSUME NEW ts \in Seq(Tasks), ts # << >>, NEW names \in SUBSET Names
  PROVE  LET t == [IdlePass EXCEPT !.phase = "task", !.tasks = ts, !.known = names]
         IN  t \in PassType /\ PassTrue(t) /\ t.phase = "task"
BY IdleFits DEF PassType, PassTrue

\* The tasks that are left.
LEMMA TasksLeft ==
  ASSUME NEW s \in Seq(Tasks), Len(s) > 1
  PROVE  Tail(s) \in Seq(Tasks) /\ Tail(s) # << >>
<1>1. \A u \in Seq(Tasks) : Len(u) # 0 => u # << >>
  OBVIOUS
<1>2. Tail(s) \in Seq(Tasks) /\ Len(Tail(s)) = Len(s) - 1 /\ Len(s) \in Nat
  BY <1>1
<1>3. Len(Tail(s)) # 0
  BY <1>2
<1> QED BY <1>1, <1>2, <1>3, Zenon

\* Nothing was deposited yet.
LEMMA FilesInit == ImportInit => FilesInv
<1> SUFFICES ASSUME ImportInit PROVE FilesInv
  OBVIOUS
<1> USE DEF ImportInit
<1>1. IdlePass \in PassType /\ IdlePass.phase = "idle" /\ PassTrue(IdlePass)
  BY IdleFits
<1>2. ImportTypeOK
  BY <1>1, ImportAssumption DEF ImportTypeOK
<1>3. \A p \in Passes : PassTrue(pass[p])
  BY <1>1 DEF PassTrue
<1>4. StillThere /\ NoFileLost
  BY DEF StillThere, NoFileLost
<1>5. \A f \in Files : MaxDeposits[f] = 1 => Version(f, 1) \in Versions
  BY DEF Versions
<1>6. DepositedOnce({"move", "delete"}) => TakenOnce
  BY <1>1, <1>5 DEF DepositedOnce, TakenOnce, Took
<1> QED BY <1>2, <1>3, <1>4, <1>6 DEF FilesInv

\* The versions of a file are told apart by their numbers, and have the task and name of it.
LEMMA VersionsApart ==
  /\ \A f, g \in Files : \A v, w : Version(f, v) = Version(g, w) => f = g /\ v = w
  /\ \A f \in Files : \A v \in 1 .. MaxDeposits[f] : Version(f, v) \in Versions
  /\ \A u \in Versions : \E f \in Files : u[1] = f[1] /\ u[2] = f[2] /\
       \E v \in 1 .. MaxDeposits[f] : u = Version(f, v)
<1>1. \A f, g \in Files : \A v, w : Version(f, v) = Version(g, w) => f = g /\ v = w
  BY ImportAssumption DEF Version
<1>2. \A f \in Files : \A v \in 1 .. MaxDeposits[f] : Version(f, v) \in Versions
  BY DEF Versions
<1>3. ASSUME NEW u \in Versions
      PROVE  \E f \in Files : u[1] = f[1] /\ u[2] = f[2] /\
               \E v \in 1 .. MaxDeposits[f] : u = Version(f, v)
  <2>1. PICK f \in Files : u \in {Version(f, v) : v \in 1 .. MaxDeposits[f]}
    BY DEF Versions
  <2> QED BY <2>1 DEF Version
<1> QED BY <1>1, <1>2, <1>3

\* The names of the attachments are names of files.
LEMMA NamesKnown == ImportedNames \subseteq Names
BY VersionsApart DEF ImportedNames, Names

\* A step of a pass that takes nothing away and commits nothing: if it gives up what it
\* took, a fault is counted.
LEMMA PassGoesOn ==
  ASSUME FilesInv, NEW p \in Passes, NEW t \in PassType,
         pass' = [pass EXCEPT ![p] = t],
         UNCHANGED <<remote, arrived, archived, rows>>, importFaults' \in importFaults .. MaxImportFaults,
         PassTrue(t), t.phase = "managed" => AfterImport[Head(t.tasks)] \in {"none", "rename"},
         pass[p].phase = "managed" => importFaults' > 0
  PROVE  FilesInv'
<1> USE DEF FilesInv
<1>1. ImportTypeOK'
  BY DEF ImportTypeOK, PassTrue
<1>2. \A q \in Passes : pass'[q] = IF q = p THEN t ELSE pass[q]
  BY DEF ImportTypeOK
<1>3. (\A q \in Passes : PassTrue(pass[q]))'
  BY <1>2 DEF PassTrue
<1>4. StillThere'
  BY DEF StillThere
<1>5. ASSUME DepositedOnce({"delete"}) PROVE NoFileLost'
  <2> SUFFICES ASSUME NEW f \in Files, NEW v \in 1 .. arrived[f]
               PROVE  Kept(f, v)' \/ (AfterImport[f[1]] = "delete" /\ importFaults' > 0)
    BY DEF NoFileLost
  <2>1. Kept(f, v) \/ (AfterImport[f[1]] = "delete" /\ importFaults > 0)
    BY <1>5 DEF NoFileLost
  <2>2. AfterImport[f[1]] # "delete" => Kept(f, v)'
    BY DEF StillThere, Kept
  <2>3. CASE Kept(f, v) /\ pass[p].phase # "managed"
    BY <1>2, <2>3 DEF Kept, Current, Task
  <2> QED BY <2>1, <2>2, <2>3 DEF ImportTypeOK
<1>6. ASSUME DepositedOnce({"move", "delete"}) PROVE TakenOnce'
  <2>1. \A f \in Files, q \in Passes :
          AfterImport[f[1]] \in {"move", "delete"} /\ Took(q, f)' => Took(q, f)
    BY <1>2 DEF Took, Current, Task
  <2> QED BY <1>6, <2>1 DEF TakenOnce
<1> QED BY <1>1, <1>3, <1>4, <1>5, <1>6 DEF DepositedOnce

\* An exception ends a pass, or goes on with the next task of the scheduler.
LEMMA PassAborts ==
  ASSUME FilesInv, NEW p \in Passes, Abort(p),
         UNCHANGED <<remote, arrived, archived, rows>>, importFaults' \in importFaults .. MaxImportFaults,
         pass[p].phase = "managed" => importFaults' > 0
  PROVE  FilesInv'
<1> DEFINE t == IF p \in CronPasses /\ Len(pass[p].tasks) > 1
                THEN [IdlePass EXCEPT !.phase = "task", !.tasks = Tail(pass[p].tasks),
                                      !.known = ImportedNames]
                ELSE IdlePass
<1>1. pass[p] \in PassType
  BY DEF FilesInv, ImportTypeOK
<1>2. t \in PassType /\ t.phase # "managed" /\ PassTrue(t)
  <2>1. CASE p \in CronPasses /\ Len(pass[p].tasks) > 1
    <3>1. pass[p].tasks \in Seq(Tasks)
      BY <1>1 DEF PassType
    <3>2. Tail(pass[p].tasks) \in Seq(Tasks) /\ Tail(pass[p].tasks) # << >>
      BY <2>1, <3>1, TasksLeft
    <3> QED BY <2>1, <3>2, NamesKnown, FreshPass
  <2>2. CASE ~ (p \in CronPasses /\ Len(pass[p].tasks) > 1)
    BY <2>2, IdleFits
  <2> QED BY <2>1, <2>2
<1>3. pass' = [pass EXCEPT ![p] = t]
  BY DEF Abort
<1> HIDE DEF t
<1> QED BY <1>2, <1>3, PassGoesOn

\* The steps of a pass that change nothing else.
LEMMA PassMoves ==
  ASSUME FilesInv, NEW p \in Passes,
         \/ List(p) \/ Leave(p) \/ NextTask(p)
         \/ \E n \in Names : Read(p, n)
         \/ \E ts \in Seq(Tasks) : Start(p, ts)
  PROVE  FilesInv'
<1>1. /\ pass[p] \in PassType /\ PassTrue(pass[p]) /\ importFaults \in importFaults .. MaxImportFaults
      /\ pass[p].tasks \in Seq(Tasks) /\ pass[p].todo \subseteq Names
  <2>1. pass[p] \in PassType /\ PassTrue(pass[p]) /\ importFaults \in 0 .. MaxImportFaults
    BY DEF FilesInv, ImportTypeOK
  <2>2. pass[p].tasks \in Seq(Tasks) /\ pass[p].todo \subseteq Names
    BY <2>1 DEF PassType
  <2>3. importFaults \in importFaults .. MaxImportFaults
    BY <2>1, ImportAssumption
  <2> QED BY <2>1, <2>2, <2>3
<1>2. CASE List(p)
  <2> DEFINE t == [pass[p] EXCEPT !.phase = "files", !.todo = FilterDuplicates(p, Listing(Task(p)))]
  <2>1. \A n \in FilterDuplicates(p, Listing(Task(p))) : <<Task(p), n>> \in Files
    BY ImportAssumption DEF FilterDuplicates, Listing
  <2>2. FilterDuplicates(p, Listing(Task(p))) \subseteq Names
    BY DEF FilterDuplicates, Listing, Names
  <2>3. t \in PassType /\ PassTrue(t) /\ t.phase = "files" /\ pass[p].phase = "task"
    BY <1>1, <1>2, <2>1, <2>2 DEF List, PassType, PassTrue, Task
  <2>4. pass' = [pass EXCEPT ![p] = t] /\ UNCHANGED <<remote, arrived, archived, rows, importFaults>>
    BY <1>2 DEF List
  <2> HIDE DEF t
  <2> QED BY <1>1, <2>3, <2>4, PassGoesOn
<1>3. CASE Leave(p)
  <2> DEFINE t == [pass[p] EXCEPT !.phase = "managed"]
  <2>1. /\ t \in PassType /\ PassTrue(t) /\ pass[p].phase = "created"
        /\ AfterImport[Head(t.tasks)] \in {"none", "rename"}
    BY <1>1, <1>3 DEF Leave, PassType, PassTrue, Task
  <2>2. pass' = [pass EXCEPT ![p] = t] /\ UNCHANGED <<remote, arrived, archived, rows, importFaults>>
    BY <1>3 DEF Leave
  <2> HIDE DEF t
  <2> QED BY <1>1, <2>1, <2>2, PassGoesOn
<1>4. CASE NextTask(p)
  <2>1. pass[p].phase = "files" /\ UNCHANGED <<remote, arrived, archived, rows, importFaults>>
    BY <1>4 DEF NextTask
  <2>2. CASE Len(pass[p].tasks) > 1
    <3> DEFINE t == [pass[p] EXCEPT !.phase = "task", !.tasks = Tail(pass[p].tasks)]
    <3>1. Tail(pass[p].tasks) \in Seq(Tasks) /\ Tail(pass[p].tasks) # << >>
      BY <1>1, <2>2, TasksLeft
    <3>2. t \in PassType /\ PassTrue(t) /\ t.phase = "task"
      BY <1>1, <3>1 DEF PassType, PassTrue
    <3>3. pass' = [pass EXCEPT ![p] = t]
      BY <1>4, <2>2 DEF NextTask
    <3> HIDE DEF t
    <3> QED BY <1>1, <2>1, <3>2, <3>3, PassGoesOn
  <2>3. CASE ~ (Len(pass[p].tasks) > 1)
    <3>1. pass' = [pass EXCEPT ![p] = IdlePass]
      BY <1>4, <2>3 DEF NextTask
    <3> QED BY <1>1, <2>1, <3>1, IdleFits, PassGoesOn
  <2> QED BY <2>2, <2>3
<1>5. ASSUME NEW n \in Names, Read(p, n) PROVE FilesInv'
  <2> DEFINE t == [pass[p] EXCEPT !.phase = "created", !.name = n,
                                  !.version = remote[<<Task(p), n>>]]
  <2>1. /\ <<Task(p), n>> \in Files /\ n \in pass[p].todo /\ pass[p].phase = "files"
        /\ remote[<<Task(p), n>>] > 0
    BY <1>1, <1>5 DEF Read, PassTrue, Task
  <2>2. remote[<<Task(p), n>>] \in 1 .. arrived[<<Task(p), n>>] /\ remote[<<Task(p), n>>] \in Nat
    BY <2>1 DEF FilesInv, ImportTypeOK
  <2>3. t \in PassType /\ PassTrue(t) /\ t.phase = "created"
    BY <1>1, <2>1, <2>2 DEF PassType, PassTrue, Task
  <2>4. pass' = [pass EXCEPT ![p] = t] /\ UNCHANGED <<remote, arrived, archived, rows, importFaults>>
    BY <1>5 DEF Read
  <2> HIDE DEF t
  <2> QED BY <1>1, <2>1, <2>3, <2>4, PassGoesOn
<1>6. ASSUME NEW ts \in Seq(Tasks), Start(p, ts) PROVE FilesInv'
  <2> DEFINE t == [IdlePass EXCEPT !.phase = "task", !.tasks = ts, !.known = ImportedNames]
  <2>1. t \in PassType /\ PassTrue(t) /\ t.phase = "task"
    BY <1>6, NamesKnown, FreshPass DEF Start
  <2>2. pass' = [pass EXCEPT ![p] = t] /\ UNCHANGED <<remote, arrived, archived, rows, importFaults>>
    BY <1>6 DEF Start
  <2>3. pass[p].phase = "idle"
    BY <1>6 DEF Start
  <2> HIDE DEF t
  <2> QED BY <1>1, <2>1, <2>2, <2>3, PassGoesOn
<1> QED BY <1>2, <1>3, <1>4, <1>5, <1>6

\* A pass that has read a file, or taken it away, knows a version of a file of its task.
LEMMA InHand ==
  ASSUME FilesInv, NEW p \in Passes, pass[p].phase \in {"created", "managed"}
  PROVE  /\ Current(p) \in Files /\ Current(p)[1] = Task(p)
         /\ pass[p].version \in 1 .. arrived[Current(p)]
         /\ arrived[Current(p)] \in Nat /\ arrived[Current(p)] <= MaxDeposits[Current(p)]
         /\ MaxDeposits[Current(p)] \in Nat
<1>1. PassTrue(pass[p]) /\ Current(p) = <<Task(p), pass[p].name>>
  BY DEF FilesInv, Current
<1>2. Current(p) \in Files /\ pass[p].version \in 1 .. arrived[Current(p)]
  BY <1>1 DEF PassTrue, Task
<1> QED BY <1>1, <1>2, ImportAssumption DEF FilesInv, ImportTypeOK

\* The file is taken away: it is in the archive, or in the hands of the pass.
LEMMA FileTaken == ASSUME FilesInv, NEW p \in Passes, TakeAway(p) PROVE FilesInv'
<1> DEFINE f == Current(p)
           w == remote[f]
           t == [pass[p] EXCEPT !.phase = "managed"]
<1>1. /\ pass[p] \in PassType /\ PassTrue(pass[p]) /\ ImportTypeOK /\ StillThere
      /\ pass[p].phase = "created" /\ AfterImport[Task(p)] # "none" /\ w > 0
      /\ remote' = [remote EXCEPT ![f] = 0] /\ pass' = [pass EXCEPT ![p] = t]
      /\ archived' = IF AfterImport[Task(p)] = "delete" THEN archived
                     ELSE archived \cup {Version(f, w)}
      /\ UNCHANGED <<arrived, rows, importFaults>>
  BY DEF FilesInv, ImportTypeOK, TakeAway
<1>2. /\ f \in Files /\ f[1] = Task(p) /\ pass[p].version \in 1 .. arrived[f]
      /\ arrived[f] \in Nat /\ arrived[f] <= MaxDeposits[f] /\ MaxDeposits[f] \in Nat
  BY <1>1, InHand
<1>3. /\ t \in PassType /\ PassTrue(t) /\ t.phase = "managed"
      /\ t.tasks = pass[p].tasks /\ t.name = pass[p].name /\ t.version = pass[p].version
      /\ t.tasks # << >> /\ t.name \in t.todo
  BY <1>1 DEF PassType, PassTrue
<1>4. w \in 1 .. arrived[f]
  BY <1>1, <1>2 DEF ImportTypeOK
<1> HIDE DEF t, f
<1>5. \A q \in Passes : pass'[q] = IF q = p THEN t ELSE pass[q]
  BY <1>1 DEF ImportTypeOK
<1>6. ImportTypeOK'
  <2>1. remote' \in [Files -> Nat] /\ \A g \in Files : remote'[g] <= arrived[g]
    BY <1>1, <1>2 DEF ImportTypeOK
  <2>2. Version(f, w) \in Versions
    BY <1>2, <1>4, VersionsApart
  <2>3. archived' \subseteq Versions
    BY <1>1, <2>2 DEF ImportTypeOK
  <2> QED BY <1>1, <1>3, <1>5, <2>1, <2>3 DEF ImportTypeOK
<1>7. (\A q \in Passes : PassTrue(pass[q]))'
  BY <1>1, <1>3, <1>5 DEF PassTrue, FilesInv
<1>8. StillThere'
  BY <1>1, <1>2 DEF StillThere, ImportTypeOK
<1>9. ASSUME DepositedOnce({"delete"}) PROVE NoFileLost'
  <2> SUFFICES ASSUME NEW g \in Files, NEW v \in 1 .. arrived[g],
                      ~ (AfterImport[g[1]] = "delete" /\ importFaults > 0)
               PROVE  Kept(g, v)'
    BY <1>1 DEF NoFileLost
  <2>1. Kept(g, v)
    BY <1>9 DEF FilesInv, NoFileLost
  <2>2. CASE AfterImport[g[1]] # "delete"
    BY <1>8, <1>1, <2>2 DEF StillThere, Kept
  <2>3. CASE AfterImport[g[1]] = "delete" /\ g = f
    <3>1. v = 1 /\ pass[p].version = 1
      BY <1>2, <1>9, <2>3 DEF DepositedOnce
    <3>2. pass'[p].phase = "managed" /\ Current(p)' = g /\ pass'[p].version = v
      BY <1>3, <1>5, <2>3, <3>1 DEF Current, Task, f
    <3> QED BY <3>2 DEF Kept
  <2>4. CASE g # f
    <3>1. remote'[g] = remote[g] /\ archived \subseteq archived' /\ rows' = rows
      BY <1>1, <2>4 DEF ImportTypeOK
    <3>2. \A q \in Passes : pass[q].phase = "managed" => pass'[q] = pass[q]
      BY <1>1, <1>5
    <3> QED BY <2>1, <3>1, <3>2 DEF Kept, Current, Task
  <2> QED BY <2>2, <2>3, <2>4
<1>10. ASSUME DepositedOnce({"move", "delete"}) PROVE TakenOnce'
  <2>1. TakenOnce
    BY <1>10 DEF FilesInv
  <2> SUFFICES ASSUME NEW g \in Files, AfterImport[g[1]] \in {"move", "delete"}
               PROVE  /\ rows[Version(g, 1)] <= 1
                      /\ rows[Version(g, 1)] = 1 => remote'[g] = 0 /\ arrived[g] = 1
                      /\ \A q \in Passes : Took(q, g)' =>
                           remote'[g] = 0 /\ arrived[g] = 1 /\ rows[Version(g, 1)] = 0
                      /\ \A q, r \in Passes : Took(q, g)' /\ Took(r, g)' => q = r
    BY <1>1 DEF TakenOnce
  <2>2. \A q \in Passes : Took(q, g)' => Took(q, g) \/ (q = p /\ g = f)
    BY <1>3, <1>5 DEF Took, Current, Task, f
  <2>3. CASE g # f
    BY <1>1, <2>1, <2>2, <2>3 DEF TakenOnce, ImportTypeOK
  <2>4. CASE g = f
    <3>1. arrived[f] = 1 /\ Version(f, 1) \in Versions
      BY <1>2, <1>10, <2>4, VersionsApart DEF DepositedOnce
    <3>2. rows[Version(f, 1)] = 0 /\ \A q \in Passes : ~ Took(q, f)
      BY <1>1, <2>1, <2>4, <3>1 DEF TakenOnce, ImportTypeOK
    <3>3. remote'[f] = 0
      BY <1>1, <1>2 DEF ImportTypeOK
    <3> QED BY <2>2, <2>4, <3>1, <3>2, <3>3
  <2> QED BY <2>3, <2>4
<1> QED BY <1>6, <1>7, <1>8, <1>9, <1>10 DEF FilesInv, DepositedOnce

\* A commit: the pass is done with the name, and the passes that run take note of it.
LEMMA CommitNoted ==
  ASSUME FilesInv, NEW p \in Passes, CommitFile(p)
  PROVE  /\ pass' \in [Passes -> PassType]
         /\ \A q \in Passes :
              /\ pass'[q].tasks = pass[q].tasks /\ pass'[q].known = pass[q].known
              /\ pass'[q].since = IF pass[q].phase = "idle" THEN pass[q].since
                                  ELSE pass[q].since \cup {<<p, Task(p), pass[p].name>>}
              /\ q # p => /\ pass'[q].phase = pass[q].phase /\ pass'[q].todo = pass[q].todo
                          /\ pass'[q].name = pass[q].name /\ pass'[q].version = pass[q].version
         /\ pass[p].phase = "managed" /\ pass'[p].phase = "files" /\ pass'[p].name = NoName
         /\ pass'[p].todo = pass[p].todo \ {pass[p].name}
<1> DEFINE i == <<p, Task(p), pass[p].name>>
           noted(q) == [pass[q] EXCEPT !.since = @ \cup {i}]
           t == [Noted(p)[p] EXCEPT !.phase = "files", !.todo = Noted(p)[p].todo \ {pass[p].name},
                                    !.name = NoName, !.version = 0]
<1>1. /\ pass \in [Passes -> PassType] /\ pass[p] \in PassType /\ PassTrue(pass[p])
      /\ pass[p].phase = "managed" /\ Task(p) = Head(pass[p].tasks)
  BY DEF FilesInv, ImportTypeOK, CommitFile, Task
<1>2. <<Task(p), pass[p].name>> \in Files /\ pass[p].tasks # << >> /\ pass[p].tasks \in Seq(Tasks)
  BY <1>1 DEF PassTrue, FilesInv, ImportTypeOK, PassType
<1>3. i \in Passes \X Tasks \X Names
  <2>1. Task(p) \in Tasks
    BY <1>1, <1>2
  <2>2. pass[p].name \in Names
    BY <1>2 DEF Names
  <2> QED BY <2>1, <2>2
<1> HIDE DEF i
<1>4. ASSUME NEW q \in Passes
      PROVE  /\ noted(q) \in PassType /\ noted(q).since = pass[q].since \cup {i}
             /\ noted(q).tasks = pass[q].tasks /\ noted(q).known = pass[q].known
             /\ noted(q).phase = pass[q].phase /\ noted(q).todo = pass[q].todo
             /\ noted(q).name = pass[q].name /\ noted(q).version = pass[q].version
  BY <1>1, <1>3 DEF PassType
<1>5. Noted(p)[p] = noted(p) /\ Noted(p) = [q \in Passes |-> IF pass[q].phase = "idle" THEN pass[q]
                                                         ELSE noted(q)]
  BY <1>1 DEF Noted, i
<1>6. pass' = [Noted(p) EXCEPT ![p] = t]
  BY Zenon DEF CommitFile
<1> HIDE DEF noted
<1>7. /\ t \in PassType /\ t.since = noted(p).since /\ t.tasks = noted(p).tasks
      /\ t.known = noted(p).known /\ t.phase = "files" /\ t.name = NoName
      /\ t.todo = noted(p).todo \ {pass[p].name}
  BY <1>4, <1>5 DEF PassType
<1> HIDE DEF t
<1>8. \A q \in Passes : pass'[q] = IF q = p THEN t ELSE IF pass[q].phase = "idle" THEN pass[q]
                                                       ELSE noted(q)
  BY <1>5, <1>6
<1>9. pass' \in [Passes -> PassType]
  <2>1. pass' = [q \in Passes |-> pass'[q]]
    BY <1>5, <1>6
  <2> QED BY <1>1, <1>4, <1>7, <1>8, <2>1
<1>10. ASSUME NEW q \in Passes
       PROVE  /\ pass'[q].tasks = pass[q].tasks /\ pass'[q].known = pass[q].known
              /\ pass'[q].since = IF pass[q].phase = "idle" THEN pass[q].since
                                  ELSE pass[q].since \cup {i}
              /\ q # p => /\ pass'[q].phase = pass[q].phase /\ pass'[q].todo = pass[q].todo
                          /\ pass'[q].name = pass[q].name /\ pass'[q].version = pass[q].version
  <2>1. CASE q = p
    BY <1>1, <1>4, <1>7, <1>8, <2>1
  <2>2. CASE q # p
    BY <1>4, <1>8, <2>2
  <2> QED BY <2>1, <2>2
<1>11. pass'[p].phase = "files" /\ pass'[p].name = NoName /\ pass'[p].todo = pass[p].todo \ {pass[p].name}
  BY <1>4, <1>7, <1>8
<1> QED BY <1>1, <1>9, <1>10, <1>11 DEF i

\* The row is committed: the pass lets go of the file and has it in the database.
LEMMA FileCommitted == ASSUME FilesInv, NEW p \in Passes, CommitFile(p) PROVE FilesInv'
<1> DEFINE f == Current(p)
           w == pass[p].version
<1>1. /\ pass[p] \in PassType /\ PassTrue(pass[p]) /\ ImportTypeOK /\ StillThere
      /\ pass[p].phase = "managed"
      /\ rows' = [rows EXCEPT ![Version(f, w)] = @ + 1]
      /\ UNCHANGED <<remote, arrived, archived, importFaults>>
  BY DEF FilesInv, ImportTypeOK, CommitFile
<1>2. /\ f \in Files /\ f[1] = Task(p) /\ w \in 1 .. arrived[f]
      /\ arrived[f] \in Nat /\ arrived[f] <= MaxDeposits[f] /\ MaxDeposits[f] \in Nat
  BY <1>1, InHand
<1>4. pass' \in [Passes -> PassType] /\ pass'[p].phase = "files"
  BY CommitNoted, Zenon
<1>5. Version(f, w) \in Versions
  BY <1>2, VersionsApart
<1> HIDE DEF f
<1>6. \A q \in Passes :
        /\ pass'[q].tasks = pass[q].tasks /\ pass'[q].todo \subseteq pass[q].todo
        /\ q # p => /\ pass'[q].phase = pass[q].phase /\ pass'[q].todo = pass[q].todo
                    /\ pass'[q].name = pass[q].name /\ pass'[q].version = pass[q].version
  <2> SUFFICES ASSUME NEW q \in Passes
               PROVE  /\ pass'[q].tasks = pass[q].tasks /\ pass'[q].todo \subseteq pass[q].todo
                      /\ q # p => /\ pass'[q].phase = pass[q].phase /\ pass'[q].todo = pass[q].todo
                                  /\ pass'[q].name = pass[q].name /\ pass'[q].version = pass[q].version
    OBVIOUS
  <2>1. pass'[q].tasks = pass[q].tasks
    BY CommitNoted, Zenon
  <2>2. q # p => /\ pass'[q].phase = pass[q].phase /\ pass'[q].todo = pass[q].todo
                 /\ pass'[q].name = pass[q].name /\ pass'[q].version = pass[q].version
    BY CommitNoted, Zenon
  <2>3. pass'[p].todo = pass[p].todo \ {pass[p].name}
    BY CommitNoted, Zenon
  <2> QED BY <2>1, <2>2, <2>3
<1>7. \A u \in Versions : rows'[u] = IF u = Version(f, w) THEN rows[u] + 1 ELSE rows[u]
  BY <1>1, <1>5 DEF ImportTypeOK
<1>8. ImportTypeOK'
  <2>1. rows' \in [Versions -> Nat]
    BY <1>1, <1>5 DEF ImportTypeOK
  <2>2. ASSUME NEW q \in Passes
        PROVE  /\ pass'[q].phase # "idle" => pass'[q].tasks # << >>
               /\ pass'[q].phase \in {"created", "managed"} => pass'[q].name \in pass'[q].todo
    BY <1>1, <1>4, <1>6 DEF ImportTypeOK
  <2> QED BY <1>1, <1>4, <2>1, <2>2 DEF ImportTypeOK
<1>9. (\A q \in Passes : PassTrue(pass[q]))'
  BY <1>1, <1>4, <1>6 DEF PassTrue, FilesInv
<1>10. StillThere'
  BY <1>1 DEF StillThere
<1>11. ASSUME DepositedOnce({"delete"}) PROVE NoFileLost'
  <2> SUFFICES ASSUME NEW g \in Files, NEW v \in 1 .. arrived[g], Kept(g, v)
               PROVE  Kept(g, v)'
    BY <1>1, <1>11 DEF FilesInv, NoFileLost
  <2>1. Version(g, v) \in Versions /\ rows[Version(g, v)] \in Nat
    <3>1. v \in 1 .. MaxDeposits[g]
      BY <1>1, ImportAssumption DEF ImportTypeOK
    <3> QED BY <1>1, <3>1, VersionsApart DEF ImportTypeOK
  <2>2. CASE rows[Version(g, v)] > 0
    BY <1>7, <2>1, <2>2 DEF Kept
  <2>3. ASSUME NEW q \in Passes, pass[q].phase = "managed", Current(q) = g, pass[q].version = v
        PROVE  Kept(g, v)'
    <3>1. CASE q = p
      BY <1>7, <2>1, <2>3, <3>1 DEF Kept, f
    <3>2. CASE q # p
      BY <1>6, <2>3, <3>2 DEF Kept, Current, Task
    <3> QED BY <3>1, <3>2
  <2> QED BY <1>1, <2>2, <2>3 DEF Kept
<1>12. ASSUME DepositedOnce({"move", "delete"}) PROVE TakenOnce'
  <2>1. TakenOnce
    BY <1>12 DEF FilesInv
  <2> SUFFICES ASSUME NEW g \in Files, AfterImport[g[1]] \in {"move", "delete"}
               PROVE  /\ rows'[Version(g, 1)] <= 1
                      /\ rows'[Version(g, 1)] = 1 => remote[g] = 0 /\ arrived[g] = 1
                      /\ \A q \in Passes : Took(q, g)' =>
                           remote[g] = 0 /\ arrived[g] = 1 /\ rows'[Version(g, 1)] = 0
                      /\ \A q, r \in Passes : Took(q, g)' /\ Took(r, g)' => q = r
    BY <1>1 DEF TakenOnce
  <2>2. \A q \in Passes : Took(q, g)' => Took(q, g) /\ q # p
    BY <1>4, <1>6 DEF Took, Current, Task
  <2>3. Version(g, 1) \in Versions
    BY <1>12, VersionsApart DEF DepositedOnce
  <2>4. CASE g # f
    <3>1. rows'[Version(g, 1)] = rows[Version(g, 1)]
      BY <1>2, <1>7, <2>3, <2>4, VersionsApart
    <3> QED BY <2>1, <2>2, <3>1 DEF TakenOnce
  <2>5. CASE g = f
    <3>1. Took(p, g)
      BY <1>1, <2>5 DEF Took, f
    <3>2. remote[g] = 0 /\ arrived[g] = 1 /\ rows[Version(g, 1)] = 0
      BY <2>1, <3>1 DEF TakenOnce
    <3>3. w = 1 /\ rows'[Version(g, 1)] = 1
      BY <1>2, <1>7, <2>3, <2>5, <3>2
    <3>4. \A q \in Passes : Took(q, g) => q = p
      BY <2>1, <3>1 DEF TakenOnce
    <3>5. \A q \in Passes : ~ Took(q, g)'
      BY <2>2, <3>4
    <3> QED BY <3>2, <3>3, <3>5
  <2> QED BY <2>4, <2>5
<1> QED BY <1>8, <1>9, <1>10, <1>11, <1>12 DEF FilesInv, DepositedOnce

\* A partner deposits a version where none is: the one before it was moved, imported or taken.
LEMMA FileDeposited == ASSUME FilesInv, NEW f \in Files, Deposit(f) PROVE FilesInv'
<1>1. /\ ImportTypeOK /\ StillThere /\ remote[f] = 0 /\ arrived[f] \in Nat
      /\ MaxDeposits[f] \in Nat /\ arrived[f] < MaxDeposits[f]
      /\ arrived' = [arrived EXCEPT ![f] = @ + 1]
      /\ remote' = [remote EXCEPT ![f] = arrived[f] + 1]
      /\ UNCHANGED <<archived, rows, pass, importFaults>>
  BY ImportAssumption DEF FilesInv, ImportTypeOK, Deposit
<1>2. \A g \in Files : /\ g # f => arrived'[g] = arrived[g] /\ remote'[g] = remote[g]
                       /\ g = f => arrived'[g] = arrived[g] + 1 /\ remote'[g] = arrived[g] + 1
                       /\ arrived[g] \in Nat /\ remote[g] \in Nat
  BY <1>1 DEF ImportTypeOK
<1>3. ImportTypeOK'
  <2>1. arrived' \in [Files -> Nat] /\ remote' \in [Files -> Nat]
    BY <1>1 DEF ImportTypeOK
  <2>2. \A g \in Files : remote'[g] <= arrived'[g] /\ arrived'[g] <= MaxDeposits[g]
    BY <1>1, <1>2 DEF ImportTypeOK
  <2> QED BY <1>1, <2>1, <2>2 DEF ImportTypeOK
<1>4. (\A q \in Passes : PassTrue(pass[q]))'
  <2> SUFFICES ASSUME NEW q \in Passes PROVE PassTrue(pass[q])'
    OBVIOUS
  <2>1. PassTrue(pass[q])
    BY DEF FilesInv
  <2>2. \A g \in Files : \A v : v \in 1 .. arrived[g] => v \in 1 .. arrived'[g]
    BY <1>2
  <2> QED BY <1>1, <2>1, <2>2 DEF PassTrue
<1>5. \A g \in Files : \A v \in 1 .. arrived'[g] : v \in 1 .. arrived[g] \/ remote'[g] = v
  BY <1>2
<1>6. \A g \in Files : \A v \in 1 .. arrived[g] : remote[g] = v => remote'[g] = v
  BY <1>1, <1>2
<1>7. StillThere'
  BY <1>1, <1>5, <1>6 DEF StillThere
<1>8. ASSUME DepositedOnce({"delete"}) PROVE NoFileLost'
  <2> SUFFICES ASSUME NEW g \in Files, NEW v \in 1 .. arrived'[g]
               PROVE  Kept(g, v)' \/ (AfterImport[g[1]] = "delete" /\ importFaults > 0)
    BY <1>1 DEF NoFileLost
  <2>1. CASE remote'[g] = v
    BY <2>1 DEF Kept
  <2>2. CASE v \in 1 .. arrived[g]
    <3>1. Kept(g, v) \/ (AfterImport[g[1]] = "delete" /\ importFaults > 0)
      BY <1>8, <2>2 DEF FilesInv, NoFileLost
    <3> QED BY <1>1, <1>6, <2>2, <3>1 DEF Kept, Current, Task
  <2> QED BY <1>5, <2>1, <2>2
<1>9. ASSUME DepositedOnce({"move", "delete"}) PROVE TakenOnce'
  <2>1. TakenOnce
    BY <1>9 DEF FilesInv
  <2>2. \A q \in Passes, g \in Files : Took(q, g)' <=> Took(q, g)
    BY <1>1 DEF Took, Current, Task
  <2>3. AfterImport[f[1]] \in {"move", "delete"} => arrived[f] = 0
    BY <1>1, <1>9 DEF DepositedOnce
  <2> QED BY <1>1, <1>2, <2>1, <2>2, <2>3 DEF TakenOnce
<1> QED BY <1>3, <1>4, <1>7, <1>8, <1>9 DEF FilesInv, DepositedOnce

\* run_task_import_scheduler and the button: the tasks of a pass are import tasks.
LEMMA TasksStarted == \A ts \in SetToSeqs(Tasks) : ts \in Seq(Tasks)
<1> SUFFICES ASSUME NEW ts \in SetToSeqs(Tasks) PROVE ts \in Seq(Tasks)
  OBVIOUS
<1>1. ts \in [1 .. Cardinality(Tasks) -> Tasks]
  BY DEF SetToSeqs
<1>2. Cardinality(Tasks) \in Nat
  BY ImportAssumption, FS_CardinalityType
<1> QED BY <1>1, <1>2

\* Every step keeps the invariant.
LEMMA FilesNext == FilesInv /\ [ImportNext]_importVars => FilesInv'
<1> SUFFICES ASSUME FilesInv, [ImportNext]_importVars PROVE FilesInv'
  OBVIOUS
<1>1. ImportTypeOK /\ MaxImportFaults \in Nat /\ importFaults \in 0 .. MaxImportFaults
  BY ImportAssumption DEF FilesInv, ImportTypeOK
<1>2. ASSUME NEW f \in Files, Deposit(f) PROVE FilesInv'
  BY <1>2, FileDeposited
<1>3. ASSUME NEW p \in CronPasses, StartCron(p) PROVE FilesInv'
  <2>1. p \in Passes /\ \E ts \in Seq(Tasks) : Start(p, ts)
    BY <1>3, TasksStarted, ImportAssumption DEF StartCron
  <2> QED BY <2>1, PassMoves
<1>4. ASSUME NEW p \in Passes, StartButton(p) PROVE FilesInv'
  <2>1. \E ts \in Seq(Tasks) : Start(p, ts)
    <3>1. PICK i \in ButtonTasks : Start(p, <<i>>)
      BY <1>4 DEF StartButton
    <3>2. <<i>> \in Seq(Tasks)
      BY ImportAssumption
    <3> QED BY <3>1, <3>2
  <2> QED BY <2>1, PassMoves
<1>5. ASSUME NEW p \in Passes, PassStep(p) PROVE FilesInv'
  <2>1. CASE List(p) \/ Leave(p) \/ NextTask(p) \/ \E n \in Names : Read(p, n)
    BY <2>1, PassMoves
  <2>2. CASE ListFails(p) \/ TakeAwayFails(p) \/ \E n \in Names : ReadFails(p, n)
    <3>1. /\ Abort(p) /\ UNCHANGED <<remote, arrived, archived, rows, importFaults>>
          /\ pass[p].phase # "managed"
      BY <2>2 DEF ListFails, TakeAwayFails, ReadFails
    <3> QED BY <1>1, <3>1, PassAborts
  <2>3. CASE TakeAway(p)
    BY <2>3, FileTaken
  <2>4. CASE CommitFile(p)
    BY <2>4, FileCommitted
  <2> QED BY <1>5, <2>1, <2>2, <2>3, <2>4 DEF PassStep
<1>6. ASSUME NEW p \in Passes, CommitFails(p) PROVE FilesInv'
  <2>1. /\ Abort(p) /\ UNCHANGED <<remote, arrived, archived, rows>>
        /\ importFaults < MaxImportFaults /\ importFaults' = importFaults + 1
    BY <1>6 DEF CommitFails
  <2>2. importFaults' \in importFaults .. MaxImportFaults /\ importFaults' > 0
    BY <1>1, <2>1
  <2> QED BY <2>1, <2>2, PassAborts
<1>7. ASSUME NEW p \in Passes, PassDies(p) PROVE FilesInv'
  <2>1. /\ pass' = [pass EXCEPT ![p] = IdlePass] /\ UNCHANGED <<remote, arrived, archived, rows>>
        /\ importFaults < MaxImportFaults /\ importFaults' = importFaults + 1
    BY <1>7 DEF PassDies
  <2>2. importFaults' \in importFaults .. MaxImportFaults /\ importFaults' > 0
    BY <1>1, <2>1
  <2> QED BY <2>1, <2>2, IdleFits, PassGoesOn
<1>8. CASE UNCHANGED importVars
  <2>1. (\A q \in Passes : PassTrue(pass[q]))'
    BY <1>8 DEF FilesInv, importVars, PassTrue
  <2>2. ImportTypeOK'
    BY <1>1, <1>8 DEF ImportTypeOK, importVars
  <2>3. StillThere' /\ (NoFileLost => NoFileLost')
    BY <1>8 DEF FilesInv, StillThere, NoFileLost, Kept, Current, Task, importVars
  <2>4. TakenOnce => TakenOnce'
    BY <1>8 DEF TakenOnce, Took, Current, Task, importVars
  <2> QED BY <2>1, <2>2, <2>3, <2>4 DEF FilesInv, DepositedOnce
<1> QED BY <1>2, <1>3, <1>4, <1>5, <1>6, <1>7, <1>8 DEF ImportNext

\* What run_import does to a file on the server fits what it commits, in every reachable
\* state, whichever passes overlap, abort or crash.
THEOREM FilesInvariance == ImportSpec => []FilesInv
<1>1. ImportInit => FilesInv
  BY FilesInit
<1>2. FilesInv /\ [ImportNext]_importVars => FilesInv'
  BY FilesNext
<1> QED BY <1>1, <1>2, PTL DEF ImportSpec

\* run_import loses no file that was deposited, however the passes overlap: it is on the
\* server, in the archive, imported or about to be committed.  Where the task deletes, a
\* partner must not deposit under the same name again.
THEOREM FilesKept == DepositedOnce({"delete"}) => (ImportSpec => []NoFileLost)
<1> SUFFICES ASSUME DepositedOnce({"delete"}) PROVE ImportSpec => []NoFileLost
  OBVIOUS
<1>1. FilesInv => NoFileLost
  BY DEF FilesInv
<1> QED BY <1>1, FilesInvariance, PTL

\* The pass that takes a file away is the only one that imports it, provided that its name
\* is not used again (_manage_file_after_import).
THEOREM FilesImportedOnce == DepositedOnce({"move", "delete"}) => (ImportSpec => []ImportedOnce)
<1> SUFFICES ASSUME DepositedOnce({"move", "delete"}) PROVE ImportSpec => []ImportedOnce
  OBVIOUS
<1>1. FilesInv => ImportedOnce
  <2> SUFFICES ASSUME FilesInv, NEW u \in Versions, AfterImport[u[1]] \in {"move", "delete"}
               PROVE  rows[u] <= 1
    BY DEF ImportedOnce
  <2>1. PICK f \in Files :
          u[1] = f[1] /\ \E v \in 1 .. MaxDeposits[f] : u = Version(f, v)
    BY VersionsApart
  <2>2. u = Version(f, 1)
    BY <2>1 DEF DepositedOnce
  <2> QED BY <2>1, <2>2 DEF FilesInv, TakenOnce
<1> QED BY <1>1, FilesInvariance, PTL

\* The tasks of a pass are each there once.  A name that was imported is one that the pass
\* knows, or has been imported since.  What it has itself imported of its current task
\* is not to do, and neither are the names it knows, if the task avoids duplicates.
NamesTrue(p, t) ==
  /\ \A i, j \in DOMAIN t.tasks : t.tasks[i] = t.tasks[j] => i = j
  /\ t.phase # "idle" => \A n \in ImportedNames : n \in t.known \/ \E i \in t.since : i[3] = n
  /\ \A i \in DOMAIN t.tasks, n \in Names : <<p, t.tasks[i], n>> \in t.since =>
       i = 1 /\ t.phase \in {"files", "created", "managed"} /\ n \notin t.todo
  /\ t.phase \in {"files", "created", "managed"} /\ t.tasks[1] \in AvoidDuplicates
       => t.todo \cap t.known = {}

NamesInv == \A p \in Passes : NamesTrue(p, pass[p])

\* Without tasks there is nothing to say.
LEMMA IdleNames == \A p \in Passes : NamesTrue(p, IdlePass)
BY DEF NamesTrue, IdlePass

\* A pass that begins knows what was imported.
LEMMA FreshNames ==
  ASSUME NEW p \in Passes, NEW ts \in Seq(Tasks),
         \A i, j \in DOMAIN ts : ts[i] = ts[j] => i = j
  PROVE  NamesTrue(p, [IdlePass EXCEPT !.phase = "task", !.tasks = ts, !.known = ImportedNames])
BY DEF NamesTrue, IdlePass

\* What is left of the tasks, and which of them they are.
LEMMA TasksGoOn ==
  ASSUME NEW s \in Seq(Tasks), Len(s) > 1,
         \A i, j \in DOMAIN s : s[i] = s[j] => i = j
  PROVE  /\ Tail(s) \in Seq(Tasks)
         /\ \A i, j \in DOMAIN Tail(s) : Tail(s)[i] = Tail(s)[j] => i = j
         /\ \A i \in DOMAIN Tail(s) : i + 1 \in DOMAIN s /\ Tail(s)[i] = s[i + 1] /\ Tail(s)[i] # s[1]
<1>1. s # << >> /\ Len(s) \in Nat /\ DOMAIN s = 1 .. Len(s)
  OBVIOUS
<1>2. /\ Tail(s) \in Seq(Tasks) /\ Len(Tail(s)) = Len(s) - 1
      /\ \A i \in 1 .. Len(Tail(s)) : Tail(s)[i] = s[i + 1]
  BY <1>1, HeadTailProperties
<1>3. DOMAIN Tail(s) = 1 .. Len(s) - 1
  BY <1>1, <1>2
<1>4. ASSUME NEW i \in DOMAIN Tail(s)
      PROVE  i + 1 \in DOMAIN s /\ Tail(s)[i] = s[i + 1] /\ Tail(s)[i] # s[1]
  <2>1. i \in Int /\ i + 1 \in DOMAIN s /\ 1 \in DOMAIN s /\ i + 1 # 1
    BY <1>1, <1>3
  <2>2. Tail(s)[i] = s[i + 1]
    BY <1>2, <1>3
  <2> QED BY <2>1, <2>2
<1>5. ASSUME NEW i \in DOMAIN Tail(s), NEW j \in DOMAIN Tail(s), Tail(s)[i] = Tail(s)[j]
      PROVE  i = j
  <2>1. i + 1 = j + 1 /\ i \in Int /\ j \in Int
    BY <1>3, <1>4, <1>5
  <2> QED BY <2>1
<1> QED BY <1>2, <1>4, <1>5

\* The names of a pass and its tasks, after a step of it that commits nothing.
LEMMA NamesGoOn ==
  ASSUME ImportTypeOK, NamesInv, NEW p \in Passes, NEW t, pass' = [pass EXCEPT ![p] = t],
         rows' = rows, NamesTrue(p, t)
  PROVE  NamesInv'
<1>1. \A q \in Passes : pass'[q] = IF q = p THEN t ELSE pass[q]
  BY DEF ImportTypeOK
<1>2. ImportedNames' = ImportedNames
  BY DEF ImportedNames
<1>3. ASSUME NEW q \in Passes PROVE NamesTrue(q, pass[q])'
  <2>1. NamesTrue(q, pass'[q])
    BY <1>1 DEF NamesInv
  <2> QED BY <1>2, <2>1 DEF NamesTrue
<1> QED BY <1>3 DEF NamesInv

\* An exception: what was imported is known again, or there is no pass any more.
LEMMA NamesAfterAbort ==
  ASSUME ImportTypeOK, NamesInv, NEW p \in Passes, Abort(p), rows' = rows
  PROVE  NamesInv'
<1> DEFINE t == IF p \in CronPasses /\ Len(pass[p].tasks) > 1
                THEN [IdlePass EXCEPT !.phase = "task", !.tasks = Tail(pass[p].tasks),
                                      !.known = ImportedNames]
                ELSE IdlePass
<1>1. pass[p].tasks \in Seq(Tasks) /\ NamesTrue(p, pass[p])
  BY DEF ImportTypeOK, PassType, NamesInv
<1>2. NamesTrue(p, t)
  <2>1. CASE p \in CronPasses /\ Len(pass[p].tasks) > 1
    <3>1. /\ Tail(pass[p].tasks) \in Seq(Tasks)
          /\ \A i, j \in DOMAIN Tail(pass[p].tasks) :
               Tail(pass[p].tasks)[i] = Tail(pass[p].tasks)[j] => i = j
      BY <1>1, <2>1, TasksGoOn DEF NamesTrue
    <3> QED BY <2>1, <3>1, FreshNames
  <2>2. CASE ~ (p \in CronPasses /\ Len(pass[p].tasks) > 1)
    BY <2>2, IdleNames
  <2> QED BY <2>1, <2>2
<1>3. pass' = [pass EXCEPT ![p] = t]
  BY DEF Abort
<1> HIDE DEF t
<1> QED BY <1>2, <1>3, NamesGoOn

\* The steps of a pass that commit nothing.
LEMMA NamesAfterMove ==
  ASSUME FilesInv, NamesInv, NEW p \in Passes,
         List(p) \/ Leave(p) \/ TakeAway(p) \/ NextTask(p) \/ \E n \in Names : Read(p, n)
  PROVE  NamesInv'
<1>1. /\ ImportTypeOK /\ pass[p] \in PassType /\ pass[p].tasks \in Seq(Tasks)
      /\ NamesTrue(p, pass[p]) /\ rows' = rows
      /\ pass[p].phase # "idle" => pass[p].tasks # << >> /\ Task(p) = pass[p].tasks[1]
  <2>1. \A s \in Seq(Tasks) : s # << >> => Head(s) = s[1]
    OBVIOUS
  <2>2. ImportTypeOK /\ pass[p] \in PassType /\ pass[p].tasks \in Seq(Tasks) /\ NamesTrue(p, pass[p])
        /\ (pass[p].phase # "idle" => pass[p].tasks # << >>)
    BY DEF FilesInv, ImportTypeOK, PassType, NamesInv
  <2>3. rows' = rows
    BY DEF List, Leave, TakeAway, NextTask, Read
  <2> QED BY <2>1, <2>2, <2>3 DEF Task
<1>2. CASE List(p)
  <2> DEFINE names == FilterDuplicates(p, Listing(Task(p)))
             t == [pass[p] EXCEPT !.phase = "files", !.todo = names]
  <2>1. pass' = [pass EXCEPT ![p] = t] /\ pass[p].phase = "task" /\ Task(p) = pass[p].tasks[1]
    BY <1>1, <1>2 DEF List, ImportTypeOK
  <2>2. /\ t.phase = "files" /\ t.todo = names /\ t.tasks = pass[p].tasks
        /\ t.known = pass[p].known /\ t.since = pass[p].since
    BY <1>1 DEF PassType
  <2>3. Task(p) \in AvoidDuplicates => names \cap pass[p].known = {}
    BY DEF FilterDuplicates
  <2> HIDE DEF names, t
  <2>4. NamesTrue(p, t)
    BY <1>1, <2>1, <2>2, <2>3 DEF NamesTrue
  <2> QED BY <1>1, <2>1, <2>4, NamesGoOn
<1>3. CASE Leave(p) \/ TakeAway(p) \/ \E n \in Names : Read(p, n)
  <2>1. PICK t \in PassType :
          /\ pass' = [pass EXCEPT ![p] = t]
          /\ t.tasks = pass[p].tasks /\ t.known = pass[p].known /\ t.todo = pass[p].todo
          /\ t.since = pass[p].since
          /\ t.phase \in {"created", "managed"} /\ pass[p].phase \in {"files", "created"}
    <3>1. CASE Leave(p) \/ TakeAway(p)
      <4> DEFINE t == [pass[p] EXCEPT !.phase = "managed"]
      <4>1. pass' = [pass EXCEPT ![p] = t] /\ pass[p].phase = "created"
        BY <3>1 DEF Leave, TakeAway
      <4>2. t \in PassType /\ t.phase = "managed" /\ t.tasks = pass[p].tasks
            /\ t.known = pass[p].known /\ t.todo = pass[p].todo /\ t.since = pass[p].since
        BY <1>1 DEF PassType
      <4> QED BY <4>1, <4>2
    <3>2. CASE \E n \in Names : Read(p, n)
      <4>1. PICK n \in Names : Read(p, n)
        BY <3>2
      <4> DEFINE v == remote[<<Task(p), n>>]
                 t == [pass[p] EXCEPT !.phase = "created", !.name = n, !.version = v]
      <4>2. pass' = [pass EXCEPT ![p] = t] /\ pass[p].phase = "files" /\ n \in pass[p].todo
        BY <4>1 DEF Read
      <4>3. <<Task(p), n>> \in Files
        BY <4>2 DEF FilesInv, PassTrue, Task
      <4>4. v \in Nat
        BY <1>1, <4>3 DEF ImportTypeOK
      <4> HIDE DEF v
      <4>5. t \in PassType /\ t.phase = "created" /\ t.tasks = pass[p].tasks
            /\ t.known = pass[p].known /\ t.todo = pass[p].todo /\ t.since = pass[p].since
        BY <1>1, <4>4 DEF PassType
      <4> QED BY <4>2, <4>5
    <3> QED BY <1>3, <3>1, <3>2
  <2>2. NamesTrue(p, t)
    BY <1>1, <2>1 DEF NamesTrue
  <2> QED BY <1>1, <2>1, <2>2, NamesGoOn
<1>4. CASE NextTask(p)
  <2>1. CASE Len(pass[p].tasks) > 1
    <3> DEFINE s == Tail(pass[p].tasks)
               t == [pass[p] EXCEPT !.phase = "task", !.tasks = s]
    <3>1. pass' = [pass EXCEPT ![p] = t] /\ pass[p].phase = "files"
      BY <1>4, <2>1 DEF NextTask
    <3>2. /\ s \in Seq(Tasks) /\ \A i, j \in DOMAIN s : s[i] = s[j] => i = j
          /\ \A i \in DOMAIN s : i + 1 \in DOMAIN pass[p].tasks /\ s[i] = pass[p].tasks[i + 1]
                                 /\ s[i] # pass[p].tasks[1]
      BY <1>1, <2>1, TasksGoOn DEF NamesTrue
    <3>3. t.phase = "task" /\ t.tasks = s /\ t.known = pass[p].known /\ t.since = pass[p].since
      BY <1>1 DEF PassType
    <3> HIDE DEF s, t
    <3>4. ASSUME NEW i \in DOMAIN s, NEW n \in Names PROVE <<p, s[i], n>> \notin pass[p].since
      <4>1. i + 1 \in DOMAIN pass[p].tasks /\ s[i] = pass[p].tasks[i + 1] /\ s[i] # pass[p].tasks[1]
        BY <3>2
      <4>2. <<p, pass[p].tasks[i + 1], n>> \in pass[p].since => i + 1 = 1
        BY <1>1, <4>1 DEF NamesTrue
      <4> QED BY <4>1, <4>2
    <3>5. \A n \in ImportedNames : n \in t.known \/ \E i \in t.since : i[3] = n
      BY <1>1, <3>1, <3>3 DEF NamesTrue
    <3>6. NamesTrue(p, t)
      BY <3>2, <3>3, <3>4, <3>5 DEF NamesTrue
    <3> QED BY <1>1, <3>1, <3>6, NamesGoOn
  <2>2. CASE ~ (Len(pass[p].tasks) > 1)
    <3>1. pass' = [pass EXCEPT ![p] = IdlePass]
      BY <1>4, <2>2 DEF NextTask
    <3> QED BY <1>1, <3>1, IdleNames, NamesGoOn
  <2> QED BY <2>1, <2>2
<1> QED BY <1>2, <1>3, <1>4

\* A name is committed that was imported before: then it was so since the snapshot.
LEMMA NamesAfterCommit ==
  ASSUME FilesInv, NamesInv, NEW p \in Passes, CommitFile(p)
  PROVE  /\ NamesInv'
         /\ \A v \in Versions :
              rows'[v] > rows[v] /\ v[1] \in AvoidDuplicates /\ v[2] \in ImportedNames =>
                /\ pass[p].phase = "managed" /\ pass'[p] # pass[p]
                /\ Current(p) = <<v[1], v[2]>> /\ Overtaken(p, v[2])
<1> DEFINE n == pass[p].name
           u == Version(Current(p), pass[p].version)
           e == <<p, Task(p), n>>
<1>1. /\ ImportTypeOK /\ pass[p] \in PassType /\ pass[p].tasks \in Seq(Tasks)
      /\ pass[p].tasks # << >> /\ pass[p].phase = "managed" /\ NamesTrue(p, pass[p])
      /\ n \in pass[p].todo /\ n \in Names /\ Task(p) \in Tasks
      /\ Task(p) = pass[p].tasks[1] /\ 1 \in DOMAIN pass[p].tasks
  <2>1. \A s \in Seq(Tasks) : s # << >> => Head(s) = s[1] /\ 1 \in DOMAIN s /\ Head(s) \in Tasks
    OBVIOUS
  <2>2. ImportTypeOK /\ pass[p] \in PassType /\ pass[p].tasks \in Seq(Tasks) /\ NamesTrue(p, pass[p])
        /\ pass[p].tasks # << >> /\ pass[p].phase = "managed" /\ n \in pass[p].todo
        /\ pass[p].todo \subseteq Names
    BY DEF FilesInv, ImportTypeOK, PassType, NamesInv, CommitFile
  <2> QED BY <2>1, <2>2 DEF Task
<1>2. rows' = [rows EXCEPT ![u] = rows[u] + 1] /\ u[1] = Task(p) /\ u[2] = n
  BY DEF CommitFile, Version, Current
<1>3. \A q \in Passes :
        /\ pass'[q].tasks = pass[q].tasks /\ pass'[q].known = pass[q].known
        /\ pass'[q].since = IF pass[q].phase = "idle" THEN pass[q].since
                            ELSE pass[q].since \cup {e}
        /\ q # p => pass'[q].phase = pass[q].phase /\ pass'[q].todo = pass[q].todo
  <2> SUFFICES ASSUME NEW q \in Passes
               PROVE  /\ pass'[q].tasks = pass[q].tasks /\ pass'[q].known = pass[q].known
                      /\ pass'[q].since = IF pass[q].phase = "idle" THEN pass[q].since
                                          ELSE pass[q].since \cup {e}
                      /\ q # p => pass'[q].phase = pass[q].phase /\ pass'[q].todo = pass[q].todo
    OBVIOUS
  <2>1. pass'[q].tasks = pass[q].tasks /\ pass'[q].known = pass[q].known
    BY CommitNoted, Zenon
  <2>2. q # p => pass'[q].phase = pass[q].phase /\ pass'[q].todo = pass[q].todo
    BY CommitNoted, Zenon
  <2>3. pass'[q].since = IF pass[q].phase = "idle" THEN pass[q].since
                        ELSE pass[q].since \cup {<<p, Task(p), pass[p].name>>}
    BY CommitNoted, Zenon
  <2> QED BY <2>1, <2>2, <2>3
<1>4. pass'[p].phase = "files" /\ pass'[p].todo = pass[p].todo \ {n}
  BY CommitNoted
<1>5. \A v \in Versions : v # u => rows'[v] = rows[v]
  BY <1>1, <1>2 DEF ImportTypeOK
<1>6. ImportedNames' \subseteq ImportedNames \cup {n}
  BY <1>2, <1>5 DEF ImportedNames
<1>7. ASSUME NEW q \in Passes PROVE NamesTrue(q, pass[q])'
  <2>1. NamesTrue(q, pass[q])
    BY DEF NamesInv
  <2>2. \A i, j \in DOMAIN pass'[q].tasks : pass'[q].tasks[i] = pass'[q].tasks[j] => i = j
    BY <1>3, <2>1 DEF NamesTrue
  <2>3. ASSUME pass'[q].phase # "idle", NEW m \in ImportedNames'
        PROVE  m \in pass'[q].known \/ \E i \in pass'[q].since : i[3] = m
    <3>1. pass[q].phase # "idle" /\ pass'[q].since = pass[q].since \cup {e}
      BY <1>1, <1>3, <2>3
    <3>2. m \in ImportedNames => m \in pass[q].known \/ \E i \in pass[q].since : i[3] = m
      BY <2>1, <3>1 DEF NamesTrue
    <3>3. m \notin ImportedNames => m = n
      BY <1>6, <2>3
    <3>4. e[3] = n
      OBVIOUS
    <3> HIDE DEF e, n
    <3> QED BY <1>3, <3>1, <3>2, <3>3, <3>4
  <2>4. ASSUME NEW i \in DOMAIN pass'[q].tasks, NEW m \in Names,
               <<q, pass'[q].tasks[i], m>> \in pass'[q].since
        PROVE  /\ i = 1 /\ pass'[q].phase \in {"files", "created", "managed"}
               /\ m \notin pass'[q].todo
    <3>1. i \in DOMAIN pass[q].tasks /\ pass'[q].tasks[i] = pass[q].tasks[i]
      BY <1>3, <2>4
    <3>2. CASE <<q, pass[q].tasks[i], m>> \in pass[q].since
      <4>1. i = 1 /\ pass[q].phase \in {"files", "created", "managed"} /\ m \notin pass[q].todo
        BY <2>1, <3>1, <3>2 DEF NamesTrue
      <4> QED BY <1>3, <1>4, <4>1
    <3>3. CASE <<q, pass[q].tasks[i], m>> = e
      <4>1. q = p /\ pass[q].tasks[i] = pass[p].tasks[1] /\ m = n
        BY <1>1, <3>3
      <4>2. i = 1
        BY <1>1, <3>1, <4>1 DEF NamesTrue
      <4> QED BY <1>4, <4>1, <4>2
    <3> QED BY <1>3, <2>4, <3>1, <3>2, <3>3
  <2>5. pass'[q].phase \in {"files", "created", "managed"} /\ pass'[q].tasks[1] \in AvoidDuplicates
          => pass'[q].todo \cap pass'[q].known = {}
    <3>1. pass[q].phase \in {"files", "created", "managed"} /\ pass[q].tasks[1] \in AvoidDuplicates
            => pass[q].todo \cap pass[q].known = {}
      BY <2>1 DEF NamesTrue
    <3> QED BY <1>1, <1>3, <1>4, <3>1
  <2> QED BY <2>2, <2>3, <2>4, <2>5 DEF NamesTrue
<1>8. ASSUME NEW v \in Versions, rows'[v] > rows[v], v[1] \in AvoidDuplicates,
             v[2] \in ImportedNames
      PROVE  /\ pass[p].phase = "managed" /\ pass'[p] # pass[p]
             /\ Current(p) = <<v[1], v[2]>> /\ Overtaken(p, v[2])
  <2>1. rows[v] \in Nat
    BY <1>1 DEF ImportTypeOK
  <2>2. v = u
    BY <1>5, <1>8, <2>1
  <2>3. Current(p) = <<v[1], v[2]>> /\ v[1] = Task(p) /\ v[2] = n
    BY <1>2, <2>2 DEF Current
  <2>4. n \notin pass[p].known
    BY <1>1, <1>8, <2>3 DEF NamesTrue
  <2>5. PICK i \in pass[p].since : i[3] = n
    BY <1>1, <1>8, <2>3, <2>4 DEF NamesTrue
  <2>6. e \notin pass[p].since
    BY <1>1 DEF NamesTrue
  <2>7. i = <<i[1], i[2], i[3]>>
    <3>1. pass[p].since \subseteq Passes \X Tasks \X Names
      BY <1>1 DEF PassType
    <3> QED BY <2>5, <3>1
  <2>8. <<i[1], i[2]>> # <<p, Task(p)>>
    BY <2>5, <2>6, <2>7
  <2>9. Overtaken(p, v[2])
    BY <2>3, <2>5, <2>8 DEF Overtaken
  <2> QED BY <1>1, <1>4, <2>3, <2>9
<1> QED BY <1>1, <1>7, <1>8 DEF NamesInv

\* No step imports a name twice, unless its pass is overtaken.
LEMMA NamesNext ==
  ASSUME FilesInv, NamesInv, [ImportNext]_importVars
  PROVE  /\ NamesInv'
         /\ \A v \in Versions :
              rows'[v] > rows[v] /\ v[1] \in AvoidDuplicates /\ v[2] \in ImportedNames =>
                \E p \in Passes : /\ pass[p].phase = "managed" /\ pass'[p] # pass[p]
                                  /\ Current(p) = <<v[1], v[2]>> /\ Overtaken(p, v[2])
<1>1. ImportTypeOK
  BY DEF FilesInv
<1>2. ASSUME rows' = rows
      PROVE  \A v \in Versions : ~ (rows'[v] > rows[v])
  BY <1>1, <1>2 DEF ImportTypeOK
<1>3. CASE UNCHANGED <<rows, pass>>
  BY <1>2, <1>3 DEF NamesInv, NamesTrue, ImportedNames
<1>4. CASE \E f \in Files : Deposit(f)
  BY <1>3, <1>4 DEF Deposit
<1>5. ASSUME NEW p \in Passes, NEW ts \in Seq(Tasks), Start(p, ts),
             \A i, j \in DOMAIN ts : ts[i] = ts[j] => i = j
      PROVE  NamesInv' /\ rows' = rows
  <2> DEFINE t == [IdlePass EXCEPT !.phase = "task", !.tasks = ts, !.known = ImportedNames]
  <2>1. pass' = [pass EXCEPT ![p] = t] /\ rows' = rows
    BY <1>5 DEF Start
  <2>2. NamesTrue(p, t)
    BY <1>5, FreshNames
  <2> HIDE DEF t
  <2> QED BY <1>1, <2>1, <2>2, NamesGoOn
<1>6. CASE \E p \in CronPasses : StartCron(p)
  <2>1. PICK p \in CronPasses, ts \in SetToSeqs(Tasks) : Start(p, ts)
    BY <1>6 DEF StartCron
  <2>2. ts \in Seq(Tasks) /\ \A i, j \in DOMAIN ts : ts[i] = ts[j] => i = j
    BY TasksStarted DEF SetToSeqs
  <2> QED BY <1>2, <1>5, <2>1, <2>2, ImportAssumption
<1>7. CASE \E p \in Passes \ CronPasses : StartButton(p)
  <2>1. PICK p \in Passes \ CronPasses, t \in ButtonTasks : Start(p, <<t>>)
    BY <1>7 DEF StartButton
  <2>2. <<t>> \in Seq(Tasks) /\ DOMAIN <<t>> = {1} /\ <<t>>[1] = t
    BY ImportAssumption
  <2> QED BY <1>2, <1>5, <2>1, <2>2
<1>8. ASSUME NEW p \in Passes,
             List(p) \/ Leave(p) \/ TakeAway(p) \/ NextTask(p) \/ \E n \in Names : Read(p, n)
      PROVE  NamesInv' /\ rows' = rows
  BY <1>8, NamesAfterMove DEF List, Leave, TakeAway, NextTask, Read
<1>9. ASSUME NEW p \in Passes,
             ListFails(p) \/ TakeAwayFails(p) \/ CommitFails(p) \/ \E n \in Names : ReadFails(p, n)
      PROVE  NamesInv' /\ rows' = rows
  <2>1. Abort(p) /\ rows' = rows
    BY <1>9 DEF ListFails, TakeAwayFails, CommitFails, ReadFails
  <2> QED BY <1>1, <2>1, NamesAfterAbort
<1>10. ASSUME NEW p \in Passes, PassDies(p)
       PROVE  NamesInv' /\ rows' = rows
  BY <1>1, <1>10, IdleNames, NamesGoOn DEF PassDies
<1>11. CASE \E p \in Passes : CommitFile(p)
  BY <1>11, NamesAfterCommit
<1>12. CASE \E p \in Passes : (PassStep(p) /\ ~ CommitFile(p)) \/ CommitFails(p) \/ PassDies(p)
  <2>1. NamesInv' /\ rows' = rows
    BY <1>8, <1>9, <1>10, <1>12 DEF PassStep
  <2> QED BY <1>2, <2>1
<1>13. UNCHANGED importVars => UNCHANGED <<rows, pass>>
  BY DEF importVars
<1> QED BY <1>3, <1>4, <1>6, <1>7, <1>11, <1>12, <1>13 DEF ImportNext, PassStep

\* What the passes know of the names that were imported, in every reachable state.
THEOREM NamesInvariance == ImportSpec => [](FilesInv /\ NamesInv)
<1>1. ImportInit => NamesInv
  BY IdleNames DEF ImportInit, NamesInv
<1>2. FilesInv /\ NamesInv /\ [ImportNext]_importVars => NamesInv'
  BY NamesNext
<1> QED BY <1>1, <1>2, FilesInvariance, PTL DEF ImportSpec

\* "If checked, a file will not be imported if an Attachment Queue with the same name
\* already exists": however many passes and tasks there are and whatever names they share,
\* only a pass that is overtaken imports such a file (run_import, avoid_duplicated_files).
THEOREM NamesImportedOnce == ImportSpec => NoDuplicateName
<1>1. FilesInv /\ NamesInv /\ [ImportNext]_importVars
        => [\A v \in Versions :
              rows'[v] > rows[v] /\ v[1] \in AvoidDuplicates /\ v[2] \in ImportedNames =>
                \E p \in Passes : /\ pass[p].phase = "managed" /\ pass'[p] # pass[p]
                                  /\ Current(p) = <<v[1], v[2]>> /\ Overtaken(p, v[2])]_rows
  BY NamesNext
<1> QED BY <1>1, NamesInvariance, PTL DEF ImportSpec, NoDuplicateName

============================================================================
