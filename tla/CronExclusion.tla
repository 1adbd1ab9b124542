--------------------------- MODULE CronExclusion ---------------------------
(***************************************************************************)
(* base_cron_exclusion: scheduled actions that must not run together.      *)
(* Cron workers take the due actions one after the other.  A worker locks  *)
(* the ir_cron row of its action with one cursor (cron_cr, by Odoo, FOR NO *)
(* KEY UPDATE SKIP LOCKED) and then the rows of all exclusive actions with *)
(* another one (lock_cr, FOR UPDATE NOWAIT).  The two transactions are not *)
(* atomic together, and users edit the actions at the same time.           *)
(*                                                                         *)
(* Code run by an action may call _trigger() on other actions; the foreign *)
(* key of ir.cron.trigger then waits for a FOR UPDATE lock on that row.    *)
(***************************************************************************)
EXTENDS Naturals, FiniteSets

CONSTANTS Crons,     \* scheduled actions
          Workers,   \* cron workers
          None,      \* "no action"
          Triggers,  \* <<a, b>>: the code of action a triggers action b
          Exclusions,\* <<a, b>>: pairs an administrator may enter on action a
          MaxCrashes \* bound on worker deaths

ASSUME CronAssumption == /\ None \notin Crons
                         /\ Triggers \subseteq Crons \X Crons
                         /\ Exclusions \subseteq Crons \X Crons
                         /\ MaxCrashes \in Nat

VARIABLES enabled,  \* actions that are active and have numbercall # 0
          due,      \* actions whose nextcall has come
          excl,     \* the relation ir_cron_exclusion, as stored
          worker,   \* Workers -> what the worker is doing
          crashes   \* worker deaths so far

vars == <<enabled, due, excl, worker, crashes>>

(***************************************************************************)
(* own: the action whose row cron_cr has locked; ids: the exclusive actions*)
(* lock_cr has read; held: the rows lock_cr has locked; stale: one of ids  *)
(* was rewritten since; todo: due actions of this pass not yet tried.      *)
(***************************************************************************)
IdleWorker == [phase |-> "idle", own |-> None, ids |-> {}, held |-> {}, stale |-> FALSE, todo |-> {}]

\* The exclusive actions of c: the relation is read in both directions.
Exclusive(c) == {d \in Crons : <<c, d>> \in excl \/ <<d, c>> \in excl}

LockedBy(w, c) == worker[w].own = c \/ c \in worker[w].held

RowFree(c) == \A w \in Workers : ~ LockedBy(w, c)

\* The workers after row c was rewritten by a commit.
Touched(c) == [w \in Workers |-> IF worker[w].phase = "read" /\ c \in worker[w].ids
                                 THEN [worker[w] EXCEPT !.stale = TRUE] ELSE worker[w]]

Init == /\ enabled \in SUBSET Crons
        /\ due = {}
        /\ excl = {}
        /\ worker = [w \in Workers |-> IdleWorker]
        /\ crashes = 0

----------------------------------------------------------------------------
(* Time and users *)

Due(c) == /\ c \notin due /\ due' = due \cup {c}
          /\ UNCHANGED <<enabled, excl, worker, crashes>>

\* Odoo refuses to write an action whose row is locked (_try_lock).
Toggle(c) ==
  /\ RowFree(c)
  /\ enabled' = IF c \in enabled THEN enabled \ {c} ELSE enabled \cup {c}
  /\ worker' = Touched(c)
  /\ UNCHANGED <<due, excl, crashes>>

\* mutually_exclusive_cron_ids of c is edited; only the row of c is checked.
\* _check_auto_exclusion: never with itself.
EditExclusion(c, ds) ==
  /\ RowFree(c) /\ c \notin ds /\ {c} \X ds \subseteq Exclusions
  /\ excl' = {e \in excl : e[1] # c} \cup ({c} \X ds)
  /\ worker' = Touched(c)
  /\ UNCHANGED <<enabled, due, crashes>>

----------------------------------------------------------------------------
(* A cron worker *)

\* Odoo (external): the pass over the actions that are due.
BeginPass(w) ==
  /\ worker[w].phase = "idle" /\ worker[w].todo = {} /\ due \cap enabled # {}
  /\ worker' = [worker EXCEPT ![w].todo = due \cap enabled]
  /\ UNCHANGED <<enabled, due, excl, crashes>>

\* Odoo (external): _acquire_one_job locks the row, or skips it when it is
\* locked or not to be run any more.
Runnable(c) == RowFree(c) /\ c \in due \cap enabled

Acquire(w, c) ==
  /\ worker[w].phase = "idle" /\ c \in worker[w].todo /\ Runnable(c)
  /\ worker' = [worker EXCEPT ![w].todo = @ \ {c}, ![w].phase = "acquired", ![w].own = c]
  /\ UNCHANGED <<enabled, due, excl, crashes>>

SkipJob(w, c) ==
  /\ worker[w].phase = "idle" /\ c \in worker[w].todo /\ ~ Runnable(c)
  /\ worker' = [worker EXCEPT ![w].todo = @ \ {c}]
  /\ UNCHANGED <<enabled, due, excl, crashes>>

\* _lock_mutually_exclusive_cron: the relation is read; the snapshot of lock_cr
\* is taken here, so it also decides which of the rows are active.
ReadExclusions(w) ==
  /\ worker[w].phase = "acquired"
  /\ worker' = [worker EXCEPT ![w].phase = "read",
                              ![w].ids = Exclusive(worker[w].own) \cap enabled]
  /\ UNCHANGED <<enabled, due, excl, crashes>>

\* SELECT ... FOR UPDATE NOWAIT gets all of the rows or fails.  Both cursors of
\* the worker are separate transactions, but ids never holds the own action.
\* (Definition_Variant is a mutation of the definition that follows it; nothing
\* else uses it.)
CanLockAll_Blind(w) == ~ worker[w].stale
CanLockAll(w) == (\A d \in worker[w].ids : RowFree(d)) /\ ~ worker[w].stale

LockExclusions(w) ==
  /\ worker[w].phase = "read" /\ CanLockAll(w)
  /\ worker' = [worker EXCEPT ![w].phase = "running", ![w].held = worker[w].ids]
  /\ UNCHANGED <<enabled, due, excl, crashes>>

\* The exception leaves _process_job and ends the whole pass of the worker;
\* the action stays due.
LockFails(w) ==
  /\ worker[w].phase = "read" /\ ~ CanLockAll(w)
  /\ worker' = [worker EXCEPT ![w] = IdleWorker]
  /\ UNCHANGED <<enabled, due, excl, crashes>>

\* Nobody, not even this worker's lock_cr, has c locked FOR UPDATE.
Triggerable(c) == \A w \in Workers : c \notin worker[w].held

\* The action's code triggers another one and has to wait for its row.
TriggerWaits(w, c) ==
  /\ worker[w].phase = "running" /\ <<worker[w].own, c>> \in Triggers /\ ~ Triggerable(c)
  /\ worker' = [worker EXCEPT ![w].phase = "waiting"]
  /\ UNCHANGED <<enabled, due, excl, crashes>>

TriggerGoesOn(w) ==
  /\ worker[w].phase = "waiting"
  /\ \A c \in Crons : <<worker[w].own, c>> \in Triggers => Triggerable(c)
  /\ worker' = [worker EXCEPT ![w].phase = "running"]
  /\ UNCHANGED <<enabled, due, excl, crashes>>

\* super()._process_job ends: nextcall and numbercall are written and cron_cr
\* is committed, which gives the own row back.  exhausted: numbercall is now 0.
Finish(w, exhausted) ==
  /\ worker[w].phase = "running"
  /\ due' = due \ {worker[w].own}
  /\ enabled' = IF exhausted THEN enabled \ {worker[w].own} ELSE enabled
  /\ worker' = [Touched(worker[w].own) EXCEPT ![w].phase = "closing", ![w].own = None]
  /\ UNCHANGED <<excl, crashes>>

\* finally: locked_crons.close()
CloseLocks_Leaked(w) ==
  /\ worker[w].phase = "closing"
  /\ worker' = [worker EXCEPT ![w].phase = "idle", ![w].ids = {}]
  /\ UNCHANGED <<enabled, due, excl, crashes>>

CloseLocks(w) ==
  /\ worker[w].phase = "closing"
  /\ worker' = [worker EXCEPT ![w] = [IdleWorker EXCEPT !.todo = worker[w].todo]]
  /\ UNCHANGED <<enabled, due, excl, crashes>>

\* The worker process dies and PostgreSQL releases its locks.
Crash(w) ==
  /\ crashes < MaxCrashes /\ crashes' = crashes + 1
  /\ worker[w].phase # "idle"
  /\ worker' = [worker EXCEPT ![w] = IdleWorker]
  /\ UNCHANGED <<enabled, due, excl>>

WorkerStep(w) ==
  \/ \E c \in Crons : Acquire(w, c) \/ SkipJob(w, c)
  \/ ReadExclusions(w) \/ LockExclusions(w) \/ LockFails(w)
  \/ TriggerGoesOn(w) \/ CloseLocks(w)
  \/ \E c \in Crons : TriggerWaits(w, c)
  \/ \E exhausted \in BOOLEAN : Finish(w, exhausted)

Next == \/ \E c \in Crons : Due(c) \/ Toggle(c)
        \/ \E c \in Crons, ds \in SUBSET Crons : EditExclusion(c, ds)
        \/ \E w \in Workers : BeginPass(w) \/ WorkerStep(w) \/ Crash(w)

\* Code that has begun to run goes on unless it waits for a lock.
Fairness == \A w \in Workers : /\ WF_vars(WorkerStep(w))
                               /\ SF_vars(TriggerGoesOn(w))
                               /\ SF_vars(\E x \in BOOLEAN : Finish(w, x))

Spec == Init /\ [][Next]_vars
FairSpec == Spec /\ Fairness

----------------------------------------------------------------------------
(* Properties *)

Phases == {"idle", "acquired", "read", "running", "waiting", "closing"}

\* Workers and the two tables keep the shape the code gives them, and no
\* action is ever exclusive with itself.
TypeOK ==
  /\ enabled \subseteq Crons /\ due \subseteq Crons
  /\ excl \subseteq {e \in Crons \X Crons : e[1] # e[2]}
  /\ worker \in [Workers -> [phase : Phases, own : Crons \cup {None}, ids : SUBSET Crons,
                             held : SUBSET Crons, stale : BOOLEAN, todo : SUBSET Crons]]
  /\ crashes \in Nat

Running(w, c) == worker[w].phase \in {"running", "waiting"} /\ worker[w].own = c

\* "select the ones that should not run simultaneously", "this is mutual": two
\* exclusive actions never run at the same time, in whichever direction the
\* exclusion was entered, even when it is edited, or an action activated, while
\* the two workers are between their locks (_lock_mutually_exclusive_cron).
NeverTogether ==
  \A v, w \in Workers, c, d \in Crons :
     Running(v, c) /\ Running(w, d) => <<c, d>> \notin excl

\* A row has one owner: an action that a worker holds back is not being run by
\* another one, so releasing the locks of one run cannot uncover another run.
LocksDisjoint ==
  \A v, w \in Workers : v # w =>
     /\ worker[v].own # None => ~ LockedBy(w, worker[v].own)
     /\ worker[v].held \cap worker[w].held = {}

\* A worker that has begun an action ends it and gives its locks back, also
\* when its code triggers an action that somebody holds back.
EveryRunEnds == \A w \in Workers : worker[w].phase = "running" ~> worker[w].phase = "idle"

============================================================================
