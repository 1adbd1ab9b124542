----------------------------- MODULE CronProofs -----------------------------
(***************************************************************************)
(* Proofs about scheduled actions: mutually exclusive actions never run    *)
(* together, for any number of actions and workers and any sequence of     *)
(* edits and crashes; and an action keeps its local hour over the changes  *)
(* of the year.  The two specifications have nothing in common: Spec, Init *)
(* and Next are those of CronExclusion.                                    *)
(***************************************************************************)
EXTENDS CronExclusion, CronDaylightSaving, TLAPS

WorkerType == [phase : Phases, own : Crons \cup {None}, ids : SUBSET Crons,
               held : SUBSET Crons, stale : BOOLEAN, todo : SUBSET Crons]

\* What a worker owns in each phase.
PhaseInv ==
  \A w \in Workers :
     /\ worker[w].phase \in {"idle", "closing"} => worker[w].own = None
     /\ worker[w].phase \in {"idle", "acquired", "read"} => worker[w].held = {}
     /\ worker[w].phase \in {"acquired", "read", "running", "waiting"} => worker[w].own \in Crons
     /\ worker[w].phase \in {"running", "waiting"} => worker[w].held = worker[w].ids

\* An action whose row is locked to be run cannot be deactivated.
OwnEnabled == \A w \in Workers : worker[w].own # None => worker[w].own \in enabled

\* Of two workers that have both read the exclusions, one at least has seen
\* that the other one's action is exclusive with its own.
OneHasSeen ==
  \A v, w \in Workers :
     /\ v # w
     /\ worker[v].phase \in {"read", "running", "waiting"}
     /\ worker[w].phase \in {"read", "running", "waiting"}
     /\ <<worker[v].own, worker[w].own>> \in excl
     => worker[v].own \in worker[w].ids \/ worker[w].own \in worker[v].ids

IInv == TypeOK /\ PhaseInv /\ LocksDisjoint /\ OwnEnabled /\ OneHasSeen

USE CronAssumption

LEMMA InitIInv == Init => IInv
  BY DEF Init, IInv, TypeOK, PhaseInv, LocksDisjoint, LockedBy, OwnEnabled, OneHasSeen,
         IdleWorker, Phases

\* Marking workers stale changes nothing else about them.
LEMMA TouchedFacts ==
  ASSUME TypeOK, NEW c
  PROVE  /\ Touched(c) \in [Workers -> WorkerType]
         /\ \A w \in Workers :
              /\ Touched(c)[w].phase = worker[w].phase /\ Touched(c)[w].own = worker[w].own
              /\ Touched(c)[w].ids = worker[w].ids /\ Touched(c)[w].held = worker[w].held
<1>0. \A w \in Workers : worker[w] \in WorkerType
  BY DEF TypeOK, WorkerType
<1> SUFFICES ASSUME NEW w \in Workers
             PROVE  /\ Touched(c)[w] \in WorkerType
                    /\ Touched(c)[w].phase = worker[w].phase /\ Touched(c)[w].own = worker[w].own
                    /\ Touched(c)[w].ids = worker[w].ids /\ Touched(c)[w].held = worker[w].held
  BY DEF Touched
<1>1. CASE worker[w].phase = "read" /\ c \in worker[w].ids
  <2>1. Touched(c)[w] = [worker[w] EXCEPT !.stale = TRUE]
    BY <1>1 DEF Touched
  <2>2. [worker[w] EXCEPT !.stale = TRUE] \in WorkerType
    BY <1>0 DEF WorkerType
  <2> QED BY <1>0, <2>1, <2>2 DEF WorkerType
<1>2. CASE ~ (worker[w].phase = "read" /\ c \in worker[w].ids)
  <2>1. Touched(c)[w] = worker[w]
    BY <1>2 DEF Touched
  <2> QED BY <1>0, <2>1
<1> QED BY <1>1, <1>2

\* An edit that moves no worker on and touches only a row nobody owns.
LEMMA EditStep ==
  ASSUME IInv, NEW c \in Crons, RowFree(c), worker' = Touched(c), UNCHANGED <<due, crashes>>,
         enabled' \subseteq Crons, excl' \subseteq {e \in Crons \X Crons : e[1] # e[2]},
         \A d \in Crons \ {c} : d \in enabled => d \in enabled',
         \A d, e \in Crons : d # c /\ <<d, e>> \in excl' => <<d, e>> \in excl
  PROVE  IInv'
<1> USE DEF IInv
<1>1. TypeOK'
  BY TouchedFacts DEF TypeOK, WorkerType
<1>2. \A w \in Workers :
        /\ worker'[w].phase = worker[w].phase /\ worker'[w].own = worker[w].own
        /\ worker'[w].ids = worker[w].ids /\ worker'[w].held = worker[w].held
  BY TouchedFacts
<1>3. \A w \in Workers : worker[w].own # c
  BY DEF RowFree, LockedBy
<1>4. PhaseInv' /\ LocksDisjoint'
  BY <1>2 DEF PhaseInv, LocksDisjoint, LockedBy
<1>5. OwnEnabled'
  BY <1>2, <1>3 DEF OwnEnabled, TypeOK
<1>6. OneHasSeen'
  BY <1>2, <1>3 DEF OneHasSeen, PhaseInv
<1> QED BY <1>1, <1>4, <1>5, <1>6

LEMMA ToggleStep == ASSUME IInv, NEW c \in Crons, Toggle(c) PROVE IInv'
<1>1. enabled' \subseteq Crons /\ \A d \in Crons \ {c} : d \in enabled => d \in enabled'
  BY DEF Toggle, IInv, TypeOK
<1> QED BY <1>1, EditStep DEF Toggle, IInv, TypeOK

LEMMA EditExclusionStep ==
  ASSUME IInv, NEW c \in Crons, NEW ds \in SUBSET Crons, EditExclusion(c, ds) PROVE IInv'
<1>1. /\ excl' \subseteq {e \in Crons \X Crons : e[1] # e[2]}
      /\ \A d, e \in Crons : d # c /\ <<d, e>> \in excl' => <<d, e>> \in excl
  BY DEF EditExclusion, IInv, TypeOK
<1> QED BY <1>1, EditStep DEF EditExclusion, IInv, TypeOK

\* A step of one worker that acquires nothing.
LEMMA ReleaseStep ==
  ASSUME IInv, NEW w \in Workers, NEW r \in WorkerType, worker' = [worker EXCEPT ![w] = r],
         r.own \in {worker[w].own, None}, r.held \in {worker[w].held, {}},
         r.phase \in {"idle", "closing"} => r.own = None,
         r.phase \in {"idle", "acquired", "read"} => r.held = {},
         r.phase \in {"acquired", "read", "running", "waiting"} => r.own \in Crons,
         r.phase \in {"running", "waiting"} => /\ worker[w].phase \in {"running", "waiting"}
                                               /\ r.own = worker[w].own /\ r.held = r.ids
                                               /\ r.ids = worker[w].ids,
         r.phase # "read",
         UNCHANGED <<enabled, excl>>, due' \subseteq Crons, crashes' \in Nat
  PROVE  IInv'
<1> USE DEF IInv
<1>0. worker'[w] = r /\ \A v \in Workers \ {w} : worker'[v] = worker[v]
  BY DEF TypeOK
<1>1. TypeOK'
  BY DEF TypeOK, WorkerType
<1>2. PhaseInv' /\ OwnEnabled'
  BY <1>0 DEF PhaseInv, OwnEnabled
<1>3. LocksDisjoint'
  BY <1>0 DEF LocksDisjoint, LockedBy
<1>4. OneHasSeen'
  BY <1>0 DEF OneHasSeen
<1> QED BY <1>1, <1>2, <1>3, <1>4

LEMMA AcquireStep == ASSUME IInv, NEW w \in Workers, NEW c \in Crons, Acquire(w, c) PROVE IInv'
<1> USE DEF IInv
<1> DEFINE r == [worker[w] EXCEPT !.todo = @ \ {c}, !.phase = "acquired", !.own = c]
<1>0. worker[w] \in WorkerType
  BY DEF TypeOK, WorkerType
<1>1. r \in WorkerType /\ r.phase = "acquired" /\ r.own = c /\ r.held = worker[w].held
  BY <1>0 DEF WorkerType, Phases
<1>2. worker' = [worker EXCEPT ![w] = r] /\ UNCHANGED <<enabled, due, excl, crashes>>
  BY DEF Acquire
<1>r. RowFree(c) /\ c \in enabled
  BY DEF Acquire, Runnable
<1> HIDE DEF r
<1>3. worker'[w] = r /\ \A v \in Workers \ {w} : worker'[v] = worker[v]
  BY <1>2 DEF TypeOK
<1>4. TypeOK'
  BY <1>1, <1>2 DEF TypeOK, WorkerType
<1>5. worker[w].held = {}
  BY DEF Acquire, PhaseInv
<1>6. PhaseInv' /\ OwnEnabled'
  BY <1>r, <1>1, <1>2, <1>3, <1>5 DEF PhaseInv, OwnEnabled
<1>7. LocksDisjoint'
  BY <1>r, <1>1, <1>3, <1>5 DEF LocksDisjoint, LockedBy, RowFree
<1>8. OneHasSeen'
  BY <1>1, <1>2, <1>3 DEF OneHasSeen
<1> QED BY <1>4, <1>6, <1>7, <1>8

\* The steps that leave a worker, which has nothing, with another to-do list.
LEMMA TodoSteps ==
  ASSUME IInv, NEW w \in Workers, BeginPass(w) \/ \E c \in Crons : SkipJob(w, c)
  PROVE  IInv'
<1> USE DEF IInv
<1>1. worker[w] \in WorkerType /\ worker[w].phase = "idle"
  BY DEF TypeOK, WorkerType, BeginPass, SkipJob
<1>2. PICK cs \in SUBSET Crons : worker' = [worker EXCEPT ![w].todo = cs]
  <2>1. CASE BeginPass(w)
    BY <2>1 DEF BeginPass, TypeOK
  <2>2. CASE \E c \in Crons : SkipJob(w, c)
    <3>1. PICK c \in Crons : SkipJob(w, c)
      BY <2>2
    <3>2. worker[w].todo \ {c} \in SUBSET Crons
      BY <1>1 DEF WorkerType
    <3> QED BY <3>1, <3>2 DEF SkipJob
  <2> QED BY <2>1, <2>2
<1> DEFINE r == [worker[w] EXCEPT !.todo = cs]
<1>3. r \in WorkerType /\ r.phase = "idle" /\ r.own = worker[w].own /\ r.held = worker[w].held
  BY <1>1 DEF WorkerType
<1>4. worker' = [worker EXCEPT ![w] = r] /\ UNCHANGED <<enabled, due, excl, crashes>>
  BY <1>2 DEF BeginPass, SkipJob
<1> HIDE DEF r
<1>5. worker[w].own = None /\ worker[w].held = {}
  BY <1>1 DEF PhaseInv
<1> QED BY <1>3, <1>4, <1>5, ReleaseStep DEF TypeOK

LEMMA ReadStep == ASSUME IInv, NEW w \in Workers, ReadExclusions(w) PROVE IInv'
<1> USE DEF IInv
<1> DEFINE xs == Exclusive(worker[w].own) \cap enabled
           r == [worker[w] EXCEPT !.phase = "read", !.ids = xs]
<1>0. worker[w] \in WorkerType /\ worker[w].phase = "acquired" /\ xs \subseteq Crons
  BY DEF TypeOK, WorkerType, ReadExclusions, Exclusive
<1>1. r \in WorkerType /\ r.phase = "read" /\ r.own = worker[w].own /\ r.held = worker[w].held
      /\ r.ids = xs
  BY <1>0 DEF WorkerType, Phases
<1>2. worker' = [worker EXCEPT ![w] = r] /\ UNCHANGED <<enabled, due, excl, crashes>>
  BY DEF ReadExclusions
<1>x. \A d \in Crons : (<<worker[w].own, d>> \in excl \/ <<d, worker[w].own>> \in excl) /\ d \in enabled
                       => d \in xs
  BY DEF Exclusive
<1> HIDE DEF r, xs
<1>3. worker'[w] = r /\ \A v \in Workers \ {w} : worker'[v] = worker[v]
  BY <1>2 DEF TypeOK
<1>4. TypeOK'
  BY <1>1, <1>2 DEF TypeOK, WorkerType
<1>5. PhaseInv' /\ OwnEnabled' /\ LocksDisjoint'
  BY <1>0, <1>1, <1>2, <1>3 DEF PhaseInv, OwnEnabled, LocksDisjoint, LockedBy
<1>6. OneHasSeen'
  <2>1. \A v \in Workers : worker[v].phase \in {"read", "running", "waiting"} =>
           worker[v].own \in Crons /\ worker[v].own \in enabled
    BY DEF PhaseInv, OwnEnabled
  <2> SUFFICES ASSUME NEW u \in Workers, NEW v \in Workers, u # v,
                      worker'[u].phase \in {"read", "running", "waiting"},
                      worker'[v].phase \in {"read", "running", "waiting"},
                      <<worker'[u].own, worker'[v].own>> \in excl
               PROVE  worker'[u].own \in worker'[v].ids \/ worker'[v].own \in worker'[u].ids
    BY <1>2 DEF OneHasSeen
  <2>2. CASE u = w
    BY <1>1, <1>3, <1>x, <2>1, <2>2
  <2>3. CASE v = w
    BY <1>1, <1>3, <1>x, <2>1, <2>3
  <2>4. CASE u # w /\ v # w
    BY <1>3, <2>4 DEF OneHasSeen
  <2> QED BY <2>2, <2>3, <2>4
<1> QED BY <1>4, <1>5, <1>6

LEMMA LockStep == ASSUME IInv, NEW w \in Workers, LockExclusions(w) PROVE IInv'
<1> USE DEF IInv
<1> DEFINE r == [worker[w] EXCEPT !.phase = "running", !.held = worker[w].ids]
<1>0. worker[w] \in WorkerType /\ worker[w].phase = "read"
  BY DEF TypeOK, WorkerType, LockExclusions
<1>1. r \in WorkerType /\ r.phase = "running" /\ r.own = worker[w].own /\ r.ids = worker[w].ids
      /\ r.held = worker[w].ids
  BY <1>0 DEF WorkerType, Phases
<1>2. worker' = [worker EXCEPT ![w] = r] /\ UNCHANGED <<enabled, due, excl, crashes>>
  BY DEF LockExclusions
<1>x. \A d \in worker[w].ids, v \in Workers : ~ LockedBy(v, d)
  BY DEF LockExclusions, CanLockAll, RowFree
<1> HIDE DEF r
<1>3. worker'[w] = r /\ \A v \in Workers \ {w} : worker'[v] = worker[v]
  BY <1>2 DEF TypeOK
<1>4. TypeOK'
  BY <1>1, <1>2 DEF TypeOK, WorkerType
<1>5. PhaseInv' /\ OwnEnabled'
  BY <1>0, <1>1, <1>2, <1>3 DEF PhaseInv, OwnEnabled
<1>6. LocksDisjoint'
  BY <1>1, <1>3, <1>x DEF LocksDisjoint, LockedBy
<1>7. OneHasSeen'
  BY <1>0, <1>1, <1>2, <1>3 DEF OneHasSeen
<1> QED BY <1>4, <1>5, <1>6, <1>7

\* The two steps that keep a run going.
LEMMA WaitSteps ==
  ASSUME IInv, NEW w \in Workers, (\E c \in Crons : TriggerWaits(w, c)) \/ TriggerGoesOn(w)
  PROVE  IInv'
<1>1. PICK ph \in {"running", "waiting"} : worker' = [worker EXCEPT ![w].phase = ph]
  BY DEF TriggerWaits, TriggerGoesOn
<1>2. worker[w].phase \in {"running", "waiting"} /\ UNCHANGED <<enabled, due, excl, crashes>>
  BY DEF TriggerWaits, TriggerGoesOn
<1> DEFINE r == [worker[w] EXCEPT !.phase = ph]
<1>3. r \in WorkerType /\ r.phase = ph /\ r.own = worker[w].own /\ r.held = worker[w].held
      /\ r.ids = worker[w].ids
  BY DEF IInv, TypeOK, WorkerType, Phases
<1>4. worker' = [worker EXCEPT ![w] = r]
  BY <1>1
<1> HIDE DEF r
<1> QED BY <1>1, <1>2, <1>3, <1>4, ReleaseStep DEF IInv, TypeOK, PhaseInv

LEMMA FinishStep ==
  ASSUME IInv, NEW w \in Workers, NEW exhausted \in BOOLEAN, Finish(w, exhausted) PROVE IInv'
<1> USE DEF IInv
<1> DEFINE c == worker[w].own
           t == Touched(c)
           r == [t[w] EXCEPT !.phase = "closing", !.own = None]
<1>0. c \in Crons /\ worker[w].phase = "running"
  BY DEF Finish, PhaseInv
<1>1. /\ t \in [Workers -> WorkerType]
      /\ \A v \in Workers : /\ t[v].phase = worker[v].phase /\ t[v].own = worker[v].own
                            /\ t[v].ids = worker[v].ids /\ t[v].held = worker[v].held
  BY TouchedFacts
<1>2. worker' = [t EXCEPT ![w] = r]
  BY DEF Finish
<1> HIDE DEF t
<1>3. r \in WorkerType /\ r.phase = "closing" /\ r.own = None /\ r.held = worker[w].held
  <2>1. t[w] \in WorkerType /\ t[w].held = worker[w].held
    BY <1>1
  <2>2. "closing" \in Phases
    BY DEF Phases
  <2>3. r.phase = "closing" /\ r.own = None /\ r.held = t[w].held /\ r \in WorkerType
    BY <2>1, <2>2 DEF WorkerType
  <2> QED BY <2>1, <2>3
<1> HIDE DEF r
<1>4. worker'[w] = r /\ \A v \in Workers \ {w} : worker'[v] = t[v]
  BY <1>1, <1>2
<1>5. TypeOK'
  <2>1. worker' \in [Workers -> WorkerType]
    BY <1>1, <1>2, <1>3
  <2> QED BY <2>1 DEF Finish, TypeOK, WorkerType
<1>6. \A v \in Workers \ {w} : worker[v].own # c
  BY <1>0 DEF LocksDisjoint, LockedBy
<1>7. PhaseInv'
  BY <1>1, <1>3, <1>4 DEF PhaseInv
<1>8. OwnEnabled'
  <2>1. \A d \in enabled : d # c => d \in enabled'
    BY DEF Finish
  <2> QED BY <1>1, <1>3, <1>4, <1>6, <2>1 DEF OwnEnabled
<1>9. LocksDisjoint'
  BY <1>1, <1>3, <1>4 DEF LocksDisjoint, LockedBy
<1>10. OneHasSeen'
  <2>1. excl' = excl
    BY DEF Finish
  <2> QED BY <1>1, <1>3, <1>4, <2>1 DEF OneHasSeen
<1> QED BY <1>5, <1>7, <1>8, <1>9, <1>10

\* The steps that leave a worker with nothing.
LEMMA IdleSteps ==
  ASSUME IInv, NEW w \in Workers, LockFails(w) \/ CloseLocks(w) \/ Crash(w)
  PROVE  IInv'
<1>1. UNCHANGED <<enabled, excl, due>> /\ crashes' \in Nat
  BY DEF LockFails, CloseLocks, Crash, IInv, TypeOK
<1>2. worker[w].todo \in SUBSET Crons
  BY DEF IInv, TypeOK
<1>3. PICK r \in {IdleWorker, [IdleWorker EXCEPT !.todo = worker[w].todo]} :
         worker' = [worker EXCEPT ![w] = r]
  BY DEF LockFails, CloseLocks, Crash
<1>4. r \in WorkerType /\ r.phase = "idle" /\ r.own = None /\ r.held = {}
  <2>1. CASE r = IdleWorker
    BY <2>1 DEF IdleWorker, WorkerType, Phases
  <2>2. CASE r = [IdleWorker EXCEPT !.todo = worker[w].todo]
    BY <1>2, <2>2 DEF IdleWorker, WorkerType, Phases
  <2> QED BY <2>1, <2>2
<1> QED BY <1>1, <1>3, <1>4, ReleaseStep DEF IInv, TypeOK

LEMMA NextIInv == IInv /\ [Next]_vars => IInv'
<1> SUFFICES ASSUME IInv, [Next]_vars PROVE IInv'
  OBVIOUS
<1>1. ASSUME NEW c \in Crons, Due(c) PROVE IInv'
  BY <1>1 DEF Due, IInv, TypeOK, PhaseInv, LocksDisjoint, LockedBy, OwnEnabled, OneHasSeen
<1>2. ASSUME NEW w \in Workers, WorkerStep(w) PROVE IInv'
  BY <1>2, AcquireStep, TodoSteps, ReadStep, LockStep, IdleSteps, WaitSteps, FinishStep DEF WorkerStep
<1>3. CASE UNCHANGED vars
  BY <1>3 DEF vars, IInv, TypeOK, PhaseInv, LocksDisjoint, LockedBy, OwnEnabled, OneHasSeen
<1> QED BY <1>1, <1>2, <1>3, ToggleStep, EditExclusionStep, IdleSteps, TodoSteps DEF Next

\* The inductive invariant holds throughout.
THEOREM Invariance == Spec => []IInv
  BY InitIInv, NextIInv, PTL DEF Spec

\* No two workers own the same row.
THEOREM RowsHaveOneOwner == Spec => []LocksDisjoint
<1>1. IInv => LocksDisjoint
  BY DEF IInv
<1> QED BY <1>1, Invariance, PTL

\* Two mutually exclusive scheduled actions never run at the same time.
THEOREM MutualExclusion == Spec => []NeverTogether
<1>1. ASSUME IInv PROVE NeverTogether
  <2> SUFFICES ASSUME NEW v \in Workers, NEW w \in Workers, NEW c \in Crons, NEW d \in Crons,
                      Running(v, c), Running(w, d), <<c, d>> \in excl
               PROVE  FALSE
    BY DEF NeverTogether
  <2>1. v # w
    BY <1>1 DEF Running, IInv, TypeOK
  <2>2. c \in worker[w].ids \/ d \in worker[v].ids
    BY <1>1, <2>1 DEF Running, IInv, OneHasSeen
  <2>3. worker[w].held = worker[w].ids /\ worker[v].held = worker[v].ids
    BY <1>1 DEF Running, IInv, PhaseInv
  <2> QED BY <1>1, <2>1, <2>2, <2>3 DEF Running, IInv, LocksDisjoint, LockedBy
<1> QED BY <1>1, Invariance, PTL

----------------------------------------------------------------------------
(* CronDaylightSaving.  Odoo plans the first call after the run has begun, in  *)
(* whole intervals; the loop of _calculate_daylight_offset stops at the same   *)
(* one, or before it when the calls are limited.  What the change of offset    *)
(* between it and the call that was made takes off is what keeps the hour.     *)

\* Whole intervals: the next multiple is a whole interval further.
LEMMA WholeIntervals ==
  ASSUME NEW d \in Nat \ {0}, NEW a \in Int, NEW b \in Int
  PROVE  /\ d * a \in Int
         /\ a < b => d * a + d <= d * b
         /\ d * (1 + a) = d * a + d
<1>1. d * a \in Int /\ d * b \in Int /\ d * (1 + a) = d * a + d
  OBVIOUS
<1>2. ASSUME a < b PROVE d * a + d <= d * b
  <2>1. PICK c \in Nat : b = a + 1 + c
    <3>1. b - a - 1 \in Nat /\ b = a + 1 + (b - a - 1)
      BY <1>2
    <3> QED BY <3>1
  <2>2. d * b = d * a + d + d * c
    BY <2>1
  <2>3. d * c >= 0
    OBVIOUS
  <2>4. d * c \in Int /\ d * a \in Int
    OBVIOUS
  <2> QED BY <2>2, <2>3, <2>4
<1> QED BY <1>1, <1>2

\* FirstAfter is the call, counted in whole intervals, that is the first after t.
LEMMA FirstAfterIs ==
  ASSUME NEW d \in Nat \ {0}, NEW from \in Nat, NEW t \in Nat, from <= t
  PROVE  \E q \in Nat : /\ FirstAfter(from, d, t) = from + d * q
                        /\ t < from + d * q /\ from + d * q <= t + d
<1> DEFINE k == (t - from) \div d
<1>1. k \in Nat /\ d * k <= t - from /\ t - from < d * k + d
  OBVIOUS
<1>2. FirstAfter(from, d, t) = from + d * (1 + k)
  BY DEF FirstAfter
<1>3. d * (1 + k) = d * k + d /\ d * k \in Int
  BY <1>1, WholeIntervals
<1> HIDE DEF k
<1>4. 1 + k \in Nat
  BY <1>1
<1> QED BY <1>1, <1>2, <1>3, <1>4

LEMMA FirstAfterFacts ==
  ASSUME NEW d \in Nat \ {0}, NEW from \in Nat, NEW t \in Nat
  PROVE  /\ FirstAfter(from, d, t) \in Nat /\ t < FirstAfter(from, d, t)
         /\ from <= FirstAfter(from, d, t)
         /\ from > t => FirstAfter(from, d, t) = from
         /\ \E q \in Nat : FirstAfter(from, d, t) = from + d * q
<1>1. CASE from > t
  <2>1. FirstAfter(from, d, t) = from /\ d * 0 = 0
    BY <1>1 DEF FirstAfter
  <2> QED BY <1>1, <2>1
<1>2. CASE from <= t
  <2>1. PICK q \in Nat : FirstAfter(from, d, t) = from + d * q /\ t < from + d * q
    BY <1>2, FirstAfterIs
  <2>2. d * q \in Int
    BY WholeIntervals
  <2> QED BY <1>2, <2>1, <2>2
<1> QED BY <1>1, <1>2

\* Up to the next call, the computation finds the same one.
LEMMA SameCall ==
  ASSUME NEW d \in Nat \ {0}, NEW from \in Nat, NEW t \in Nat, NEW u \in Nat,
         from <= u, t <= u, u < FirstAfter(from, d, t)
  PROVE  FirstAfter(from, d, u) = FirstAfter(from, d, t)
<1>1. from <= t
  BY FirstAfterFacts
<1>2. PICK q \in Nat : FirstAfter(from, d, t) = from + d * q /\ from + d * q <= t + d
  BY <1>1, FirstAfterIs
<1>3. PICK p \in Nat : /\ FirstAfter(from, d, u) = from + d * p
                       /\ u < from + d * p /\ from + d * p <= u + d
  BY FirstAfterIs
<1>4. d * q \in Int /\ d * p \in Int
  BY WholeIntervals
<1>5. ~ p < q
  <2> SUFFICES ASSUME p < q PROVE FALSE
    OBVIOUS
  <2>1. d * p + d <= d * q
    BY WholeIntervals
  <2> QED BY <1>2, <1>3, <1>4, <2>1
<1>6. ~ q < p
  <2> SUFFICES ASSUME q < p PROVE FALSE
    OBVIOUS
  <2>1. d * q + d <= d * p
    BY WholeIntervals
  <2> QED BY <1>2, <1>3, <1>4, <2>1
<1>7. p = q
  BY <1>5, <1>6
<1> QED BY <1>2, <1>3, <1>7

\* The loop stops at a call that is not after the one Odoo plans.
LEMMA LoopEndFacts ==
  ASSUME NEW d \in Nat \ {0}, NEW from \in Nat, NEW t \in Nat, NEW calls \in Int, calls # 0
  PROVE  /\ LoopEnd(from, d, calls, t) \in Nat /\ from <= LoopEnd(from, d, calls, t)
         /\ LoopEnd(from, d, calls, t) <= FirstAfter(from, d, t)
         /\ calls < 0 => LoopEnd(from, d, calls, t) = FirstAfter(from, d, t)
         /\ \E q \in Nat : LoopEnd(from, d, calls, t) = from + d * q
<1> DEFINE F == FirstAfter(from, d, t)
<1>1. F \in Nat /\ from <= F /\ \E q \in Nat : F = from + d * q
  BY FirstAfterFacts
<1> HIDE DEF F
<1>2. CASE calls < 0
  <2>1. LoopEnd(from, d, calls, t) = F
    BY <1>2 DEF LoopEnd, F
  <2> QED BY <1>1, <1>2, <2>1 DEF F
<1>3. CASE calls > 0
  <2> DEFINE n == calls - 1
  <2>1. n \in Nat /\ LoopEnd(from, d, calls, t) = IF F < from + d * n THEN F ELSE from + d * n
    BY <1>3 DEF LoopEnd, SmallerOf, F
  <2> HIDE DEF n
  <2>2. d * n \in Nat
    BY <2>1
  <2>3. CASE F < from + d * n
    BY <1>1, <1>3, <2>1, <2>3 DEF F
  <2>4. CASE ~ F < from + d * n
    <3>1. LoopEnd(from, d, calls, t) = from + d * n /\ from + d * n <= F
      BY <1>1, <2>1, <2>2, <2>4
    <3>2. from + d * n \in Nat /\ from <= from + d * n
      BY <2>2
    <3>3. \E q \in Nat : LoopEnd(from, d, calls, t) = from + d * q
      BY <2>1, <3>1
    <3>4. LoopEnd(from, d, calls, t) \in Nat /\ from <= LoopEnd(from, d, calls, t)
      BY <3>1, <3>2, Zenon
    <3>5. LoopEnd(from, d, calls, t) <= F /\ ~ calls < 0
      BY <1>3, <3>1
    <3> QED BY <3>3, <3>4, <3>5, Zenon DEF F
  <2> QED BY <2>3, <2>4
<1> QED BY <1>2, <1>3

\* Some days later it is the same hour of the day.
LEMMA DaysLater ==
  ASSUME NEW d \in Nat \ {0}, d % Day = 0, NEW q \in Nat, NEW a \in Int
  PROVE  (a + d * q) % Day = a % Day
<1>1. PICK e \in Nat : d = 24 * e
  <2>1. d \div 24 \in Nat /\ d = 24 * (d \div 24)
    BY DEF Day
  <2> QED BY <2>1
<1>2. d * q = 24 * (e * q)
  BY <1>1
<1>3. \A j \in Int : (a + 24 * j) % 24 = a % 24
  OBVIOUS
<1>4. e * q \in Int
  OBVIOUS
<1> QED BY <1>2, <1>3, <1>4 DEF Day

\* What the books of a year say of a next call n, when nextcall was changed a times ...
YearOf(n, a) ==
  /\ a <= 2 \/ interval % Day # 0 \/ hour = Gap
  /\ numbercall # 0 /\ interval % Day = 0 /\ hour # Gap =>
       /\ n < Spring => a = 0 /\ LocalHour(n) = hour
       /\ n < Autumn => a <= 1

\* ... and the hour of the day at which it is, when lost adjustments sum up to s.
HourOf(n, s) ==
  numbercall # 0 /\ interval % Day = 0 =>
    /\ \/ LocalHour(n) = (hour + s) % Day
       \/ hour = Gap /\ (LocalHour(n) + 1) % Day = (hour + s) % Day
    /\ n < Spring => s = 0

Good(n, a, s) == YearOf(n, a) /\ (KeepsUp => HourOf(n, s))

OneMore == SmallerOf(3, adjusted + 1)

\* A run, until its adjustment is made, works with a row that was to be called
\* before the call it plans ...
BusyInv(w) ==
  job[w] # Idle => /\ job[w].numbercall # 0 /\ job[w].begun <= now
                   /\ now < PlannedCall(job[w])
                   /\ job[w].at \in {"run", "adjust"}

\* ... nobody else writes the row while it is locked ...
LockInv(w) ==
  InRun(w) => /\ nextcall = job[w].nextcall /\ numbercall = job[w].numbercall
              /\ \A v \in Processes : InRun(v) => v = w

\* ... and as long as the call that was planned is to be moved it stays the next
\* one, and it is in order whether it will be moved or not.
OwesInv(w) ==
  Owes(w) => /\ nextcall = PlannedCall(job[w])
             /\ \A v \in Processes : Owes(v) => v = w
             /\ Good(nextcall - Adjustment(job[w]), OneMore, drift)
             /\ Good(nextcall, adjusted, drift + Adjustment(job[w]))

DaylightInv ==
  /\ DaylightTypeOK
  /\ \A w \in Processes : BusyInv(w) /\ LockInv(w) /\ OwesInv(w)
  /\ (\A w \in Processes : ~ Owes(w)) => Good(nextcall, adjusted, drift)
  /\ KeepsUp => numbercall \in {-1, 0, 1}

LEMMA DaylightStarts == DaylightInit => DaylightInv
<1> SUFFICES ASSUME DaylightInit PROVE DaylightInv
  OBVIOUS
<1>1. nextcall \in Nat /\ numbercall \in Int /\ numbercall >= -1 /\ numbercall # 0
  BY DaylightAssumption DEF DaylightInit
<1>2. LocalHour(nextcall) \in 0 .. (Day - 1) /\ hour = LocalHour(nextcall)
  BY <1>1 DEF LocalHour, UtcOffset, Day, DaylightInit
<1>3. DaylightTypeOK
  BY <1>1, <1>2, DaylightAssumption DEF DaylightInit, DaylightTypeOK, Idle
<1>4. \A w \in Processes : BusyInv(w) /\ LockInv(w) /\ OwesInv(w)
  BY DEF DaylightInit, BusyInv, LockInv, OwesInv, Owes, InRun, InAdjustment, Idle
<1>5. (hour + 0) % Day = hour
  BY <1>2 DEF Day
<1>6. Good(nextcall, adjusted, drift)
  BY <1>2, <1>5 DEF DaylightInit, Good, YearOf, HourOf
<1> QED BY <1>1, <1>3, <1>4, <1>6 DEF DaylightInit, DaylightInv, KeepsUp

\* The adjustment of a run that has not lasted until its next call: L is where the
\* loop stops.
LEMMA AdjustmentIs ==
  ASSUME DaylightTypeOK, NEW w \in Processes, BusyInv(w), job[w] # Idle
  PROVE  /\ Adjustment(job[w]) \in -1 .. 1
         /\ PlannedCall(job[w]) \in Nat
         /\ job[w].nextcall > now =>
              PlannedCall(job[w]) = job[w].nextcall /\ Adjustment(job[w]) = 0
         /\ \E q \in Nat : PlannedCall(job[w]) = job[w].nextcall + interval * q
         /\ \E L \in Nat :
              /\ job[w].nextcall <= L /\ L <= PlannedCall(job[w])
              /\ job[w].numbercall < 0 => L = PlannedCall(job[w])
              /\ Adjustment(job[w]) = UtcOffset(L) - UtcOffset(job[w].nextcall)
<1> DEFINE j == job[w]
           P == PlannedCall(j)
           L == LoopEnd(j.nextcall, interval, j.numbercall, now)
<1>0. P = FirstAfter(j.nextcall, interval, j.begun)
  BY DEF PlannedCall
<1>1. /\ now \in Nat /\ j.nextcall \in Nat /\ j.numbercall \in Int /\ j.numbercall # 0
      /\ interval \in Nat \ {0} /\ j.begun \in Nat /\ j.begun <= now /\ now < P
  BY DaylightAssumption DEF DaylightTypeOK, BusyInv
<1>2. /\ P \in Nat /\ j.nextcall <= P /\ (j.nextcall > j.begun => P = j.nextcall)
      /\ \E q \in Nat : P = j.nextcall + interval * q
  <2> DEFINE n == j.nextcall
             b == j.begun
  <2>1. n \in Nat /\ b \in Nat /\ interval \in Nat \ {0} /\ P = FirstAfter(n, interval, b)
    BY <1>0, <1>1
  <2> SUFFICES /\ P \in Nat /\ n <= P /\ (n > b => P = n)
               /\ \E q \in Nat : P = n + interval * q
    OBVIOUS
  <2> HIDE DEF P, n, b
  <2>2. /\ FirstAfter(n, interval, b) \in Nat /\ n <= FirstAfter(n, interval, b)
        /\ n > b => FirstAfter(n, interval, b) = n
        /\ \E q \in Nat : FirstAfter(n, interval, b) = n + interval * q
    BY <2>1, FirstAfterFacts, Zenon
  <2> QED BY <2>1, <2>2, Zenon
<1>3. \A t : UtcOffset(t) \in {1, 2}
  BY DEF UtcOffset
<1>4. Adjustment(j) = IF j.nextcall <= now THEN UtcOffset(L) - UtcOffset(j.nextcall) ELSE 0
  BY <1>1 DEF Adjustment, DaylightOffset
<1>5. CASE j.nextcall > now
  <2>1. P = j.nextcall /\ Adjustment(j) = 0
    BY <1>1, <1>2, <1>4, <1>5
  <2>2. Adjustment(j) = UtcOffset(P) - UtcOffset(j.nextcall)
    BY <1>3, <2>1
  <2>3. \E K \in Nat : /\ j.nextcall <= K /\ K <= P /\ (j.numbercall < 0 => K = P)
                       /\ Adjustment(j) = UtcOffset(K) - UtcOffset(j.nextcall)
    BY <1>1, <1>2, <2>1, <2>2
  <2> QED BY <1>2, <2>1, <2>3
<1>6. CASE j.nextcall <= now
  <2>1. FirstAfter(j.nextcall, interval, now) = P
    BY <1>1, <1>6, SameCall DEF PlannedCall
  <2>2. L \in Nat /\ j.nextcall <= L /\ L <= P /\ (j.numbercall < 0 => L = P)
    <3> HIDE DEF j, P
    <3> QED BY <1>1, <2>1, LoopEndFacts
  <2>3. Adjustment(j) = UtcOffset(L) - UtcOffset(j.nextcall)
    BY <1>4, <1>6
  <2> HIDE DEF L, P
  <2>4. Adjustment(j) \in -1 .. 1 /\ ~ j.nextcall > now
    BY <1>1, <1>3, <1>6, <2>3
  <2> QED BY <1>2, <2>2, <2>3, <2>4 DEF P
<1> QED BY <1>1, <1>5, <1>6

\* The hour of the day at which the action is called next: n is the present call, P
\* the one Odoo plans, and the adjustment takes off the difference of L's offset.
LEMMA HourStays ==
  ASSUME DaylightTypeOK, NEW n \in Nat, NEW L \in Nat, NEW P \in Nat, n <= L, L <= P,
         interval % Day = 0,
         \E q \in Nat : P = n + interval * q
  PROVE  /\ UtcOffset(L) = UtcOffset(P) =>
              \/ /\ LocalHour(P - (UtcOffset(L) - UtcOffset(n))) = LocalHour(n)
                 /\ UtcOffset(P - (UtcOffset(L) - UtcOffset(n))) = UtcOffset(P)
              \/ /\ n < Spring /\ P = Spring /\ LocalHour(n) = Gap
                 /\ UtcOffset(L) - UtcOffset(n) = 1
                 /\ (LocalHour(P - 1) + 1) % Day = Gap
         /\ n < Spring /\ P = Spring => LocalHour(n) = Gap
         /\ n < Spring /\ P < Spring => LocalHour(P) = LocalHour(n)
<1> DEFINE m == P - (UtcOffset(L) - UtcOffset(n))
<1>1. interval \in Nat \ {0} /\ Spring \in Nat /\ Autumn \in Nat /\ Spring < Autumn
  BY DaylightAssumption DEF DaylightTypeOK
<1>2. PICK q \in Nat : P = n + interval * q
  OBVIOUS
<1>3. \A o \in Int : (P + o) % Day = (n + o) % Day
  <2> SUFFICES ASSUME NEW o \in Int PROVE (P + o) % Day = (n + o) % Day
    OBVIOUS
  <2>1. (n + o + interval * q) % Day = (n + o) % Day
    <3>1. n + o \in Int
      OBVIOUS
    <3> QED BY <1>1, <3>1, DaysLater, Zenon
  <2>2. interval * q \in Int
    BY <1>1, WholeIntervals
  <2>3. P + o = n + o + interval * q
    BY <1>2, <2>2
  <2> QED BY <2>1, <2>3
<1>4. (P + 1) % Day = (n + 1) % Day /\ (P + 2) % Day = (n + 2) % Day
  BY <1>3
<1> HIDE <1>2
<1>5. n < Spring /\ P = Spring => LocalHour(n) = Gap
  BY <1>1, <1>4 DEF LocalHour, UtcOffset, Gap
<1>6. n < Spring /\ P < Spring => LocalHour(P) = LocalHour(n)
  BY <1>1, <1>4 DEF LocalHour, UtcOffset
<1>7. ASSUME UtcOffset(L) = UtcOffset(P), ~ (n < Spring /\ P = Spring)
      PROVE  LocalHour(m) = LocalHour(n) /\ UtcOffset(m) = UtcOffset(P)
  <2>1. UtcOffset(m) = UtcOffset(P)
    BY <1>1, <1>7 DEF UtcOffset
  <2>2. m + UtcOffset(m) = P + UtcOffset(n)
    BY <1>1, <1>7, <2>1 DEF UtcOffset
  <2> QED BY <1>1, <1>4, <2>1, <2>2 DEF LocalHour, UtcOffset
<1>8. ASSUME UtcOffset(L) = UtcOffset(P), n < Spring, P = Spring
      PROVE  UtcOffset(L) - UtcOffset(n) = 1 /\ (LocalHour(P - 1) + 1) % Day = Gap
  <2>1. UtcOffset(L) - UtcOffset(n) = 1 /\ P - 1 = Spring - 1
    BY <1>1, <1>8 DEF UtcOffset
  <2> QED BY <1>1, <1>8, <2>1 DEF LocalHour, UtcOffset, Gap, Day
<1> QED BY <1>5, <1>6, <1>7, <1>8

\* The call that is planned keeps the books of the year, moved or not ...
LEMMA YearPlanned ==
  ASSUME DaylightTypeOK, numbercall # 0, YearOf(nextcall, adjusted),
         NEW L \in Nat, NEW P \in Nat, nextcall <= L, L <= P,
         \E q \in Nat : P = nextcall + interval * q,
         NEW D, D = UtcOffset(L) - UtcOffset(nextcall)
  PROVE  /\ YearOf(P - D, IF D # 0 THEN OneMore ELSE adjusted)
         /\ YearOf(P, adjusted)
<1>1. /\ nextcall \in Nat /\ adjusted \in 0 .. 3
      /\ Spring \in Nat /\ Autumn \in Nat /\ Spring < Autumn
  BY DaylightAssumption DEF DaylightTypeOK
<1> SUFFICES ASSUME interval % Day = 0, hour # Gap
             PROVE  /\ YearOf(P - D, IF D # 0 THEN OneMore ELSE adjusted)
                    /\ YearOf(P, adjusted)
  BY DEF YearOf
<1>4. /\ nextcall < Spring => adjusted = 0 /\ LocalHour(nextcall) = hour
      /\ nextcall < Autumn => adjusted <= 1
      /\ adjusted <= 2
  BY DEF YearOf
<1>5. ~ (nextcall < Spring /\ P = Spring)
  BY <1>1, <1>4, HourStays
<1>6. nextcall < Spring /\ P < Spring => LocalHour(P) = LocalHour(nextcall)
  BY <1>1, HourStays
<1>7. CASE UtcOffset(L) = UtcOffset(nextcall)
  <2>1. D = 0 /\ P - D = P /\ nextcall <= P
    BY <1>1, <1>7 DEF UtcOffset
  <2>2. P < Spring => nextcall < Spring
    BY <1>1, <2>1
  <2>3. P < Autumn => nextcall < Autumn
    BY <1>1, <2>1
  <2>4. YearOf(P, adjusted)
    BY <1>4, <1>6, <2>2, <2>3 DEF YearOf
  <2> QED BY <2>1, <2>4
<1>8. CASE nextcall < Spring /\ Spring <= L /\ L < Autumn
  <2>1. D = 1 /\ OneMore = 1 /\ P # Spring /\ P >= Spring /\ adjusted = 0
    BY <1>1, <1>4, <1>5, <1>8 DEF UtcOffset, SmallerOf, OneMore
  <2>2. ~ P - D < Spring /\ ~ P < Spring
    BY <1>1, <2>1
  <2>3. YearOf(P - D, 1) /\ YearOf(P, 0)
    BY <2>2 DEF YearOf
  <2> QED BY <2>1, <2>3
<1>9. CASE Spring <= nextcall /\ nextcall < Autumn /\ Autumn <= L
  <2>1. D = -1 /\ P >= Autumn /\ P - D = P + 1
    BY <1>1, <1>9 DEF UtcOffset
  <2>2. OneMore <= 2
    BY <1>1, <1>4, <1>9 DEF SmallerOf, OneMore
  <2>3. ~ P - D < Spring /\ ~ P - D < Autumn /\ ~ P < Spring /\ ~ P < Autumn
    BY <1>1, <2>1
  <2>4. YearOf(P - D, OneMore) /\ YearOf(P, adjusted)
    BY <1>4, <2>2, <2>3 DEF YearOf
  <2> QED BY <2>1, <2>4
<1> QED BY <1>1, <1>7, <1>8, <1>9 DEF UtcOffset

\* ... and the hour of the day.
LEMMA HourPlanned ==
  ASSUME DaylightTypeOK, numbercall # 0, HourOf(nextcall, drift),
         NEW P \in Nat, nextcall <= P, \E q \in Nat : P = nextcall + interval * q,
         NEW D, D = UtcOffset(P) - UtcOffset(nextcall)
  PROVE  HourOf(P - D, drift) /\ HourOf(P, drift + D)
<1>1. /\ nextcall \in Nat /\ drift \in Int /\ hour \in 0 .. (Day - 1)
      /\ Spring \in Nat /\ Autumn \in Nat /\ Spring < Autumn
  BY DaylightAssumption DEF DaylightTypeOK
<1>2. \A t : UtcOffset(t) \in {1, 2}
  BY DEF UtcOffset
<1>3. D \in -1 .. 1 /\ P - D \in Int
  BY <1>2
<1> SUFFICES ASSUME interval % Day = 0
             PROVE  HourOf(P - D, drift) /\ HourOf(P, drift + D)
  BY DEF HourOf
<1>4. \/ LocalHour(nextcall) = (hour + drift) % Day
      \/ hour = Gap /\ (LocalHour(nextcall) + 1) % Day = (hour + drift) % Day
  BY DEF HourOf
<1>41. /\ nextcall < Spring => drift = 0
       /\ P - D < Spring => nextcall < Spring
       /\ P < Spring => nextcall < Spring /\ D = 0
  BY <1>1 DEF HourOf, UtcOffset
<1>42. (P - D < Spring => drift = 0) /\ (P < Spring => drift + D = 0)
  BY <1>41
<1>5. \/ /\ LocalHour(P - D) = LocalHour(nextcall) /\ UtcOffset(P - D) = UtcOffset(P)
      \/ /\ nextcall < Spring /\ P = Spring /\ LocalHour(nextcall) = Gap
         /\ D = 1 /\ (LocalHour(P - 1) + 1) % Day = Gap
  BY <1>1, HourStays
<1>6. ASSUME UtcOffset(P - D) = UtcOffset(P)
      PROVE  /\ LocalHour(P - D) = (P - D + UtcOffset(P)) % 24
             /\ LocalHour(P) = (P + UtcOffset(P)) % 24
  BY <1>6 DEF LocalHour, Day
<1>7. \A x, y \in Int, e \in -1 .. 1 : x % 24 = y % 24 => (x + e) % 24 = (y + e) % 24
  OBVIOUS
<1>8. CASE /\ LocalHour(P - D) = LocalHour(nextcall) /\ UtcOffset(P - D) = UtcOffset(P)
  <2>1. HourOf(P - D, drift)
    BY <1>4, <1>8, <1>42 DEF HourOf
  <2>2. CASE LocalHour(P - D) = (hour + drift) % 24
    <3>1. (P - D + UtcOffset(P)) % 24 = (hour + drift) % 24
      BY <1>6, <1>8, <2>2
    <3>2. (P - D + UtcOffset(P) + D) % 24 = (hour + drift + D) % 24
      BY <1>1, <1>2, <1>3, <1>7, <3>1 DEF Day
    <3>3. P - D + UtcOffset(P) + D = P + UtcOffset(P) /\ hour + drift + D = hour + (drift + D)
      BY <1>1, <1>2, <1>3 DEF Day
    <3>4. LocalHour(P) = (hour + (drift + D)) % 24
      BY <1>6, <1>8, <3>2, <3>3
    <3> QED BY <1>42, <2>1, <3>4 DEF HourOf, Day
  <2>3. CASE hour = Gap /\ (LocalHour(P - D) + 1) % 24 = (hour + drift) % 24
    <3>1. LocalHour(P) \in Int /\ LocalHour(P - D) \in Int
          /\ LocalHour(P) % 24 = (LocalHour(P - D) + D) % 24
      BY <1>1, <1>2, <1>3, <1>6, <1>8
    <3>2. (LocalHour(P) + 1) % 24 = (LocalHour(P - D) + D + 1) % 24
      BY <1>3, <1>7, <3>1
    <3>3. (LocalHour(P - D) + 1 + D) % 24 = (hour + drift + D) % 24
      BY <1>1, <1>3, <1>7, <2>3, <3>1 DEF Day
    <3>4. /\ LocalHour(P - D) + D + 1 = LocalHour(P - D) + 1 + D
          /\ hour + drift + D = hour + (drift + D)
      BY <1>1, <1>3, <3>1 DEF Day
    <3>5. (LocalHour(P) + 1) % 24 = (hour + (drift + D)) % 24
      BY <3>2, <3>3, <3>4
    <3> QED BY <1>42, <2>1, <2>3, <3>5 DEF HourOf, Day
  <2> QED BY <1>4, <1>8, <2>2, <2>3 DEF Day
<1>9. CASE /\ nextcall < Spring /\ P = Spring /\ LocalHour(nextcall) = Gap
           /\ D = 1 /\ (LocalHour(P - 1) + 1) % Day = Gap
  <2>1. /\ Gap \in 0 .. 23 /\ (Gap + 1) % 24 \in 0 .. 23 /\ (Gap + 1) % 24 # Gap
        /\ LocalHour(P) = (Gap + 1) % 24 /\ Gap % 24 = Gap
    BY <1>1, <1>9 DEF Gap, Day, LocalHour, UtcOffset
  <2>2. CASE Gap = (hour + drift) % 24 /\ hour = Gap
    <3>1. HourOf(P - D, drift)
      BY <1>9, <1>42, <2>2 DEF HourOf, Day
    <3>2. (Gap + 1) % 24 = (hour + drift + 1) % 24
      BY <1>1, <1>7, <2>1, <2>2 DEF Day
    <3>3. hour + drift + 1 = hour + (drift + D)
      BY <1>1, <1>9 DEF Day
    <3>4. LocalHour(P) = (hour + (drift + D)) % Day
      BY <2>1, <3>2, <3>3 DEF Day
    <3> QED BY <1>42, <3>1, <3>4 DEF HourOf
  <2>3. drift = 0 /\ hour + drift = hour
    BY <1>1, <1>9, <1>41 DEF Day
  <2>4. ~ (hour = Gap /\ (LocalHour(nextcall) + 1) % Day = (hour + drift) % Day)
    BY <1>9, <2>1, <2>3 DEF Day
  <2>5. Gap = (hour + drift) % 24 /\ hour % 24 = hour
    BY <1>1, <1>4, <1>9, <2>4 DEF Day
  <2> QED BY <1>9, <2>2, <2>3, <2>5
<1> QED BY <1>5, <1>8, <1>9

\* What a run plans and what is taken off depend on its row, the clock and the interval.
LEMMA SameTerms ==
  ASSUME NEW w \in Processes, UNCHANGED <<now, interval>>,
         job'[w].begun = job[w].begun, job'[w].nextcall = job[w].nextcall,
         job'[w].numbercall = job[w].numbercall
  PROVE  /\ Adjustment(job[w])' = Adjustment(job[w])
         /\ PlannedCall(job[w])' = PlannedCall(job[w])
BY DEF Adjustment, DaylightOffset, PlannedCall

\* A step that leaves the next call where it is, by a process that owes nothing.
LEMMA NothingOwed ==
  ASSUME DaylightInv, NEW w \in Processes, ~ Owes(w), ~ Owes(w)',
         \A u \in Processes : u # w => job'[u] = job[u],
         UNCHANGED <<now, nextcall, interval, hour, adjusted, drift>>,
         numbercall' = numbercall \/ numbercall # 0
  PROVE  /\ \A u \in Processes : OwesInv(u)'
         /\ ((\A u \in Processes : ~ Owes(u)) => Good(nextcall, adjusted, drift))'
<1>1. ASSUME NEW u \in Processes, u # w
      PROVE  /\ Adjustment(job[u])' = Adjustment(job[u])
             /\ PlannedCall(job[u])' = PlannedCall(job[u])
             /\ Owes(u)' <=> Owes(u)
  BY <1>1, SameTerms DEF Owes, InAdjustment
<1>2. \A n, a, t : Good(n, a, t) => YearOf(n, a)' /\ (KeepsUp => HourOf(n, t)')
  BY DEF Good, YearOf, HourOf
<1>3. ASSUME NEW u \in Processes PROVE OwesInv(u)'
  <2> SUFFICES ASSUME Owes(u)' PROVE OwesInv(u)'
    BY DEF OwesInv
  <2>1. u # w /\ Owes(u)
    BY <1>1
  <2>2. /\ nextcall = PlannedCall(job[u])
        /\ \A v \in Processes : Owes(v) => v = u
        /\ Good(nextcall - Adjustment(job[u]), OneMore, drift)
        /\ Good(nextcall, adjusted, drift + Adjustment(job[u]))
    BY <2>1 DEF DaylightInv, OwesInv
  <2>3. nextcall' = PlannedCall(job[u])' /\ \A v \in Processes : Owes(v)' => v = u
    BY <1>1, <2>1, <2>2
  <2>4. /\ Good(nextcall - Adjustment(job[u]), OneMore, drift)'
        /\ Good(nextcall, adjusted, drift + Adjustment(job[u]))'
    BY <1>1, <2>1, <2>2 DEF Good, YearOf, HourOf, OneMore
  <2> QED BY <2>3, <2>4 DEF OwesInv
<1>4. ASSUME (\A u \in Processes : ~ Owes(u))' PROVE Good(nextcall, adjusted, drift)'
  <2>1. \A u \in Processes : ~ Owes(u)
    BY <1>1, <1>4
  <2>2. Good(nextcall, adjusted, drift)
    BY <2>1 DEF DaylightInv
  <2> QED BY <2>2 DEF Good, YearOf, HourOf
<1> QED BY <1>3, <1>4

\* The clock changes neither what runs plan nor what they take off.
LEMMA TickStep ==
  ASSUME DaylightInv, ~ Overrun, Tick
  PROVE  DaylightInv'
<1>1. /\ now \in Nat /\ now <= Horizon /\ Horizon \in Nat /\ nextcall \in Nat
      /\ interval \in Nat \ {0} /\ DaylightTypeOK
      /\ UNCHANGED <<nextcall, numbercall, interval, job, hour, adjusted, drift>>
      /\ now' = now + 1 /\ now < Horizon
  BY DaylightAssumption DEF DaylightInv, DaylightTypeOK, Tick
<1>2. DaylightTypeOK'
  BY <1>1 DEF DaylightTypeOK
<1>3. \A w \in Processes : PlannedCall(job[w])' = PlannedCall(job[w])
  BY <1>1 DEF PlannedCall
<1>4. ASSUME NEW w \in Processes PROVE BusyInv(w)' /\ LockInv(w)'
  <2>1. BusyInv(w) /\ LockInv(w)
    BY DEF DaylightInv
  <2>2. job[w].begun \in Nat /\ (job[w] # Idle => now + 1 < PlannedCall(job[w]))
    BY <1>1 DEF Tick, DaylightTypeOK
  <2>3. BusyInv(w)'
    BY <1>1, <1>3, <2>1, <2>2 DEF BusyInv
  <2>4. LockInv(w)'
    BY <1>1, <2>1 DEF LockInv, InRun
  <2> QED BY <2>3, <2>4
<1>5. ASSUME NEW w \in Processes, job[w] # Idle
      PROVE  Adjustment(job[w])' = Adjustment(job[w])
  <2> DEFINE j == job[w]
             from == j.nextcall
             P == FirstAfter(from, interval, j.begun)
  <2>1. /\ BusyInv(w) /\ from \in Nat /\ j.begun \in Nat /\ j.numbercall \in Int
        /\ j.numbercall # 0 /\ j.begun <= now /\ now < P /\ now + 1 < P
    BY <1>1, <1>5 DEF DaylightInv, DaylightTypeOK, BusyInv, PlannedCall, Tick
  <2>2. /\ Adjustment(j) = IF from <= now
                           THEN UtcOffset(LoopEnd(from, interval, j.numbercall, now))
                                  - UtcOffset(from)
                           ELSE 0
        /\ Adjustment(j)' = IF from <= now + 1
                            THEN UtcOffset(LoopEnd(from, interval, j.numbercall, now + 1))
                                   - UtcOffset(from)
                            ELSE 0
    BY <1>1, <2>1 DEF Adjustment, DaylightOffset
  <2>3. CASE from > now
    <3>1. P = from
      <4> HIDE DEF from
      <4>1. from > j.begun
        BY <1>1, <2>1, <2>3
      <4> QED BY <4>1 DEF FirstAfter
    <3>2. ~ from <= now /\ ~ from <= now + 1
      BY <1>1, <2>1, <2>3, <3>1
    <3> QED BY <2>2, <3>2
  <2>4. CASE from <= now
    <3>1. now + 1 \in Nat /\ from <= now + 1
      BY <1>1, <2>1, <2>4
    <3>2. /\ FirstAfter(from, interval, now) = P
          /\ FirstAfter(from, interval, now + 1) = P
      <4> DEFINE b == j.begun
                 t == now + 1
      <4>1. /\ from \in Nat /\ b \in Nat /\ t \in Nat /\ b <= now /\ b <= t
            /\ from <= t /\ now < FirstAfter(from, interval, b)
            /\ t < FirstAfter(from, interval, b)
        BY <1>1, <2>1, <3>1
      <4> HIDE DEF from, b, t
      <4>2. /\ FirstAfter(from, interval, now) = FirstAfter(from, interval, b)
            /\ FirstAfter(from, interval, t) = FirstAfter(from, interval, b)
        BY <1>1, <2>4, <4>1, SameCall
      <4> QED BY <4>2 DEF b, t
    <3>3. LoopEnd(from, interval, j.numbercall, now)
            = LoopEnd(from, interval, j.numbercall, now + 1)
      BY <3>2 DEF LoopEnd
    <3> QED BY <2>2, <2>4, <3>1, <3>3
  <2> QED BY <1>1, <2>1, <2>3, <2>4
<1>6. \A w \in Processes : /\ Owes(w)' <=> Owes(w)
                           /\ Owes(w) => Adjustment(job[w])' = Adjustment(job[w])
  BY <1>1, <1>5 DEF Owes, InAdjustment, Idle
<1>7. ASSUME NEW w \in Processes PROVE OwesInv(w)'
  BY <1>1, <1>3, <1>6 DEF DaylightInv, OwesInv, Good, YearOf, HourOf, OneMore
<1>8. ((\A w \in Processes : ~ Owes(w)) => Good(nextcall, adjusted, drift))'
  BY <1>1, <1>6 DEF DaylightInv, Good, YearOf, HourOf
<1> QED BY <1>1, <1>2, <1>4, <1>7, <1>8 DEF DaylightInv

LEMMA BeginStep ==
  ASSUME DaylightInv, NEW w \in Processes, Begin(w)
  PROVE  DaylightInv'
<1>1. /\ now \in Nat /\ nextcall \in Nat /\ numbercall \in Int /\ interval \in Nat \ {0}
      /\ DaylightTypeOK /\ numbercall # 0 /\ Unlocked /\ job[w] = Idle
      /\ UNCHANGED <<now, nextcall, numbercall, interval, hour, adjusted, drift>>
      /\ job' = [job EXCEPT ![w] = [at |-> "run", begun |-> now,
                                    nextcall |-> nextcall, numbercall |-> numbercall]]
  BY DaylightAssumption DEF DaylightInv, DaylightTypeOK, Begin
<1>2. /\ job'[w] = [at |-> "run", begun |-> now, nextcall |-> nextcall, numbercall |-> numbercall]
      /\ \A u \in Processes : u # w => job'[u] = job[u]
  BY <1>1 DEF DaylightTypeOK
<1>3. DaylightTypeOK'
  BY <1>1 DEF DaylightTypeOK
<1>4. now < FirstAfter(nextcall, interval, now)
  BY <1>1, FirstAfterFacts
<1>5. ASSUME NEW u \in Processes PROVE BusyInv(u)' /\ LockInv(u)'
  <2>1. BusyInv(u) /\ LockInv(u) /\ ~ InRun(u)
    BY <1>1 DEF DaylightInv, Unlocked
  <2>2. u # w => ~ InRun(u)' /\ PlannedCall(job[u])' = PlannedCall(job[u])
    BY <1>1, <1>2, <2>1 DEF InRun, PlannedCall
  <2>3. BusyInv(w)' /\ (u # w => BusyInv(u)')
    BY <1>1, <1>2, <1>4, <2>1, <2>2 DEF BusyInv, PlannedCall
  <2>4. \A v \in Processes : v # w => ~ InRun(v)'
    BY <1>1, <1>2 DEF InRun, Unlocked
  <2>5. LockInv(w)' /\ (u # w => LockInv(u)')
    BY <1>1, <1>2, <2>2, <2>4 DEF LockInv
  <2> QED BY <2>3, <2>5
<1>6. ~ Owes(w) /\ ~ Owes(w)'
  BY <1>1, <1>2 DEF Owes, InAdjustment, Idle
<1> QED BY <1>1, <1>2, <1>3, <1>5, <1>6, NothingOwed DEF DaylightInv

\* The others when a process is through with what it did: n is what it leaves as
\* the next call, and nobody else holds the lock if it has written that.
LEMMA OthersGoOn ==
  ASSUME DaylightInv, NEW w \in Processes, UNCHANGED <<now, interval>>,
         \A u \in Processes : u # w => job'[u] = job[u] /\ (InRun(u) => nextcall' = nextcall
                                                            /\ numbercall' = numbercall),
         ~ InRun(w)'
  PROVE  \A u \in Processes : u # w => BusyInv(u)' /\ LockInv(u)'
<1> SUFFICES ASSUME NEW u \in Processes, u # w PROVE BusyInv(u)' /\ LockInv(u)'
  OBVIOUS
<1>1. BusyInv(u) /\ LockInv(u) /\ PlannedCall(job[u])' = PlannedCall(job[u])
  BY SameTerms DEF DaylightInv
<1>2. BusyInv(u)'
  BY <1>1 DEF BusyInv
<1>3. \A v \in Processes : InRun(v)' => InRun(v)
  BY DEF InRun
<1>4. LockInv(u)'
  BY <1>1, <1>3 DEF LockInv, InRun
<1> QED BY <1>2, <1>4

LEMMA RescheduleStep ==
  ASSUME DaylightInv, NEW w \in Processes, Reschedule(w)
  PROVE  DaylightInv'
<1> DEFINE P == PlannedCall(job[w])
           D == Adjustment(job[w])
<1>1. /\ now \in Nat /\ nextcall \in Nat /\ numbercall \in Int /\ interval \in Nat \ {0}
      /\ DaylightTypeOK /\ BusyInv(w) /\ LockInv(w) /\ InRun(w) /\ job[w] # Idle
      /\ UNCHANGED <<now, interval, hour, adjusted, drift>>
      /\ nextcall' = P /\ numbercall' = CallsLeft(job[w])
      /\ job' = [job EXCEPT ![w].at = "adjust"]
  BY DaylightAssumption DEF DaylightInv, DaylightTypeOK, Reschedule, InRun, Idle
<1>2. /\ job[w].nextcall = nextcall /\ job[w].numbercall = numbercall /\ numbercall # 0
      /\ now < P /\ \A v \in Processes : InRun(v) => v = w
  BY <1>1 DEF BusyInv, LockInv
<1>3. /\ D \in -1 .. 1 /\ P \in Nat
      /\ nextcall > now => P = nextcall /\ D = 0
      /\ \E q \in Nat : P = nextcall + interval * q
      /\ \E L \in Nat : /\ nextcall <= L /\ L <= P /\ (numbercall < 0 => L = P)
                        /\ D = UtcOffset(L) - UtcOffset(nextcall)
  BY <1>1, <1>2, AdjustmentIs
<1>4. /\ job'[w] = [job[w] EXCEPT !.at = "adjust"]
      /\ job'[w].at = "adjust" /\ job'[w].begun = job[w].begun
      /\ job'[w].nextcall = nextcall /\ job'[w].numbercall = numbercall
      /\ \A u \in Processes : u # w => job'[u] = job[u]
  BY <1>1, <1>2 DEF DaylightTypeOK
<1>5. PlannedCall(job[w])' = P /\ Adjustment(job[w])' = D
  BY <1>1, <1>2, <1>4, SameTerms
<1>6. /\ numbercall' \in Int /\ numbercall' >= -1 
      /\ (numbercall' # 0 => numbercall < 0 \/ numbercall > 1)
      /\ (KeepsUp => numbercall' \in {-1, 0} /\ numbercall \in {-1, 1})
  BY <1>1, <1>2 DEF CallsLeft, DaylightTypeOK, DaylightInv
<1> HIDE DEF P, D
<1>7. DaylightTypeOK'
  <2>1. job' \in [Processes -> [at : {"idle", "run", "adjust"}, begun : Nat,
                                nextcall : Nat, numbercall : Int]]
    BY <1>1 DEF DaylightTypeOK
  <2> QED BY <1>1, <1>3, <1>6, <2>1 DEF DaylightTypeOK
<1>8. ASSUME NEW u \in Processes PROVE BusyInv(u)' /\ LockInv(u)'
  <2>1. ~ InRun(w)'
    BY <1>4 DEF InRun
  <2>2. u # w => BusyInv(u)' /\ LockInv(u)'
    BY <1>1, <1>2, <1>4, <2>1, OthersGoOn
  <2>3. BusyInv(w)' /\ LockInv(w)'
    BY <1>1, <1>2, <1>4, <1>5, <2>1 DEF BusyInv, LockInv
  <2> QED BY <2>2, <2>3
<1>9. /\ ~ Owes(w) /\ (Owes(w)' <=> D # 0)
      /\ \A u \in Processes : u # w => (Owes(u)' <=> Owes(u))
  <2>1. \A u \in Processes : u # w => Adjustment(job[u])' = Adjustment(job[u])
    BY <1>1, <1>4, SameTerms
  <2> QED BY <1>1, <1>4, <1>5, <2>1 DEF Owes, InAdjustment, InRun
<1>10. CASE \E u \in Processes : Owes(u)
  <2>1. PICK u \in Processes : Owes(u)
    BY <1>10
  <2>2. nextcall = PlannedCall(job[u]) /\ now < PlannedCall(job[u])
    BY <2>1 DEF DaylightInv, OwesInv, BusyInv, Owes, InAdjustment, Idle
  <2>3. P = nextcall /\ D = 0
    BY <1>1, <1>3, <2>2
  <2>4. UNCHANGED <<now, nextcall, interval, hour, adjusted, drift>> /\ ~ Owes(w)'
    BY <1>1, <1>9, <2>3
  <2> QED BY <1>2, <1>4, <1>6, <1>7, <1>8, <1>9, <2>4, NothingOwed DEF DaylightInv
<1>11. CASE \A u \in Processes : ~ Owes(u)
  <2>1. Good(nextcall, adjusted, drift)
    BY <1>11 DEF DaylightInv
  <2>2. PICK L \in Nat : /\ nextcall <= L /\ L <= P /\ (numbercall < 0 => L = P)
                         /\ D = UtcOffset(L) - UtcOffset(nextcall)
    BY <1>3
  <2>3. YearOf(P - D, IF D # 0 THEN OneMore ELSE adjusted) /\ YearOf(P, adjusted)
    BY <1>1, <1>2, <1>3, <2>1, <2>2, YearPlanned DEF Good
  <2>4. KeepsUp /\ numbercall < 0 => HourOf(P - D, drift) /\ HourOf(P, drift + D)
    BY <1>1, <1>2, <1>3, <2>1, <2>2, HourPlanned DEF Good
  <2>5. /\ YearOf(P - D, IF D # 0 THEN OneMore ELSE adjusted)'
        /\ YearOf(P, adjusted)'
    BY <1>1, <1>2, <1>4, <1>5, <2>3 DEF YearOf, OneMore, P, D
  <2>6. KeepsUp => HourOf(P - D, drift)' /\ HourOf(P, drift + D)'
    <3> SUFFICES ASSUME KeepsUp PROVE HourOf(P - D, drift)' /\ HourOf(P, drift + D)'
      OBVIOUS
    <3>1. P' = P /\ D' = D
      BY <1>5 DEF P, D
    <3>2. CASE numbercall' = 0
      BY <3>2 DEF HourOf
    <3>3. CASE numbercall' # 0
      BY <1>1, <1>2, <1>6, <2>4, <3>1, <3>3 DEF HourOf
    <3> QED BY <3>2, <3>3
  <2>7. D = 0 => Good(nextcall, adjusted, drift)'
    <3> SUFFICES ASSUME D = 0 PROVE Good(nextcall, adjusted, drift)'
      OBVIOUS
    <3>1. nextcall' = P' /\ P' = P
      BY <1>1, <1>5 DEF P
    <3>2. D' = 0 /\ drift' + D' = drift'
      BY <1>1, <1>5 DEF D, DaylightTypeOK
    <3> QED BY <2>5, <2>6, <3>1, <3>2 DEF Good
  <2>8. D # 0 => OwesInv(w)'
    <3> SUFFICES ASSUME D # 0 PROVE OwesInv(w)'
      OBVIOUS
    <3>1. nextcall' = P' /\ P' = P /\ D' = D
      BY <1>1, <1>5 DEF P, D
    <3>2. Good(nextcall - Adjustment(job[w]), OneMore, drift)'
      BY <2>5, <2>6, <3>1 DEF Good, D
    <3>3. Good(nextcall, adjusted, drift + Adjustment(job[w]))'
      BY <2>5, <2>6, <3>1 DEF Good, D
    <3>4. \A v \in Processes : Owes(v)' => v = w
      BY <1>9, <1>11
    <3> QED BY <1>1, <1>5, <3>2, <3>3, <3>4 DEF OwesInv
  <2>9. \A u \in Processes : OwesInv(u)'
    BY <1>9, <1>11, <2>8 DEF OwesInv
  <2>10. ((\A u \in Processes : ~ Owes(u)) => Good(nextcall, adjusted, drift))'
    BY <1>9, <2>7
  <2> QED BY <1>6, <1>7, <1>8, <2>9, <2>10 DEF DaylightInv
<1> QED BY <1>10, <1>11

\* The end of a run, whichever it is.
LEMMA EndStep ==
  ASSUME DaylightInv, NEW w \in Processes,
         ProcessJob(w) \/ WorkerDies(w) \/ LoseAdjustment(w)
  PROVE  DaylightInv'
<1> DEFINE D == Adjustment(job[w])
<1>1. /\ now \in Nat /\ nextcall \in Nat /\ drift \in Int /\ adjusted \in 0 .. 3
      /\ DaylightTypeOK /\ BusyInv(w) /\ job[w] # Idle
      /\ job \in [Processes -> [at : {"idle", "run", "adjust"}, begun : Nat,
                               nextcall : Nat, numbercall : Int]]
      /\ UNCHANGED <<now, numbercall, interval, hour>>
      /\ job' = [job EXCEPT ![w] = Idle]
  BY DEF DaylightInv, DaylightTypeOK, ProcessJob, WorkerDies, LoseAdjustment, InRun,
         InAdjustment, Idle
<1>2. job'[w] = Idle /\ \A u \in Processes : u # w => job'[u] = job[u]
  BY <1>1
<1>3. /\ ~ Owes(w)' /\ ~ InRun(w)' /\ BusyInv(w)' /\ LockInv(w)'
      /\ \A u \in Processes : u # w => (Owes(u)' <=> Owes(u))
  <2>1. \A u \in Processes : u # w => Adjustment(job[u])' = Adjustment(job[u])
    BY <1>1, <1>2, SameTerms
  <2>2. ~ Owes(w)' /\ ~ InRun(w)'
    BY <1>2 DEF Owes, InAdjustment, InRun, Idle
  <2>3. BusyInv(w)' /\ LockInv(w)'
    BY <1>2, <2>2 DEF BusyInv, LockInv
  <2> QED BY <1>2, <2>1, <2>2, <2>3 DEF Owes, InAdjustment
<1>4. /\ D \in -1 .. 1
      /\ Owes(w) => nextcall = PlannedCall(job[w]) /\ now < nextcall
  BY <1>1, AdjustmentIs DEF DaylightInv, OwesInv, BusyInv
<1>5. ASSUME nextcall' = nextcall, drift' \in Int, adjusted' \in 0 .. 3
      PROVE  DaylightTypeOK' /\ \A u \in Processes : BusyInv(u)' /\ LockInv(u)'
  <2>1. DaylightTypeOK'
    BY <1>1, <1>5 DEF DaylightTypeOK, Idle
  <2>2. \A u \in Processes : u # w => BusyInv(u)' /\ LockInv(u)'
    BY <1>1, <1>2, <1>3, <1>5, OthersGoOn
  <2> QED BY <1>3, <2>1, <2>2
<1>6. CASE ~ Owes(w)
  <2>1. UNCHANGED <<nextcall, adjusted, drift>>
    <3>1. CASE WorkerDies(w)
      BY <3>1 DEF WorkerDies
    <3>2. CASE ProcessJob(w)
      <4>1. D = 0
        BY <1>6, <3>2 DEF Owes, ProcessJob
      <4> QED BY <1>1, <3>2, <4>1 DEF ProcessJob
    <3>3. CASE LoseAdjustment(w)
      <4>1. D = 0
        BY <1>6, <3>3 DEF Owes, LoseAdjustment
      <4> QED BY <1>1, <3>3, <4>1 DEF LoseAdjustment
    <3> QED BY <3>1, <3>2, <3>3
  <2>2. DaylightTypeOK' /\ \A u \in Processes : BusyInv(u)' /\ LockInv(u)'
    BY <1>1, <1>5, <2>1
  <2>3. KeepsUp => numbercall' \in {-1, 0, 1}
    BY <1>1 DEF DaylightInv
  <2>4. /\ \A u \in Processes : OwesInv(u)'
        /\ ((\A u \in Processes : ~ Owes(u)) => Good(nextcall, adjusted, drift))'
    BY <1>1, <1>2, <1>3, <1>6, <2>1, NothingOwed
  <2> QED BY <2>2, <2>3, <2>4 DEF DaylightInv
<1>7. CASE Owes(w)
  <2>1. /\ Good(nextcall - D, OneMore, drift) /\ Good(nextcall, adjusted, drift + D)
        /\ D # 0 /\ InAdjustment(w) /\ \A u \in Processes : Owes(u) => u = w
    BY <1>7 DEF DaylightInv, OwesInv, Owes
  <2> HIDE DEF D
  <2>2. \A u \in Processes : ~ Owes(u)'
    BY <1>3, <2>1
  <2>3. \A u \in Processes : OwesInv(u)'
    BY <2>2 DEF OwesInv
  <2>4. CASE ProcessJob(w)
    <3>1. /\ nextcall' = nextcall - D /\ adjusted' = OneMore /\ drift' = drift /\ Unlocked
      BY <2>1, <2>4 DEF ProcessJob, OneMore, D
    <3>2. nextcall' \in Nat /\ adjusted' \in 0 .. 3
      BY <1>1, <1>4, <1>7, <3>1 DEF OneMore, SmallerOf
    <3>3. DaylightTypeOK'
      BY <1>1, <3>1, <3>2 DEF DaylightTypeOK, Idle
    <3>4. \A u \in Processes : u # w => BusyInv(u)' /\ LockInv(u)'
      BY <1>1, <1>2, <1>3, <3>1, OthersGoOn DEF Unlocked
    <3>5. Good(nextcall, adjusted, drift)'
      BY <1>1, <2>1, <3>1 DEF Good, YearOf, HourOf
    <3>6. KeepsUp => numbercall' \in {-1, 0, 1}
      BY <1>1 DEF DaylightInv
    <3> QED BY <1>3, <2>3, <3>3, <3>4, <3>5, <3>6 DEF DaylightInv
  <2>5. CASE LoseAdjustment(w)
    <3>1. nextcall' = nextcall /\ adjusted' = adjusted /\ drift' = drift + D
      BY <2>5 DEF LoseAdjustment, D
    <3>2. DaylightTypeOK' /\ \A u \in Processes : BusyInv(u)' /\ LockInv(u)'
      BY <1>1, <1>4, <1>5, <3>1
    <3>3. Good(nextcall, adjusted, drift)'
      BY <1>1, <2>1, <3>1 DEF Good, YearOf, HourOf
    <3>4. KeepsUp => numbercall' \in {-1, 0, 1}
      BY <1>1 DEF DaylightInv
    <3> QED BY <2>3, <3>2, <3>3, <3>4 DEF DaylightInv
  <2>6. ~ WorkerDies(w)
    BY <2>1 DEF WorkerDies, InRun, InAdjustment
  <2> QED BY <2>4, <2>5, <2>6
<1> QED BY <1>6, <1>7

LEMMA DaylightStutter ==
  ASSUME DaylightInv, UNCHANGED daylightVars
  PROVE  DaylightInv'
<1>1. UNCHANGED <<now, nextcall, numbercall, interval, job, hour, adjusted, drift>>
  BY DEF daylightVars
<1>2. DaylightTypeOK'
  BY <1>1 DEF DaylightInv, DaylightTypeOK
<1>3. \A u \in Processes : /\ Adjustment(job[u])' = Adjustment(job[u])
                           /\ PlannedCall(job[u])' = PlannedCall(job[u])
  BY <1>1, SameTerms
<1>4. \A u \in Processes : (Owes(u)' <=> Owes(u)) /\ (InRun(u)' <=> InRun(u))
  BY <1>1, <1>3 DEF Owes, InAdjustment, InRun
<1>5. ASSUME NEW u \in Processes PROVE BusyInv(u)' /\ LockInv(u)' /\ OwesInv(u)'
  <2>1. BusyInv(u) /\ LockInv(u) /\ OwesInv(u)
    BY DEF DaylightInv
  <2>2. BusyInv(u)'
    BY <1>1, <1>3, <2>1 DEF BusyInv
  <2>3. LockInv(u)'
    BY <1>1, <1>4, <2>1 DEF LockInv
  <2>4. OwesInv(u)'
    BY <1>1, <1>3, <1>4, <2>1 DEF OwesInv, Good, YearOf, HourOf, OneMore
  <2> QED BY <2>2, <2>3, <2>4
<1>6. ((\A u \in Processes : ~ Owes(u)) => Good(nextcall, adjusted, drift))'
  BY <1>1, <1>4 DEF DaylightInv, Good, YearOf, HourOf
<1> QED BY <1>1, <1>2, <1>5, <1>6 DEF DaylightInv

THEOREM DaylightInvariance == ~ Overrun => (DaylightSpec => []DaylightInv)
<1> SUFFICES ASSUME ~ Overrun PROVE DaylightSpec => []DaylightInv
  OBVIOUS
<1>1. ASSUME DaylightInv, [DaylightNext]_daylightVars PROVE DaylightInv'
  <2>1. CASE Tick
    BY <1>1, <2>1, TickStep
  <2>2. CASE Over \/ UNCHANGED daylightVars
    BY <1>1, <2>2, DaylightStutter DEF Over
  <2>3. CASE \E w \in Processes : \/ Begin(w) \/ Reschedule(w) \/ ProcessJob(w)
                                  \/ WorkerDies(w) \/ LoseAdjustment(w)
    BY <1>1, <2>3, BeginStep, RescheduleStep, EndStep
  <2> QED BY <1>1, <2>1, <2>2, <2>3 DEF DaylightNext
<1> QED BY <1>1, DaylightStarts, PTL DEF DaylightSpec

\* cron _process_job: an action keeps its hour of the day, but for the adjustments that
\* are lost between the two commits of a run, whatever its interval in days, the changes
\* of the year, the delays, failures and runs before its time.
THEOREM HourCorrect == KeepsUp => (DaylightSpec => []FixedHour)
<1> SUFFICES ASSUME KeepsUp PROVE DaylightSpec => []FixedHour
  OBVIOUS
<1>1. DaylightInv => FixedHour
  BY DEF DaylightInv, FixedHour, Good, HourOf
<1>2. ~ Overrun
  BY DEF KeepsUp
<1> QED BY <1>1, <1>2, DaylightInvariance, PTL

\* cron _process_job: twice a year and no third time, for any numbercall, if no run lasts
\* until its next call.
THEOREM AdjustedTwice == ~ Overrun => (DaylightSpec => []TwiceAYear)
<1> SUFFICES ASSUME ~ Overrun PROVE DaylightSpec => []TwiceAYear
  OBVIOUS
<1>1. DaylightInv => TwiceAYear
  BY DEF DaylightInv, OwesInv, TwiceAYear, Good, YearOf
<1> QED BY <1>1, DaylightInvariance, PTL

============================================================================
