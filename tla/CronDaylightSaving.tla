------------------------- MODULE CronDaylightSaving -------------------------
(***************************************************************************)
(* cron_daylight_saving_time_resistant: the next call of a scheduled       *)
(* action is kept in UTC, and after every run the addon takes a change of  *)
(* the user's UTC offset out of it again.                                  *)
(*                                                                         *)
(* Time is counted in whole hours of UTC, and a process that looks at the  *)
(* clock in hour n sees a moment shortly after the full hour n: the        *)
(* addon's "nextcall < now" is NextCall <= now here, as Odoo's             *)
(* "missed_call <= now" is.  One year has one change in spring and one in  *)
(* autumn.                                                                 *)
(***************************************************************************)
EXTENDS Integers

CONSTANTS
    Processes,     \* the processes of the server that run scheduled actions
    Spring,        \* first hour of summer time
    Autumn,        \* first hour of winter time after it
    Horizon,       \* bound: last hour of the clock
    MaxLate,       \* bound: hours the server may be late or a run may take
    FirstCalls,    \* UTC hours of the first call an administrator may set
    Intervals,     \* interval_type and interval_number, in hours
    NumberCalls,   \* values of numbercall, -1 for unlimited
    Overrun        \* whether a run may last until the next call is due

ASSUME DaylightAssumption ==
    /\ Spring \in Nat /\ Autumn \in Nat /\ Spring < Autumn
    /\ Horizon \in Nat /\ MaxLate \in Nat
    /\ FirstCalls \subseteq Nat
    /\ Intervals \subseteq Nat \ {0}
    /\ NumberCalls \subseteq {-1} \cup (Nat \ {0})
    /\ Overrun \in BOOLEAN

VARIABLES
    now,          \* the clock
    nextcall,     \* nextcall of the ir.cron row
    numbercall,   \* numbercall of the row; 0 means that the action is over
    interval,     \* interval of the row
    job,          \* of each process: its run, with the row as the run began, or Idle
    hour,         \* the local hour the administrator asked for
    adjusted,     \* how often the addon changed nextcall, counted up to 3
    drift         \* hours the adjustments that never came would have taken off

daylightVars == <<now, nextcall, numbercall, interval, job, hour, adjusted, drift>>

Day == 24

\* A run holds the lock of the row until Odoo commits it; after that only its
\* adjustment is left to be made.
Idle == [at |-> "idle", begun |-> 0, nextcall |-> 0, numbercall |-> 0]
InRun(w) == job[w].at = "run"
InAdjustment(w) == job[w].at = "adjust"
Unlocked == \A w \in Processes : ~ InRun(w)

\* The user's time zone: one hour ahead of UTC in winter, two in summer.
UtcOffset(t) == IF Spring <= t /\ t < Autumn THEN 2 ELSE 1
LocalHour(t) == (t + UtcOffset(t)) % Day

\* The local hour that does not exist on the day of the change in spring.
Gap == (Spring + 1) % Day

DaylightTypeOK ==
    /\ now \in 0..Horizon
    /\ nextcall \in Nat
    /\ numbercall \in Int /\ numbercall >= -1
    /\ interval \in Intervals
    /\ job \in [Processes -> [at : {"idle", "run", "adjust"}, begun : Nat,
                           nextcall : Nat, numbercall : Int]]
    /\ hour \in 0..(Day - 1)
    /\ adjusted \in 0..3
    /\ drift \in Int

DaylightInit ==
    /\ now = 0
    /\ nextcall \in FirstCalls
    /\ numbercall \in NumberCalls
    /\ interval \in Intervals
    /\ job = [w \in Processes |-> Idle]
    /\ hour = LocalHour(nextcall)
    /\ adjusted = 0
    /\ drift = 0

-----------------------------------------------------------------------------
\* The first of from, from + delta, from + 2 * delta, ... after the moment t.
FirstAfter(from, delta, t) ==
    IF from > t THEN from ELSE from + delta * (1 + (t - from) \div delta)

SmallerOf(a, b) == IF a < b THEN a ELSE b

\* The loop goes one call too far.
LoopEnd_OneMore(from, delta, calls, t) == FirstAfter(from, delta, t) + delta

\* The call at which the loop of _calculate_daylight_offset stops: a limited
\* numbercall counts every call that was missed.
LoopEnd(from, delta, calls, t) ==
    IF calls < 0
    THEN FirstAfter(from, delta, t)
    ELSE SmallerOf(FirstAfter(from, delta, t), from + delta * (calls - 1))

\* _calculate_daylight_offset; adding delta to an aware datetime keeps its
\* offset, so the loop counts in UTC and normalize() finds the new offset.
DaylightOffset_Swapped(from, delta, calls, t) ==
    UtcOffset(from) - UtcOffset(LoopEnd(from, delta, calls, t))

DaylightOffset(from, delta, calls, t) ==
    UtcOffset(LoopEnd(from, delta, calls, t)) - UtcOffset(from)

\* What Odoo's _process_job writes as nextcall and numbercall at the end of the
\* run j: it takes one call off a limited numbercall, also when several were missed.
PlannedCall(j) == FirstAfter(j.nextcall, interval, j.begun)
CallsLeft(j) == IF j.numbercall < 0 THEN j.numbercall ELSE j.numbercall - 1

\* What the addon takes off the call Odoo has planned: it reads the clock anew,
\* but works with the row as the run began.
Adjustment(j) ==
    IF j.nextcall <= now /\ j.numbercall # 0
    THEN DaylightOffset(j.nextcall, interval, j.numbercall, now)
    ELSE 0

\* The clock.  A due action waits, and a run takes, at most MaxLate hours.
Tick ==
    /\ now < Horizon
    /\ \A w \in Processes : job[w] # Idle =>
         /\ now - job[w].begun < MaxLate
         /\ Overrun \/ now + 1 < PlannedCall(job[w])
    /\ (Unlocked /\ numbercall # 0) => now - nextcall < MaxLate
    /\ now' = now + 1
    /\ UNCHANGED <<nextcall, numbercall, interval, job, hour, adjusted, drift>>

\* A worker locks the row and reads it: its call is due, or somebody triggered
\* the action before its time.
Begin(w) ==
    /\ job[w] = Idle /\ Unlocked /\ numbercall # 0
    /\ job' = [job EXCEPT ![w] = [at |-> "run", begun |-> now,
                                 nextcall |-> nextcall, numbercall |-> numbercall]]
    /\ UNCHANGED <<now, nextcall, numbercall, interval, hour, adjusted, drift>>

\* super()._process_job: the run is over, Odoo writes the row and commits it.
Reschedule(w) ==
    /\ InRun(w)
    /\ nextcall' = PlannedCall(job[w])
    /\ numbercall' = CallsLeft(job[w])
    /\ job' = [job EXCEPT ![w].at = "adjust"]
    /\ UNCHANGED <<now, interval, hour, adjusted, drift>>

\* The rest of _process_job: the adjustment of what nextcall is by now, in a
\* transaction of its own, which waits for the lock of another worker's run.
ProcessJob(w) ==
    /\ InAdjustment(w) /\ Unlocked
    /\ nextcall' = nextcall - Adjustment(job[w])
    /\ adjusted' = IF Adjustment(job[w]) # 0 THEN SmallerOf(3, adjusted + 1) ELSE adjusted
    /\ job' = [job EXCEPT ![w] = Idle]
    /\ UNCHANGED <<now, numbercall, interval, hour, drift>>

\* The worker dies in the run: its cursor is rolled back.
WorkerDies(w) ==
    /\ InRun(w)
    /\ job' = [job EXCEPT ![w] = Idle]
    /\ UNCHANGED <<now, nextcall, numbercall, interval, hour, adjusted, drift>>

\* The worker dies between the two commits, or its update fails because another
\* worker's run has written the row meanwhile: nobody makes up for it.
LoseAdjustment(w) ==
    /\ InAdjustment(w)
    /\ drift' = drift + Adjustment(job[w])
    /\ job' = [job EXCEPT ![w] = Idle]
    /\ UNCHANGED <<now, nextcall, numbercall, interval, hour, adjusted>>

\* The clock has reached the bound, or the last call was made.
Over ==
    /\ \A w \in Processes : job[w] = Idle
    /\ now = Horizon \/ numbercall = 0
    /\ UNCHANGED daylightVars

DaylightNext ==
    \/ Tick \/ Over
    \/ \E w \in Processes :
          Begin(w) \/ Reschedule(w) \/ ProcessJob(w) \/ WorkerDies(w) \/ LoseAdjustment(w)

DaylightSpec == DaylightInit /\ [][DaylightNext]_daylightVars

-----------------------------------------------------------------------------
\* The number of calls is not limited, or to one, and no run with its adjustment
\* lasts until its next call: then the computation finds the call that Odoo has
\* planned.
KeepsUp == NumberCalls \subseteq {-1, 1} /\ ~ Overrun

\* The call Odoo has planned is still to be moved.
Owes(w) == InAdjustment(w) /\ Adjustment(job[w]) # 0

\* An action that is called every so many days is called at the local hour it
\* was set to, on both sides of a change, however late the server is, whoever
\* triggers it in between and whichever runs fail; a lost adjustment moves that
\* hour by what it was, and nothing else does, a second worker's run between the
\* two commits least of all.  One that was set to the hour missing in spring may
\* be called an hour early (cron _process_job).
FixedHour ==
    \/ numbercall = 0
    \/ interval % Day # 0
    \/ \E w \in Processes : Owes(w)
    \/ LocalHour(nextcall) = (hour + drift) % Day
    \/ hour = Gap /\ (LocalHour(nextcall) + 1) % Day = (hour + drift) % Day

\* "It's used twice a year": the adjustment is made for the two changes of a
\* year and no third time; a call moved back over the change is not taken for
\* one before it and moved again (cron _process_job, the condition on
\* diff_offset) - unless it is called every few hours, or in the missing one.
TwiceAYear == adjusted <= 2 \/ interval % Day # 0 \/ hour = Gap

=============================================================================
