------------------------ MODULE AttachmentLifecycle ------------------------
(***************************************************************************)
(* What attachment_queue promises about one attachment, whoever processes  *)
(* it: creating or rescheduling it grants one more successful run, and     *)
(* every step on it is atomic.  Jobs, locks, snapshots, retries and crashes*)
(* do not appear here; AttachmentQueue is shown to implement this.         *)
(***************************************************************************)
EXTENDS Naturals

CONSTANT Attachments

VARIABLES state,     \* Attachments -> lifecycle state of the row
          sched,     \* Attachments -> how often it was made pending
          runs       \* Attachments -> how often run() was committed

vars == <<state, sched, runs>>

Init == /\ state = [a \in Attachments |-> "absent"]
        /\ sched = [a \in Attachments |-> 0]
        /\ runs = [a \in Attachments |-> 0]

\* A non-empty set of attachments is created or rescheduled in one transaction.
Grant(S) == /\ S # {}
            /\ state' = [a \in Attachments |-> IF a \in S THEN "pending" ELSE state[a]]
            /\ sched' = [a \in Attachments |-> IF a \in S THEN sched[a] + 1 ELSE sched[a]]
            /\ UNCHANGED runs

Create(S) == (\A a \in S : state[a] = "absent") /\ Grant(S)

Reschedule(S) == (\A a \in S : state[a] # "absent") /\ Grant(S)

\* A run is committed; an attachment that is done is never run again.
Run(a) == /\ state[a] \in {"pending", "failed"}
          /\ state' = [state EXCEPT ![a] = "done"]
          /\ runs' = [runs EXCEPT ![a] = @ + 1]
          /\ UNCHANGED sched

\* A failure is recorded, never over a completed attachment.
Fail(a) == /\ state[a] \in {"pending", "failed"}
           /\ state' = [state EXCEPT ![a] = "failed"]
           /\ UNCHANGED <<sched, runs>>

SetDone(a) == /\ state[a] # "absent"
              /\ state' = [state EXCEPT ![a] = "done"]
              /\ UNCHANGED <<sched, runs>>

Next == \/ \E S \in SUBSET Attachments : Create(S) \/ Reschedule(S)
        \/ \E a \in Attachments : Run(a) \/ Fail(a) \/ SetDone(a)

Spec == Init /\ [][Next]_vars

============================================================================
