--------------------------- MODULE SessionRegister ---------------------------
(***************************************************************************)
(* What a session store promises its callers: a table of sessions, and     *)
(* calls that take effect on it between their beginning and their end.     *)
(* A call that returns has taken effect; one that raises may have.  The    *)
(* effect is "at least once": a call that is retried may take effect       *)
(* again, but never after it has ended.                                    *)
(***************************************************************************)
EXTENDS Naturals

CONSTANTS Threads,   \* callers
          Sids,      \* session ids
          Payloads,  \* contents of a session
          Absent     \* "no row"

VARIABLES table,     \* Sids -> the row, or Absent
          call       \* Threads -> the call in progress

vars == <<table, call>>

\* old: the row's write_date is further back than the session lifetime.
Row == [payload : Payloads, old : BOOLEAN]
Ops == [kind : {"save"}, sid : Sids, payload : Payloads]
       \cup [kind : {"delete", "get"}, sid : Sids]
       \cup [kind : {"vacuum"}]

\* What a statement does to the table tab ...
Effect(op, tab) ==
  CASE op.kind = "save"   -> [tab EXCEPT ![op.sid] = [payload |-> op.payload, old |-> FALSE]]
    [] op.kind = "delete" -> [tab EXCEPT ![op.sid] = Absent]
    [] op.kind = "get"    -> tab
    [] op.kind = "vacuum" -> [s \in Sids |-> IF tab[s] # Absent /\ tab[s].old THEN Absent ELSE tab[s]]

\* ... and what it answers: a session that is not found is a new, empty one.
Answer(op, tab) == IF op.kind = "get" /\ tab[op.sid] # Absent THEN tab[op.sid].payload ELSE Absent

\* A call: "busy" until it has "returned" or "raised"; applied says whether it
\* has taken effect, answer what its last statement has read.
CallType == [phase : {"idle", "busy", "returned", "raised"}, op : Ops \cup {Absent},
             applied : BOOLEAN, answer : Payloads \cup {Absent}]

\* What is left of the call c once it has "returned" or "raised".
Ended(c, how) == [phase |-> how, op |-> Absent, applied |-> FALSE,
                  answer |-> IF how = "returned" THEN c.answer ELSE Absent]

NoCall == [phase |-> "idle", op |-> Absent, applied |-> FALSE, answer |-> Absent]

Init == /\ table = [s \in Sids |-> Absent]
        /\ call = [t \in Threads |-> NoCall]

Invoke(t, op) ==
  /\ call[t].phase # "busy"
  /\ call' = [call EXCEPT ![t] = [NoCall EXCEPT !.phase = "busy", !.op = op]]
  /\ UNCHANGED table

TakeEffect(t) ==
  /\ call[t].phase = "busy"
  /\ table' = Effect(call[t].op, table)
  /\ call' = [call EXCEPT ![t].applied = TRUE, ![t].answer = Answer(call[t].op, table)]

\* Only a call that has taken effect returns.
Return(t) ==
  /\ call[t].phase = "busy" /\ call[t].applied
  /\ call' = [call EXCEPT ![t] = Ended(@, "returned")]
  /\ UNCHANGED table

\* The call raises, or dies with its process.
Raise(T) ==
  /\ \A t \in T : call[t].phase = "busy"
  /\ call' = [t \in Threads |-> IF t \in T THEN Ended(call[t], "raised") ELSE call[t]]
  /\ UNCHANGED table

\* Time passes.
Age(s) == /\ table[s] # Absent
          /\ table' = [table EXCEPT ![s].old = TRUE]
          /\ UNCHANGED call

Next == \/ \E t \in Threads : TakeEffect(t) \/ Return(t) \/ \E op \in Ops : Invoke(t, op)
        \/ \E T \in SUBSET Threads : Raise(T)
        \/ \E s \in Sids : Age(s)

Spec == Init /\ [][Next]_vars

==============================================================================
