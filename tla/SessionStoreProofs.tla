------------------------- MODULE SessionStoreProofs -------------------------
(* Proofs about SessionStore, for any number of processes, threads,         *)
(* sessions and attempts.                                                   *)
EXTENDS SessionStore, TLAPS

(***************************************************************************)
(* The inductive invariant: whoever is inside a call of a process with a   *)
(* lock owns that lock, an answer that is on its way is that of a          *)
(* statement that was executed, and no attempt begins after the last one.  *)
(***************************************************************************)
LockInv == \A t \in Threads :
             owner[ProcOf[t]] = t <=> (pc[t] \in Inside /\ ProcOf[t] \in Locked)
AnswerInv == \A t \in Threads : pc[t] = "answer" => call[t].applied
TriesInv == \A t \in Threads : /\ pc[t] \in {"idle", "lock"} => tries[t] = 0
                               /\ pc[t] = "try" => tries[t] < Tries
IInv == TypeOK /\ LockInv /\ AnswerInv /\ TriesInv

Table == [Sids -> Register!Row \cup {Absent}]

\* A statement leaves a table behind, and answers with a payload or nothing.
LEMMA EffectType ==
  ASSUME NEW op \in Register!Ops, NEW tab \in Table
  PROVE  /\ Register!Effect(op, tab) \in Table
         /\ Register!Answer(op, tab) \in Payloads \cup {Absent}
<1>1. CASE op.kind = "save"
  <2>1. op.sid \in Sids /\ op.payload \in Payloads
    BY <1>1 DEF Register!Ops
  <2> QED BY <1>1, <2>1 DEF Table, Register!Row, Register!Effect, Register!Answer
<1>2. CASE op.kind \in {"delete", "get"}
  <2>1. op.sid \in Sids
    BY <1>2 DEF Register!Ops
  <2>2. tab[op.sid] # Absent => tab[op.sid].payload \in Payloads
    BY <2>1 DEF Table, Register!Row
  <2> QED BY <1>2, <2>1, <2>2 DEF Table, Register!Effect, Register!Answer
<1>3. CASE op.kind = "vacuum"
  BY <1>3 DEF Table, Register!Effect, Register!Answer
<1> QED BY <1>1, <1>2, <1>3 DEF Register!Ops

\* The record of a call that has begun, was executed, or has ended.
LEMMA CallTypes ==
  ASSUME NEW c \in Register!CallType, NEW op \in Register!Ops,
         NEW a \in Payloads \cup {Absent}
  PROVE  /\ Register!NoCall \in Register!CallType
         /\ [Register!NoCall EXCEPT !.phase = "busy", !.op = op] \in Register!CallType
         /\ [Register!NoCall EXCEPT !.phase = "busy", !.op = op].phase = "busy"
         /\ [Register!NoCall EXCEPT !.phase = "busy", !.op = op].op = op
         /\ [c EXCEPT !.applied = TRUE, !.answer = a] \in Register!CallType
         /\ [c EXCEPT !.applied = TRUE, !.answer = a].phase = c.phase
         /\ [c EXCEPT !.applied = TRUE, !.answer = a].op = c.op
         /\ [c EXCEPT !.applied = TRUE, !.answer = a].applied
BY DEF Register!CallType, Register!NoCall

LEMMA EndedType ==
  ASSUME NEW c \in Register!CallType, NEW how \in {"returned", "raised"}
  PROVE  Register!Ended(c, how) \in Register!CallType /\ Register!Ended(c, how).phase = how
BY DEF Register!CallType, Register!Ended

\* Operations and the "no row" value are different things for a call that runs.
LEMMA RunningOp ==
  ASSUME TypeOK, NEW t \in Threads, pc[t] # "idle"
  PROVE  call[t] \in Register!CallType /\ call[t].op \in Register!Ops /\ call[t].phase = "busy"
BY DEF TypeOK, Register!CallType

LEMMA InitInv == Init => IInv
<1> SUFFICES ASSUME Init PROVE IInv
  OBVIOUS
<1>1. Register!NoCall \in Register!CallType /\ Register!NoCall.phase = "idle"
  BY DEF Register!NoCall, Register!CallType
<1>2. TypeOK
  BY <1>1, StoreAssumption DEF Init, TypeOK, Inside
<1>3. LockInv
  BY StoreAssumption DEF Init, LockInv, Inside
<1> QED BY <1>2, <1>3 DEF Init, IInv, AnswerInv, TriesInv

(***************************************************************************)
(* A thread moves on inside its call: its lock stays with it.              *)
(***************************************************************************)
LEMMA MoveInv ==
  ASSUME IInv, NEW t \in Threads, pc[t] \in Inside, NEW l \in Inside, Goto(t, l),
         UNCHANGED owner, table' \in Table, cursor' \in [Procs -> BOOLEAN],
         NEW n \in 0 .. Tries, tries' = [tries EXCEPT ![t] = n], l = "try" => n < Tries,
         NEW c \in Register!CallType, call' = [call EXCEPT ![t] = c],
         c.phase = "busy", c.op # Absent, l = "answer" => c.applied
  PROVE  IInv'
<1>1. /\ pc' = [pc EXCEPT ![t] = l]
      /\ l # "idle" /\ l # "lock"
  BY DEF Goto, Inside
<1>2. /\ pc'[t] = l /\ tries'[t] = n /\ call'[t] = c
      /\ \A u \in Threads \ {t} : pc'[u] = pc[u] /\ tries'[u] = tries[u] /\ call'[u] = call[u]
  BY <1>1 DEF IInv, TypeOK
<1>3. TypeOK'
  BY <1>1, <1>2 DEF IInv, TypeOK, Table
<1>4. LockInv'
  BY <1>2 DEF IInv, LockInv
<1>5. AnswerInv' /\ TriesInv'
  BY <1>1, <1>2 DEF IInv, AnswerInv, TriesInv
<1> QED BY <1>3, <1>4, <1>5 DEF IInv

(***************************************************************************)
(* Threads of one process end their calls, and its lock is free then.      *)
(***************************************************************************)
LEMMA EndInv ==
  ASSUME IInv, NEW p \in Procs, NEW T \in SUBSET {t \in Threads : ProcOf[t] = p},
         \A t \in Threads : ProcOf[t] = p /\ pc[t] \in Inside /\ p \in Locked => t \in T,
         \A t \in Threads : /\ pc'[t] = IF t \in T THEN "idle" ELSE pc[t]
                            /\ tries'[t] = IF t \in T THEN 0 ELSE tries[t]
                            /\ call'[t] \in Register!CallType
                            /\ t \in T => call'[t].phase # "busy"
                            /\ t \notin T => call'[t] = call[t],
         pc' = [t \in Threads |-> pc'[t]], tries' = [t \in Threads |-> tries'[t]],
         call' = [t \in Threads |-> call'[t]],
         owner' = [q \in Procs |-> IF q = p THEN Absent ELSE owner[q]],
         table' \in Table, cursor' \in [Procs -> BOOLEAN]
  PROVE  IInv'
<1>1. \A t \in Threads : ProcOf[t] \in Procs /\ t # Absent
  BY StoreAssumption
<1>2. /\ pc' \in [Threads -> {"idle", "lock"} \cup Inside]
      /\ tries' \in [Threads -> 0 .. Tries]
      /\ call' \in [Threads -> Register!CallType]
      /\ owner' \in [Procs -> Threads \cup {Absent}]
  BY StoreAssumption DEF IInv, TypeOK
<1>3. ASSUME NEW t \in Threads
      PROVE  /\ pc'[t] # "idle" <=> call'[t].phase = "busy"
             /\ pc'[t] # "idle" => call'[t].op # Absent
  BY <1>3 DEF IInv, TypeOK
<1>4. ASSUME NEW q \in Procs, owner'[q] # Absent
      PROVE  ProcOf[owner'[q]] = q /\ pc'[owner'[q]] \in Inside
  <2>1. q # p /\ owner'[q] = owner[q] /\ owner[q] \in Threads
    BY <1>4 DEF IInv, TypeOK
  <2>2. ProcOf[owner[q]] = q /\ pc[owner[q]] \in Inside
    BY <1>4, <2>1 DEF IInv, TypeOK
  <2> QED BY <2>1, <2>2
<1>5. TypeOK'
  BY <1>2, <1>3, <1>4 DEF TypeOK, Table
<1>6. ASSUME NEW t \in Threads
      PROVE  owner'[ProcOf[t]] = t <=> (pc'[t] \in Inside /\ ProcOf[t] \in Locked)
  <2>1. CASE ProcOf[t] = p
    <3>1. owner'[ProcOf[t]] # t
      BY <1>1, <2>1
    <3>2. p \in Locked => pc'[t] \notin Inside
      BY <2>1 DEF Inside
    <3> QED BY <2>1, <3>1, <3>2
  <2>2. CASE ProcOf[t] # p
    <3>1. owner'[ProcOf[t]] = owner[ProcOf[t]] /\ pc'[t] = pc[t]
      BY <1>1, <2>2
    <3> QED BY <3>1 DEF IInv, LockInv
  <2> QED BY <2>1, <2>2
<1>7. AnswerInv' /\ TriesInv'
  BY StoreAssumption DEF IInv, AnswerInv, TriesInv
<1> QED BY <1>5, <1>6, <1>7 DEF IInv, LockInv

\* One thread leaves: with a lock it was the only one inside.
LEMMA LeaveInv ==
  ASSUME IInv, NEW t \in Threads, pc[t] \in Inside, NEW how \in {"returned", "raised"},
         Leave(t, how), table' \in Table, cursor' \in [Procs -> BOOLEAN]
  PROVE  IInv'
<1>1. call[t] \in Register!CallType /\ call[t].op \in Register!Ops
  BY RunningOp DEF IInv, Inside
<1>2. Register!Ended(call[t], how) \in Register!CallType /\ Register!Ended(call[t], how).phase = how
  BY <1>1, EndedType
<1>3. /\ pc' = [pc EXCEPT ![t] = "idle"]
      /\ call' = [call EXCEPT ![t] = Register!Ended(call[t], how)]
      /\ tries' = [tries EXCEPT ![t] = 0]
      /\ owner' = IF ProcOf[t] \in Locked THEN [owner EXCEPT ![ProcOf[t]] = Absent] ELSE owner
  BY DEF Leave, Goto
<1>4. ProcOf[t] \in Procs
  BY StoreAssumption
<1>5. \A u \in Threads : ProcOf[u] = ProcOf[t] /\ pc[u] \in Inside /\ ProcOf[t] \in Locked => u \in {t}
  BY DEF IInv, LockInv
<1>6. owner' = [q \in Procs |-> IF q = ProcOf[t] THEN Absent ELSE owner[q]]
  <2>1. CASE ProcOf[t] \in Locked
    BY <1>3, <2>1 DEF IInv, TypeOK
  <2>2. CASE ProcOf[t] \notin Locked
    <3>1. owner[ProcOf[t]] = Absent
      <4> SUFFICES ASSUME owner[ProcOf[t]] # Absent PROVE FALSE
        OBVIOUS
      <4>1. PICK u \in Threads : owner[ProcOf[t]] = u /\ ProcOf[u] = ProcOf[t]
        BY <1>4 DEF IInv, TypeOK
      <4> QED BY <2>2, <4>1 DEF IInv, LockInv
    <3> QED BY <1>3, <2>2, <3>1 DEF IInv, TypeOK
  <2> QED BY <2>1, <2>2
<1>7. \A u \in Threads : /\ pc'[u] = IF u \in {t} THEN "idle" ELSE pc[u]
                         /\ tries'[u] = IF u \in {t} THEN 0 ELSE tries[u]
                         /\ call'[u] \in Register!CallType
                         /\ u \in {t} => call'[u].phase # "busy"
                         /\ u \notin {t} => call'[u] = call[u]
  BY <1>2, <1>3 DEF IInv, TypeOK
<1>8. /\ pc' = [u \in Threads |-> pc'[u]] /\ tries' = [u \in Threads |-> tries'[u]]
      /\ call' = [u \in Threads |-> call'[u]]
  BY <1>3 DEF IInv, TypeOK
<1>9. {t} \in SUBSET {u \in Threads : ProcOf[u] = ProcOf[t]}
  OBVIOUS
<1> QED BY <1>4, <1>5, <1>6, <1>7, <1>8, <1>9, EndInv

LEMMA CrashInv ==
  ASSUME IInv, NEW p \in Procs, Crash(p)
  PROVE  IInv'
<1> DEFINE T == {t \in Threads : ProcOf[t] = p /\ pc[t] # "idle"}
<1>1. /\ pc' = [t \in Threads |-> IF t \in T THEN "idle" ELSE pc[t]]
      /\ call' = [t \in Threads |-> IF t \in T THEN Register!Ended(call[t], "raised") ELSE call[t]]
      /\ tries' = [t \in Threads |-> IF t \in T THEN 0 ELSE tries[t]]
      /\ owner' = [owner EXCEPT ![p] = Absent]
      /\ cursor' = [cursor EXCEPT ![p] = TRUE] /\ table' = table
  BY DEF Crash
<1>2. \A t \in Threads : /\ call'[t] \in Register!CallType
                         /\ t \in T => call'[t].phase # "busy"
                         /\ t \notin T => call'[t] = call[t]
  <2> SUFFICES ASSUME NEW t \in Threads, t \in T
               PROVE  Register!Ended(call[t], "raised") \in Register!CallType
                      /\ Register!Ended(call[t], "raised").phase = "raised"
    BY <1>1 DEF IInv, TypeOK
  <2> QED BY RunningOp, EndedType DEF IInv
<1>3. /\ pc' = [t \in Threads |-> pc'[t]] /\ tries' = [t \in Threads |-> tries'[t]]
      /\ call' = [t \in Threads |-> call'[t]]
      /\ owner' = [q \in Procs |-> IF q = p THEN Absent ELSE owner[q]]
      /\ table' \in Table /\ cursor' \in [Procs -> BOOLEAN]
  BY <1>1 DEF IInv, TypeOK, Table
<1>4. \A t \in Threads : ProcOf[t] = p /\ pc[t] \in Inside /\ p \in Locked => t \in T
  BY DEF Inside
<1>5. T \in SUBSET {t \in Threads : ProcOf[t] = p}
  OBVIOUS
<1> HIDE DEF T
<1>6. \A t \in Threads : /\ pc'[t] = IF t \in T THEN "idle" ELSE pc[t]
                         /\ tries'[t] = IF t \in T THEN 0 ELSE tries[t]
  BY <1>1
<1> QED BY <1>2, <1>3, <1>4, <1>5, <1>6, EndInv

\* The steps of a thread.
LEMMA StepInv ==
  ASSUME IInv, NEW t \in Threads, Step(t)
  PROVE  IInv'
<1>1. pc[t] # "idle" /\ ProcOf[t] \in Procs /\ tries[t] \in 0 .. Tries /\ Tries \in Nat
  BY StoreAssumption DEF IInv, TypeOK, Step, Enter, Connect, ConnectFails, ConnectRaises, Execute,
     ExecuteFails, ExecuteRaises, AnswerLost, Answered, Except
<1>2. call[t] \in Register!CallType /\ call[t].op \in Register!Ops /\ call[t].phase = "busy"
      /\ call[t].op # Absent
  BY <1>1, RunningOp DEF IInv, TypeOK
<1>3. table \in Table /\ cursor \in [Procs -> BOOLEAN]
  BY DEF IInv, TypeOK, Table
<1>4. call = [call EXCEPT ![t] = call[t]] /\ tries = [tries EXCEPT ![t] = tries[t]]
  BY DEF IInv, TypeOK
<1>5. [cursor EXCEPT ![ProcOf[t]] = TRUE] \in [Procs -> BOOLEAN]
      /\ [cursor EXCEPT ![ProcOf[t]] = FALSE] \in [Procs -> BOOLEAN]
  BY <1>1, <1>3
<1>6. CASE Enter(t)
  <2>1. /\ pc[t] = "lock" /\ pc' = [pc EXCEPT ![t] = "try"]
        /\ owner' = IF ProcOf[t] \in Locked THEN [owner EXCEPT ![ProcOf[t]] = t] ELSE owner
        /\ ProcOf[t] \in Locked => owner[ProcOf[t]] \in {Absent, t}
        /\ UNCHANGED <<table, cursor, tries, call>>
    BY <1>6 DEF Enter, MayEnter, Goto
  <2>2. /\ pc'[t] = "try" /\ \A u \in Threads \ {t} : pc'[u] = pc[u]
        /\ pc' \in [Threads -> {"idle", "lock"} \cup Inside]
    BY <2>1 DEF IInv, TypeOK, Inside
  <2>3. ProcOf[t] \in Locked => /\ owner[ProcOf[t]] = Absent
                               /\ owner'[ProcOf[t]] = t
                               /\ \A q \in Procs \ {ProcOf[t]} : owner'[q] = owner[q]
    <3>1. owner[ProcOf[t]] # t
      BY <2>1 DEF IInv, LockInv, Inside
    <3> QED BY <1>1, <2>1, <3>1 DEF IInv, TypeOK
  <2>4. ASSUME NEW q \in Procs, owner'[q] # Absent
        PROVE  ProcOf[owner'[q]] = q /\ pc'[owner'[q]] \in Inside
    <3>1. CASE q = ProcOf[t] /\ ProcOf[t] \in Locked
      BY <2>2, <2>3, <3>1 DEF Inside
    <3>2. CASE ~ (q = ProcOf[t] /\ ProcOf[t] \in Locked)
      <4>1. owner'[q] = owner[q] /\ owner[q] \in Threads
        BY <2>1, <2>3, <2>4, <3>2 DEF IInv, TypeOK
      <4> QED BY <2>1, <2>2, <2>4, <4>1 DEF IInv, TypeOK, Inside
    <3> QED BY <3>1, <3>2
  <2>5. owner' \in [Procs -> Threads \cup {Absent}]
    BY <1>1, <2>1 DEF IInv, TypeOK
  <2>6. TypeOK'
    BY <1>1, <1>2, <2>1, <2>2, <2>4, <2>5 DEF IInv, TypeOK
  <2>7. ASSUME NEW u \in Threads
        PROVE  owner'[ProcOf[u]] = u <=> (pc'[u] \in Inside /\ ProcOf[u] \in Locked)
    <3>0. ProcOf[u] \in Procs /\ u # Absent
      BY StoreAssumption
    <3>1. CASE u = t
      <4>1. CASE ProcOf[t] \in Locked
        BY <2>2, <2>3, <3>1, <4>1 DEF Inside
      <4>2. CASE ProcOf[t] \notin Locked
        BY <2>1, <3>1, <4>2 DEF IInv, LockInv
      <4> QED BY <4>1, <4>2
    <3>2. CASE u # t
      <4>1. (owner[ProcOf[u]] = u) <=> (pc[u] \in Inside /\ ProcOf[u] \in Locked)
        BY DEF IInv, LockInv
      <4>2. pc'[u] = pc[u]
        BY <2>2, <3>2
      <4>3. owner'[ProcOf[u]] = u <=> owner[ProcOf[u]] = u
        <5>1. CASE ProcOf[u] = ProcOf[t] /\ ProcOf[t] \in Locked
          BY <2>3, <3>0, <3>2, <5>1
        <5>2. CASE ~ (ProcOf[u] = ProcOf[t] /\ ProcOf[t] \in Locked)
          BY <2>1, <2>3, <3>0, <5>2
        <5> QED BY <5>1, <5>2
      <4> QED BY <4>1, <4>2, <4>3
    <3> QED BY <3>1, <3>2
  <2>8. AnswerInv' /\ TriesInv'
    <3>1. 0 < Tries
      BY StoreAssumption
    <3> QED BY <2>1, <2>2, <3>1 DEF IInv, AnswerInv, TriesInv
  <2> QED BY <2>6, <2>7, <2>8 DEF IInv, LockInv
<1>7. CASE Connect(t) \/ ConnectFails(t)
  <2>1. PICK l \in {"execute", "except"} : Goto(t, l)
    BY <1>7 DEF Connect, ConnectFails
  <2>2. pc[t] = "try" /\ UNCHANGED <<table, owner, call>> /\ tries' = [tries EXCEPT ![t] = tries[t] + 1]
        /\ cursor' \in [Procs -> BOOLEAN]
    BY <1>3, <1>5, <1>7 DEF Connect, ConnectFails
  <2>3. tries[t] + 1 \in 0 .. Tries
    BY <1>1, <2>2 DEF IInv, TriesInv
  <2> QED BY <1>2, <1>3, <1>4, <2>1, <2>2, <2>3, MoveInv DEF Inside
<1>8. CASE Execute(t)
  <2> DEFINE a == Register!Answer(call[t].op, table)
             c == [call[t] EXCEPT !.applied = TRUE, !.answer = a]
  <2>1. Register!Effect(call[t].op, table) \in Table /\ a \in Payloads \cup {Absent}
    BY <1>2, <1>3, EffectType
  <2>2. c \in Register!CallType /\ c.phase = "busy" /\ c.op # Absent /\ c.applied
    BY <1>2, <2>1, CallTypes
  <2>3. /\ pc[t] = "execute" /\ Goto(t, "answer") /\ UNCHANGED <<owner, cursor, tries>>
        /\ table' \in Table
    BY <1>8, <2>1 DEF Execute
  <2>4. call' = [call EXCEPT ![t] = c]
    BY <1>8 DEF Execute
  <2> HIDE DEF a, c
  <2> QED BY <1>1, <1>3, <1>4, <2>2, <2>3, <2>4, MoveInv DEF Inside
<1>9. CASE ExecuteFails(t) \/ AnswerLost(t)
  <2>1. /\ pc[t] \in Inside /\ Goto(t, "except") /\ UNCHANGED <<table, owner, cursor, tries, call>>
    BY <1>9 DEF ExecuteFails, AnswerLost, Inside
  <2> QED BY <1>1, <1>2, <1>3, <1>4, <2>1, MoveInv DEF Inside
<1>10. CASE ConnectRaises(t) \/ ExecuteRaises(t) \/ Answered(t)
  <2>1. /\ pc[t] \in Inside /\ UNCHANGED <<table, cursor>>
        /\ Leave(t, "raised") \/ Leave(t, "returned")
    BY <1>10 DEF ConnectRaises, ExecuteRaises, Answered, Inside
  <2> QED BY <1>3, <2>1, LeaveInv
<1>11. CASE Except(t)
  <2>1. /\ pc[t] \in Inside /\ table' \in Table /\ cursor' \in [Procs -> BOOLEAN]
    BY <1>3, <1>5, <1>11 DEF Except, Inside
  <2>2. CASE Leave(t, "raised")
    BY <2>1, <2>2, LeaveInv
  <2>3. CASE ~ GiveUp(t) /\ Goto(t, "try") /\ UNCHANGED <<owner, tries, call>>
    <3>1. tries[t] < Tries
      BY <1>1, <2>3 DEF GiveUp
    <3> QED BY <1>1, <1>2, <1>4, <2>1, <2>3, <3>1, MoveInv DEF Inside
  <2> QED BY <1>11, <2>2, <2>3 DEF Except
<1> QED BY <1>6, <1>7, <1>8, <1>9, <1>10, <1>11 DEF Step

LEMMA BeginInv ==
  ASSUME IInv, NEW t \in Threads, NEW op \in Register!Ops, Begin(t, op)
  PROVE  IInv'
<1> DEFINE c == [Register!NoCall EXCEPT !.phase = "busy", !.op = op]
<1>1. c \in Register!CallType /\ c.phase = "busy" /\ c.op # Absent
  BY AbsentAssumption DEF Register!CallType, Register!NoCall
<1>2. /\ pc[t] = "idle" /\ pc' = [pc EXCEPT ![t] = "lock"] /\ call' = [call EXCEPT ![t] = c]
      /\ UNCHANGED <<table, owner, cursor, tries>>
  BY DEF Begin, Goto
<1> HIDE DEF c
<1>3. TypeOK'
  BY <1>1, <1>2 DEF IInv, TypeOK, Inside
<1>4. LockInv' /\ AnswerInv' /\ TriesInv'
  BY <1>2 DEF IInv, TypeOK, LockInv, AnswerInv, TriesInv, Inside
<1> QED BY <1>3, <1>4 DEF IInv

LEMMA AgeInv ==
  ASSUME IInv, NEW s \in Sids, Age(s)
  PROVE  IInv'
<1>1. table' \in [Sids -> Register!Row \cup {Absent}]
  <2> DEFINE r == [table[s] EXCEPT !.old = TRUE]
  <2>1. r \in Register!Row
    <3>1. table[s] \in Register!Row
      BY DEF Age, IInv, TypeOK
    <3> QED BY <3>1 DEF Register!Row
  <2>2. table' = [table EXCEPT ![s] = r]
    BY DEF Age
  <2> HIDE DEF r
  <2> QED BY <2>1, <2>2 DEF IInv, TypeOK
<1> QED BY <1>1 DEF Age, IInv, TypeOK, LockInv, AnswerInv, TriesInv

LEMMA NextInv == IInv /\ [Next]_vars => IInv'
<1> SUFFICES ASSUME IInv, [Next]_vars PROVE IInv'
  OBVIOUS
<1>1. CASE UNCHANGED vars
  BY <1>1 DEF vars, IInv, TypeOK, LockInv, AnswerInv, TriesInv
<1>2. ASSUME NEW t \in Threads, NEW op \in Register!Ops, Begin(t, op) PROVE IInv'
  BY <1>2, BeginInv
<1> QED BY <1>1, <1>2, StepInv, CrashInv, AgeInv DEF Next

LEMMA Invariance == Spec => []IInv
BY InitInv, NextInv, PTL DEF Spec

-----------------------------------------------------------------------------
\* Locks, cursors, threads and rows keep their types, the owner of a lock is
\* inside a call, and no call makes more than Tries attempts.
THEOREM TypeCorrect == Spec => []TypeOK
<1>1. IInv => TypeOK
  BY DEF IInv
<1> QED BY <1>1, Invariance, PTL

\* The cursor of a process is never used by two of its threads.
THEOREM OneUserPerCursor == Spec => []CursorHasOneUser
<1>1. IInv => CursorHasOneUser
  BY StoreAssumption DEF IInv, LockInv, CursorHasOneUser
<1> QED BY <1>1, Invariance, PTL

\* Locks, lost answers, retries and crashes are invisible to the callers: the
\* store implements the register of sessions.
THEOREM RegisterImplemented == Spec => ImplementsRegister
<1>1. Init => Register!Init
  BY DEF Init, Register!Init
<1>2. ASSUME IInv, [Next]_vars PROVE [Register!Next]_(Register!vars)
  <2> USE DEF Register!vars
  <2>1. ASSUME NEW t \in Threads, Step(t) PROVE [Register!Next]_(Register!vars)
    <3>1. CASE Enter(t) \/ Connect(t) \/ ConnectFails(t) \/ ExecuteFails(t) \/ AnswerLost(t)
      BY <3>1 DEF Enter, Connect, ConnectFails, ExecuteFails, AnswerLost
    <3>2. CASE Execute(t)
      <4>1. Register!TakeEffect(t)
        BY <1>2, <3>2 DEF Execute, Register!TakeEffect, IInv, TypeOK
      <4> QED BY <4>1 DEF Register!Next
    <3>3. CASE Answered(t)
      <4>1. Register!Return(t)
        BY <1>2, <3>3 DEF Answered, Leave, Register!Return, IInv, TypeOK, AnswerInv
      <4> QED BY <4>1 DEF Register!Next
    <3>4. ASSUME pc[t] # "idle", Leave(t, "raised"), UNCHANGED table
          PROVE  Register!Next
      <4>1. Register!Raise({t})
        BY <1>2, <3>4 DEF Leave, Register!Raise, IInv, TypeOK
      <4>2. {t} \in SUBSET Threads
        OBVIOUS
      <4> QED BY <4>1, <4>2 DEF Register!Next
    <3>5. CASE ConnectRaises(t) \/ ExecuteRaises(t)
      BY <3>4, <3>5 DEF ConnectRaises, ExecuteRaises
    <3>6. CASE Except(t)
      BY <3>4, <3>6 DEF Except
    <3> QED BY <2>1, <3>1, <3>2, <3>3, <3>5, <3>6 DEF Step
  <2>2. ASSUME NEW t \in Threads, NEW op \in Register!Ops, Begin(t, op) PROVE Register!Next
    <3>1. Register!Invoke(t, op)
      BY <1>2, <2>2 DEF Begin, Register!Invoke, IInv, TypeOK
    <3> QED BY <3>1 DEF Register!Next
  <2>3. ASSUME NEW p \in Procs, Crash(p) PROVE Register!Next
    <3> DEFINE T == {t \in Threads : ProcOf[t] = p /\ pc[t] # "idle"}
    <3>1. Register!Raise(T)
      BY <1>2, <2>3 DEF Crash, Register!Raise, IInv, TypeOK
    <3>2. T \in SUBSET Threads
      OBVIOUS
    <3> QED BY <3>1, <3>2 DEF Register!Next
  <2>4. ASSUME NEW s \in Sids, Age(s) PROVE Register!Next
    BY <2>4 DEF Age, Register!Age, Register!Next
  <2>5. CASE UNCHANGED vars
    BY <2>5 DEF vars
  <2> QED BY <1>2, <2>1, <2>2, <2>3, <2>4, <2>5 DEF Next
<1> QED BY <1>1, <1>2, Invariance, PTL DEF Spec, ImplementsRegister, Register!Spec

=============================================================================
