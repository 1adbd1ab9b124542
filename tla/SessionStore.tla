---------------------------- MODULE SessionStore ----------------------------
(***************************************************************************)
(* session_db: HTTP sessions kept in a PostgreSQL table.  Every process    *)
(* has one store with one autocommit cursor; where a process has several   *)
(* threads (or greenlets), a re-entrant lock guards it.  A call whose      *)
(* statement fails with a connection error closes the cursor and starts    *)
(* again, up to Tries times, although the statement may have been executed *)
(* before its answer was lost.                                             *)
(*                                                                         *)
(* A statement whose connection breaks is taken to be executed before the  *)
(* client notices, or never.                                               *)
(***************************************************************************)
EXTENDS Naturals, FiniteSets

CONSTANTS Threads,   \* threads that use the store of their process
          Procs,     \* Odoo processes
          ProcOf,    \* thread -> its process
          Locked,    \* processes that have a lock: evented, or workers = 0
          Sids, Payloads, Absent,
          Calls,     \* thread -> kinds of calls it makes
          Tries      \* attempts of a call (5)

ASSUME StoreAssumption ==
  /\ ProcOf \in [Threads -> Procs]
  /\ Locked \subseteq Procs
  /\ Calls \in [Threads -> SUBSET {"save", "delete", "get", "vacuum"}]
  /\ \A t, u \in Threads : ProcOf[t] = ProcOf[u] /\ t # u => ProcOf[t] \in Locked
  /\ Absent \notin Threads /\ Absent \notin Payloads
  /\ Tries \in Nat \ {0}

VARIABLES table,   \* http_sessions
          owner,   \* process -> the thread that holds the lock, or Absent
          cursor,  \* process -> whether the store has a cursor
          pc,      \* thread -> where it is in with_lock and with_cursor
          tries,   \* thread -> attempts begun in the present call
          call     \* thread -> what its caller sees of the call

vars == <<table, owner, cursor, pc, tries, call>>

Register == INSTANCE SessionRegister WITH table <- table, call <- call

ASSUME AbsentAssumption == Absent \notin Register!Ops

Init == /\ table = [s \in Sids |-> Absent]
        /\ owner = [p \in Procs |-> Absent]
        /\ cursor = [p \in Procs |-> TRUE]
        /\ pc = [t \in Threads |-> "idle"]
        /\ tries = [t \in Threads |-> 0]
        /\ call = [t \in Threads |-> Register!NoCall]

Goto(t, l) == pc' = [pc EXCEPT ![t] = l]
Connected(t) == cursor[ProcOf[t]]

----------------------------------------------------------------------------
(* with_lock.  Definition_Variant is a mutation of the definition that
   follows it; nothing else uses it. *)

\* There is no lock.
MayEnter_Unlocked(t) == TRUE

\* The lock is re-entrant: the connection methods a call makes take it again.
MayEnter(t) == ProcOf[t] \in Locked => owner[ProcOf[t]] \in {Absent, t}

\* save, delete, get or vacuum is called.
Begin(t, op) ==
  /\ op.kind \in Calls[t]
  /\ pc[t] = "idle" /\ Goto(t, "lock")
  /\ call' = [call EXCEPT ![t] = [Register!NoCall EXCEPT !.phase = "busy", !.op = op]]
  /\ UNCHANGED <<table, owner, cursor, tries>>

Enter(t) ==
  /\ pc[t] = "lock" /\ MayEnter(t) /\ Goto(t, "try")
  /\ owner' = IF ProcOf[t] \in Locked THEN [owner EXCEPT ![ProcOf[t]] = t] ELSE owner
  /\ UNCHANGED <<table, cursor, tries, call>>

\* The lock is not given back when the call raises.
Leave_NoFinally(t, how) ==
  /\ call' = [call EXCEPT ![t] = Register!Ended(@, how)] /\ Goto(t, "idle")
  /\ tries' = [tries EXCEPT ![t] = 0]
  /\ owner' = IF how = "returned" /\ ProcOf[t] \in Locked
              THEN [owner EXCEPT ![ProcOf[t]] = Absent] ELSE owner

\* The call ends, and its finally gives the lock back.
Leave(t, how) ==
  /\ call' = [call EXCEPT ![t] = Register!Ended(@, how)] /\ Goto(t, "idle")
  /\ tries' = [tries EXCEPT ![t] = 0]
  /\ owner' = IF ProcOf[t] \in Locked THEN [owner EXCEPT ![ProcOf[t]] = Absent] ELSE owner

----------------------------------------------------------------------------
(* with_cursor *)

\* _ensure_connection, and _open_connection when there is no cursor.
Connect(t) ==
  /\ pc[t] = "try" /\ MayEnter(t) /\ Goto(t, "execute")
  /\ tries' = [tries EXCEPT ![t] = @ + 1]
  /\ cursor' = [cursor EXCEPT ![ProcOf[t]] = TRUE]
  /\ UNCHANGED <<table, owner, call>>

\* An OperationalError while connecting: like one of the statement.
ConnectFails(t) ==
  /\ pc[t] = "try" /\ MayEnter(t) /\ ~ Connected(t) /\ Goto(t, "except")
  /\ tries' = [tries EXCEPT ![t] = @ + 1]
  /\ UNCHANGED <<table, owner, cursor, call>>

\* Any other error while connecting leaves the loop.
ConnectRaises(t) ==
  /\ pc[t] = "try" /\ MayEnter(t) /\ ~ Connected(t) /\ Leave(t, "raised")
  /\ UNCHANGED <<table, cursor>>

\* The server executes the statement and commits it.
Execute(t) ==
  /\ pc[t] = "execute" /\ Goto(t, "answer")
  /\ table' = Register!Effect(call[t].op, table)
  /\ call' = [call EXCEPT ![t].applied = TRUE,
                          ![t].answer = Register!Answer(call[t].op, table)]
  /\ UNCHANGED <<owner, cursor, tries>>

\* A failing statement is taken for one that was executed.
ExecuteFails_Swallowed(t) ==
  /\ pc[t] = "execute" /\ Leave(t, "returned")
  /\ UNCHANGED <<table, cursor>>

\* InterfaceError or OperationalError without an effect: the connection was
\* broken already, or two writers of one row could not be serialized.
ExecuteFails(t) ==
  /\ pc[t] = "execute" /\ Goto(t, "except")
  /\ UNCHANGED <<table, owner, cursor, tries, call>>

\* Any other error of the statement leaves the loop; nothing was written.
ExecuteRaises(t) ==
  /\ pc[t] = "execute" /\ Leave(t, "raised")
  /\ UNCHANGED <<table, cursor>>

\* The answer is lost with the connection.
AnswerLost(t) ==
  /\ pc[t] = "answer" /\ Goto(t, "except")
  /\ UNCHANGED <<table, owner, cursor, tries, call>>

Answered(t) ==
  /\ pc[t] = "answer" /\ Leave(t, "returned")
  /\ UNCHANGED <<table, cursor>>

GiveUp(t) == tries[t] >= Tries

\* except: _close_connection, then another attempt or the error itself.
Except(t) ==
  /\ pc[t] = "except" /\ MayEnter(t)
  /\ cursor' = [cursor EXCEPT ![ProcOf[t]] = FALSE]
  /\ \/ GiveUp(t) /\ Leave(t, "raised")
     \/ ~ GiveUp(t) /\ Goto(t, "try") /\ UNCHANGED <<owner, tries, call>>
  /\ UNCHANGED table

----------------------------------------------------------------------------
\* A process dies and is started again with a new store.
Crash(p) ==
  LET T == {t \in Threads : ProcOf[t] = p /\ pc[t] # "idle"}
  IN /\ T # {}
     /\ pc' = [t \in Threads |-> IF t \in T THEN "idle" ELSE pc[t]]
     /\ call' = [t \in Threads |-> IF t \in T THEN Register!Ended(call[t], "raised") ELSE call[t]]
     /\ owner' = [owner EXCEPT ![p] = Absent]
     /\ cursor' = [cursor EXCEPT ![p] = TRUE]
     /\ tries' = [t \in Threads |-> IF t \in T THEN 0 ELSE tries[t]]
     /\ UNCHANGED table

\* A session is not written for as long as SESSION_LIFETIME.
Age(s) ==
  /\ table[s] # Absent
  /\ table' = [table EXCEPT ![s].old = TRUE]
  /\ UNCHANGED <<owner, cursor, pc, tries, call>>

Step(t) == \/ Enter(t) \/ Connect(t) \/ ConnectFails(t) \/ ConnectRaises(t)
           \/ Execute(t) \/ ExecuteFails(t) \/ ExecuteRaises(t) \/ AnswerLost(t) \/ Answered(t)
           \/ Except(t)

Next == \/ \E t \in Threads : Step(t) \/ \E op \in Register!Ops : Begin(t, op)
        \/ \E p \in Procs : Crash(p)
        \/ \E s \in Sids : Age(s)

\* A thread that is not waiting for the lock runs on.
Fairness == \A t \in Threads : WF_vars(Step(t))

Spec == Init /\ [][Next]_vars
FairSpec == Spec /\ Fairness

----------------------------------------------------------------------------
(* Properties *)

Inside == {"try", "execute", "answer", "except"}

\* Threads, locks and cursors agree: the owner of a lock is a thread inside a
\* call, no call makes more than Tries attempts.
TypeOK ==
  /\ table \in [Sids -> Register!Row \cup {Absent}]
  /\ owner \in [Procs -> Threads \cup {Absent}]
  /\ cursor \in [Procs -> BOOLEAN]
  /\ pc \in [Threads -> {"idle", "lock"} \cup Inside]
  /\ tries \in [Threads -> 0 .. Tries]
  /\ call \in [Threads -> Register!CallType]
  /\ \A t \in Threads : /\ pc[t] # "idle" <=> call[t].phase = "busy"
                        /\ pc[t] # "idle" => call[t].op # Absent
  /\ \A p \in Procs : owner[p] # Absent => ProcOf[owner[p]] = p /\ pc[owner[p]] \in Inside

\* psycopg2 cursors are not to be shared: while one thread is between the
\* connection and the end of its statement, no other thread of the process
\* uses the cursor, or closes it under its feet (with_lock).
CursorHasOneUser ==
  \A t, u \in Threads : ProcOf[t] = ProcOf[u] /\ pc[t] \in Inside /\ pc[u] \in Inside => t = u

\* A call that holds the cursor ends, whatever the server does: nested with_lock
\* never blocks, retries come to an end, and the lock is given back however the call
\* ends (with_lock, with_cursor).
EveryCallEnds ==
  \A t \in Threads : pc[t] \in Inside ~> pc[t] = "idle" /\ owner[ProcOf[t]] # t

\* What callers see is a table on which calls take effect between their
\* beginning and their end, at least once if they return; a lost answer, a
\* retry, a vacuum or a dying process never reports what did not happen.
ImplementsRegister == Register!Spec

=============================================================================
