--------------------------- MODULE AuditLogProofs ---------------------------
(* Proofs about AuditLog, for any workers, users, fields and rules, and any *)
(* number of logs and faults.                                               *)
EXTENDS AuditLog, TLAPS

(***************************************************************************)
(* The inductive invariant has two halves, for the two halves of the state.*)
(* Rules: at most one transaction of the rule is open; its worker, unless  *)
(* it was out of date before, has the methods replaced as the transaction  *)
(* wants them, and if it did not have to replace or restore any then these *)
(* are the ones of the committed rule as well.                             *)
(***************************************************************************)
RulesOK ==
  /\ rule \in RuleType \cup {Nothing} /\ tx \in [Workers -> TxType \cup {Nothing}]
  /\ patched \in [Workers -> [Methods -> Replacements]]
  /\ marked = [w \in Workers |-> {m \in Methods : patched[w][m] # <<>>}]
  /\ outdated \subseteq Workers /\ faults \in 0 .. MaxFaults

OneSaver == \A v, w \in Workers : ~Free(v) /\ ~Free(w) => v = w
SaverPatched ==
  \A w \in Workers : ~Free(w) /\ w \notin outdated =>
     /\ patched[w] = Hooked(tx[w].new)
     /\ ~tx[w].touched => Hooked(tx[w].new) = Hooked(rule)
FreePatched == \A w \in Workers : Free(w) /\ w \notin outdated => patched[w] = Hooked(rule)
Synchronized == OneSaver /\ SaverPatched /\ FreePatched

RulesInv == RulesOK /\ Synchronized

(***************************************************************************)
(* Data: a row has one line for each field, and the last row that tells a  *)
(* field which is not silent tells its present value.                      *)
(***************************************************************************)
LineType == [field : Written \cup Computed, old : Values \cup {Empty}, new : Values \cup {Empty}]

DataOK ==
  /\ record \in RecordType \cup {Nothing}
  /\ silent \subseteq Written \cup Computed
  /\ logs \in Seq(LogRow) /\ Len(logs) <= MaxLogs

OneLineEach(lines) == \A k, l \in lines : k.field = l.field => k = l
RowsOK == \A i \in DOMAIN logs : OneLineEach(logs[i].lines)

Tells(i, f) == logs[i].method \in {"create", "write"} /\ \E l \in logs[i].lines : l.field = f
Replayed(f) ==
  \E i \in DOMAIN logs :
     /\ Tells(i, f) /\ \A j \in DOMAIN logs : Tells(j, f) => j <= i
     /\ \E l \in logs[i].lines : l.field = f /\ l.new = record[f]

DataInv == DataOK /\ RowsOK /\ (record # Nothing => \A f \in Audited \ silent : Replayed(f))

IInv == RulesInv /\ DataInv

----------------------------------------------------------------------------
(* Replacements *)

\* A rule replaces each of its methods once.
LEMMA HookedType ==
  ASSUME NEW r \in RuleType \cup {Nothing}
  PROVE  /\ Hooked(r) \in [Methods -> Replacements]
         /\ \A m \in Methods : Hooked(r)[m] # <<>> <=>
                                 r # Nothing /\ r.state = "subscribed" /\ m \in r.log
<1>1. \A type \in LogTypes : <<type>> # <<>> /\ <<type>> \in Replacements
  BY DEF Replacements
<1>2. <<>> \in Replacements
  BY DEF Replacements
<1>3. r # Nothing => r.type \in LogTypes
  BY DEF RuleType
<1> QED BY <1>1, <1>2, <1>3 DEF Hooked

\* Nothing is replaced for a rule that is not subscribed.
LEMMA HookedNothing ==
  ASSUME NEW r, r = Nothing \/ r.state # "subscribed"
  PROVE  Hooked(r) = [m \in Methods |-> <<>>]
BY DEF Hooked

\* A method is replaced if its class is not marked, and gets its original back.
LEMMA Replaced ==
  ASSUME NEW type \in LogTypes, NEW s \in Replacements
  PROVE  /\ s = <<>> => Append(s, type) = <<type>>
         /\ s # <<>> => Front(s) = <<>>
<1>1. s = <<>> => Append(s, type) = <<type>>
  OBVIOUS
<1>2. ASSUME s # <<>> PROVE Front(s) = <<>>
  <2>1. PICK t \in LogTypes : s = <<t>>
    BY <1>2 DEF Replacements
  <2>2. Len(s) = 1
    BY <2>1
  <2>3. Front(s) = SubSeq(s, 1, 0)
    BY <2>2 DEF Front
  <2> QED BY <2>1, <2>3
<1> QED BY <1>1, <1>2

LEMMA SaveRulePatches ==
  ASSUME RulesOK, NEW w \in Workers, NEW r \in RuleType, SaveRule(w, r)
  PROVE  /\ patched' = [patched EXCEPT ![w] =
                         [m \in Methods |-> IF m \in ToPatch(w, r) THEN <<r.type>> ELSE patched[w][m]]]
         /\ patched' \in [Workers -> [Methods -> Replacements]]
         /\ marked' = [v \in Workers |-> {m \in Methods : patched'[v][m] # <<>>}]
<1>1. r.type \in LogTypes /\ r.log \subseteq Methods
  BY DEF RuleType
<1>2. \A m \in Methods : patched[w][m] \in Replacements /\ (m \in marked[w] <=> patched[w][m] # <<>>)
  BY DEF RulesOK
<1>3. \A m \in Methods : m \in ToPatch(w, r) => patched[w][m] = <<>>
  BY <1>2 DEF ToPatch
<1>4. \A m \in Methods : m \in ToPatch(w, r) => Append(patched[w][m], r.type) = <<r.type>>
  BY <1>1, <1>2, <1>3, Replaced
<1> DEFINE new == [m \in Methods |-> IF m \in ToPatch(w, r) THEN <<r.type>> ELSE patched[w][m]]
<1>5. patched' = [patched EXCEPT ![w] = new]
  <2>1. [m \in Methods |-> IF m \in ToPatch(w, r) THEN Append(patched[w][m], r.type) ELSE patched[w][m]] = new
    BY <1>4
  <2> QED BY <2>1 DEF SaveRule
<1>6. new \in [Methods -> Replacements]
  <2>1. <<r.type>> \in Replacements
    BY <1>1 DEF Replacements
  <2> QED BY <1>2, <2>1
<1>7. patched' \in [Workers -> [Methods -> Replacements]]
  BY <1>5, <1>6 DEF RulesOK
<1>8. \A m \in Methods : new[m] # <<>> <=> m \in marked[w] \cup ToPatch(w, r)
  BY <1>2
<1>9. marked' = [v \in Workers |-> {m \in Methods : patched'[v][m] # <<>>}]
  <2>1. marked' = [marked EXCEPT ![w] = marked[w] \cup ToPatch(w, r)]
    BY DEF SaveRule
  <2>2. ToPatch(w, r) \subseteq Methods
    BY <1>1 DEF ToPatch
  <2>3. \A v \in Workers : marked'[v] = {m \in Methods : patched'[v][m] # <<>>}
    BY <1>5, <1>8, <2>1, <2>2 DEF RulesOK
  <2> QED BY <2>1, <2>3 DEF RulesOK
<1> QED BY <1>5, <1>7, <1>9

LEMMA UnsubscribedPatches ==
  ASSUME RulesOK, rule # Nothing, NEW w \in Workers, NEW r, Unsubscribed(w, r)
  PROVE  /\ patched' = [patched EXCEPT ![w] =
                         [m \in Methods |-> IF m \in rule.log THEN <<>> ELSE patched[w][m]]]
         /\ patched' \in [Workers -> [Methods -> Replacements]]
         /\ marked' = [v \in Workers |-> {m \in Methods : patched'[v][m] # <<>>}]
<1>1. rule.type \in LogTypes /\ rule.log \subseteq Methods
  BY DEF RuleType, RulesOK
<1>2. \A m \in Methods : patched[w][m] \in Replacements /\ (m \in marked[w] <=> patched[w][m] # <<>>)
  BY DEF RulesOK
<1>3. \A m \in Methods : m \in ToRevert(w, rule) => Front(patched[w][m]) = <<>>
  BY <1>1, <1>2, Replaced DEF ToRevert
<1> DEFINE new == [m \in Methods |-> IF m \in rule.log THEN <<>> ELSE patched[w][m]]
<1>4. patched' = [patched EXCEPT ![w] = new]
  <2>1. [m \in Methods |-> IF m \in ToRevert(w, rule) THEN Front(patched[w][m]) ELSE patched[w][m]] = new
    BY <1>3 DEF ToRevert
  <2> QED BY <2>1 DEF Unsubscribed
<1>5. new \in [Methods -> Replacements]
  <2>1. <<>> \in Replacements
    BY DEF Replacements
  <2> QED BY <1>2, <2>1
<1>6. patched' \in [Workers -> [Methods -> Replacements]]
  BY <1>4, <1>5 DEF RulesOK
<1>7. \A m \in Methods : new[m] # <<>> <=> m \in marked[w] \ ToRevert(w, rule)
  BY <1>2 DEF ToRevert
<1>8. marked' = [v \in Workers |-> {m \in Methods : patched'[v][m] # <<>>}]
  <2>1. marked' = [marked EXCEPT ![w] = marked[w] \ ToRevert(w, rule)]
    BY DEF Unsubscribed
  <2>2. \A v \in Workers : marked'[v] = {m \in Methods : patched'[v][m] # <<>>}
    BY <1>4, <1>7, <2>1 DEF RulesOK
  <2> QED BY <2>1, <2>2 DEF RulesOK
<1> QED BY <1>4, <1>6, <1>8

----------------------------------------------------------------------------
(* Transactions of the rule *)

\* A worker that saves a rule makes a transaction.
LEMMA SavedType ==
  ASSUME RulesOK, NEW w \in Workers, NEW r \in RuleType \cup {Nothing}, NEW ms,
         tx' = [tx EXCEPT ![w] = [new |-> r, touched |-> ms # {}]],
         patched' \in [Workers -> [Methods -> Replacements]],
         marked' = [v \in Workers |-> {m \in Methods : patched'[v][m] # <<>>}],
         UNCHANGED <<rule, outdated, faults>>
  PROVE  RulesOK'
<1>1. [new |-> r, touched |-> ms # {}] \in TxType
  BY DEF TxType
<1> QED BY <1>1 DEF RulesOK

LEMMA SavedSynchronized ==
  ASSUME RulesOK, Synchronized, NEW w \in Workers, MaySave,
         NEW r \in RuleType \cup {Nothing}, NEW ms, NEW new,
         tx' = [tx EXCEPT ![w] = [new |-> r, touched |-> ms # {}]],
         patched' = [patched EXCEPT ![w] = new],
         w \notin outdated => new = Hooked(r) /\ (ms = {} => Hooked(r) = Hooked(rule)),
         UNCHANGED <<rule, outdated>>
  PROVE  Synchronized'
<1> DEFINE t == [new |-> r, touched |-> ms # {}]
<1>1. t \in TxType /\ t.new = r /\ (t.touched <=> ms # {})
  BY DEF TxType
<1>2. \A v \in Workers : v # w => Free(v) /\ Free(v)' /\ patched'[v] = patched[v]
  BY DEF RulesOK, MaySave, Free
<1>3. ~Free(w)' /\ tx'[w] = t /\ patched'[w] = new
  BY <1>1, AuditAssumption DEF RulesOK, Free
<1>4. OneSaver'
  BY <1>2 DEF OneSaver
<1>5. SaverPatched'
  BY <1>1, <1>2, <1>3 DEF SaverPatched, Hooked
<1>6. FreePatched'
  BY <1>2, <1>3 DEF Synchronized, FreePatched, Hooked
<1> QED BY <1>4, <1>5, <1>6 DEF Synchronized

\* A worker that may save and is not out of date finds its class as the committed
\* rule wants it.
LEMMA SaverReady ==
  ASSUME Synchronized, NEW w \in Workers, MaySave, w \notin outdated
  PROVE  patched[w] = Hooked(rule)
BY DEF Synchronized, FreePatched, MaySave

\* Creating, editing and subscribing a rule: no method was replaced before, or the
\* rule replaces the same ones as before.
LEMMA SaveRuleInv ==
  ASSUME RulesInv, NEW w \in Workers, MaySave, NEW r \in RuleType, SaveRule(w, r),
         Hooked(rule) = [m \in Methods |-> <<>>] \/ Hooked(r) = Hooked(rule)
  PROVE  RulesInv'
<1>1. /\ patched' = [patched EXCEPT ![w] =
                      [m \in Methods |-> IF m \in ToPatch(w, r) THEN <<r.type>> ELSE patched[w][m]]]
      /\ patched' \in [Workers -> [Methods -> Replacements]]
      /\ marked' = [v \in Workers |-> {m \in Methods : patched'[v][m] # <<>>}]
  BY SaveRulePatches DEF RulesInv
<1>2. /\ tx' = [tx EXCEPT ![w] = [new |-> r, touched |-> ToPatch(w, r) # {}]]
      /\ UNCHANGED <<rule, outdated, faults>>
  BY DEF SaveRule
<1>3. RulesOK'
  BY <1>1, <1>2, SavedType DEF RulesInv
<1> DEFINE new == [m \in Methods |-> IF m \in ToPatch(w, r) THEN <<r.type>> ELSE patched[w][m]]
<1>4. ASSUME w \notin outdated
      PROVE  new = Hooked(r) /\ (ToPatch(w, r) = {} => Hooked(r) = Hooked(rule))
  <2>1. RulesOK /\ Synchronized /\ patched[w] = Hooked(rule)
    BY <1>4, SaverReady DEF RulesInv
  <2>2. r # Nothing /\ r.log \subseteq Methods
    BY AuditAssumption DEF RuleType
  <2>3. marked[w] = {m \in Methods : Hooked(rule)[m] # <<>>}
    BY <2>1 DEF RulesOK
  <2>4. CASE Hooked(rule) = [m \in Methods |-> <<>>]
    <3>1. marked[w] = {}
      BY <2>3, <2>4
    <3>2. ToPatch(w, r) = IF r.state = "subscribed" THEN r.log ELSE {}
      BY <2>2, <3>1 DEF ToPatch
    <3>3. new = Hooked(r)
      BY <2>1, <2>2, <2>4, <3>2 DEF Hooked
    <3>4. ToPatch(w, r) = {} => Hooked(r) = Hooked(rule)
      BY <2>1, <2>4, <3>3
    <3> QED BY <3>3, <3>4
  <2>5. CASE Hooked(r) = Hooked(rule)
    <3>1. ToPatch(w, r) = {}
      BY <2>2, <2>3, <2>5, HookedType DEF ToPatch
    <3>2. new = Hooked(r)
      BY <2>1, <2>5, <3>1 DEF Hooked
    <3> QED BY <2>5, <3>2
  <2> QED BY <2>4, <2>5
<1>5. Synchronized'
  <2> HIDE DEF new
  <2>1. patched' = [patched EXCEPT ![w] = new]
    BY <1>1 DEF new
  <2> QED BY <1>2, <1>4, <2>1, SavedSynchronized DEF RulesInv
<1> QED BY <1>3, <1>5 DEF RulesInv

\* Unsubscribing and removing a rule: all of its methods get their originals back.
LEMMA UnsubscribedInv ==
  ASSUME RulesInv, NEW w \in Workers, MaySave, rule # Nothing,
         NEW r \in RuleType \cup {Nothing}, r = Nothing \/ r.state = "draft", Unsubscribed(w, r)
  PROVE  RulesInv'
<1>1. /\ patched' = [patched EXCEPT ![w] =
                      [m \in Methods |-> IF m \in rule.log THEN <<>> ELSE patched[w][m]]]
      /\ patched' \in [Workers -> [Methods -> Replacements]]
      /\ marked' = [v \in Workers |-> {m \in Methods : patched'[v][m] # <<>>}]
  BY UnsubscribedPatches DEF RulesInv
<1>2. /\ tx' = [tx EXCEPT ![w] = [new |-> r, touched |-> ToRevert(w, rule) # {}]]
      /\ UNCHANGED <<rule, outdated, faults>>
  BY DEF Unsubscribed
<1>3. RulesOK'
  BY <1>1, <1>2, SavedType DEF RulesInv
<1> DEFINE new == [m \in Methods |-> IF m \in rule.log THEN <<>> ELSE patched[w][m]]
<1>4. ASSUME w \notin outdated
      PROVE  new = Hooked(r) /\ (ToRevert(w, rule) = {} => Hooked(r) = Hooked(rule))
  <2>1. RulesOK /\ Synchronized /\ patched[w] = Hooked(rule)
    BY <1>4, SaverReady DEF RulesInv
  <2>2. \A m \in Methods : m \notin rule.log => patched[w][m] = <<>>
    BY <2>1 DEF Hooked
  <2>3. Hooked(r) = [m \in Methods |-> <<>>]
    BY HookedNothing
  <2>4. new = Hooked(r)
    BY <2>2, <2>3
  <2>5. ToRevert(w, rule) = {} => Hooked(r) = Hooked(rule)
    <3>1. SUFFICES ASSUME ToRevert(w, rule) = {} PROVE Hooked(rule) = [m \in Methods |-> <<>>]
      BY <2>3
    <3>2. \A m \in Methods : Hooked(rule)[m] = <<>>
      BY <2>1, <2>2, <3>1 DEF ToRevert
    <3> QED BY <3>2 DEF Hooked
  <2> QED BY <2>4, <2>5
<1>5. Synchronized'
  <2> HIDE DEF new
  <2>1. patched' = [patched EXCEPT ![w] = new]
    BY <1>1 DEF new
  <2> QED BY <1>2, <1>4, <2>1, SavedSynchronized DEF RulesInv
<1> QED BY <1>3, <1>5 DEF RulesInv

\* The end of a transaction: it is committed and with that the others may be out of
\* date, or it is rolled back and the worker itself is if it had changed its class.
LEMMA EndOfTransaction ==
  ASSUME RulesInv, NEW w \in Workers, ~Free(w), tx' = [tx EXCEPT ![w] = Nothing],
         UNCHANGED <<patched, marked>>,
         rule' \in RuleType \cup {Nothing}, faults' \in 0 .. MaxFaults,
         \/ /\ rule' = tx[w].new
            /\ outdated' = IF Hooked(tx[w].new) = Hooked(rule) THEN outdated
                           ELSE outdated \cup (Workers \ {w})
         \/ /\ rule' = rule
            /\ outdated' = IF tx[w].touched THEN outdated \cup {w} ELSE outdated
  PROVE  RulesInv'
<1>1. RulesOK'
  BY DEF RulesInv, RulesOK
<1>2. RulesOK /\ Synchronized /\ tx[w] \in TxType
  BY DEF RulesInv, RulesOK, Free
<1>3. \A v \in Workers : Free(v)' /\ (v # w => Free(v))
  BY <1>2 DEF RulesOK, Free, Synchronized, OneSaver
<1>4. ASSUME NEW v \in Workers, v \notin outdated' PROVE patched[v] = Hooked(rule')
  <2>1. v \notin outdated
    BY <1>4
  <2>2. CASE v = w
    <3>1. /\ patched[w] = Hooked(tx[w].new)
          /\ ~tx[w].touched => Hooked(tx[w].new) = Hooked(rule)
      BY <1>2, <2>1, <2>2 DEF Synchronized, SaverPatched
    <3> QED BY <1>4, <2>2, <3>1
  <2>3. CASE v # w
    <3>1. patched[v] = Hooked(rule)
      BY <1>2, <1>3, <2>1, <2>3 DEF Synchronized, FreePatched
    <3> QED BY <1>4, <2>3, <3>1
  <2> QED BY <2>2, <2>3
<1>5. OneSaver' /\ SaverPatched'
  BY <1>3 DEF OneSaver, SaverPatched
<1>6. FreePatched'
  BY <1>4 DEF FreePatched, Hooked
<1> QED BY <1>1, <1>5, <1>6 DEF RulesInv, Synchronized

\* A registry that is built anew is that of the committed rule.
LEMMA LoadRegistryInv ==
  ASSUME RulesInv, NEW w \in Workers, LoadRegistry(w), tx' = [tx EXCEPT ![w] = Nothing],
         faults' \in 0 .. MaxFaults
  PROVE  RulesInv'
<1> USE DEF LoadRegistry
<1>1. RulesOK'
  <2>1. Hooked(rule) \in [Methods -> Replacements]
    BY HookedType DEF RulesInv, RulesOK
  <2>2. patched' \in [Workers -> [Methods -> Replacements]]
    BY <2>1 DEF RulesInv, RulesOK
  <2>3. \A v \in Workers : marked'[v] = {m \in Methods : patched'[v][m] # <<>>}
    BY DEF RulesInv, RulesOK
  <2>4. marked' = [v \in Workers |-> {m \in Methods : patched'[v][m] # <<>>}]
    BY <2>3 DEF RulesInv, RulesOK
  <2> QED BY <2>2, <2>4 DEF RulesInv, RulesOK
<1>2. Synchronized'
  <2>1. RulesOK /\ Synchronized
    BY DEF RulesInv
  <2>2. /\ \A v \in Workers : v # w => tx'[v] = tx[v] /\ patched'[v] = patched[v]
        /\ patched'[w] = Hooked(rule) /\ Free(w)'
    BY <2>1 DEF RulesOK, Free
  <2>3. OneSaver'
    BY <2>1, <2>2 DEF Synchronized, OneSaver, Free
  <2>4. SaverPatched'
    BY <2>1, <2>2 DEF Synchronized, SaverPatched, Free, Hooked
  <2>5. FreePatched'
    BY <2>1, <2>2 DEF Synchronized, FreePatched, Free, Hooked
  <2> QED BY <2>3, <2>4, <2>5 DEF Synchronized
<1> QED BY <1>1, <1>2 DEF RulesInv

LEMMA RuleStepInv ==
  ASSUME RulesInv, NEW w \in Workers, RuleStep(w)
  PROVE  RulesInv'
<1>0. /\ rule \in RuleType \cup {Nothing} /\ faults \in 0 .. MaxFaults
      /\ Nothing \notin RuleType /\ MaxFaults \in Nat /\ LogTypes = {"full", "fast"}
  BY AuditAssumption DEF RulesInv, RulesOK, LogTypes
<1>1. ASSUME NEW s \in Settings, EditRule(w, s) PROVE RulesInv'
  <2> DEFINE r == [rule EXCEPT !.log = s.log, !.type = s.type]
  <2>1. s.log \subseteq Methods /\ s.type \in LogTypes
    BY <1>0, AuditAssumption
  <2>2. rule \in RuleType /\ rule.state = "draft"
    BY <1>0, <1>1 DEF EditRule
  <2>3. r \in RuleType
    BY <2>1, <2>2 DEF RuleType
  <2>4. Hooked(rule) = [m \in Methods |-> <<>>]
    BY <2>2, HookedNothing
  <2> QED BY <1>1, <2>3, <2>4, SaveRuleInv DEF EditRule
<1>2. ASSUME NEW s \in Settings, NEW st \in {"draft", "subscribed"}, CreateRule(w, s, st)
      PROVE  RulesInv'
  <2> DEFINE r == [state |-> st, log |-> s.log, type |-> s.type, capture |-> FALSE]
  <2>1. s.log \subseteq Methods /\ s.type \in LogTypes
    BY <1>0, AuditAssumption
  <2>2. r \in RuleType
    BY <2>1 DEF RuleType
  <2>3. Hooked(rule) = [m \in Methods |-> <<>>]
    BY <1>2, HookedNothing DEF CreateRule
  <2> QED BY <1>2, <2>2, <2>3, SaveRuleInv DEF CreateRule
<1>3. CASE EditCapture(w)
  <2> DEFINE r == [rule EXCEPT !.capture = ~@]
  <2>1. rule \in RuleType
    BY <1>0, <1>3 DEF EditCapture
  <2>2. r \in RuleType /\ r.state = rule.state /\ r.log = rule.log /\ r.type = rule.type
    BY <2>1 DEF RuleType
  <2>3. Hooked(r) = Hooked(rule)
    BY <1>0, <2>1, <2>2 DEF Hooked
  <2> QED BY <1>3, <2>2, <2>3, SaveRuleInv DEF EditCapture
<1>4. CASE Subscribe(w)
  <2>1. rule \in RuleType /\ rule.state = "draft"
    BY <1>0, <1>4 DEF Subscribe
  <2>2. [rule EXCEPT !.state = "subscribed"] \in RuleType
    BY <2>1 DEF RuleType
  <2>3. Hooked(rule) = [m \in Methods |-> <<>>]
    BY <2>1, HookedNothing
  <2> QED BY <1>4, <2>2, <2>3, SaveRuleInv DEF Subscribe
<1>5. CASE Unsubscribe(w)
  <2>1. rule \in RuleType
    BY <1>0, <1>5 DEF Unsubscribe
  <2>2. [rule EXCEPT !.state = "draft"] \in RuleType /\ [rule EXCEPT !.state = "draft"].state = "draft"
    BY <2>1 DEF RuleType
  <2> QED BY <1>5, <2>2, UnsubscribedInv DEF Unsubscribe
<1>6. CASE UnlinkRule(w)
  BY <1>6, UnsubscribedInv DEF UnlinkRule
<1>7. CASE CommitRule(w)
  <2>1. tx[w] \in TxType
    BY <1>7 DEF CommitRule, RulesInv, RulesOK, Free
  <2>2. tx[w].new \in RuleType \cup {Nothing}
    BY <2>1 DEF TxType
  <2> QED BY <1>0, <1>7, <2>2, EndOfTransaction DEF CommitRule
<1>8. CASE RollbackRule(w)
  <2>1. tx[w] \in TxType
    BY <1>8 DEF RollbackRule, RulesInv, RulesOK, Free
  <2>2. faults' \in 0 .. MaxFaults
    BY <1>0, <1>8 DEF RollbackRule
  <2> QED BY <1>0, <1>8, <2>1, <2>2, EndOfTransaction DEF RollbackRule
<1>9. CASE Reload(w)
  <2>1. tx' = [tx EXCEPT ![w] = Nothing]
    BY <1>9 DEF Reload, Free, RulesInv, RulesOK
  <2> QED BY <1>0, <1>9, <2>1, LoadRegistryInv DEF Reload
<1>10. CASE Restart(w)
  <2>1. faults' \in 0 .. MaxFaults
    BY <1>0, <1>10 DEF Restart
  <2> QED BY <1>10, <2>1, LoadRegistryInv DEF Restart
<1> QED BY <1>1, <1>2, <1>3, <1>4, <1>5, <1>6, <1>7, <1>8, <1>9, <1>10 DEF RuleStep

LEMMA RulesUnchanged ==
  ASSUME RulesInv, UNCHANGED rules
  PROVE  RulesInv'
BY DEF rules, RulesInv, RulesOK, Synchronized, OneSaver, SaverPatched, FreePatched, Free,
   Hooked

----------------------------------------------------------------------------
(* Rows of the log *)

\* A call adds no row, or the one of the only replacement of its method.
LEMMA AddedRow ==
  ASSUME RulesOK, NEW w \in Workers, NEW u, NEW method \in Methods,
         NEW lines \in [LogTypes -> SUBSET LineType]
  PROVE  \/ NewLogs(w, u, method, lines) = <<>>
         \/ \E type \in LogTypes :
              /\ patched[w][method] = <<type>>
              /\ NewLogs(w, u, method, lines) = <<[method |-> method, lines |-> lines[type]]>>
<1>1. patched[w][method] \in Replacements
  BY DEF RulesOK
<1>2. CASE patched[w][method] = <<>>
  BY <1>2 DEF NewLogs
<1>3. ASSUME NEW type \in LogTypes, patched[w][method] = <<type>>, u \notin Exempt
      PROVE  NewLogs(w, u, method, lines) = <<[method |-> method, lines |-> lines[type]]>>
  <2>1. DOMAIN <<type>> = 1 .. 1 /\ <<type>>[1] = type
    OBVIOUS
  <2>2. [i \in DOMAIN <<type>> |-> [method |-> method, lines |-> lines[<<type>>[i]]]]
          = <<[method |-> method, lines |-> lines[type]]>>
    BY <2>1
  <2> QED BY <1>3, <2>2 DEF NewLogs
<1>4. u \in Exempt => NewLogs(w, u, method, lines) = <<>>
  BY DEF NewLogs
<1> QED BY <1>1, <1>2, <1>3, <1>4 DEF Replacements

\* What a new row does to the replay.
LEMMA AppendRow ==
  ASSUME DataOK, RowsOK, NEW method \in Methods, NEW lines \in SUBSET LineType, OneLineEach(lines),
         AddLogs(<<[method |-> method, lines |-> lines]>>)
  PROVE  /\ logs' \in Seq(LogRow) /\ Len(logs') <= MaxLogs /\ RowsOK'
         /\ \A f, l : method \in {"create", "write"} /\ l \in lines /\ l.field = f /\ l.new = record'[f]
                        => Replayed(f)'
         /\ \A f : /\ method \in {"create", "write"} => \A l \in lines : l.field # f
                   /\ Replayed(f) /\ record'[f] = record[f]
                   => Replayed(f)'
<1> DEFINE row == [method |-> method, lines |-> lines]
<1>0. PICK n \in Nat : n = Len(logs)
  BY DEF DataOK
<1>1. row \in LogRow /\ row.method = method /\ row.lines = lines
  BY DEF LogRow, LineType
<1>2. logs' = logs \o <<row>> /\ logs \in Seq(LogRow) /\ DOMAIN logs = 1 .. n
  BY <1>0 DEF AddLogs, DataOK
<1>3. /\ logs' \in Seq(LogRow) /\ DOMAIN logs' = 1 .. n + 1
      /\ \A i \in 1 .. n : logs'[i] = logs[i]
      /\ logs'[n + 1] = row
  BY <1>0, <1>1, <1>2
<1>4. Len(logs') <= MaxLogs
  BY <1>2, AuditAssumption DEF AddLogs
<1>5. RowsOK'
  BY <1>1, <1>2, <1>3 DEF RowsOK
<1> HIDE DEF row
<1>6. ASSUME NEW f, NEW l, method \in {"create", "write"}, l \in lines, l.field = f, l.new = record'[f]
      PROVE  Replayed(f)'
  <2>1. Tells(n + 1, f)'
    BY <1>1, <1>3, <1>6 DEF Tells
  <2>2. n + 1 \in DOMAIN logs' /\ \A j \in DOMAIN logs' : j <= n + 1
    BY <1>2, <1>3
  <2> QED BY <1>1, <1>3, <1>6, <2>1, <2>2 DEF Replayed
<1>7. ASSUME NEW f, method \in {"create", "write"} => \A l \in lines : l.field # f,
             Replayed(f), record'[f] = record[f]
      PROVE  Replayed(f)'
  <2>1. PICK i \in DOMAIN logs :
           /\ Tells(i, f) /\ \A j \in DOMAIN logs : Tells(j, f) => j <= i
           /\ \E l \in logs[i].lines : l.field = f /\ l.new = record[f]
    BY <1>7 DEF Replayed
  <2>2. \A j \in DOMAIN logs : Tells(j, f)' <=> Tells(j, f)
    BY <1>2, <1>3 DEF Tells
  <2>3. ~ Tells(n + 1, f)'
    BY <1>1, <1>3, <1>7 DEF Tells
  <2>4. i \in DOMAIN logs' /\ logs'[i] = logs[i] /\ Tells(i, f)'
    BY <1>2, <1>3, <2>1, <2>2
  <2>5. \A j \in DOMAIN logs' : Tells(j, f)' => j <= i
    BY <1>2, <1>3, <2>1, <2>2, <2>3
  <2> QED BY <1>7, <2>1, <2>4, <2>5 DEF Replayed
<1> QED BY <1>3, <1>4, <1>5, <1>6, <1>7

\* No row: the logs stay as they are.
LEMMA NoRow ==
  ASSUME DataOK, AddLogs(<<>>)
  PROVE  logs' = logs
BY DEF AddLogs, DataOK

----------------------------------------------------------------------------
(* Lines *)

\* What a log must tell, no rule and no missing field can keep out of it.
LEMMA AuditedFields == Audited \subseteq Logged /\ Logged \subseteq Written \cup Computed
BY DEF Audited, Logged, Shown

LEMMA LinesType ==
  ASSUME NEW d, \A f \in DOMAIN d \cap Logged : d[f] \in Values \cup {Empty}
  PROVE  /\ CreateLines(d) \in SUBSET LineType /\ OneLineEach(CreateLines(d))
         /\ ReadLines(d) \in SUBSET LineType /\ OneLineEach(ReadLines(d))
         /\ FastWriteLines(d) \in SUBSET LineType /\ OneLineEach(FastWriteLines(d))
<1>1. \A f, a, b : Line(f, a, b).field = f /\ Line(f, a, b).old = a /\ Line(f, a, b).new = b
  BY DEF Line
<1>2. \A f \in Logged, a, b \in Values \cup {Empty} : Line(f, a, b) \in LineType
  BY AuditedFields DEF Line, LineType
<1>3. CreateLines(d) \in SUBSET LineType /\ ReadLines(d) \in SUBSET LineType
      /\ FastWriteLines(d) \in SUBSET LineType
  <2>1. \A f \in DOMAIN d \cap Logged : Line(f, Empty, d[f]) \in LineType /\ Line(f, d[f], Empty) \in LineType
    BY <1>2
  <2> QED BY <2>1 DEF CreateLines, ReadLines, FastWriteLines
<1>4. OneLineEach(CreateLines(d)) /\ OneLineEach(ReadLines(d)) /\ OneLineEach(FastWriteLines(d))
  BY <1>1 DEF OneLineEach, CreateLines, ReadLines, FastWriteLines
<1> QED BY <1>3, <1>4

LEMMA WriteLinesType ==
  ASSUME NEW old \in RecordType, NEW new \in RecordType
  PROVE  WriteLines(old, new) \in SUBSET LineType /\ OneLineEach(WriteLines(old, new))
<1>1. \A f, a, b : Line(f, a, b).field = f /\ Line(f, a, b).old = a /\ Line(f, a, b).new = b
  BY DEF Line
<1>2. \A f \in Logged, a, b \in Values \cup {Empty} : Line(f, a, b) \in LineType
  BY AuditedFields DEF Line, LineType
<1>3. \A f \in Logged : old[f] \in Values \cup {Empty} /\ new[f] \in Values \cup {Empty}
  BY DEF RecordType, Logged
<1> QED BY <1>1, <1>2, <1>3 DEF OneLineEach, WriteLines

\* Values that come from a caller, and the record the ORM makes of them.
LEMMA CompletedType ==
  ASSUME NEW base \in [Written -> Values \cup {Empty}]
  PROVE  /\ Completed(base) \in RecordType
         /\ \A f \in Written : Completed(base)[f] = base[f]
<1>1. \A f \in Computed : Source[f] \in Written
  BY AuditAssumption
<1>2. \A f \in (Written \cup Computed) : f \notin Written => base[Source[f]] \in Values \cup {Empty}
  BY <1>1
<1> QED BY <1>2 DEF Completed, RecordType

LEMMA InputsType ==
  ASSUME NEW vals \in Inputs
  PROVE  /\ DOMAIN vals \subseteq Written
         /\ \A f \in DOMAIN vals : vals[f] \in Values
BY DEF Inputs

\* Rows of methods that do not write, and calls without a row.
LEMMA QuietCall ==
  ASSUME RulesOK, DataInv, NEW w \in Workers, NEW u, NEW method \in Methods \ {"create", "write"},
         NEW lines \in [LogTypes -> SUBSET LineType], \A type \in LogTypes : OneLineEach(lines[type]),
         AddLogs(NewLogs(w, u, method, lines)),
         (record' = Nothing /\ silent' = {}) \/ UNCHANGED <<record, silent>>
  PROVE  DataInv'
<1>1. logs' \in Seq(LogRow) /\ Len(logs') <= MaxLogs /\ RowsOK'
      /\ \A f : Replayed(f) /\ record'[f] = record[f] => Replayed(f)'
  <2>1. CASE NewLogs(w, u, method, lines) = <<>>
    BY <2>1, NoRow DEF DataInv, DataOK, RowsOK, Replayed, Tells
  <2>2. ASSUME NEW type \in LogTypes,
               NewLogs(w, u, method, lines) = <<[method |-> method, lines |-> lines[type]]>>
        PROVE  /\ logs' \in Seq(LogRow) /\ Len(logs') <= MaxLogs /\ RowsOK'
               /\ \A f : Replayed(f) /\ record'[f] = record[f] => Replayed(f)'
    <3>1. lines[type] \in SUBSET LineType /\ OneLineEach(lines[type])
          /\ AddLogs(<<[method |-> method, lines |-> lines[type]]>>)
      BY <2>2
    <3> HIDE <2>2
    <3> QED BY <3>1, AppendRow DEF DataInv
  <2> QED BY <2>1, <2>2, AddedRow
<1>2. DataOK'
  BY <1>1 DEF DataInv, DataOK
<1>3. record' # Nothing => \A f \in Audited \ silent' : Replayed(f)'
  BY <1>1 DEF DataInv
<1> QED BY <1>1, <1>2, <1>3 DEF DataInv

----------------------------------------------------------------------------
(* Calls *)

LEMMA CreateRecordInv ==
  ASSUME RulesOK, DataInv, NEW w \in Workers, NEW u \in Users, NEW vals \in Inputs,
         CreateRecord(w, u, vals)
  PROVE  DataInv'
<1> DEFINE base == [f \in Written |-> IF f \in DOMAIN vals THEN vals[f] ELSE Empty]
           new == Completed(base)
           Lines == [type \in LogTypes |-> CreateLines(IF type = "full" THEN new ELSE vals)]
           added == NewLogs(w, u, "create", Lines)
<1>1. DOMAIN vals \subseteq Written /\ \A f \in DOMAIN vals : vals[f] \in Values
  BY InputsType
<1>2. base \in [Written -> Values \cup {Empty}]
  BY <1>1
<1>3. new \in RecordType /\ \A f \in Written : new[f] = base[f]
  BY <1>2, CompletedType
<1>4. \A f \in DOMAIN vals : new[f] = vals[f]
  BY <1>1, <1>3
<1>5. /\ DOMAIN new = Written \cup Computed
      /\ \A f \in DOMAIN new : new[f] \in Values \cup {Empty}
  BY <1>3 DEF RecordType
<1> HIDE DEF base, new
<1>6. \A type \in LogTypes : Lines[type] \in SUBSET LineType /\ OneLineEach(Lines[type])
  <2>1. CreateLines(new) \in SUBSET LineType /\ OneLineEach(CreateLines(new))
    BY <1>5, LinesType
  <2>2. CreateLines(vals) \in SUBSET LineType /\ OneLineEach(CreateLines(vals))
    BY <1>1, LinesType
  <2> QED BY <2>1, <2>2
<1>7. /\ record' = new /\ AddLogs(added)
      /\ silent' = IF added = <<>> THEN Audited ELSE Untold(w, "create", {}, DOMAIN vals, Audited)
  BY DEF CreateRecord, new, base
<1>8. Lines \in [LogTypes -> SUBSET LineType]
  BY <1>6
<1>9. CASE added = <<>>
  <2>1. logs' = logs
    BY <1>7, <1>9, NoRow DEF DataInv
  <2>2. silent' = Audited /\ Audited \subseteq Written \cup Computed
    BY <1>7, <1>9, AuditedFields
  <2> QED BY <1>3, <1>7, <2>1, <2>2 DEF DataInv, DataOK, RowsOK
<1>10. ASSUME NEW type \in LogTypes, patched[w]["create"] = <<type>>,
              added = <<[method |-> "create", lines |-> Lines[type]]>>
       PROVE  DataInv'
  <2>1. added # <<>>
    BY <1>10
  <2>2. /\ logs' \in Seq(LogRow) /\ Len(logs') <= MaxLogs /\ RowsOK'
        /\ \A f, l : l \in Lines[type] /\ l.field = f /\ l.new = new[f] => Replayed(f)'
    <3>1. Lines[type] \in SUBSET LineType /\ OneLineEach(Lines[type]) /\ "create" \in Methods
          /\ AddLogs(<<[method |-> "create", lines |-> Lines[type]]>>)
      BY <1>6, <1>7, <1>10 DEF Methods
    <3> HIDE DEF Lines
    <3> QED BY <1>7, <3>1, AppendRow DEF DataInv
  <2>3. silent' = IF type = "full" THEN {} ELSE Audited \ DOMAIN vals
    BY <1>7, <1>10, <2>1 DEF Untold
  <2>4. ASSUME NEW f \in Audited \ silent' PROVE Replayed(f)'
    <3>1. f \in DOMAIN new /\ f \in Logged
      BY <1>5, AuditedFields
    <3>2. Line(f, Empty, new[f]).field = f /\ Line(f, Empty, new[f]).new = new[f]
      BY DEF Line
    <3>3. Line(f, Empty, new[f]) \in Lines[type]
      <4>1. CASE type = "full"
        BY <3>1, <4>1 DEF CreateLines
      <4>2. CASE type # "full"
        <5>1. f \in DOMAIN vals /\ new[f] = vals[f] /\ Lines[type] = CreateLines(vals)
          BY <1>4, <2>3, <4>2
        <5> QED BY <3>1, <5>1 DEF CreateLines
      <4> QED BY <4>1, <4>2
    <3> QED BY <2>2, <3>2, <3>3
  <2>5. silent' \subseteq Written \cup Computed
    BY <2>3, AuditedFields
  <2> QED BY <1>3, <1>7, <2>2, <2>4, <2>5 DEF DataInv, DataOK
<1> QED BY <1>8, <1>9, <1>10, AddedRow DEF Methods

LEMMA WriteRecordInv ==
  ASSUME RulesOK, DataInv, NEW w \in Workers, NEW u \in Users, NEW vals \in Inputs,
         WriteRecord(w, u, vals)
  PROVE  DataInv'
<1> DEFINE base == [f \in Written |-> IF f \in DOMAIN vals THEN vals[f] ELSE record[f]]
           new == Completed(base)
           Lines == [type \in LogTypes |-> IF type = "full" THEN FullWriteLines(vals, record, new)
                                           ELSE FastWriteLines(vals)]
           added == NewLogs(w, u, "write", Lines)
<1>1. DOMAIN vals \subseteq Written /\ \A f \in DOMAIN vals : vals[f] \in Values
  BY InputsType
<1>2. record \in RecordType
  BY DEF DataInv, DataOK, WriteRecord
<1>3. base \in [Written -> Values \cup {Empty}]
  BY <1>1, <1>2 DEF RecordType
<1>4. new \in RecordType /\ \A f \in Written : new[f] = base[f]
  BY <1>3, CompletedType
<1>5. \A f \in DOMAIN vals : new[f] = vals[f]
  BY <1>1, <1>4
<1>6. DOMAIN new = Written \cup Computed /\ DOMAIN record = Written \cup Computed
  BY <1>2, <1>4 DEF RecordType
<1> HIDE DEF base, new
<1>7. \A type \in LogTypes : Lines[type] \in SUBSET LineType /\ OneLineEach(Lines[type])
  <2>1. WriteLines(record, new) \in SUBSET LineType /\ OneLineEach(WriteLines(record, new))
    BY <1>2, <1>4, WriteLinesType
  <2>2. FastWriteLines(vals) \in SUBSET LineType /\ OneLineEach(FastWriteLines(vals))
    BY <1>1, LinesType
  <2> QED BY <2>1, <2>2 DEF FullWriteLines
<1>8. /\ record' = new /\ AddLogs(added) /\ record # Nothing
      /\ silent' = IF added = <<>> THEN silent \cup Changed(new, record)
                   ELSE Untold(w, "write", silent, DOMAIN vals, Changed(new, record))
  BY DEF WriteRecord, new, base
<1>9. Lines \in [LogTypes -> SUBSET LineType]
  BY <1>7
<1>10. Changed(new, record) = {f \in Written \cup Computed : new[f] # record[f]}
  BY <1>6 DEF Changed
<1>11. silent \subseteq Written \cup Computed /\ \A f \in Audited \ silent : Replayed(f)
  BY <1>8 DEF DataInv, DataOK
<1>12. CASE added = <<>>
  <2>1. logs' = logs
    BY <1>8, <1>12, NoRow DEF DataInv
  <2>2. silent' = silent \cup Changed(new, record)
    BY <1>8, <1>12
  <2>3. ASSUME NEW f \in Audited \ silent' PROVE Replayed(f)'
    <3>1. record'[f] = record[f] /\ Replayed(f)
      BY <1>8, <1>10, <1>11, <2>2, AuditedFields
    <3> QED BY <2>1, <3>1 DEF Replayed, Tells
  <2>4. DataOK' /\ RowsOK'
    BY <1>4, <1>8, <1>10, <1>11, <2>1, <2>2 DEF DataInv, DataOK, RowsOK
  <2> QED BY <2>3, <2>4 DEF DataInv
<1>13. ASSUME NEW type \in LogTypes, patched[w]["write"] = <<type>>,
              added = <<[method |-> "write", lines |-> Lines[type]]>>
       PROVE  DataInv'
  <2>1. added # <<>>
    BY <1>13
  <2>2. /\ logs' \in Seq(LogRow) /\ Len(logs') <= MaxLogs /\ RowsOK'
        /\ \A f, l : l \in Lines[type] /\ l.field = f /\ l.new = new[f] => Replayed(f)'
        /\ \A f : (\A l \in Lines[type] : l.field # f) /\ Replayed(f) /\ new[f] = record[f]
                    => Replayed(f)'
    <3>1. Lines[type] \in SUBSET LineType /\ OneLineEach(Lines[type]) /\ "write" \in Methods
          /\ AddLogs(<<[method |-> "write", lines |-> Lines[type]]>>)
      BY <1>7, <1>8, <1>13 DEF Methods
    <3> HIDE DEF Lines
    <3> QED BY <1>8, <3>1, AppendRow DEF DataInv
  <2>3. silent' = IF type = "full" THEN silent \ Changed(new, record)
                  ELSE (silent \cup Changed(new, record)) \ DOMAIN vals
    BY <1>8, <1>13, <2>1 DEF Untold
  <2>4. \A f, a, b : Line(f, a, b).field = f /\ Line(f, a, b).new = b
    BY DEF Line
  <2>5. ASSUME NEW f \in Audited \ silent' PROVE Replayed(f)'
    <3>0. f \in Written \cup Computed /\ f \in Logged
      BY AuditedFields
    <3>1. CASE type = "full" /\ f \in Changed(new, record)
      <4>1. Line(f, record[f], new[f]) \in Lines[type]
        BY <3>0, <3>1 DEF FullWriteLines, WriteLines
      <4> QED BY <2>2, <2>4, <4>1
    <3>2. CASE type = "full" /\ f \notin Changed(new, record)
      <4>1. \A l \in Lines[type] : l.field # f
        BY <2>4, <3>2 DEF FullWriteLines, WriteLines
      <4>2. Replayed(f) /\ new[f] = record[f]
        BY <1>10, <1>11, <2>3, <3>0, <3>2
      <4> QED BY <2>2, <4>1, <4>2
    <3>3. CASE type # "full" /\ f \in DOMAIN vals
      <4>1. Line(f, Empty, new[f]) \in Lines[type]
        BY <1>5, <3>0, <3>3 DEF FastWriteLines
      <4> QED BY <2>2, <2>4, <4>1
    <3>4. CASE type # "full" /\ f \notin DOMAIN vals
      <4>1. \A l \in Lines[type] : l.field # f
        BY <2>4, <3>4 DEF FastWriteLines
      <4>2. Replayed(f) /\ new[f] = record[f]
        BY <1>10, <1>11, <2>3, <3>0, <3>4
      <4> QED BY <2>2, <4>1, <4>2
    <3> QED BY <3>1, <3>2, <3>3, <3>4
  <2>6. silent' \subseteq Written \cup Computed
    BY <1>10, <1>11, <2>3
  <2> QED BY <1>4, <1>8, <2>2, <2>5, <2>6 DEF DataInv, DataOK
<1>14. "write" \in Methods
  BY DEF Methods
<1> HIDE DEF Lines
<1> QED BY <1>9, <1>12, <1>13, <1>14, AddedRow

LEMMA CallInv ==
  ASSUME IInv, NEW w \in Workers, NEW u \in Users, Call(w, u)
  PROVE  IInv'
<1>0. RulesOK /\ DataInv
  BY DEF IInv, RulesInv
<1>1. RulesInv'
  BY RulesUnchanged DEF IInv, Call, CreateRecord, WriteRecord, UnlinkRecord, ReadRecord, ExportRecord
<1>2. ASSUME record # Nothing
      PROVE  \A f \in DOMAIN record \cap Logged : record[f] \in Values \cup {Empty}
  BY <1>0, <1>2 DEF DataInv, DataOK, RecordType
<1>3. {} \in SUBSET LineType /\ OneLineEach({})
  BY DEF OneLineEach
<1>4. CASE UnlinkRecord(w, u)
  <2> DEFINE captured == rule # Nothing /\ rule.capture
             Lines == [type \in LogTypes |-> IF captured /\ type = "full" THEN ReadLines(record) ELSE {}]
  <2>1. \A type \in LogTypes : Lines[type] \in SUBSET LineType /\ OneLineEach(Lines[type])
    BY <1>2, <1>3, <1>4, LinesType DEF UnlinkRecord
  <2>2. Lines \in [LogTypes -> SUBSET LineType] /\ "unlink" \in Methods \ {"create", "write"}
    BY <2>1 DEF Methods
  <2>3. AddLogs(NewLogs(w, u, "unlink", Lines)) /\ record' = Nothing /\ silent' = {}
    BY <1>4 DEF UnlinkRecord
  <2> HIDE DEF Lines
  <2> QED BY <1>0, <1>1, <2>1, <2>2, <2>3, QuietCall DEF IInv
<1>5. CASE ReadRecord(w, u)
  <2> DEFINE Lines == [type \in LogTypes |-> ReadLines(record)]
  <2>1. \A type \in LogTypes : Lines[type] \in SUBSET LineType /\ OneLineEach(Lines[type])
    BY <1>2, <1>5, LinesType DEF ReadRecord
  <2>2. Lines \in [LogTypes -> SUBSET LineType] /\ "read" \in Methods \ {"create", "write"}
    BY <2>1 DEF Methods
  <2>3. AddLogs(NewLogs(w, u, "read", Lines)) /\ UNCHANGED <<record, silent>>
    BY <1>5 DEF ReadRecord
  <2> HIDE DEF Lines
  <2> QED BY <1>0, <1>1, <2>1, <2>2, <2>3, QuietCall DEF IInv
<1>6. CASE ExportRecord(w, u)
  <2> DEFINE Lines == [type \in LogTypes |-> {}]
  <2>1. \A type \in LogTypes : Lines[type] \in SUBSET LineType /\ OneLineEach(Lines[type])
    BY <1>3
  <2>2. Lines \in [LogTypes -> SUBSET LineType] /\ "export_data" \in Methods \ {"create", "write"}
    BY <2>1 DEF Methods
  <2>3. AddLogs(NewLogs(w, u, "export_data", Lines)) /\ UNCHANGED <<record, silent>>
    BY <1>6 DEF ExportRecord
  <2> HIDE DEF Lines
  <2> QED BY <1>0, <1>1, <2>1, <2>2, <2>3, QuietCall DEF IInv
<1> QED BY <1>0, <1>1, <1>4, <1>5, <1>6, CreateRecordInv, WriteRecordInv DEF IInv, Call

----------------------------------------------------------------------------
LEMMA DataUnchanged ==
  ASSUME DataInv, UNCHANGED data
  PROVE  DataInv'
BY DEF data, DataInv, DataOK, RowsOK, Replayed, Tells

LEMMA InitInv == Init => IInv
<1> SUFFICES ASSUME Init PROVE IInv
  OBVIOUS
<1>1. Hooked(Nothing) = [m \in Methods |-> <<>>]
  BY HookedNothing
<1>2. <<>> \in Replacements /\ 0 \in 0 .. MaxFaults /\ 0 <= MaxLogs
  BY AuditAssumption DEF Replacements
<1>3. RulesOK
  BY <1>1, <1>2 DEF Init, RulesOK
<1>4. Synchronized
  BY DEF Init, Synchronized, OneSaver, SaverPatched, FreePatched, Free
<1>5. DataInv
  BY <1>2 DEF Init, DataInv, DataOK, RowsOK
<1> QED BY <1>3, <1>4, <1>5 DEF IInv, RulesInv

THEOREM Invariance == Spec => []IInv
<1>1. IInv /\ [Next]_vars => IInv'
  <2> SUFFICES ASSUME IInv, [Next]_vars PROVE IInv'
    OBVIOUS
  <2>1. CASE UNCHANGED vars
    BY <2>1, RulesUnchanged, DataUnchanged DEF IInv, vars
  <2>2. ASSUME NEW w \in Workers, RuleStep(w) PROVE IInv'
    <3>1. UNCHANGED data
      BY <2>2 DEF RuleStep, EditRule, CreateRule, EditCapture, Subscribe, Unsubscribe, UnlinkRule,
         CommitRule, RollbackRule, Reload, Restart, SaveRule, Unsubscribed, LoadRegistry
    <3> QED BY <2>2, <3>1, RuleStepInv, DataUnchanged DEF IInv
  <2> QED BY <2>1, <2>2, CallInv DEF Next
<1> QED BY <1>1, InitInv, PTL DEF Spec

----------------------------------------------------------------------------
\* Rules, transactions, classes, records and logs are what the models declare; no
\* method is ever replaced twice (_patch_methods, _revert_methods).
THEOREM TypeCorrect == Spec => []TypeOK
<1>1. IInv => TypeOK
  BY DEF IInv, RulesInv, RulesOK, DataInv, DataOK, TypeOK
<1> QED BY <1>1, Invariance, PTL

\* A worker that serves a request has exactly the methods replaced that the committed
\* rule asks for, unless it rolled a change of the rule back, or another worker made
\* one, since it built its registry (_patch_methods, _revert_methods, _register_hook).
THEOREM PatchesCorrect == Spec => []PatchedAsRuled
<1>1. IInv => PatchedAsRuled
  BY DEF IInv, RulesInv, Synchronized, FreePatched, PatchedAsRuled
<1> QED BY <1>1, Invariance, PTL

\* The logs, replayed, end in the present value of every field that they had to tell
\* (create_full, create_fast, write_full and write_fast).
THEOREM LogsCorrect == Spec => []LogsReplay
<1>1. IInv => LogsReplay
  <2> SUFFICES ASSUME IInv, record # Nothing, NEW f \in Audited \ silent
               PROVE  LastTold(f) = record[f]
    BY DEF LogsReplay
  <2>1. PICK i \in DOMAIN logs :
           /\ Tells(i, f) /\ \A j \in DOMAIN logs : Tells(j, f) => j <= i
           /\ \E l \in logs[i].lines : l.field = f /\ l.new = record[f]
    BY DEF IInv, DataInv, Replayed
  <2> DEFINE told == {j \in DOMAIN logs : logs[j].method \in {"create", "write"}
                                          /\ \E l \in logs[j].lines : l.field = f}
             last == CHOOSE j \in told : \A k \in told : k <= j
  <2>2. DOMAIN logs \subseteq Nat
    BY DEF IInv, DataInv, DataOK
  <2>3. i \in told /\ \A j \in told : j <= i
    BY <2>1 DEF Tells
  <2>4. last \in told /\ \A k \in told : k <= last
    BY <2>3
  <2>5. last = i
    <3>1. last <= i /\ i <= last
      BY <2>3, <2>4
    <3>2. last \in Nat /\ i \in Nat
      BY <2>2, <2>4
    <3> QED BY <3>1, <3>2
  <2>6. PICK l \in logs[i].lines : l.field = f /\ l.new = record[f]
    BY <2>1
  <2>7. (CHOOSE k \in logs[i].lines : k.field = f) = l
    BY <2>6 DEF IInv, DataInv, RowsOK, OneLineEach
  <2>8. LastTold(f) = (CHOOSE k \in logs[last].lines : k.field = f).new
    BY <2>3 DEF LastTold
  <2> QED BY <2>5, <2>6, <2>7, <2>8
<1> QED BY <1>1, Invariance, PTL

=============================================================================
