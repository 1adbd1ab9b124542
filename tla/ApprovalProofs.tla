--------------------------- MODULE ApprovalProofs ---------------------------
(* Proofs about what has to be approved before a record changes or is         *)
(* confirmed: Changeset, for any fields, values, users, sources and rules and *)
(* any number of changes, and BaseException, for any rules and workers.       *)
EXTENDS Changeset, BaseException, FiniteSetTheorems, TLAPS

(***************************************************************************)
(* The inductive invariant: what waits is to be validated, and the history *)
(* of a field holds changes of that field that were done, which nothing    *)
(* touches any more.                                                       *)
(***************************************************************************)
DraftsToValidate == \A i \in Ids : Draft(i) => changes[i].rule.action = "validate"
LogDone == \A f \in Fields : \A k \in DOMAIN log[f] :
             changes[log[f][k]].rule.field = f /\ changes[log[f][k]].state = "done"
IInv == /\ TypeOK /\ DraftsToValidate /\ LogDone
        /\ OnlyApprovedValues /\ DecidedByAnother /\ AuditChain

----------------------------------------------------------------------------
(* Sequences *)

\* A sequence of all the elements of a finite set has each of them in one place.
LEMMA SeqOfSet ==
  ASSUME NEW S, IsFiniteSet(S), NEW s \in SetToSeqs(S)
  PROVE  /\ Cardinality(S) \in Nat /\ s \in Seq(S) /\ Len(s) = Cardinality(S)
         /\ DOMAIN s = 1 .. Cardinality(S)
         /\ \A j, k \in DOMAIN s : s[j] = s[k] => j = k
         /\ \A x \in S : \E k \in DOMAIN s : s[k] = x
<1> DEFINE n == Cardinality(S)
<1>1. n \in Nat
  BY FS_CardinalityType
<1>2. s \in [1 .. n -> S] /\ \A j, k \in 1 .. n : j # k => s[j] # s[k]
  BY DEF SetToSeqs
<1>3. s \in Seq(S) /\ Len(s) = n /\ DOMAIN s = 1 .. n
  BY <1>1, <1>2
<1>4. s \in Injection(1 .. n, S)
  BY <1>2 DEF Injection, IsInjective
<1>5. Cardinality(1 .. n) = n
  BY <1>1, FS_Interval
<1>6. s \in Surjection(1 .. n, S)
  BY <1>4, <1>5, FS_Injection
<1> QED BY <1>1, <1>2, <1>3, <1>6 DEF Surjection

LEMMA Position ==
  ASSUME NEW S, IsFiniteSet(S), NEW s \in SetToSeqs(S), NEW k \in DOMAIN s
  PROVE  (CHOOSE j \in DOMAIN s : s[j] = s[k]) = k
BY SeqOfSet

----------------------------------------------------------------------------
(* Rules *)

LEMMA RuleForField ==
  ASSUME NEW f \in Fields, NEW source \in Sources, HasRule(f, source)
  PROVE  RuleFor(f, source) \in Rules /\ RuleFor(f, source).field = f
<1>1. (IF RulesFrom(f, source) # {} THEN RulesFrom(f, source) ELSE RulesFrom(f, Null)) # {}
  BY DEF HasRule
<1> QED BY <1>1 DEF RuleFor, RulesFrom

LEMMA ActionOfRule ==
  ASSUME NEW f \in Fields, NEW source \in Sources, HasRule(f, source)
  PROVE  Action(f, source) \in {"auto", "validate", "never"}
         /\ Action(f, source) = RuleFor(f, source).action
BY RuleForField, ChangesetAssumption DEF Action

\* What is recorded of a change, and what is written of the value.
LEMMA NewChangeType ==
  ASSUME TypeOK, NEW f \in Fields, NEW v \in Content, NEW source \in Sources, HasRule(f, source)
  PROVE  LET c == NewChange(f, v, source)
         IN /\ c \in ChangeType
            /\ c.cs = Len(csets) + 1 /\ c.rule = RuleFor(f, source) /\ c.new = v /\ c.by = Null
            /\ c.state = "draft" <=> Action(f, source) = "validate"
            /\ c.state = "done" <=> Action(f, source) = "auto"
            /\ Action(f, source) = "auto" => c.old = record[f]
<1>1. Action(f, source) \in {"auto", "validate", "never"} /\ RuleFor(f, source) \in Rules
  BY ActionOfRule, RuleForField
<1>2. Len(csets) + 1 \in Nat /\ record[f] \in Content /\ Null \in Content
  BY DEF TypeOK, Content
<1> DEFINE old == IF Action(f, source) = "validate" THEN Null ELSE record[f]
           state == CASE Action(f, source) = "auto" -> "done"
                      [] Action(f, source) = "validate" -> "draft"
                      [] Action(f, source) = "never" -> "cancel"
<1>3. old \in Content /\ (Action(f, source) = "auto" => old = record[f])
  BY <1>2
<1>4. /\ state \in {"draft", "done", "cancel"}
      /\ state = "draft" <=> Action(f, source) = "validate"
      /\ state = "done" <=> Action(f, source) = "auto"
  BY <1>1
<1>5. NewChange(f, v, source) = [cs |-> Len(csets) + 1, rule |-> RuleFor(f, source), new |-> v,
                                 old |-> old, state |-> state, by |-> Null]
  BY DEF NewChange
<1> HIDE DEF old, state
<1> QED BY <1>1, <1>2, <1>3, <1>4, <1>5 DEF ChangeType

----------------------------------------------------------------------------
(* create and write of the record *)

\* What adding a changeset does: the new changes come after the n old ones, one for
\* each changed field, and the ones that are applied at once are in the history.
LEMMA Added ==
  ASSUME TypeOK, NEW u \in Users, NEW vals \in Vals, NEW source \in Sources,
         AddChangeset(u, vals, source), NEW n \in Nat, n = Len(changes)
  PROVE  /\ \A i \in 1 .. n : i \in DOMAIN changes' /\ changes'[i] = changes[i]
         /\ changes' \in Seq(ChangeType) /\ Len(changes') <= MaxChanges /\ n <= Len(changes')
         /\ Changed(vals, source) = {} <=> Len(changes') = n
         /\ \A i \in DOMAIN changes' : i \notin 1 .. n =>
              \E f \in Changed(vals, source) : changes'[i] = NewChange(f, vals[f], source)
         /\ \A f \in Changed(vals, source) :
              \E i \in DOMAIN changes' :
                 /\ i \notin 1 .. n /\ changes'[i] = NewChange(f, vals[f], source)
                 /\ Action(f, source) = "auto" => log'[f] = Append(log[f], i)
         /\ \A f \in Fields : f \notin Changed(vals, source) \/ Action(f, source) # "auto"
              => log'[f] = log[f]
         /\ log' = [f \in Fields |-> log'[f]]
<1> DEFINE new == Changed(vals, source)
           m == Cardinality(new)
<1>1. DOMAIN vals \subseteq Fields /\ \A f \in DOMAIN vals : vals[f] \in Content
  BY DEF Vals
<1>2. new \subseteq Fields /\ IsFiniteSet(new)
      /\ \A f \in new : f \in DOMAIN vals /\ HasRule(f, source) /\ record[f] # vals[f]
  <2>1. new \subseteq Fields
    BY <1>1 DEF Changed
  <2> QED BY <2>1, ChangesetAssumption, FS_Subset DEF Changed, Tracked
<1>3. n + m <= MaxChanges
  BY DEF AddChangeset
<1> DEFINE Recorded(order) == [i \in DOMAIN order |-> NewChange(order[i], vals[order[i]], source)]
<1>4. PICK order \in SetToSeqs(new) :
        /\ changes' = changes \o Recorded(order)
        /\ log' = [f \in Fields |->
                     IF f \in new /\ Action(f, source) = "auto"
                     THEN Append(log[f], n + CHOOSE i \in DOMAIN order : order[i] = f)
                     ELSE log[f]]
  BY DEF AddChangeset
<1>5. /\ m \in Nat /\ order \in Seq(new) /\ DOMAIN order = 1 .. m
      /\ \A f \in new : \E k \in 1 .. m : order[k] = f
  BY <1>2, <1>4, SeqOfSet
<1>6. \A k \in 1 .. m : /\ order[k] \in new
                        /\ Recorded(order)[k] = NewChange(order[k], vals[order[k]], source)
                        /\ Recorded(order)[k] \in ChangeType
  BY <1>1, <1>2, <1>5, NewChangeType
<1>7. Recorded(order) \in Seq(ChangeType) /\ Len(Recorded(order)) = m
  BY <1>5, <1>6
<1>8. changes \in Seq(ChangeType)
  BY DEF TypeOK
<1> HIDE DEF Recorded, m
<1>9. /\ changes' \in Seq(ChangeType) /\ Len(changes') = n + m /\ DOMAIN changes' = 1 .. (n + m)
      /\ \A i \in 1 .. n : changes'[i] = changes[i]
      /\ \A k \in 1 .. m : changes'[n + k] = Recorded(order)[k]
  <2> DEFINE all == changes \o Recorded(order)
  <2>1. /\ all \in Seq(ChangeType) /\ Len(all) = Len(changes) + Len(Recorded(order))
        /\ DOMAIN all = 1 .. (Len(changes) + Len(Recorded(order)))
        /\ \A i \in 1 .. Len(changes) : all[i] = changes[i]
        /\ \A k \in 1 .. Len(Recorded(order)) : all[Len(changes) + k] = Recorded(order)[k]
    <3>1. PICK recorded : recorded = Recorded(order)
      OBVIOUS
    <3>2. PICK old : old = changes
      OBVIOUS
    <3>3. recorded \in Seq(ChangeType) /\ old \in Seq(ChangeType)
      BY <1>7, <1>8, <3>1, <3>2
    <3>4. /\ old \o recorded \in Seq(ChangeType) /\ Len(old \o recorded) = Len(old) + Len(recorded)
          /\ DOMAIN (old \o recorded) = 1 .. (Len(old) + Len(recorded))
          /\ \A i \in 1 .. Len(old) : (old \o recorded)[i] = old[i]
          /\ \A k \in 1 .. Len(recorded) : (old \o recorded)[Len(old) + k] = recorded[k]
      BY <3>3
    <3> QED BY <3>1, <3>2, <3>4
  <2>2. changes' = all
    BY <1>4
  <2> HIDE DEF all
  <2> QED BY <1>7, <2>1, <2>2
<1>10. ASSUME NEW i \in DOMAIN changes', i \notin 1 .. n
       PROVE  \E f \in new : changes'[i] = NewChange(f, vals[f], source)
  <2>1. i - n \in 1 .. m /\ i = n + (i - n)
    BY <1>5, <1>9, <1>10
  <2>2. PICK k \in 1 .. m : i = n + k
    BY <2>1
  <2>3. changes'[i] = Recorded(order)[k]
    BY <1>9, <2>2
  <2>4. order[k] \in new /\ Recorded(order)[k] = NewChange(order[k], vals[order[k]], source)
    BY <1>6
  <2> QED BY <2>3, <2>4
<1>11. ASSUME NEW f \in new
       PROVE  \E i \in DOMAIN changes' :
                 /\ i \notin 1 .. n /\ changes'[i] = NewChange(f, vals[f], source)
                 /\ Action(f, source) = "auto" => log'[f] = Append(log[f], i)
  <2>1. PICK k \in 1 .. m : order[k] = f
    BY <1>5
  <2>2. (CHOOSE i \in DOMAIN order : order[i] = f) = k
    BY <1>2, <1>4, <1>5, <2>1, Position
  <2>3. n + k \in DOMAIN changes' /\ n + k \notin 1 .. n
        /\ changes'[n + k] = NewChange(f, vals[f], source)
    <3>1. n + k \in 1 .. (n + m) /\ n + k \notin 1 .. n
      BY <1>5
    <3>2. Recorded(order)[k] = NewChange(f, vals[f], source)
      BY <1>6, <2>1
    <3> QED BY <1>9, <3>1, <3>2
  <2>4. Action(f, source) = "auto" => log'[f] = Append(log[f], n + k)
    BY <1>2, <1>4, <2>2
  <2> QED BY <2>3, <2>4
<1>12. \A f \in Fields : f \notin new \/ Action(f, source) # "auto" => log'[f] = log[f]
  BY <1>4
<1>13. new = {} <=> m = 0
  BY <1>2, FS_EmptySet DEF m
<1>14. log' = [f \in Fields |-> log'[f]]
  BY <1>4
<1>15. /\ \A i \in 1 .. n : i \in DOMAIN changes' /\ changes'[i] = changes[i]
       /\ Len(changes') <= MaxChanges /\ n <= Len(changes')
       /\ new = {} <=> Len(changes') = n
  BY <1>3, <1>5, <1>9, <1>13
<1> QED BY <1>9, <1>10, <1>11, <1>12, <1>14, <1>15

LEMMA AddedType ==
  ASSUME TypeOK, NEW u \in Users, NEW vals \in Vals, NEW source \in Sources,
         AddChangeset(u, vals, source), exists' \in BOOLEAN
  PROVE  TypeOK'
<1>0. PICK n \in Nat : n = Len(changes)
  BY DEF TypeOK
<1> DEFINE new == Changed(vals, source)
           entry == [author |-> u, date |-> now]
<1>1. /\ \A i \in 1 .. n : i \in DOMAIN changes' /\ changes'[i] = changes[i]
      /\ changes' \in Seq(ChangeType) /\ Len(changes') <= MaxChanges /\ n <= Len(changes')
      /\ new = {} <=> Len(changes') = n
      /\ \A i \in DOMAIN changes' : i \notin 1 .. n =>
           \E f \in new : changes'[i] = NewChange(f, vals[f], source)
      /\ \A f \in new : \E i \in DOMAIN changes' :
           /\ i \notin 1 .. n /\ changes'[i] = NewChange(f, vals[f], source)
           /\ Action(f, source) = "auto" => log'[f] = Append(log[f], i)
      /\ \A f \in Fields : f \notin new \/ Action(f, source) # "auto" => log'[f] = log[f]
      /\ log' = [f \in Fields |-> log'[f]]
  BY <1>0, Added
<1>2. /\ new \subseteq Fields
      /\ \A f \in new : vals[f] \in Content /\ HasRule(f, source)
      /\ \A f \in DOMAIN vals : vals[f] \in Content
  BY DEF Vals, Changed, Tracked
<1>3. \A f \in new : NewChange(f, vals[f], source).cs = Len(csets) + 1
  BY <1>2, NewChangeType
<1>4. record' \in [Fields -> Content]
  <2>1. \A f \in Fields : Written(vals, f, source) \in Content
    BY <1>2 DEF TypeOK, Written
  <2> QED BY <2>1 DEF AddChangeset
<1>5. csets' = IF new = {} THEN csets ELSE Append(csets, entry)
  BY DEF AddChangeset, NewChangesets
<1>6. csets \in Seq([author : Users, date : 0 .. now]) /\ entry \in [author : Users, date : 0 .. now]
      /\ now' = now
  BY DEF TypeOK, AddChangeset
<1> HIDE DEF entry
<1> DEFINE Entries == [author : Users, date : 0 .. now]
<1> HIDE DEF Entries, new
<1>7. /\ csets' \in Seq([author : Users, date : 0 .. now'])
      /\ new # {} => DOMAIN csets' = 1 .. (Len(csets) + 1)
      /\ new = {} => csets' = csets
      /\ DOMAIN csets \subseteq DOMAIN csets' /\ Len(csets) \in Nat
  <2>1. csets \in Seq(Entries) /\ entry \in Entries
    BY <1>6 DEF Entries
  <2>2. CASE new = {}
    BY <1>5, <1>6, <2>1, <2>2
  <2>3. CASE new # {}
    <3>1. csets' = Append(csets, entry)
      BY <1>5, <2>3
    <3>2. /\ csets' \in Seq(Entries) /\ DOMAIN csets' = 1 .. (Len(csets) + 1)
          /\ DOMAIN csets \subseteq DOMAIN csets' /\ Len(csets) \in Nat
      BY <2>1, <3>1
    <3> QED BY <1>6, <2>3, <3>2 DEF Entries
  <2> QED BY <2>2, <2>3
<1>8. DOMAIN changes' = 1 .. Len(changes') /\ Len(changes') \in Nat /\ DOMAIN changes = 1 .. n
  BY <1>0, <1>1 DEF TypeOK
<1>9. \A i \in Ids' : changes'[i].cs \in DOMAIN csets'
  <2> SUFFICES ASSUME NEW i \in DOMAIN changes' PROVE changes'[i].cs \in DOMAIN csets'
    BY <1>8 DEF Ids
  <2>1. CASE i \in 1 .. n
    <3>1. changes[i].cs \in DOMAIN csets
      BY <1>0, <2>1 DEF TypeOK, Ids
    <3> QED BY <1>1, <1>7, <2>1, <3>1
  <2>2. CASE i \notin 1 .. n
    <3>1. PICK f \in new : changes'[i] = NewChange(f, vals[f], source)
      BY <1>1, <2>2
    <3>2. changes'[i].cs = Len(csets) + 1
      BY <1>3, <3>1
    <3> QED BY <1>7, <3>1, <3>2
  <2> QED BY <2>1, <2>2
<1>10. \A c \in DOMAIN csets' : Of(c)' # {}
  <2> SUFFICES ASSUME NEW c \in DOMAIN csets'
               PROVE  \E i \in DOMAIN changes' : changes'[i].cs = c
    BY <1>8 DEF Of, Ids
  <2>1. CASE c \in DOMAIN csets
    <3>1. PICK i \in 1 .. n : changes[i].cs = c
      BY <1>0, <2>1 DEF TypeOK, Of, Ids
    <3> QED BY <1>1, <3>1
  <2>2. CASE c \notin DOMAIN csets
    <3>1. new # {} /\ c = Len(csets) + 1
      BY <1>5, <1>6, <1>7, <2>2
    <3>2. PICK f \in new : TRUE
      BY <3>1
    <3>3. PICK i \in DOMAIN changes' : changes'[i] = NewChange(f, vals[f], source)
      BY <1>1, <3>2
    <3> QED BY <1>3, <3>1, <3>3
  <2> QED BY <2>1, <2>2
<1>11. log' \in [Fields -> Seq(Ids')]
  <2> SUFFICES ASSUME NEW f \in Fields PROVE log'[f] \in Seq(1 .. Len(changes'))
    <3>1. \A f \in Fields : log'[f] \in Seq(Ids')
      BY DEF Ids
    <3> HIDE DEF new
    <3> QED BY <1>1, <3>1
  <2>1. log[f] \in Seq(1 .. n) /\ 1 .. n \subseteq 1 .. Len(changes')
    BY <1>0, <1>1, <1>8 DEF TypeOK, Ids
  <2>2. log[f] \in Seq(1 .. Len(changes'))
    BY <2>1
  <2>3. CASE f \in new /\ Action(f, source) = "auto"
    <3>1. PICK i \in DOMAIN changes' : log'[f] = Append(log[f], i)
      BY <1>1, <2>3
    <3> QED BY <1>8, <2>2, <3>1
  <2>4. CASE ~ (f \in new /\ Action(f, source) = "auto")
    BY <1>1, <2>2, <2>4
  <2> QED BY <2>3, <2>4
<1>12. now' \in 0 .. MaxDate
  BY DEF TypeOK, AddChangeset
<1> QED BY <1>1, <1>4, <1>7, <1>9, <1>10, <1>11, <1>12 DEF TypeOK

\* The other conjuncts of the invariant, when a changeset is added.
LEMMA AddedInv ==
  ASSUME IInv, NEW u \in Users, NEW vals \in Vals, NEW source \in Sources,
         AddChangeset(u, vals, source), exists' \in BOOLEAN
  PROVE  IInv'
<1>0. PICK n \in Nat : n = Len(changes)
  BY DEF IInv, TypeOK
<1> DEFINE new == Changed(vals, source)
<1>1. /\ \A i \in 1 .. n : i \in DOMAIN changes' /\ changes'[i] = changes[i]
      /\ \A i \in DOMAIN changes' : i \notin 1 .. n =>
           \E f \in new : changes'[i] = NewChange(f, vals[f], source)
      /\ \A f \in new : \E i \in DOMAIN changes' :
           /\ i \notin 1 .. n /\ changes'[i] = NewChange(f, vals[f], source)
           /\ Action(f, source) = "auto" => log'[f] = Append(log[f], i)
      /\ \A f \in Fields : f \notin new \/ Action(f, source) # "auto" => log'[f] = log[f]
  BY <1>0, Added DEF IInv
<1>2. TypeOK /\ TypeOK'
  BY AddedType DEF IInv
<1>3. Ids = 1 .. n /\ Ids' = DOMAIN changes'
  BY <1>0, <1>2 DEF Ids, TypeOK
<1>4. ASSUME NEW f \in new
      PROVE  LET c == NewChange(f, vals[f], source)
             IN /\ f \in Fields /\ HasRule(f, source)
                /\ c.rule.field = f /\ c.rule.action = Action(f, source)
                /\ c.new = vals[f] /\ c.by = Null
                /\ c.state = "draft" <=> Action(f, source) = "validate"
                /\ c.state = "done" <=> Action(f, source) = "auto"
                /\ Action(f, source) = "auto" => c.old = record[f]
  <2>1. f \in Fields /\ vals[f] \in Content /\ HasRule(f, source)
    BY DEF Vals, Changed, Tracked
  <2> QED BY <1>2, <2>1, NewChangeType, RuleForField, ActionOfRule
<1>5. ASSUME NEW f \in Fields, HasRule(f, source)
      PROVE  record'[f] = IF f \in new /\ Action(f, source) = "auto" THEN vals[f] ELSE record[f]
  <2>1. record'[f] = Written(vals, f, source)
    BY DEF AddChangeset
  <2>2. f \in new => f \in DOMAIN vals /\ Action(f, source) \in {"auto", "validate", "never"}
    BY <1>5, ActionOfRule DEF Changed
  <2>3. f \in DOMAIN vals /\ f \notin new => record[f] = vals[f]
    BY <1>5 DEF Changed, Tracked
  <2> QED BY <2>1, <2>2, <2>3 DEF Written
<1> HIDE DEF new
<1>6. \A f \in Fields : /\ log[f] \in Seq(1 .. n)
                         /\ \A k \in DOMAIN log[f] : log[f][k] \in 1 .. n
                                 /\ changes'[log[f][k]] = changes[log[f][k]]
  <2> SUFFICES ASSUME NEW f \in Fields
               PROVE  log[f] \in Seq(1 .. n) /\ \A k \in DOMAIN log[f] : log[f][k] \in 1 .. n
    BY <1>1
  <2>1. log[f] \in Seq(1 .. n)
    BY <1>2, <1>3 DEF TypeOK
  <2> QED BY <2>1
<1>7. DraftsToValidate'
  <2> SUFFICES ASSUME NEW i \in DOMAIN changes', changes'[i].state = "draft"
               PROVE  changes'[i].rule.action = "validate"
    BY <1>3 DEF DraftsToValidate, Draft
  <2>1. CASE i \in 1 .. n
    BY <1>1, <1>3, <2>1 DEF IInv, DraftsToValidate, Draft
  <2>2. CASE i \notin 1 .. n
    BY <1>1, <1>4, <2>2
  <2> QED BY <2>1, <2>2
<1>8. LogDone'
  <2> SUFFICES ASSUME NEW f \in Fields, NEW k \in DOMAIN log'[f]
               PROVE  changes'[log'[f][k]].rule.field = f /\ changes'[log'[f][k]].state = "done"
    BY DEF LogDone
  <2>1. CASE k \in DOMAIN log[f] /\ log'[f][k] = log[f][k]
    BY <1>6, <2>1 DEF IInv, LogDone
  <2>2. CASE ~ (k \in DOMAIN log[f] /\ log'[f][k] = log[f][k])
    <3>1. f \in new /\ Action(f, source) = "auto"
      BY <1>1, <2>2
    <3>2. PICK i \in DOMAIN changes' : /\ changes'[i] = NewChange(f, vals[f], source)
                                       /\ log'[f] = Append(log[f], i)
      BY <1>1, <3>1
    <3>3. log'[f][k] = i
      BY <1>6, <2>2, <3>2
    <3> QED BY <1>4, <3>1, <3>2, <3>3
  <2> QED BY <2>1, <2>2
<1>9. OnlyApprovedValues'
  <2> SUFFICES ASSUME NEW f \in Fields, \A q \in Sources : HasRule(f, q), record'[f] # Null
               PROVE  \E i \in DOMAIN changes' :
                         /\ changes'[i].rule.field = f /\ changes'[i].state = "done"
                         /\ changes'[i].rule.action # "never" /\ record'[f] = changes'[i].new
    BY <1>3 DEF OnlyApprovedValues
  <2>1. CASE f \in new /\ Action(f, source) = "auto"
    <3>1. PICK i \in DOMAIN changes' : changes'[i] = NewChange(f, vals[f], source)
      BY <1>1, <2>1
    <3> QED BY <1>4, <1>5, <2>1, <3>1
  <2>2. CASE ~ (f \in new /\ Action(f, source) = "auto")
    <3>1. record'[f] = record[f]
      BY <1>5, <2>2
    <3>2. PICK i \in 1 .. n : /\ changes[i].rule.field = f /\ changes[i].state = "done"
                              /\ changes[i].rule.action # "never" /\ record[f] = changes[i].new
      BY <1>3, <3>1 DEF IInv, OnlyApprovedValues
    <3> QED BY <1>1, <3>1, <3>2
  <2> QED BY <2>1, <2>2
<1>10. DecidedByAnother'
  <2> SUFFICES ASSUME NEW i \in DOMAIN changes', changes'[i].rule.fourEyes, changes'[i].by # Null
               PROVE  changes'[i].by # csets'[changes'[i].cs].author
    BY <1>3 DEF DecidedByAnother
  <2>1. i \in 1 .. n
    BY <1>1, <1>4
  <2>2. csets'[changes[i].cs] = csets[changes[i].cs]
    <3>1. changes[i].cs \in DOMAIN csets
      BY <1>2, <1>3, <2>1 DEF TypeOK
    <3>2. csets \in Seq([author : Users, date : 0 .. now])
      BY <1>2 DEF TypeOK
    <3> QED BY <3>1, <3>2 DEF AddChangeset, NewChangesets
  <2> QED BY <1>1, <1>3, <2>1, <2>2 DEF IInv, DecidedByAnother
<1>11. AuditChain'
  <2> SUFFICES ASSUME NEW f \in Fields, \A q \in Sources : HasRule(f, q)
               PROVE  /\ \A k \in 1 .. Len(log'[f]) : changes'[log'[f][k]].old =
                           IF k = 1 THEN Null ELSE changes'[log'[f][k - 1]].new
                      /\ record'[f] = IF log'[f] = << >> THEN Null ELSE changes'[Last(log'[f])].new
    BY DEF AuditChain
  <2>1. /\ \A k \in 1 .. Len(log[f]) : changes[log[f][k]].old =
              IF k = 1 THEN Null ELSE changes[log[f][k - 1]].new
        /\ record[f] = IF log[f] = << >> THEN Null ELSE changes[log[f][Len(log[f])]].new
    BY DEF IInv, AuditChain, Last
  <2>2. CASE f \in new /\ Action(f, source) = "auto"
    <3>1. PICK i \in DOMAIN changes' : /\ changes'[i] = NewChange(f, vals[f], source)
                                       /\ log'[f] = Append(log[f], i)
      BY <1>1, <2>2
    <3>2. changes'[i].old = record[f] /\ changes'[i].new = record'[f]
      BY <1>4, <1>5, <2>2, <3>1
    <3>3. /\ log[f] \in Seq(1 .. n) /\ log'[f] = Append(log[f], i)
          /\ Len(log'[f]) = Len(log[f]) + 1 /\ Len(log[f]) \in Nat
          /\ log[f] = << >> <=> Len(log[f]) = 0
          /\ \A k \in 1 .. Len(log[f]) : k \in DOMAIN log[f] /\ log'[f][k] = log[f][k]
          /\ log'[f][Len(log[f]) + 1] = i /\ log'[f] # << >>
      <4>1. PICK s \in Seq(1 .. n) : s = log[f]
        BY <1>6
      <4>2. log'[f] = Append(s, i)
        BY <3>1, <4>1
      <4>3. /\ Len(Append(s, i)) = Len(s) + 1 /\ Len(s) \in Nat /\ DOMAIN s = 1 .. Len(s)
            /\ s = << >> <=> Len(s) = 0
            /\ \A k \in 1 .. Len(s) : Append(s, i)[k] = s[k]
            /\ Append(s, i)[Len(s) + 1] = i /\ Append(s, i) # << >>
        OBVIOUS
      <4> QED BY <4>1, <4>2, <4>3
    <3>4. \A k \in 1 .. Len(log[f]) : changes'[log'[f][k]] = changes[log[f][k]]
      BY <1>6, <3>3
    <3>5. ASSUME NEW k \in 1 .. Len(log'[f])
          PROVE  changes'[log'[f][k]].old =
                   IF k = 1 THEN Null ELSE changes'[log'[f][k - 1]].new
      <4>1. k \in 1 .. Len(log[f]) \/ k = Len(log[f]) + 1
        BY <3>3
      <4>2. k # 1 => k - 1 \in 1 .. Len(log[f])
        BY <3>3
      <4>3. CASE k \in 1 .. Len(log[f])
        BY <2>1, <3>4, <4>2, <4>3
      <4>4. CASE k = Len(log[f]) + 1
        <5>1. k # 1 => k - 1 = Len(log[f])
          BY <3>3, <4>4
        <5>2. k = 1 <=> log[f] = << >>
          BY <3>3, <4>4
        <5> QED BY <2>1, <3>2, <3>3, <3>4, <4>2, <4>4, <5>1, <5>2
      <4> QED BY <4>1, <4>3, <4>4
    <3> QED BY <3>2, <3>3, <3>5 DEF Last
  <2>3. CASE ~ (f \in new /\ Action(f, source) = "auto")
    <3>1. record'[f] = record[f] /\ log'[f] = log[f]
      BY <1>1, <1>5, <2>3
    <3>2. /\ log[f] = << >> <=> Len(log[f]) = 0
          /\ Len(log[f]) \in Nat /\ DOMAIN log[f] = 1 .. Len(log[f])
      BY <1>6
    <3>3. ASSUME NEW k \in 1 .. Len(log[f])
          PROVE  k # 1 => k - 1 \in 1 .. Len(log[f])
      BY <3>2
    <3>4. \A k \in 1 .. Len(log[f]) : changes'[log'[f][k]] = changes[log[f][k]]
      BY <1>6, <3>1, <3>2
    <3>5. ASSUME NEW k \in 1 .. Len(log[f])
          PROVE  changes'[log'[f][k]].old =
                   IF k = 1 THEN Null ELSE changes'[log'[f][k - 1]].new
      BY <2>1, <3>1, <3>3, <3>4
    <3>6. record'[f] = IF log'[f] = << >> THEN Null ELSE changes'[log'[f][Len(log'[f])]].new
      BY <2>1, <3>1, <3>2, <3>4
    <3> QED BY <3>1, <3>5, <3>6 DEF Last
  <2> QED BY <2>2, <2>3
<1> QED BY <1>2, <1>7, <1>8, <1>9, <1>10, <1>11 DEF IInv

----------------------------------------------------------------------------
(* Validation *)

\* Applying and rejecting changes keeps their number, and what they belong to.
LEMMA TouchedType ==
  ASSUME TypeOK, changes' \in [Ids -> ChangeType],
         \A i \in Ids : changes'[i].cs = changes[i].cs,
         record' \in [Fields -> Content], log' \in [Fields -> Seq(Ids)],
         UNCHANGED <<exists, csets, now>>
  PROVE  TypeOK' /\ Ids' = Ids
<1>1. Len(changes) \in Nat
  BY DEF TypeOK
<1>2. changes' \in Seq(ChangeType) /\ Len(changes') = Len(changes)
  BY <1>1 DEF Ids
<1>3. Ids' = Ids
  BY <1>2 DEF Ids
<1>4. \A c : Of(c)' = Of(c)
  BY <1>3 DEF Of
<1> QED BY <1>2, <1>3, <1>4 DEF TypeOK

\* Rejecting changes.
LEMMA CancelledInv ==
  ASSUME IInv, NEW u \in Users, NEW S, S \subseteq Ids, \A i \in S : MayValidate(u, i),
         CancelSet(u, S)
  PROVE  IInv'
<1>0. \A i \in Ids : changes[i] \in ChangeType
  BY DEF IInv, TypeOK, Ids
<1>1. ASSUME NEW i \in Ids
      PROVE  /\ changes'[i] \in ChangeType
             /\ changes'[i].cs = changes[i].cs /\ changes'[i].rule = changes[i].rule
             /\ changes'[i].new = changes[i].new
             /\ i \notin S => changes'[i] = changes[i]
             /\ i \in S => /\ changes[i].state # "done" /\ changes'[i].state = "cancel"
                           /\ changes'[i].by = u
  <2>1. changes[i] \in ChangeType
    BY <1>0
  <2>2. changes[i].rule.field \in Fields
    BY <2>1, ChangesetAssumption DEF ChangeType
  <2>3. record[changes[i].rule.field] \in Content
    BY <2>2 DEF IInv, TypeOK
  <2> QED BY <2>1, <2>3 DEF CancelSet, Cancellable, ChangeType
<1>2. changes' \in [Ids -> ChangeType]
  <2>1. changes' = [i \in Ids |-> changes'[i]]
    BY DEF CancelSet
  <2> QED BY <1>1, <2>1
<1>3. /\ record' = record /\ log' = log /\ exists' = exists /\ csets' = csets /\ now' = now
      /\ record \in [Fields -> Content] /\ log \in [Fields -> Seq(Ids)]
  BY DEF CancelSet, IInv, TypeOK
<1>4. TypeOK' /\ Ids' = Ids
  BY <1>1, <1>2, <1>3, TouchedType DEF IInv
<1>5. \A f \in Fields : \A k \in DOMAIN log[f] : log[f][k] \in Ids /\ log[f][k] \notin S
  <2> SUFFICES ASSUME NEW f \in Fields, NEW k \in DOMAIN log[f]
               PROVE  log[f][k] \in Ids /\ log[f][k] \notin S
    OBVIOUS
  <2>1. log[f] \in Seq(Ids)
    BY <1>3
  <2> QED BY <1>1, <2>1 DEF IInv, LogDone
<1>6. DraftsToValidate'
  BY <1>1, <1>4 DEF IInv, DraftsToValidate, Draft
<1>7. LogDone'
  BY <1>1, <1>3, <1>5 DEF IInv, LogDone
<1>8. OnlyApprovedValues'
  <2> SUFFICES ASSUME NEW f \in Fields, \A q \in Sources : HasRule(f, q), record[f] # Null
               PROVE  \E i \in Ids :
                         /\ changes'[i].rule.field = f /\ changes'[i].state = "done"
                         /\ changes'[i].rule.action # "never" /\ record[f] = changes'[i].new
    BY <1>3, <1>4 DEF OnlyApprovedValues
  <2>1. PICK i \in Ids : /\ changes[i].rule.field = f /\ changes[i].state = "done"
                         /\ changes[i].rule.action # "never" /\ record[f] = changes[i].new
    BY DEF IInv, OnlyApprovedValues
  <2> QED BY <1>1, <2>1
<1>9. DecidedByAnother'
  BY <1>1, <1>3, <1>4 DEF IInv, DecidedByAnother, MayValidate
<1>10. AuditChain'
  <2> SUFFICES ASSUME NEW f \in Fields, \A q \in Sources : HasRule(f, q)
               PROVE  /\ \A k \in 1 .. Len(log[f]) : changes'[log[f][k]].old =
                           IF k = 1 THEN Null ELSE changes'[log[f][k - 1]].new
                      /\ record[f] = IF log[f] = << >> THEN Null ELSE changes'[Last(log[f])].new
    BY <1>3 DEF AuditChain
  <2>1. /\ \A k \in 1 .. Len(log[f]) : changes[log[f][k]].old =
              IF k = 1 THEN Null ELSE changes[log[f][k - 1]].new
        /\ record[f] = IF log[f] = << >> THEN Null ELSE changes[log[f][Len(log[f])]].new
    BY DEF IInv, AuditChain, Last
  <2>2. /\ Len(log[f]) \in Nat /\ DOMAIN log[f] = 1 .. Len(log[f])
        /\ log[f] = << >> <=> Len(log[f]) = 0
    <3>1. log[f] \in Seq(Ids)
      BY <1>3
    <3> QED BY <3>1
  <2>3. \A k \in 1 .. Len(log[f]) : changes'[log[f][k]] = changes[log[f][k]]
    BY <1>1, <1>5, <2>2
  <2>4. \A k \in 1 .. Len(log[f]) : k # 1 => k - 1 \in 1 .. Len(log[f])
    BY <2>2
  <2>5. ASSUME NEW k \in 1 .. Len(log[f])
        PROVE  changes'[log[f][k]].old = IF k = 1 THEN Null ELSE changes'[log[f][k - 1]].new
    BY <2>1, <2>3, <2>4
  <2>6. record[f] = IF log[f] = << >> THEN Null ELSE changes'[log[f][Len(log[f])]].new
    BY <2>1, <2>2, <2>3
  <2> QED BY <2>5, <2>6 DEF Last
<1> QED BY <1>4, <1>6, <1>7, <1>8, <1>9, <1>10 DEF IInv

\* Applying changes: the draft ones are done, and what each of them replaces is what
\* the one before it in the order of its field wrote.
Ordered(order, open) ==
  \A f \in Fields :
    /\ order[f] \in Seq(Ids)
    /\ \A k \in DOMAIN order[f] :
         /\ order[f][k] \in open /\ changes[order[f][k]].rule.field = f
         /\ changes'[order[f][k]].old = IF k = 1 THEN record[f] ELSE changes[order[f][k - 1]].new

Finished(u, open) ==
  /\ \A i \in Ids : /\ changes'[i] \in ChangeType /\ changes'[i].cs = changes[i].cs
                    /\ changes'[i].rule = changes[i].rule /\ changes'[i].new = changes[i].new
                    /\ i \notin open => changes'[i] = changes[i]
                    /\ i \in open => changes'[i].state = "done" /\ changes'[i].by = u
  /\ changes' = [i \in Ids |-> changes'[i]]

Closing(order, u, open) ==
  /\ Ordered(order, open) /\ Finished(u, open)
  /\ record' = [f \in Fields |-> IF order[f] = << >> THEN record[f]
                                 ELSE changes[Last(order[f])].new]
  /\ log' = [f \in Fields |-> log[f] \o order[f]]

LEMMA Applied ==
  ASSUME IInv, NEW u \in Users, NEW S, S \subseteq Ids, Apply(u, S),
         NEW open, open = {i \in S : Draft(i)}
  PROVE  \E order : Closing(order, u, open)
<1>1. \A i \in Ids : changes[i] \in ChangeType /\ changes[i].rule.field \in Fields
  <2>1. \A i \in Ids : changes[i] \in ChangeType
    BY DEF IInv, TypeOK, Ids
  <2> QED BY <2>1, ChangesetAssumption DEF ChangeType
<1>2. open \subseteq Ids
  OBVIOUS
<1>3. IsFiniteSet(Ids)
  <2>1. Len(changes) \in Nat
    BY DEF IInv, TypeOK
  <2> QED BY <2>1, FS_Interval DEF Ids
<1>4. PICK order \in Orders(open) :
        /\ changes' = [i \in Ids |->
             IF i \in open
             THEN LET s == order[changes[i].rule.field]
                  IN [changes[i] EXCEPT !.old = OldValue(s, CHOOSE k \in DOMAIN s : s[k] = i),
                                        !.state = "done", !.by = u]
             ELSE changes[i]]
        /\ record' = [f \in Fields |-> IF order[f] = << >> THEN record[f]
                                       ELSE changes[Last(order[f])].new]
        /\ log' = [f \in Fields |-> log[f] \o order[f]]
  BY DEF Apply
<1>5. ASSUME NEW f \in Fields
      PROVE  /\ order[f] \in Seq(OfField(open, f)) /\ order[f] \in Seq(Ids)
             /\ \A k \in DOMAIN order[f] : /\ k \in Nat /\ (k # 1 => k - 1 \in DOMAIN order[f])
                                           /\ order[f][k] \in OfField(open, f)
                                           /\ (CHOOSE j \in DOMAIN order[f] : order[f][j] = order[f][k]) = k
             /\ \A i \in OfField(open, f) : \E k \in DOMAIN order[f] : order[f][k] = i
  <2>1. OfField(open, f) \subseteq Ids
    BY <1>2 DEF OfField
  <2>2. IsFiniteSet(OfField(open, f))
    BY <1>3, <2>1, FS_Subset
  <2>3. order[f] \in SetToSeqs(OfField(open, f))
    BY <1>4 DEF Orders
  <2>4. /\ order[f] \in Seq(OfField(open, f))
        /\ \A i \in OfField(open, f) : \E k \in DOMAIN order[f] : order[f][k] = i
    BY <2>2, <2>3, SeqOfSet
  <2>5. \A k \in DOMAIN order[f] : (CHOOSE j \in DOMAIN order[f] : order[f][j] = order[f][k]) = k
    BY <2>2, <2>3, Position
  <2>6. order[f] \in Seq(Ids)
    BY <2>1, <2>4
  <2>7. \A k \in DOMAIN order[f] : /\ k \in Nat /\ (k # 1 => k - 1 \in DOMAIN order[f])
                                  /\ order[f][k] \in OfField(open, f)
    BY <2>4
  <2> QED BY <2>4, <2>5, <2>6, <2>7
<1> DEFINE Done(i, v) == [changes[i] EXCEPT !.old = v, !.state = "done", !.by = u]
<1>6. ASSUME NEW i \in open, NEW v \in Content
      PROVE  /\ Done(i, v) \in ChangeType /\ Done(i, v).cs = changes[i].cs
             /\ Done(i, v).rule = changes[i].rule /\ Done(i, v).new = changes[i].new
             /\ Done(i, v).state = "done" /\ Done(i, v).by = u
             /\ Done(i, v).old = v
  BY <1>1, <1>2 DEF ChangeType
<1>7. \A i \in open : changes'[i] =
        LET s == order[changes[i].rule.field]
        IN Done(i, OldValue(s, CHOOSE k \in DOMAIN s : s[k] = i))
  BY <1>2, <1>4
<1> HIDE DEF Done
<1>8. ASSUME NEW f \in Fields, NEW k \in DOMAIN order[f]
      PROVE  /\ order[f][k] \in open /\ changes[order[f][k]].rule.field = f
             /\ \E v \in Content :
                  /\ v = IF k = 1 THEN record[f] ELSE changes[order[f][k - 1]].new
                  /\ changes'[order[f][k]] = Done(order[f][k], v)
  <2>1. order[f][k] \in open /\ order[f][k] \in Ids /\ changes[order[f][k]].rule.field = f
    BY <1>2, <1>5 DEF OfField
  <2>2. (CHOOSE j \in DOMAIN order[f] : order[f][j] = order[f][k]) = k
    BY <1>5
  <2>3. OldValue(order[f], k) = IF k = 1 THEN record[f] ELSE changes[order[f][k - 1]].new
    BY <2>1 DEF OldValue
  <2>4. record[f] \in Content
    BY DEF IInv, TypeOK
  <2>5. k # 1 => changes[order[f][k - 1]].new \in Content
    <3> SUFFICES ASSUME k # 1 PROVE changes[order[f][k - 1]].new \in Content
      OBVIOUS
    <3>1. k - 1 \in DOMAIN order[f]
      BY <1>5
    <3>2. order[f][k - 1] \in Ids
      BY <1>2, <1>5, <3>1 DEF OfField
    <3> QED BY <1>1, <3>2 DEF ChangeType
  <2>6. changes'[order[f][k]] = Done(order[f][k], OldValue(order[f], k))
    BY <1>7, <2>1, <2>2
  <2>7. OldValue(order[f], k) \in Content
    BY <2>3, <2>4, <2>5
  <2> QED BY <2>1, <2>3, <2>6, <2>7
<1>9. ASSUME NEW i \in Ids
      PROVE  /\ changes'[i] \in ChangeType /\ changes'[i].cs = changes[i].cs
             /\ changes'[i].rule = changes[i].rule /\ changes'[i].new = changes[i].new
             /\ i \notin open => changes'[i] = changes[i]
             /\ i \in open => changes'[i].state = "done" /\ changes'[i].by = u
  <2>1. CASE i \notin open
    BY <1>1, <1>4, <2>1
  <2>2. CASE i \in open
    <3>1. PICK f \in Fields : i \in OfField(open, f)
      BY <1>1, <2>2 DEF OfField
    <3>2. PICK k \in DOMAIN order[f] : order[f][k] = i
      BY <1>5, <3>1
    <3>3. PICK v \in Content : changes'[i] = Done(i, v)
      BY <1>8, <3>2
    <3> QED BY <1>6, <2>2, <3>3
  <2> QED BY <2>1, <2>2
<1>10. \A f \in Fields : \A k \in DOMAIN order[f] :
        /\ order[f][k] \in open /\ changes[order[f][k]].rule.field = f
        /\ changes'[order[f][k]].old = IF k = 1 THEN record[f] ELSE changes[order[f][k - 1]].new
  <2> SUFFICES ASSUME NEW f \in Fields, NEW k \in DOMAIN order[f]
               PROVE  /\ order[f][k] \in open /\ changes[order[f][k]].rule.field = f
                      /\ changes'[order[f][k]].old =
                           IF k = 1 THEN record[f] ELSE changes[order[f][k - 1]].new
    OBVIOUS
  <2> QED BY <1>6, <1>8
<1>11. changes' = [i \in Ids |-> changes'[i]]
  <2> DEFINE Value(i) ==
        IF i \in open
        THEN LET s == order[changes[i].rule.field]
             IN [changes[i] EXCEPT !.old = OldValue(s, CHOOSE k \in DOMAIN s : s[k] = i),
                                   !.state = "done", !.by = u]
        ELSE changes[i]
  <2>1. changes' = [i \in Ids |-> Value(i)]
    BY <1>4
  <2> HIDE DEF Value
  <2> QED BY <2>1
<1>12. Ordered(order, open)
  BY <1>5, <1>10 DEF Ordered
<1>13. Finished(u, open)
  BY <1>9, <1>11 DEF Finished
<1>14. /\ record' = [f \in Fields |-> IF order[f] = << >> THEN record[f]
                                    ELSE changes[Last(order[f])].new]
       /\ log' = [f \in Fields |-> log[f] \o order[f]]
  BY <1>4
<1> QED BY <1>12, <1>13, <1>14 DEF Closing

LEMMA AppliedInv ==
  ASSUME IInv, NEW u \in Users, NEW S, S \subseteq Ids, \A i \in S : MayValidate(u, i),
         Apply(u, S)
  PROVE  IInv'
<1>1. PICK open : open = {i \in S : Draft(i)}
  OBVIOUS
<1>closing. PICK order : Closing(order, u, open)
  BY <1>1, Applied
<1>2. /\ \A f \in Fields :
           /\ order[f] \in Seq(Ids)
           /\ \A k \in DOMAIN order[f] :
                /\ order[f][k] \in open /\ changes[order[f][k]].rule.field = f
                /\ changes'[order[f][k]].old =
                     IF k = 1 THEN record[f] ELSE changes[order[f][k - 1]].new
      /\ \A i \in Ids : /\ changes'[i] \in ChangeType /\ changes'[i].cs = changes[i].cs
                        /\ changes'[i].rule = changes[i].rule /\ changes'[i].new = changes[i].new
                        /\ i \notin open => changes'[i] = changes[i]
                        /\ i \in open => changes'[i].state = "done" /\ changes'[i].by = u
      /\ changes' = [i \in Ids |-> changes'[i]]
  BY <1>closing DEF Closing, Ordered, Finished
<1>written. /\ record' = [f \in Fields |-> IF order[f] = << >> THEN record[f]
                                    ELSE changes[Last(order[f])].new]
      /\ log' = [f \in Fields |-> log[f] \o order[f]]
  BY <1>closing DEF Closing
<1>3. /\ \A i \in open : i \in Ids /\ i \in S /\ changes[i].state = "draft"
      /\ \A i \in Ids : changes[i] \in ChangeType
  <2>1. \A i \in Ids : changes[i] \in ChangeType
    BY DEF Ids, IInv, TypeOK
  <2> QED BY <1>1, <2>1 DEF Draft
<1>4. /\ exists' = exists /\ csets' = csets /\ now' = now
      /\ record \in [Fields -> Content] /\ log \in [Fields -> Seq(Ids)]
  BY DEF Apply, IInv, TypeOK
<1> DEFINE N(f) == Len(log[f])
           M(f) == Len(order[f])
<1>5. ASSUME NEW f \in Fields
      PROVE  /\ N(f) \in Nat /\ DOMAIN log[f] = 1 .. N(f) /\ log[f] \in Seq(Ids)
             /\ M(f) \in Nat /\ DOMAIN order[f] = 1 .. M(f)
             /\ log[f] = << >> <=> N(f) = 0
             /\ order[f] = << >> <=> M(f) = 0
             /\ log'[f] \in Seq(Ids) /\ DOMAIN log'[f] = 1 .. (N(f) + M(f))
             /\ Len(log'[f]) = N(f) + M(f)
             /\ log'[f] = << >> <=> N(f) + M(f) = 0
             /\ \A k \in 1 .. N(f) : log[f][k] \in Ids /\ log'[f][k] = log[f][k]
             /\ \A k \in 1 .. M(f) : order[f][k] \in Ids /\ log'[f][N(f) + k] = order[f][k]
  <2>1. log[f] \in Seq(Ids) /\ order[f] \in Seq(Ids)
    BY <1>2, <1>4
  <2>2. PICK s \in Seq(Ids), t \in Seq(Ids) : s = log[f] /\ t = order[f]
    BY <2>1
  <2>3. /\ Len(s) \in Nat /\ DOMAIN s = 1 .. Len(s) /\ Len(t) \in Nat /\ DOMAIN t = 1 .. Len(t)
        /\ s = << >> <=> Len(s) = 0
        /\ t = << >> <=> Len(t) = 0
        /\ s \o t \in Seq(Ids) /\ DOMAIN (s \o t) = 1 .. (Len(s) + Len(t))
        /\ Len(s \o t) = Len(s) + Len(t)
        /\ s \o t = << >> <=> Len(s) + Len(t) = 0
        /\ \A k \in 1 .. Len(s) : s[k] \in Ids /\ (s \o t)[k] = s[k]
        /\ \A k \in 1 .. Len(t) : t[k] \in Ids /\ (s \o t)[Len(s) + k] = t[k]
    OBVIOUS
  <2>4. log'[f] = s \o t
    BY <1>written, <2>2
  <2> QED BY <2>2, <2>3, <2>4
<1> HIDE DEF N, M
<1>function. log' = [f \in Fields |-> log'[f]]
  BY <1>written
<1>6. TypeOK' /\ Ids' = Ids
  <2>1. changes' \in [Ids -> ChangeType] /\ \A i \in Ids : changes'[i].cs = changes[i].cs
    BY <1>2
  <2>2. log' \in [Fields -> Seq(Ids)]
    BY <1>5, <1>function
  <2>3. record' \in [Fields -> Content]
    <3>0. SUFFICES ASSUME NEW f \in Fields, order[f] # << >>
                 PROVE  changes[Last(order[f])].new \in Content
      BY <1>4, <1>written
    <3>1. M(f) \in 1 .. M(f)
      BY <1>5, <3>0
    <3>2. Last(order[f]) \in Ids
      BY <1>5, <3>1 DEF Last, M
    <3> QED BY <1>3, <3>2 DEF ChangeType
  <2> QED BY <1>4, <2>1, <2>2, <2>3, TouchedType DEF IInv
<1>7. \A f \in Fields : \A k \in 1 .. N(f) :
        log[f][k] \in Ids /\ changes'[log[f][k]] = changes[log[f][k]]
  <2> SUFFICES ASSUME NEW f \in Fields, NEW k \in 1 .. N(f)
               PROVE  log[f][k] \in Ids /\ changes'[log[f][k]] = changes[log[f][k]]
    OBVIOUS
  <2>1. k \in DOMAIN log[f] /\ log[f][k] \in Ids
    BY <1>5
  <2>2. changes[log[f][k]].state = "done"
    BY <2>1 DEF IInv, LogDone
  <2> QED BY <1>2, <1>3, <2>1, <2>2
<1>8. DraftsToValidate'
  <2> SUFFICES ASSUME NEW i \in Ids, changes'[i].state = "draft"
               PROVE  changes'[i].rule.action = "validate"
    BY <1>6 DEF DraftsToValidate, Draft
  <2>1. changes'[i] = changes[i]
    BY <1>2
  <2> QED BY <2>1 DEF IInv, DraftsToValidate, Draft
<1>9. LogDone'
  <2> SUFFICES ASSUME NEW f \in Fields, NEW k \in 1 .. (N(f) + M(f))
               PROVE  LET i == log'[f][k]
                      IN changes'[i].rule.field = f /\ changes'[i].state = "done"
    BY <1>5 DEF LogDone
  <2>1. CASE k \in 1 .. N(f)
    BY <1>5, <1>7, <2>1 DEF IInv, LogDone
  <2>2. CASE k \notin 1 .. N(f)
    <3>1. PICK j \in 1 .. M(f) : k = N(f) + j
      <4>1. k - N(f) \in 1 .. M(f) /\ k = N(f) + (k - N(f))
        BY <1>5, <2>2
      <4> QED BY <4>1
    <3>2. j \in DOMAIN order[f] /\ log'[f][k] = order[f][j]
      BY <1>5, <3>1
    <3> QED BY <1>2, <1>3, <3>2
  <2> QED BY <2>1, <2>2
<1>10. \A f \in Fields :
         /\ order[f] = << >> => record'[f] = record[f]
         /\ order[f] # << >> => /\ M(f) \in DOMAIN order[f]
                               /\ record'[f] = changes[order[f][M(f)]].new
  BY <1>5, <1>written DEF Last, M
<1>11. OnlyApprovedValues'
  <2> SUFFICES ASSUME NEW f \in Fields, \A q \in Sources : HasRule(f, q), record'[f] # Null
               PROVE  \E i \in Ids :
                         /\ changes'[i].rule.field = f /\ changes'[i].state = "done"
                         /\ changes'[i].rule.action # "never" /\ record'[f] = changes'[i].new
    BY <1>6 DEF OnlyApprovedValues
  <2>1. CASE order[f] = << >>
    <3>1. PICK i \in Ids : /\ changes[i].rule.field = f /\ changes[i].state = "done"
                           /\ changes[i].rule.action # "never" /\ record[f] = changes[i].new
      BY <1>10, <2>1 DEF IInv, OnlyApprovedValues
    <3>2. changes'[i] = changes[i]
      BY <1>2, <1>3, <3>1
    <3> QED BY <1>10, <2>1, <3>1, <3>2
  <2>2. CASE order[f] # << >>
    <3>1. PICK k \in DOMAIN order[f] : record'[f] = changes[order[f][k]].new
      BY <1>10, <2>2
    <3>2. PICK i \in open : i = order[f][k] /\ changes[i].rule.field = f
      BY <1>2, <3>1
    <3>3. changes[i].rule.action = "validate"
      BY <1>3, <3>2 DEF IInv, DraftsToValidate, Draft
    <3> QED BY <1>2, <1>3, <3>1, <3>2, <3>3
  <2> QED BY <2>1, <2>2
<1>12. DecidedByAnother'
  <2> SUFFICES ASSUME NEW i \in Ids, changes'[i].rule.fourEyes, changes'[i].by # Null
               PROVE  changes'[i].by # csets[changes'[i].cs].author
    BY <1>4, <1>6 DEF DecidedByAnother
  <2>1. CASE i \in open
    BY <1>2, <1>3, <2>1 DEF MayValidate
  <2>2. CASE i \notin open
    BY <1>2, <2>2 DEF IInv, DecidedByAnother
  <2> QED BY <2>1, <2>2
<1>13. AuditChain'
  <2> SUFFICES ASSUME NEW f \in Fields, \A q \in Sources : HasRule(f, q)
               PROVE  /\ \A k \in 1 .. Len(log'[f]) :
                           changes'[log'[f][k]].old =
                             IF k = 1 THEN Null ELSE changes'[log'[f][k - 1]].new
                      /\ record'[f] = IF log'[f] = << >> THEN Null ELSE changes'[Last(log'[f])].new
    BY DEF AuditChain
  <2>1. /\ \A k \in 1 .. N(f) : changes[log[f][k]].old =
              IF k = 1 THEN Null ELSE changes[log[f][k - 1]].new
        /\ record[f] = IF log[f] = << >> THEN Null ELSE changes[log[f][N(f)]].new
    BY DEF IInv, AuditChain, Last, N
  <2>3. \A k \in 1 .. N(f) : /\ changes'[log'[f][k]].old = changes[log[f][k]].old
                                    /\ changes'[log'[f][k]].new = changes[log[f][k]].new
    BY <1>5, <1>7
  <2>4. ASSUME NEW j \in 1 .. M(f)
        PROVE  /\ changes'[log'[f][N(f) + j]].old =
                    IF j = 1 THEN record[f] ELSE changes[order[f][j - 1]].new
               /\ changes'[log'[f][N(f) + j]].new = changes[order[f][j]].new
    <3>1. j \in DOMAIN order[f] /\ log'[f][N(f) + j] = order[f][j]
      BY <1>5
    <3> QED BY <1>2, <1>3, <3>1
  <2>5. ASSUME NEW k \in 1 .. (N(f) + M(f))
        PROVE  changes'[log'[f][k]].old = IF k = 1 THEN Null ELSE changes'[log'[f][k - 1]].new
    <3>1. CASE k \in 1 .. N(f)
      <4>1. k # 1 => k - 1 \in 1 .. N(f)
        BY <1>5, <3>1
      <4> QED BY <2>1, <2>3, <3>1, <4>1
    <3>2. CASE k = N(f) + 1
      <4>1. k = 1 => record[f] = Null
        BY <1>5, <2>1, <3>2
      <4>2. k # 1 => /\ k - 1 = N(f) /\ k - 1 \in 1 .. N(f)
                     /\ record[f] = changes[log[f][k - 1]].new
        BY <1>5, <2>1, <3>2
      <4>3. changes'[log'[f][k]].old = record[f]
        <5>1. 1 \in 1 .. M(f)
          BY <1>5, <3>2
        <5> QED BY <2>4, <3>2, <5>1
      <4> QED BY <2>3, <4>1, <4>2, <4>3
    <3>3. CASE k \notin 1 .. N(f) /\ k # N(f) + 1
      <4>1. PICK j \in 1 .. M(f) :
              /\ j # 1 /\ j - 1 \in 1 .. M(f) /\ k # 1
              /\ k = N(f) + j /\ k - 1 = N(f) + (j - 1)
        <5> DEFINE j == k - N(f)
        <5>1. /\ j \in 1 .. M(f)
              /\ j # 1 /\ j - 1 \in 1 .. M(f) /\ k # 1
              /\ k = N(f) + j /\ k - 1 = N(f) + (j - 1)
          BY <1>5, <3>3
        <5> QED BY <5>1
      <4> QED BY <2>4, <4>1
    <3> QED BY <3>1, <3>2, <3>3
  <2>6. record'[f] = IF log'[f] = << >> THEN Null ELSE changes'[log'[f][Len(log'[f])]].new
    <3>1. /\ Len(log'[f]) = N(f) + M(f)
          /\ log'[f] = << >> <=> N(f) = 0 /\ M(f) = 0
      BY <1>5
    <3>2. CASE order[f] = << >>
      <4>1. Len(log'[f]) = N(f) /\ (log'[f] = << >> <=> log[f] = << >>)
        BY <1>5, <3>1, <3>2
      <4>2. log[f] # << >> => N(f) \in 1 .. N(f)
        BY <1>5
      <4> QED BY <1>10, <2>1, <2>3, <3>2, <4>1, <4>2
    <3>3. CASE order[f] # << >>
      <4>1. M(f) \in 1 .. M(f) /\ log'[f] # << >>
        BY <1>5, <3>1, <3>3
      <4> QED BY <1>10, <2>4, <3>1, <3>3, <4>1
    <3> QED BY <3>2, <3>3
  <2> QED BY <1>5, <2>5, <2>6 DEF Last
<1> QED BY <1>6, <1>8, <1>9, <1>11, <1>12, <1>13 DEF IInv

----------------------------------------------------------------------------
(* The steps together.  *)

\* An action on the record or on its changes; a set of changes is handled by somebody
\* who may validate all of them.
Buttons(u, S) == /\ S \subseteq Ids /\ \A i \in S : MayValidate(u, i)
                 /\ Apply(u, S) \/ CancelSet(u, S)

LEMMA Steps ==
  ASSUME Next
  PROVE  \/ Tick
         \/ \E u \in Users, vals \in Vals, source \in Sources :
              AddChangeset(u, vals, source) /\ exists' = TRUE
         \/ \E u \in Users : \E S : Buttons(u, S)
<1>1. ASSUME NEW w \in Writers, NEW vals \in Vals,
             Create(w[1], vals, w[2]) \/ Write(w[1], vals, w[2])
      PROVE  \E u \in Users, source \in Sources :
               AddChangeset(u, vals, source) /\ exists' = TRUE
  <2>1. w[1] \in Users /\ w[2] \in Sources
    BY ChangesetAssumption
  <2>2. AddChangeset(w[1], vals, w[2]) /\ exists' = TRUE
    BY <1>1 DEF Create, Write
  <2> QED BY <2>1, <2>2
<1>2. ASSUME NEW u \in Users, NEW S \in (SUBSET Ids) \ {{}},
             CancelChanges(u, S) \/ ApplyChanges(u, S)
      PROVE  Buttons(u, S)
  BY <1>2 DEF CancelChanges, ApplyChanges, CanValidate, Buttons
<1>3. ASSUME NEW u \in Users, NEW c \in 1 .. Len(csets),
             ApplyChangeset(u, c) \/ CancelChangeset(u, c)
      PROVE  Buttons(u, Of(c))
  <2>1. Of(c) \subseteq Ids
    BY DEF Of
  <2> QED BY <1>3, <2>1 DEF ApplyChangeset, CancelChangeset, CanValidate, Buttons
<1> QED BY <1>1, <1>2, <1>3 DEF Next

\* The changes of an empty history, and the empty history of a field.
LEMMA InitInv ==
  ASSUME Init PROVE IInv
<1>1. changes = << >> /\ csets = << >> /\ Len(changes) = 0 /\ Ids = {}
  BY DEF Init, Ids
<1>2. TypeOK
  <2>1. /\ exists \in BOOLEAN /\ now \in 0 .. MaxDate
        /\ record \in [Fields -> Content]
    <3>1. 0 \in 0 .. MaxDate /\ Null \in Content
      BY ChangesetAssumption DEF Content
    <3>2. [f \in Fields |-> Null] \in [Fields -> Content]
      BY <3>1
    <3> QED BY <3>1, <3>2 DEF Init
  <2>2. log \in [Fields -> Seq(Ids)]
    <3>1. << >> \in Seq(Ids)
      OBVIOUS
    <3> QED BY <3>1 DEF Init
  <2>3. csets \in Seq([author : Users, date : 0 .. now]) /\ DOMAIN csets = {}
    BY <1>1
  <2>4. changes \in Seq(ChangeType)
    BY <1>1
  <2> QED BY <1>1, <2>1, <2>2, <2>3, <2>4, ChangesetAssumption DEF TypeOK
<1>3. \A f \in Fields : log[f] = << >> /\ Len(log[f]) = 0 /\ DOMAIN log[f] = {} /\ record[f] = Null
  BY DEF Init
<1>4. LogDone /\ OnlyApprovedValues /\ AuditChain
  BY <1>1, <1>3 DEF LogDone, OnlyApprovedValues, AuditChain
<1>5. DraftsToValidate /\ DecidedByAnother
  BY <1>1 DEF DraftsToValidate, DecidedByAnother
<1> QED BY <1>2, <1>4, <1>5 DEF IInv

LEMMA NextInv ==
  ASSUME IInv, [Next]_vars PROVE IInv'
<1>1. CASE Tick
  <2>1. /\ exists' = exists /\ record' = record /\ csets' = csets /\ changes' = changes /\ log' = log
        /\ now' \in 0 .. MaxDate /\ now \in Nat /\ now' = now + 1
    BY <1>1, ChangesetAssumption DEF Tick, IInv, TypeOK
  <2>2. Ids' = Ids /\ \A c : Of(c)' = Of(c)
    BY <2>1 DEF Ids, Of
  <2>3. csets' \in Seq([author : Users, date : 0 .. now'])
    <3>1. [author : Users, date : 0 .. now] \subseteq [author : Users, date : 0 .. now']
      BY <2>1
    <3>2. csets \in Seq([author : Users, date : 0 .. now])
      BY DEF IInv, TypeOK
    <3>3. csets \in Seq([author : Users, date : 0 .. now'])
      <4> DEFINE Old == [author : Users, date : 0 .. now]
                 New == [author : Users, date : 0 .. now']
      <4>1. csets \in Seq(Old) /\ Old \subseteq New
        BY <3>1, <3>2
      <4> HIDE DEF Old, New
      <4>2. csets \in Seq(New)
        BY <4>1
      <4> QED BY <4>2 DEF New
    <3> QED BY <2>1, <3>3
  <2>4. TypeOK'
    BY <2>1, <2>2, <2>3 DEF IInv, TypeOK
  <2>5. (DraftsToValidate /\ LogDone /\ OnlyApprovedValues /\ DecidedByAnother /\ AuditChain)'
    BY <2>1, <2>2 DEF IInv, DraftsToValidate, Draft, LogDone, OnlyApprovedValues,
                      DecidedByAnother, AuditChain
  <2> QED BY <2>4, <2>5 DEF IInv
<1>2. CASE \E u \in Users, vals \in Vals, source \in Sources :
             AddChangeset(u, vals, source) /\ exists' = TRUE
  BY <1>2, AddedInv
<1>3. CASE \E u \in Users : \E S : Buttons(u, S)
  BY <1>3, AppliedInv, CancelledInv DEF Buttons
<1>4. CASE UNCHANGED vars
  BY <1>4 DEF vars, IInv, TypeOK, Ids, Of, DraftsToValidate, Draft, LogDone, OnlyApprovedValues,
              DecidedByAnother, AuditChain
<1> QED BY <1>1, <1>2, <1>3, <1>4, Steps

THEOREM Invariance == Spec => []IInv
<1>1. Init => IInv
  BY InitInv
<1>2. IInv /\ [Next]_vars => IInv'
  BY NextInv
<1> QED BY <1>1, <1>2, PTL DEF Spec

----------------------------------------------------------------------------
(* Theorems *)

\* The record, the changesets and their changes are well formed, and no changeset is empty.
THEOREM TypeCorrect == Spec => []TypeOK
<1>1. IInv => TypeOK
  BY DEF IInv
<1> QED BY <1>1, Invariance, PTL

\* A field with a rule for every source holds nothing but values that were approved,
\* whoever writes from wherever and whichever changes are applied together.
THEOREM ApprovedCorrect == Spec => []OnlyApprovedValues
<1>1. IInv => OnlyApprovedValues
  BY DEF IInv
<1> QED BY <1>1, Invariance, PTL

\* Nobody decides on his own change when its rule forbids it, with no button.
THEOREM FourEyesCorrect == Spec => []DecidedByAnother
<1>1. IInv => DecidedByAnother
  BY DEF IInv
<1> QED BY <1>1, Invariance, PTL

\* Each applied change has recorded the very value it replaced, back to the empty one, in
\* whichever order the changes of a call are applied.
THEOREM ChainCorrect == Spec => []AuditChain
<1>1. IInv => AuditChain
  BY DEF IInv
<1> QED BY <1>1, Invariance, PTL

\* A closed change stays as it was closed.
THEOREM ClosedCorrect == Spec => ClosedForever
<1> DEFINE Kept == \A i \in Ids : ~ Draft(i) =>
                     /\ changes'[i].state = changes[i].state
                     /\ changes[i].state = "done" => changes'[i] = changes[i]
<1>1. ASSUME IInv, [Next]_vars PROVE [Kept]_vars
  <2>1. CASE Tick \/ UNCHANGED vars
    BY <2>1 DEF Tick, vars
  <2>2. CASE \E u \in Users, vals \in Vals, source \in Sources :
               AddChangeset(u, vals, source) /\ exists' = TRUE
    <3>1. PICK n \in Nat : n = Len(changes)
      BY <1>1 DEF IInv, TypeOK
    <3>2. \A i \in 1 .. n : changes'[i] = changes[i]
      BY <1>1, <2>2, <3>1, Added DEF IInv
    <3> QED BY <3>1, <3>2 DEF Ids
  <2>3. ASSUME NEW u \in Users, NEW S, S \subseteq Ids, Apply(u, S)
        PROVE  Kept
    <3>1. PICK open : open = {i \in S : Draft(i)}
      OBVIOUS
    <3>2. PICK order : Closing(order, u, open)
      BY <1>1, <2>3, <3>1, Applied
    <3> QED BY <3>1, <3>2 DEF Closing, Finished
  <2>4. ASSUME NEW u \in Users, NEW S, S \subseteq Ids, CancelSet(u, S)
        PROVE  Kept
    <3> SUFFICES ASSUME NEW i \in Ids, ~ Draft(i)
                 PROVE  /\ changes'[i].state = changes[i].state
                        /\ changes[i].state = "done" => changes'[i] = changes[i]
      OBVIOUS
    <3>1. changes[i] \in ChangeType
      BY <1>1 DEF IInv, TypeOK, Ids
    <3>2. CASE i \in S
      <4>1. changes[i].state = "cancel"
        BY <2>4, <3>1, <3>2 DEF CancelSet, Cancellable, Draft, ChangeType
      <4>2. changes'[i].state = "cancel"
        BY <2>4, <3>1, <3>2 DEF CancelSet, ChangeType
      <4> QED BY <4>1, <4>2
    <3>3. CASE i \notin S
      BY <2>4, <3>3 DEF CancelSet
    <3> QED BY <3>2, <3>3
  <2> QED BY <1>1, <2>1, <2>2, <2>3, <2>4, Steps DEF Buttons
<1> QED BY <1>1, Invariance, PTL DEF Spec, ClosedForever

----------------------------------------------------------------------------
(* BaseException                                                              *)

(***************************************************************************)
(* The inductive invariant.  What a worker has is up to date if no signal  *)
(* waits for it and none has still to be sent: the snapshot of its request *)
(* and its cache.  A request that has looked and is not late is such a     *)
(* worker; one that has still to send its own signal has an empty cache,   *)
(* so the signals it misses by sending it do not matter.                   *)
(***************************************************************************)
Told(w) == w \notin signalled /\ unsent = {}
ToldIsFresh ==
  \A w \in Workers : Told(w) => snap[w] \in {Unset, active} /\ cache[w] \in {Unset, active}
LookedInTime == \A w \in looked : snap[w] = Unset /\ (w \notin late => Told(w))
EditorIsEmpty == \A w \in unsent : w \notin looked /\ snap[w] = Unset /\ cache[w] = Unset
ExceptionInv == ExceptionTypeOK /\ CacheFollowsRules /\ ToldIsFresh /\ LookedInTime /\ EditorIsEmpty

----------------------------------------------------------------------------
\* A request looks up sets of rules, and stores sets of rules.
LEMMA LookupType ==
  ASSUME ExceptionTypeOK, NEW w \in Workers, snap[w] # Unset, NEW v \in SUBSET ExceptionRules,
         NEW ign \in BOOLEAN
  PROVE  /\ CachedRules(w) \in SUBSET ExceptionRules
         /\ Detected(w, v, ign) \in SUBSET ExceptionRules
         /\ UpdatedExceptions(w, Detected(w, v, ign)) \in SUBSET ExceptionRules
<1>1. CachedRules(w) \in SUBSET ExceptionRules
  BY DEF ExceptionTypeOK, CachedRules
<1>2. Detected(w, v, ign) \in SUBSET ExceptionRules
  BY <1>1 DEF Detected
<1> QED BY <1>1, <1>2 DEF ExceptionTypeOK, UpdatedExceptions

\* What a look at the rules does to the exceptions of the rules it looked at.
LEMMA UpdateIsExact ==
  ASSUME CacheFollowsRules, NEW w \in Workers \ late, snap[w] # Unset, NEW v, NEW ign \in BOOLEAN
  PROVE  UpdatedExceptions(w, Detected(w, v, ign)) \cap snap[w]
           = IF ign THEN {} ELSE v \cap snap[w]
<1>1. CachedRules(w) = snap[w]
  BY DEF CacheFollowsRules, CachedRules
<1> QED BY <1>1 DEF UpdatedExceptions, Detected

(***************************************************************************)
(* The end of a request, whatever it did to the document.                  *)
(***************************************************************************)
LEMMA RespondInv ==
  ASSUME ExceptionInv, NEW w \in Workers, snap[w] # Unset, NEW checked \in BOOLEAN,
         Respond(w, checked),
         violated' \subseteq ExceptionRules, exceptions' \subseteq ExceptionRules,
         ignore' \in BOOLEAN, confirmed' \in BOOLEAN
  PROVE  ExceptionInv'
<1> USE DEF ExceptionInv, Respond
<1>1. CachedRules(w) \in SUBSET ExceptionRules /\ (Told(w) => CachedRules(w) = active)
  BY DEF CachedRules, ToldIsFresh, ExceptionTypeOK
<1>2. ExceptionTypeOK'
  BY <1>1 DEF ExceptionTypeOK
<1>3. /\ \A u \in Workers \ {w} : snap'[u] = snap[u] /\ cache'[u] = cache[u]
      /\ snap'[w] = Unset /\ cache'[w] \in {cache[w], CachedRules(w)}
  BY DEF ExceptionTypeOK
<1>4. CacheFollowsRules'
  BY <1>3 DEF CacheFollowsRules
<1>5. ToldIsFresh'
  BY <1>1, <1>3 DEF ToldIsFresh, Told
<1>6. LookedInTime' /\ EditorIsEmpty'
  BY <1>3 DEF LookedInTime, EditorIsEmpty, Told, ExceptionTypeOK
<1> QED BY <1>2, <1>4, <1>5, <1>6

\* The writes of the document that the constraint checks.
LEMMA CheckedWriteInv ==
  ASSUME ExceptionInv, NEW w \in Workers, snap[w] # Unset, NEW v \in SUBSET ExceptionRules,
         NEW ign \in BOOLEAN, NEW conf \in BOOLEAN, NEW raise \in BOOLEAN,
         CheckedWrite(w, v, ign, conf, raise)
  PROVE  ExceptionInv'
<1>1. exceptions' \subseteq ExceptionRules
  BY LookupType DEF CheckedWrite, ExceptionInv, ExceptionTypeOK
<1> QED BY <1>1, RespondInv DEF CheckedWrite

LEMMA LookInv ==
  ASSUME ExceptionInv, NEW w \in Workers, Look(w)
  PROVE  ExceptionInv'
<1> USE DEF ExceptionInv, Look, doc
<1>1. ExceptionTypeOK'
  BY DEF ExceptionTypeOK
<1>2. /\ \A u \in Workers \ {w} : cache'[u] = cache[u]
      /\ cache'[w] = IF w \in signalled THEN Unset ELSE cache[w]
  BY DEF ExceptionTypeOK
<1>3. CacheFollowsRules' /\ ToldIsFresh'
  BY <1>2 DEF CacheFollowsRules, ToldIsFresh, Told
<1>4. LookedInTime' /\ EditorIsEmpty'
  BY <1>2 DEF LookedInTime, EditorIsEmpty, Told, ExceptionTypeOK
<1> QED BY <1>1, <1>3, <1>4

LEMMA BeginInv ==
  ASSUME ExceptionInv, NEW w \in Workers, Begin(w)
  PROVE  ExceptionInv'
<1> USE DEF ExceptionInv, Begin, doc
<1>1. ExceptionTypeOK'
  BY DEF ExceptionTypeOK
<1>2. snap'[w] = active /\ \A u \in Workers \ {w} : snap'[u] = snap[u]
  BY DEF ExceptionTypeOK
<1>3. w \notin late => cache[w] \in {Unset, active}
  BY DEF LookedInTime, ToldIsFresh
<1>4. CacheFollowsRules' /\ ToldIsFresh'
  BY <1>2, <1>3 DEF CacheFollowsRules, ToldIsFresh, Told
<1>5. LookedInTime' /\ EditorIsEmpty'
  BY <1>2 DEF LookedInTime, EditorIsEmpty, Told, ExceptionTypeOK
<1> QED BY <1>1, <1>4, <1>5

LEMMA EditRulesInv ==
  ASSUME ExceptionInv, NEW w \in Workers, NEW rs \in SUBSET ExceptionRules, EditRules(w, rs)
  PROVE  ExceptionInv'
<1> USE DEF ExceptionInv, EditRules, Switched, doc
<1>1. ExceptionTypeOK'
  BY DEF ExceptionTypeOK
<1>2. /\ \A u \in Workers \ {w} : snap'[u] = snap[u] /\ cache'[u] = cache[u]
      /\ snap'[w] = Unset /\ cache'[w] = Unset /\ w \in unsent' /\ w \notin looked
  BY DEF ExceptionTypeOK, LookedInTime
<1>3. CacheFollowsRules'
  BY <1>2 DEF CacheFollowsRules
<1>4. ToldIsFresh' /\ LookedInTime' /\ EditorIsEmpty'
  BY <1>2 DEF ToldIsFresh, Told, LookedInTime, EditorIsEmpty, ExceptionTypeOK
<1> QED BY <1>1, <1>3, <1>4

\* The worker that signals has nothing in its cache; nobody else was told of everything.
LEMMA SignalInv ==
  ASSUME ExceptionInv, NEW w \in Workers, Signal(w)
  PROVE  ExceptionInv'
<1> USE DEF ExceptionInv, Signal, doc
<1>1. ExceptionTypeOK' /\ CacheFollowsRules'
  BY DEF ExceptionTypeOK, CacheFollowsRules
<1>2. ToldIsFresh'
  BY DEF ToldIsFresh, Told, EditorIsEmpty, ExceptionTypeOK
<1>3. LookedInTime' /\ EditorIsEmpty'
  BY DEF LookedInTime, EditorIsEmpty, Told
<1> QED BY <1>1, <1>2, <1>3

\* A step of some worker, with what every worker's actions have in common.
LEMMA ExceptionStep ==
  ASSUME ExceptionInv, NEW w \in Workers,
         \/ Look(w) \/ Begin(w) \/ Signal(w)
         \/ Refused(w) \/ Detect(w) \/ Ignore(w) \/ Unignore(w) \/ BackToDraft(w)
         \/ \E raise \in BOOLEAN : Confirm(w, raise)
         \/ \E v \in SUBSET ExceptionRules : EditLines(w, v) \/ EditElsewhere(w, v)
         \/ \E rs \in SUBSET ExceptionRules : EditRules(w, rs)
  PROVE  ExceptionInv'
<1>0. /\ violated \in SUBSET ExceptionRules /\ ignore \in BOOLEAN /\ confirmed \in BOOLEAN
      /\ exceptions \subseteq ExceptionRules
  BY DEF ExceptionInv, ExceptionTypeOK
<1>1. CASE Look(w) \/ Begin(w) \/ Signal(w)
  BY <1>1, LookInv, BeginInv, SignalInv
<1>2. CASE Refused(w)
  BY <1>2, <1>0, RespondInv DEF Refused, doc
<1>3. CASE Detect(w)
  BY <1>3, <1>0, RespondInv, LookupType DEF Detect, ExceptionInv
<1>4. CASE Ignore(w)
  BY <1>4, <1>0, CheckedWriteInv DEF Ignore
<1>5. CASE Unignore(w)
  BY <1>5, <1>0, CheckedWriteInv DEF Unignore
<1>6. CASE BackToDraft(w)
  BY <1>6, <1>0, CheckedWriteInv DEF BackToDraft
<1>7. ASSUME NEW raise \in BOOLEAN, Confirm(w, raise) PROVE ExceptionInv'
  BY <1>7, <1>0, CheckedWriteInv DEF Confirm
<1>8. ASSUME NEW v \in SUBSET ExceptionRules, EditLines(w, v) PROVE ExceptionInv'
  BY <1>8, <1>0, CheckedWriteInv DEF EditLines
<1>9. ASSUME NEW v \in SUBSET ExceptionRules, EditElsewhere(w, v) PROVE ExceptionInv'
  BY <1>9, <1>0, RespondInv DEF EditElsewhere
<1>10. ASSUME NEW rs \in SUBSET ExceptionRules, EditRules(w, rs) PROVE ExceptionInv'
  BY <1>10, EditRulesInv
<1> QED BY <1>1, <1>2, <1>3, <1>4, <1>5, <1>6, <1>7, <1>8, <1>9, <1>10

THEOREM ExceptionInvariance == ExceptionSpec => []ExceptionInv
<1>1. ExceptionInit => ExceptionInv
  BY DEF ExceptionInit, ExceptionInv, ExceptionTypeOK, CacheFollowsRules, ToldIsFresh,
     LookedInTime, EditorIsEmpty
<1>2. ExceptionInv /\ [ExceptionNext]_exceptionVars => ExceptionInv'
  <2> SUFFICES ASSUME ExceptionInv, [ExceptionNext]_exceptionVars PROVE ExceptionInv'
    OBVIOUS
  <2>1. CASE UNCHANGED exceptionVars
    BY <2>1 DEF ExceptionInv, ExceptionTypeOK, CacheFollowsRules, ToldIsFresh, LookedInTime,
       EditorIsEmpty, Told, exceptionVars
  <2> QED BY <2>1, ExceptionStep DEF ExceptionNext
<1> QED BY <1>1, <1>2, PTL DEF ExceptionSpec

----------------------------------------------------------------------------
\* Rules, document and caches are what the models declare.
THEOREM ExceptionTypeCorrect == ExceptionSpec => []ExceptionTypeOK
BY ExceptionInvariance, PTL DEF ExceptionInv

\* A request that is not late evaluates the rules of its own snapshot, whatever the
\* other workers edit meanwhile: clearing the cache of the worker that edits, and the
\* signal to the others (_get_rules_by_domain, clear_cache), are enough.
THEOREM CacheCorrect == ExceptionSpec => []CacheFollowsRules
BY ExceptionInvariance, PTL DEF ExceptionInv

\* A request that is not late and changes the stored exceptions leaves exactly the present ones
\* of the rules it evaluated, and none on a document that is ignored
\* (detect_exceptions).
THEOREM StoredCorrect == ExceptionSpec => StoredIsCurrent
<1> DEFINE Exact == \A w \in Workers \ late :
             snap[w] # Unset /\ snap'[w] = Unset /\ exceptions' # exceptions =>
               exceptions' \cap snap[w] = IF ignore' THEN {} ELSE violated' \cap snap[w]
<1>1. ASSUME ExceptionInv, [ExceptionNext]_exceptionVars PROVE [Exact]_exceptionVars
  <2> SUFFICES ASSUME NEW w \in Workers \ late, snap[w] # Unset, snap'[w] = Unset,
                      exceptions' # exceptions
               PROVE  exceptions' \cap snap[w] = IF ignore' THEN {} ELSE violated' \cap snap[w]
    OBVIOUS
  <2>0. ExceptionTypeOK /\ CacheFollowsRules
    BY <1>1 DEF ExceptionInv
  <2>1. PICK u \in Workers :
           \/ Detect(u) \/ Ignore(u) \/ Unignore(u) \/ BackToDraft(u)
           \/ \E raise \in BOOLEAN : Confirm(u, raise)
           \/ \E v \in SUBSET ExceptionRules : EditLines(u, v)
    BY <1>1 DEF ExceptionNext, exceptionVars, Look, Begin, Signal, Refused,
       EditElsewhere, EditRules, Switched, doc
  <2>2. snap' = [snap EXCEPT ![u] = Unset] /\ snap[u] # Unset
    BY <2>1 DEF Detect, Ignore, Unignore, BackToDraft, Confirm, EditLines, CheckedWrite, Respond
  <2>3. w = u
    BY <2>0, <2>2 DEF ExceptionTypeOK
  <2>4. exceptions' = UpdatedExceptions(w, Detected(w, violated', ignore')) /\ ignore' \in BOOLEAN
    BY <2>0, <2>1, <2>3 DEF ExceptionTypeOK, Detect, Ignore, Unignore, BackToDraft, Confirm,
       EditLines,
       CheckedWrite
  <2> QED BY <2>0, <2>3, <2>4, UpdateIsExact
<1> QED BY <1>1, ExceptionInvariance, PTL DEF ExceptionSpec, StoredIsCurrent

============================================================================
