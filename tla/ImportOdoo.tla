----------------------------- MODULE ImportOdoo -----------------------------
(***************************************************************************)
(* base_import_odoo: records of a remote database are copied one by one.   *)
(* A link to a record that is not there yet is given a dummy, an existing  *)
(* record or a new one, to be replaced when the record comes.  What was    *)
(* copied is remembered by an xmlid in the database and by an idmap in the *)
(* memory of the run, which is committed in chunks and may die.            *)
(* One model, one required link in each record.  The remote server is      *)
(* external; fields that are mapped by value or by reference, and dummies  *)
(* that need further dummies, are not modelled.                            *)
(***************************************************************************)
EXTENDS Naturals, Sequences, FiniteSets, SequencesExt, FiniteSetsExt

CONSTANTS Order,      \* remote records that are imported, in the order of their ids
          Remote,     \* all remote records
          Link,       \* remote record -> the one its field points to
          Mapped,     \* remote record -> local id, the mappings of type "fixed"
          Own,        \* local ids that were there before
          Policies,   \* of duplicates: "skip", "overwrite", "overwrite_empty"
          Chunk,      \* commit_threshold
          None,
          MaxRuns     \* bound

Assumption ==
  /\ ToSet(Order) \subseteq Remote /\ Link \in [Remote -> Remote]
  /\ DOMAIN Mapped \subseteq Remote /\ Range(Mapped) \subseteq Own
  /\ Policies \subseteq {"skip", "overwrite", "overwrite_empty"} /\ Chunk \in Nat \ {0}
  /\ Own \subseteq Nat /\ IsFiniteSet(Own) /\ None \notin Nat

VARIABLES duplicates, \* the policy of the import
          db,    \* [local: id -> [from, link], xmlid: remote record -> id]
          saved, \* db as it was committed last
          mem,   \* [idmap, dummies: remote record -> id, instances]
          todo,  \* records to import; None while no run is on
          runs, broken   \* history: runs that began; one was interrupted

vars == <<duplicates, db, saved, mem, todo, runs, broken>>

Put(f, k, v) == [x \in (DOMAIN f) \cup {k} |-> IF x = k THEN v ELSE f[x]]
Drop(f, k) == [x \in DOMAIN f \ {k} |-> f[x]]
Empty == [x \in {} |-> None]
NewMem == [idmap |-> Empty, dummies |-> Empty, instances |-> <<>>]
NewId(d) == Max(DOMAIN d.local \cup {0}) + 1

----------------------------------------------------------------------------
(* The steps of _run_import_model; a step maps s = [db, mem] to the next one. *)

\* A mutant: a record without a link, as a dummy is, is not worth an xmlid.
WithXmlid_NoDummy(d, r, id) ==
  IF r \in DOMAIN d.xmlid \/ d.local[id].link = None THEN d ELSE [d EXCEPT !.xmlid = Put(@, r, id)]

\* _create_record_xmlid
WithXmlid(d, r, id) == IF r \in DOMAIN d.xmlid THEN d ELSE [d EXCEPT !.xmlid = Put(@, r, id)]

\* overwrite_empty leaves a link that is there.
Linked(l, id, link) ==
  [l EXCEPT ![id].link = IF duplicates = "overwrite_empty" /\ @ # None THEN @ ELSE link]

\* _create_record writes on the record of the xmlid, or makes one.
CreateRecord(s, r, link) ==
  IF r \in DOMAIN s.db.xmlid
    THEN LET id == s.db.xmlid[r]
         IN [db |-> [s.db EXCEPT !.local = Linked(@, id, link)],
             mem |-> [s.mem EXCEPT !.idmap = Put(@, r, id)]]
    ELSE LET id == NewId(s.db)
             made == [s.db EXCEPT !.local = Put(@, id, [from |-> r, link |-> link])]
         IN [db |-> WithXmlid(made, r, id), mem |-> [s.mem EXCEPT !.idmap = Put(@, r, id)]]

\* _run_import_get_record up to the dummies: the idmap, a dummy of before, a mapping,
\* an xmlid.  The mapping and the xmlid enter the idmap, a dummy is noted once more.
Known(s, r) ==
  IF r \in DOMAIN s.mem.idmap THEN s.mem.idmap[r]
  ELSE IF r \in DOMAIN s.mem.dummies THEN s.mem.dummies[r]
  ELSE IF r \in DOMAIN Mapped THEN Mapped[r]
  ELSE IF r \in DOMAIN s.db.xmlid THEN s.db.xmlid[r] ELSE None

Noted(s, r, by) ==
  LET id == Known(s, r)
  IN IF id = None \/ r \in DOMAIN s.mem.idmap THEN s
     ELSE IF r \in DOMAIN s.mem.dummies
       THEN [s EXCEPT !.mem.instances = Append(@, [by |-> by, dummy |-> id])]
       ELSE [s EXCEPT !.mem.idmap = Put(@, r, id)]

\* _run_import_create_dummy: a record that is no dummy and not mapped, or a new one.
Usable(s) == DOMAIN s.db.local \ (Range(s.mem.dummies) \cup Range(Mapped))

MakeDummy(s, r, by) ==
  LET use == Usable(s) # {} /\ r \in ToSet(Order)
      made == IF use THEN s ELSE CreateRecord(s, r, None)
      id == IF use THEN Min(Usable(s)) ELSE made.mem.idmap[r]
  IN [made EXCEPT !.mem = [idmap |-> IF use THEN @.idmap ELSE Drop(@.idmap, r),
                           dummies |-> Put(@.dummies, r, id),
                           instances |-> Append(@.instances, [by |-> by, dummy |-> id])]]

\* _run_import_map_values: the link of a record.
MapLink(s, r) == IF Known(s, Link[r]) = None THEN MakeDummy(s, Link[r], r) ELSE Noted(s, Link[r], r)

\* _run_import_model_cleanup_dummies removes from the list it loops over, so the
\* instance that follows a removed one is not looked at.
Scan(m, dummy) ==
  LET Turn(acc, inst) ==
        IF ~acc.skip /\ inst.by \in DOMAIN m.idmap /\ inst.dummy = dummy
          THEN [acc EXCEPT !.skip = TRUE, !.by = @ \cup {m.idmap[inst.by]}]
          ELSE [acc EXCEPT !.skip = FALSE, !.kept = Append(@, inst)]
  IN FoldLeft(Turn, [skip |-> FALSE, by |-> {}, kept |-> <<>>], m.instances)

Replace(s, id, dummy) ==
  LET all == Scan(s.mem, dummy)
      old == s.db.local
  IN [db |-> [s.db EXCEPT !.local = [x \in DOMAIN old |->
                IF x \in all.by THEN [old[x] EXCEPT !.link = id] ELSE old[x]]],
      mem |-> [s.mem EXCEPT !.instances = all.kept]]

CleanupDummies(s, r) ==
  IF r \notin DOMAIN s.mem.dummies THEN s
  ELSE [Replace(s, s.mem.idmap[r], s.mem.dummies[r]) EXCEPT !.mem.dummies = Drop(@, r)]

ImportOne(s, r) ==
  LET found == Noted(s, r, None)
      known == r \in DOMAIN found.mem.idmap
      named == IF known THEN [found EXCEPT !.db = WithXmlid(@, r, found.mem.idmap[r])] ELSE found
      linked == MapLink(named, r)
  IN IF known /\ duplicates = "skip" THEN named
     ELSE CleanupDummies(CreateRecord(linked, r, Known(linked, Link[r])), r)

----------------------------------------------------------------------------
(* _run_import *)

Start ==
  /\ todo = None /\ runs < MaxRuns
  /\ todo' = Order /\ mem' = NewMem /\ runs' = runs + 1
  /\ UNCHANGED <<duplicates, db, saved, broken>>

Imported == Len(Order) - Len(todo)

ImportRecord ==
  /\ todo # None /\ todo # <<>>
  /\ LET s == ImportOne([db |-> db, mem |-> mem], Head(todo))
     IN /\ db' = s.db /\ mem' = s.mem
        /\ saved' = IF (Imported + 1) % Chunk = 0 \/ Len(todo) = 1 THEN s.db ELSE saved
  /\ todo' = Tail(todo)
  /\ UNCHANGED <<duplicates, runs, broken>>

\* An exception or the death of the process: back to the last chunk.
Interrupt ==
  /\ todo # None
  /\ db' = saved /\ todo' = None /\ broken' = TRUE
  /\ mem' = NewMem
  /\ UNCHANGED <<duplicates, saved, runs>>

End ==
  /\ todo = <<>>
  /\ todo' = None /\ mem' = NewMem
  /\ UNCHANGED <<duplicates, db, saved, runs, broken>>

Init ==
  /\ duplicates \in Policies
  /\ db = [local |-> [id \in Own |-> [from |-> None, link |-> None]], xmlid |-> Empty]
  /\ saved = db /\ mem = NewMem
  /\ todo = None /\ runs = 0 /\ broken = FALSE

Next == Start \/ ImportRecord \/ Interrupt \/ End

Spec == Init /\ [][Next]_vars

----------------------------------------------------------------------------
(* Properties *)

\* However often runs are interrupted and repeated, a remote record has one local record
\* at most, and none when a mapping names one: "running an import a second time won't
\* duplicate data" (readme/USAGE.rst).  import_odoo_database.py:225-305, 328-403.
ImportedOnce ==
  \A i, j \in DOMAIN db.local :
    db.local[i].from # None /\ db.local[i].from = db.local[j].from
      => i = j /\ db.local[i].from \notin DOMAIN Mapped

\* After a run that nothing interrupted the links of imported records point to the local
\* records of their targets: the test says "check that links are correctly mapped".
LinksMapped ==
  todo = <<>> /\ ~broken =>
    \A r \in ToSet(Order) \ DOMAIN Mapped : Link[r] \in DOMAIN db.xmlid =>
      db.local[db.xmlid[r]].link = db.xmlid[Link[r]]

============================================================================
