----------------------------- MODULE UpgradeData ----------------------------
(* upgrade_analysis: what has changed in the data files of a module between *)
(* two versions, of which it may have got another name or been merged.  The *)
(* XML ids that loading has met are compared; and for the records that an   *)
(* update leaves alone (noupdate) a file is written that the migration      *)
(* script of the module loads.                                              *)
EXTENDS Naturals, Sequences, FiniteSets, SequencesExt, Functions

CONSTANTS
    Upgrades,   \* what to look at, see Assumption
    Views,      \* the names of views
    Values,     \* what the files may say of a field
    UserValue,  \* what a user says
    NoText       \* the value of a field of which nothing is said

Other == "base"     \* a module whose records the analysed one changes

(* An upgrade: the old modules, in order, and the one they are now; the     *)
(* records, of the module itself (own) or of another one which it changes;  *)
(* their fields in the old version, and those they still have; and a bound  *)
(* on the <record> elements in the files.                                   *)
Assumption ==
    /\ \A u \in Upgrades :
          /\ DOMAIN u = {"remote", "local", "keys", "fields", "kept", "size"}
          /\ u.remote \in Seq(Range(u.remote)) /\ IsInjective(u.remote) /\ u.remote # <<>>
          /\ Other \notin Range(u.remote) \cup {u.local}
          /\ u.keys \subseteq BOOLEAN \X {k[2] : k \in u.keys}
          /\ u.kept \subseteq u.fields
          /\ u.size \in Nat
    /\ {NoText, UserValue} \cap Values = {}

VARIABLES
    udCase,     \* the modules
    udOld,      \* for each old module, the records of its files in order
    udNew,      \* the records of the files of the new module
    udPhase,    \* "writing", "installed", "analysed", "updated" or "upgraded"
    udDb,       \* the old database: the records with values and ir.model.data.noupdate
    udEdited,   \* history: the <<id, field>> a user has edited
    udReport,   \* the lines of the analysis
    udDiff      \* noupdate_changes.xml: for a key, the fields it gives

udVars == <<udCase, udOld, udNew, udPhase, udDb, udEdited, udReport, udDiff>>

RemoteModules == Range(udCase.remote)
ModuleMap(m) == IF m \in RemoteModules THEN udCase.local ELSE m
Fields == udCase.fields
KeptFields == udCase.kept
XmlNames == {k[2] : k \in udCase.keys}

(* A <record> element, in a noupdate block or not, with what it gives.  A   *)
(* block says itself what it is: no <data> inherits the flag of an <odoo>   *)
(* around it, which Odoo respects and _process_data_node does not.          *)
Nodes(fields) ==
    {[own |-> k[1], name |-> k[2], noupdate |-> n, fields |-> f] :
        k \in udCase.keys, n \in BOOLEAN, f \in UNION {[S -> Values] : S \in SUBSET fields}}

Id(m, node) == <<IF node.own THEN m ELSE Other, node.name>>

-----------------------------------------------------------------------------
(* Odoo loads data files                                                    *)

Complete(fields) == [f \in Fields |-> IF f \in DOMAIN fields THEN fields[f] ELSE NoText]
Changed(values, fields) ==
    [f \in DOMAIN values |-> IF f \in DOMAIN fields THEN fields[f] ELSE values[f]]

(* An installation writes each record, and keeps the flag of the first.     *)
InstallNode(db, id, node) ==
    IF id \in DOMAIN db
    THEN [db EXCEPT ![id].values = Changed(@, node.fields)]
    ELSE [x \in DOMAIN db \cup {id} |->
             IF x \in DOMAIN db THEN db[x]
             ELSE [values |-> Complete(node.fields), noupdate |-> node.noupdate]]

(* An update leaves a record alone that is there, if the block or the       *)
(* record says so.                                                          *)
UpdateNode(db, id, node) ==
    IF id \in DOMAIN db /\ (node.noupdate \/ db[id].noupdate)
    THEN db ELSE InstallNode(db, id, node)

(* The records of the other module, which its own files protect.            *)
Given == [id \in {Other} \X XmlNames |-> [values |-> Complete(<<>>), noupdate |-> TRUE]]

InstallModule(db, m, nodes) ==
    FoldLeft(LAMBDA d, n : InstallNode(d, Id(m, n), n), db, nodes)
UpdateFiles(db, m, nodes) ==
    FoldLeft(LAMBDA d, n : UpdateNode(d, Id(m, n), n), db, nodes)
OldDatabase == FoldLeft(LAMBDA d, m : InstallModule(d, m, udOld[m]), Given, udCase.remote)
FreshDatabase == InstallModule(Given, udCase.local, udNew)

-----------------------------------------------------------------------------
(* The XML ids                                                              *)

(* log_xml_id: a row for each module that has loaded a record under the id; *)
(* the wizard sets noupdate from ir.model.data.                             *)
Rows(m, nodes, db) ==
    LET ids == {Id(m, nodes[i]) : i \in DOMAIN nodes}
    IN  SetToSeq({[module |-> m, prefix |-> id[1], suffix |-> id[2],
                   noupdate |-> db[id].noupdate] : id \in ids})
OldRows(db) == FoldLeft(LAMBDA rows, m : rows \o Rows(m, udOld[m], db), <<>>, udCase.remote)

(* compare_records on the fields of the XML ids.                            *)
SameModule(o, n) == ModuleMap(o.module) = n.module
SameName_Suffix(o, n) == o.suffix = n.suffix
SameName(o, n) == o.prefix = n.prefix /\ o.suffix = n.suffix
OtherPrefix(o, n) == /\ o.module = o.prefix /\ n.module = n.prefix
                     /\ o.suffix \notin Views

(* match_updates: the rows of records that belong to another module are     *)
(* left out.                                                                *)
WithoutUpdates(rows) ==
    FoldLeft(LAMBDA s, r : IF r.module = r.prefix THEN Append(s, r) ELSE s, <<>>, rows)

XmlLine(r, text, switched) ==
    [at |-> ModuleMap(r.module), id |-> <<r.prefix, r.suffix>>, text |-> text,
     switched |-> switched]

(* match, with the kind of match it looks for: each old row takes the first *)
(* new one.  A direct match is told if the flag has changed, others always. *)
Fits(kind, o, n) ==
    CASE kind = "direct"  -> SameModule(o, n) /\ SameName(o, n)
      [] kind = "moved"   -> SameName(o, n)
      [] kind = "renamed" -> o.suffix = n.suffix /\ OtherPrefix(o, n)

ToldWith(kind, o, n) ==
    LET switched == o.noupdate # n.noupdate
    IN  IF kind = "direct" THEN IF switched THEN {XmlLine(n, "", TRUE)} ELSE {}
        ELSE {XmlLine(o, "DEL", FALSE), XmlLine(n, "NEW", switched)}

MatchRow(kind, st, o) ==
    LET found == {i \in DOMAIN st.new : Fits(kind, o, st.new[i])}
        first == CHOOSE i \in found : \A k \in found : i <= k
    IN  IF found = {} THEN [st EXCEPT !.old = Append(@, o)]
        ELSE [st EXCEPT !.new = RemoveAt(@, first),
                        !.lines = @ \cup ToldWith(kind, o, st.new[first])]

MatchRows(st, kind) ==
    FoldLeft(LAMBDA s, o : MatchRow(kind, s, o), [st EXCEPT !.old = <<>>], st.old)

CompareXmlSets(old, new) ==
    LET direct == MatchRows([old |-> old, new |-> new, lines |-> {}], "direct")
        own == [old |-> WithoutUpdates(direct.old), new |-> WithoutUpdates(direct.new),
                lines |-> direct.lines]
        last == MatchRows(MatchRows(own, "moved"), "renamed")
    IN  last.lines
        \cup {XmlLine(r, "DEL", FALSE) : r \in Range(last.old)}
        \cup {XmlLine(r, "NEW", FALSE) : r \in Range(last.new)}

-----------------------------------------------------------------------------
(* The noupdate records                                                     *)

(* The name a record has in the files of its module: only others have the   *)
(* prefix of theirs.                                                        *)
Key(node) == <<node.own, node.name>>

NoRecord == [f \in {} |-> NoText]
RecordOf(d, k) ==
    IF k \in DOMAIN d.noupdate THEN d.noupdate[k]
    ELSE IF k \in DOMAIN d.update THEN d.update[k] ELSE NoRecord

(* dict.update                                                              *)
Updated(old, new) ==
    [x \in DOMAIN old \cup DOMAIN new |-> IF x \in DOMAIN new THEN new[x] ELSE old[x]]

(* _process_record_node: a record that comes again is merged with the one   *)
(* there is, wherever that is.                                              *)
ProcessRecordNode_First(d, node) ==
    IF Key(node) \in DOMAIN d.noupdate \cup DOMAIN d.update THEN d
    ELSE IF node.noupdate THEN [d EXCEPT !.noupdate = Key(node) :> node.fields @@ @]
    ELSE [d EXCEPT !.update = Key(node) :> node.fields @@ @]
ProcessRecordNode(d, node) ==
    LET k == Key(node)
        merged == [x \in {k} |-> Updated(RecordOf(d, k), node.fields)]
    IN  IF k \in DOMAIN d.noupdate \/ (k \notin DOMAIN d.update /\ node.noupdate)
        THEN [update |-> d.update, noupdate |-> Updated(d.noupdate, merged)]
        ELSE [update |-> Updated(d.update, merged), noupdate |-> d.noupdate]

ParseFiles(nodes) ==
    FoldLeft(LAMBDA d, n : ProcessRecordNode(d, n),
             [update |-> NoRecord, noupdate |-> NoRecord], nodes)

(* The files of the modules before are parsed again with those of the next. *)
AddRemote(d, m) ==
    LET files == d.files \o udOld[m]
        parsed == ParseFiles(files)
    IN  [files |-> files, update |-> Updated(d.update, parsed.update),
         noupdate |-> Updated(d.noupdate, parsed.noupdate)]
RemoteFiles ==
    FoldLeft(LAMBDA d, m : AddRemote(d, m),
             [files |-> <<>>, update |-> NoRecord, noupdate |-> NoRecord], udCase.remote)

(* _get_xml_diff: for each noupdate record, the fields of which the value   *)
(* is new or another, and without a value those that are there no more,     *)
(* unless the model does not have them either.                              *)
XmlDiff(remote, local) ==
    LET known(k) == k \in DOMAIN remote.noupdate \cup DOMAIN remote.update
        before(k) == RecordOf(remote, k)
        gone(k) == {f \in DOMAIN before(k) \ DOMAIN local[k] : f \in KeptFields}
        other(k) == {f \in DOMAIN local[k] :
                        f \in DOMAIN before(k) => before(k)[f] # local[k][f]}
        fields(k) == Updated([f \in gone(k) |-> NoText], Restrict(local[k], other(k)))
    IN  [k \in {x \in DOMAIN local : (known(x) \/ ~x[1]) /\ gone(x) \cup other(x) # {}}
            |-> fields(k)]

-----------------------------------------------------------------------------
(* The steps of an upgrade                                                  *)

Written == Len(FlattenSeq([i \in DOMAIN udCase.remote |-> udOld[udCase.remote[i]]]))

(* The developers of both versions write the files.                         *)
WriteOld(m, node) ==
    /\ udPhase = "writing" /\ m \in RemoteModules /\ udNew = <<>>
    /\ Written + 1 < udCase.size
    /\ udOld' = [udOld EXCEPT ![m] = Append(@, node)]
    /\ UNCHANGED <<udCase, udNew, udPhase, udDb, udEdited, udReport, udDiff>>

WriteNew(node) ==
    /\ udPhase = "writing" /\ Written + Len(udNew) < udCase.size
    /\ udNew' = Append(udNew, node)
    /\ UNCHANGED <<udCase, udOld, udPhase, udDb, udEdited, udReport, udDiff>>

Install ==
    /\ udPhase = "writing" /\ udNew # <<>>
    /\ udDb' = OldDatabase
    /\ udPhase' = "installed"
    /\ UNCHANGED <<udCase, udOld, udNew, udEdited, udReport, udDiff>>

(* A user of the database that is to be upgraded edits a record.            *)
Edit(id, f) ==
    /\ udPhase = "installed" /\ udEdited = {} /\ id \in DOMAIN udDb
    /\ udDb' = [udDb EXCEPT ![id].values[f] = UserValue]
    /\ udEdited' = {<<id, f>>}
    /\ UNCHANGED <<udCase, udOld, udNew, udPhase, udReport, udDiff>>

(* UpgradeAnalysis.analyze, on two fresh databases.                         *)
Analyze ==
    /\ udPhase = "installed"
    /\ udReport' = CompareXmlSets(OldRows(OldDatabase),
                                  Rows(udCase.local, udNew, FreshDatabase))
    /\ udDiff' = XmlDiff(RemoteFiles, ParseFiles(udNew).noupdate)
    /\ udPhase' = "analysed"
    /\ UNCHANGED <<udCase, udOld, udNew, udDb, udEdited>>

(* The upgrade: the records get the name of the new module (of several with *)
(* one name it has the first), and the module is updated.                   *)
Renamed(db) ==
    LET from(id) == IF id[1] = udCase.local
                    THEN {<<m, id[2]>> : m \in RemoteModules} \cap DOMAIN db
                    ELSE {id} \cap DOMAIN db
        ids == {<<ModuleMap(id[1]), id[2]>> : id \in DOMAIN db}
    IN  [id \in ids |-> db[CHOOSE x \in from(id) : TRUE]]

UpdateModule ==
    /\ udPhase = "analysed"
    /\ udDb' = UpdateFiles(Renamed(udDb), udCase.local, udNew)
    /\ udPhase' = "updated"
    /\ UNCHANGED <<udCase, udOld, udNew, udEdited, udReport, udDiff>>

(* The migration script loads noupdate_changes.xml with load_data.          *)
DiffId(k) == <<IF k[1] THEN udCase.local ELSE Other, k[2]>>
LoadDiff ==
    /\ udPhase = "updated"
    /\ udDb' = [id \in DOMAIN udDb |->
                  IF \E k \in DOMAIN udDiff : DiffId(k) = id
                  THEN [udDb[id] EXCEPT !.values =
                          Changed(@, udDiff[CHOOSE k \in DOMAIN udDiff : DiffId(k) = id])]
                  ELSE udDb[id]]
    /\ udPhase' = "upgraded"
    /\ UNCHANGED <<udCase, udOld, udNew, udEdited, udReport, udDiff>>

Init ==
    /\ udCase \in Upgrades
    /\ udOld = [m \in RemoteModules |-> <<>>]
    /\ udNew = <<>>
    /\ udPhase = "writing"
    /\ udDb = Given
    /\ udEdited = {}
    /\ udReport = {}
    /\ udDiff = <<>>

Next ==
    \/ \E m \in RemoteModules, node \in Nodes(Fields) : WriteOld(m, node)
    \/ \E node \in Nodes(KeptFields) : WriteNew(node)
    \/ Install
    \/ \E id \in DOMAIN udDb, f \in Fields : Edit(id, f)
    \/ Analyze
    \/ UpdateModule
    \/ LoadDiff

Spec == Init /\ [][Next]_udVars

-----------------------------------------------------------------------------
(* Properties                                                               *)

(* The names that only one of several merged modules gives, and the new one *)
(* does not give for the first time.                                        *)
Followed == {n \in XmlNames :
                Cardinality({m \in RemoteModules : <<m, n>> \in DOMAIN OldDatabase}) = 1}

(* Loading the file after the update brings every noupdate record that the  *)
(* old version had to what a fresh installation gives, whichever files and  *)
(* blocks say it; but what a user has edited and the developers have not    *)
(* changed stays as it was edited.  Not so records that an update did not   *)
(* leave alone and that are in blocks of both kinds now, nor those that     *)
(* none or several of the merged modules gave.                              *)
(* upgrade_analysis/models/upgrade_analysis.py:258-426.                     *)
NoupdateUpgraded ==
    LET local == ParseFiles(udNew).noupdate
        remote == RemoteFiles
        fresh == FreshDatabase
        old == OldDatabase
        oldIds(k) == {<<IF k[1] THEN m ELSE Other, k[2]>> : m \in RemoteModules} \cap DOMAIN old
        same(k, f) == LET before == RecordOf(remote, k)
                      IN  IF f \in DOMAIN local[k]
                          THEN f \in DOMAIN before /\ before[f] = local[k][f]
                          ELSE f \notin DOMAIN before
        guarded(k) == \/ \A id \in oldIds(k) : old[id].noupdate
                      \/ \A i \in DOMAIN udNew : Key(udNew[i]) = k => udNew[i].noupdate
        followed == {k \in DOMAIN local : guarded(k) /\ (k[1] => k[2] \in Followed)}
    IN  udPhase = "upgraded" =>
          \A k \in followed, f \in KeptFields :
             LET value == udDb[DiffId(k)].values[f]
                 edits == {e \in udEdited : e[1] \in oldIds(k) /\ e[2] = f}
             IN  IF edits # {} /\ same(k, f) /\ \A id \in oldIds(k) : old[id].noupdate
                 THEN value = UserValue
                 ELSE \/ value = fresh[DiffId(k)].values[f]
                      \/ same(k, f) /\ edits # {} /\ value = UserValue

(* Each XML id that a module of its own has lost or gained, or of which the *)
(* flag has changed, is in the report of the module, the others are not.    *)
(* upgrade_analysis/compare.py:355-465.                                     *)
XmlidsTold ==
    udPhase \in {"analysed", "updated", "upgraded"} =>
        LET fresh == FreshDatabase
            old == OldDatabase
            ours(db) == {id \in DOMAIN db : id[1] # Other}
            lines(id, text) == {l \in udReport : l.id = id /\ l.text = text
                                                 /\ l.at = udCase.local}
        IN  /\ \A id \in ours(old) \ ours(fresh) : lines(id, "DEL") # {}
            /\ \A id \in ours(fresh) \ ours(old) : lines(id, "NEW") # {}
            /\ \A id \in ours(old) \cap ours(fresh) :
                  old[id].noupdate # fresh[id].noupdate
                     <=> (\E l \in udReport : l.id = id)

=============================================================================
