--------------------------- MODULE MCMaintenance ---------------------------
(* Constants of Maintenance for TLC.                                          *)
EXTENDS Maintenance, TLC

CONSTANTS o1, o2, ann, bob, carl, here, l1, l2, s1,
          base, child, addon, t1, t2, rel, name, extra, calc,
          hq, far, adm, price, account, obsolete, low, high

(* Mailbox: the first mail has the address of one of the two objects, the     *)
(* others only their domain.                                                  *)
TwoAddresses == o1 :> <<ann, here>> @@ o2 :> <<bob, here>>
ThreeMails == <<{<<ann, here>>}, {<<carl, here>>}, {<<carl, here>>}>>
Setting == [algorithm |-> "email_exact", match_first |-> FALSE, seen |-> "matching",
            delete_matching |-> TRUE, flag_nonmatching |-> TRUE, archive |-> FALSE,
            unseen_only |-> TRUE, last_day_only |-> FALSE, cleanup |-> TRUE, move |-> FALSE,
            active |-> TRUE, mails |-> 2]
FourSettings ==
            {Setting,
             [Setting EXCEPT !.algorithm = "email_domain", !.match_first = TRUE,
                             !.seen = "all", !.delete_matching = FALSE,
                             !.archive = TRUE, !.move = TRUE],
             [Setting EXCEPT !.active = FALSE, !.move = TRUE, !.mails = 3],
             [Setting EXCEPT !.algorithm = "odoo_standard", !.seen = "on_fetch",
                             !.delete_matching = FALSE, !.unseen_only = FALSE,
                             !.last_day_only = TRUE, !.cleanup = FALSE]}

(* AutoBackup                                                                 *)
OneDay == l1 :> 1 @@ l2 :> 1 @@ s1 :> 1

(* DatabaseCleanup: two models share a table.                                 *)
ChildNeedsBase == base :> {} @@ child :> {base} @@ addon :> {}
SharedTable == base :> t1 @@ child :> t1 @@ addon :> t2
StoredFields == {<<base, name>>, <<child, name>>, <<child, extra>>, <<addon, name>>}
ComputedField == {<<addon, calc>>}
RetiredField == {<<addon, name>>}
OneRelation == base :> {} @@ child :> {} @@ addon :> {rel}
ForeignKeys == {<<rel, t1>>, <<rel, t2>>, <<t2, t1>>}

(* PropertyPurge: two fields, the values of one of them in full, and a field  *)
(* that is gone.                                                              *)
PropertyRow(f, r, c, x) == [field |-> f, record |-> r, company |-> c, value |-> x]
PropertyRows ==
  {PropertyRow(price, r, c, x) :
     r \in {General, OneRecord}, c \in {General} \cup Companies, x \in {Nothing, low, high}}
  \cup {PropertyRow(account, r, General, low) : r \in {General, OneRecord}}
  \cup {PropertyRow(obsolete, General, General, Unknown)}

(* ImportOdoo: people, one of them mapped, and the companies they link to.    *)
ImportOrder == <<ann, bob, adm, hq>>
Links == ann :> hq @@ bob :> hq @@ adm :> far @@ hq :> adm @@ far :> far
OneMapping == adm :> 1

(* UpgradeAnalysis: a field in one or two modules, one of them renamed, and   *)
(* two models that become one.                                                *)
Shape(type, stored, required, isfunction) ==
  [type |-> type, stored |-> stored, required |-> required, isfunction |-> isfunction]
FieldShapes ==
          {Shape("char", "stored", "", ""), Shape("integer", "stored", "", ""),
           Shape("char", "stored", "required", ""), Shape("char", "", "", "function"),
           Shape("char", "stored", "", "function")}
Case(modules, keys) == [old |-> modules, new |-> modules, keys |-> keys,
                        modules |-> <<>>, renamed |-> <<>>, merged |-> <<>>]
OrderName == <<"order", "name">>
RequestName == <<"request", "name">>
AnalysisCases ==
  {Case(<<"sale", "stock">>, {OrderName}),
   Case(<<"sale">>, {OrderName, <<"order", "id">>}),
   [Case(<<"sale", "depot">>, {OrderName}) EXCEPT
       !.new = <<"sale", "stock">>, !.modules = "depot" :> "stock"],
   [Case(<<"sale">>, {OrderName, RequestName}) EXCEPT !.renamed = "request" :> "order"],
   [Case(<<"sale">>, {OrderName, RequestName}) EXCEPT !.merged = "request" :> "order"]}

(* UpgradeData: a renamed module, one with the records of another, and two    *)
(* merged ones.                                                               *)
Upgrade(remote, local, keys) ==
  [remote |-> remote, local |-> local, keys |-> keys, fields |-> {"name"},
   kept |-> {"name"}, size |-> 3]
UpgradeCases ==
  {[Upgrade(<<"depot">>, "stock", {<<TRUE, "x">>}) EXCEPT !.fields = {"name", "old"}],
   Upgrade(<<"stock">>, "stock", {<<TRUE, "x">>, <<FALSE, "x">>}),
   [Upgrade(<<"stock">>, "stock", {<<TRUE, "x">>}) EXCEPT !.size = 4],
   Upgrade(<<"stock", "depot">>, "stock", {<<TRUE, "x">>, <<TRUE, "y">>})}

(* ExcelTemplate: a table above a total; one with a sum and another that      *)
(* follows it; two that make room; two with a fixed place.                    *)
ThreeLines == {[a |-> "1", b |-> "x"], [a |-> "2.0", b |-> Blank], [a |-> Blank, b |-> Blank]}
NumberRead == "2.0" :> "2"
Cell(col, row, field) == [col |-> col, row |-> row, field |-> field, sum |-> FALSE]
Section(table, row) ==
  [table |-> table, cont |-> FALSE, extend |-> FALSE, keep |-> FALSE, max |-> 0,
   cells |-> <<Cell("A", row, "a"), Cell("B", row, "b")>>]
Extending(table, row) == [Section(table, row) EXCEPT !.extend = TRUE]
Titles == <<"A", 2>> :> "title a" @@ <<"B", 2>> :> "title b"
TemplateOf(file, out, in) ==
  [file |-> file, head |-> <<"B", 1>>, export |-> out, import |-> in]
Short == [Section("order", 3) EXCEPT !.max = 2]
FourTemplates ==
  {TemplateOf(Titles @@ <<"A", 5>> :> "total", <<Extending("order", 3)>>,
              <<Section("order", 3)>>),
   TemplateOf(Titles, <<[Section("order", 3) EXCEPT !.cells[2].sum = TRUE],
                        [Section("notes", 3) EXCEPT !.cont = TRUE]>>, <<>>),
   TemplateOf(Titles @@ <<"A", 5>> :> "total" @@ <<"A", 6>> :> "title c"
                @@ <<"A", 9>> :> "total c",
              <<Extending("notes", 7), Extending("order", 3)>>,
              <<[Section("order", 3) EXCEPT !.keep = TRUE]>>),
   TemplateOf(Titles @@ <<"A", 5>> :> "title c", <<Short, Section("notes", 6)>>,
              <<Short, Section("notes", 6)>>)}

(* The processes that fetch are alike.                                        *)
FetcherSymmetry == Permutations(Fetchers)

(* Two models share a table here, in the way that the proofs ask for.         *)
ASSUME InstanceFits == DC!TablesFit

============================================================================
