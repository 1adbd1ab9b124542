--------------------------- MODULE PropertyPurge ---------------------------
(***************************************************************************)
(* database_cleanup, the wizard of properties: a company dependent field   *)
(* has one row of ir.property per record and company that differs from the *)
(* default, which is itself a row without a record.  The wizard lists the  *)
(* rows that seem to make no difference, and deletes what is confirmed.    *)
(* Rows are numbered by their ids, and so are companies, in the order of   *)
(* search(); all rows are about the same record or about none.             *)
(***************************************************************************)
EXTENDS Naturals, FiniteSets, FiniteSetsExt

CONSTANTS Companies,   \* ids of the companies
          General,     \* no company, or no record
          OneRecord,
          Nothing,     \* the empty value
          Unknown,     \* the value of a field whose model does not exist
          Properties,  \* rows: [field, record, company, value]
          NProperties

Assumption == /\ Companies \subseteq Nat /\ General \notin Companies /\ OneRecord # General
              /\ NProperties \in Nat

VARIABLES ppWas,    \* the rows before anything was purged
          ppRows,   \* id -> row
          ppLines,  \* ids on the lines of the open wizard
          ppPartly  \* history: some lines were purged without the others

vars == <<ppWas, ppRows, ppLines, ppPartly>>

Ids == DOMAIN ppRows
Same(rows, i, j) ==
  /\ rows[i].field = rows[j].field /\ rows[i].record = rows[j].record
  /\ rows[i].company = rows[j].company

\* Odoo: a record's own row comes before the default, a company's before the general one,
\* and the first of several equal ones counts.
Effective(rows, f, c) ==
  LET of(r, k) == {i \in DOMAIN rows : /\ rows[i].field = f /\ rows[i].record = r
                                       /\ rows[i].company = k}
      value(S) == rows[Min(S)].value
  IN IF of(OneRecord, c) # {} THEN value(of(OneRecord, c))
     ELSE IF of(OneRecord, General) # {} THEN value(of(OneRecord, General))
     ELSE IF of(General, c) # {} THEN value(of(General, c))
     ELSE IF of(General, General) # {} THEN value(of(General, General))
     ELSE Nothing

----------------------------------------------------------------------------
(* find() *)

Defaults == {i \in Ids : ppRows[i].record = General}
UnknownModel == {i \in Defaults : ppRows[i].value = Unknown}
FalseDefault == {i \in Defaults : ppRows[i].value = Nothing}

\* The first default with a value is looked at, the others of its field are not.
Handled ==
  {i \in Defaults \ (UnknownModel \cup FalseDefault) :
     ~ \E j \in Defaults \ (UnknownModel \cup FalseDefault) :
         j < i /\ ppRows[j].field = ppRows[i].field}

\* A mutant: the companies of the default are not looked at.
Covered_All(i) == Companies \cup {General}

\* The companies whose rows a default may replace.  Those with a default of their own are
\* to be left out, but what is left out are the ids of the defaults.
Covered(i) ==
  IF ppRows[i].company # General THEN {ppRows[i].company}
  ELSE {General} \cup (Companies \ {j \in Defaults : /\ ppRows[j].field = ppRows[i].field
                                                     /\ ppRows[j].company # General})

Redundant ==
  {j \in Ids : \E i \in Handled \ {j} :
     /\ ppRows[j].field = ppRows[i].field /\ ppRows[j].value = ppRows[i].value
     /\ ppRows[j].company \in Covered(i)}

Duplicates == {j \in Ids : \E i \in Ids : i < j /\ Same(ppRows, i, j)}

\* get_by_record() raises for a duplicate whose model is unknown.
Find ==
  /\ ppLines = {} /\ \A i \in Duplicates : ppRows[i].value # Unknown
  /\ ppLines' = UnknownModel \cup FalseDefault \cup Redundant \cup Duplicates
  /\ ppLines' # {}
  /\ UNCHANGED <<ppWas, ppRows, ppPartly>>

Purge(S) ==
  /\ S # {}
  /\ ppRows' = [i \in Ids \ S |-> ppRows[i]]
  /\ ppLines' = ppLines \ S
  /\ ppPartly' = (ppPartly \/ S # ppLines)
  /\ UNCHANGED ppWas

Close == /\ ppLines # {} /\ ppLines' = {} /\ UNCHANGED <<ppWas, ppRows, ppPartly>>

Init ==
  /\ ppWas \in [1 .. NProperties -> Properties]
  /\ ppRows = ppWas /\ ppLines = {} /\ ppPartly = FALSE

Next == Find \/ Close \/ \E S \in SUBSET ppLines : Purge(S)

Spec == Init /\ [][Next]_vars

----------------------------------------------------------------------------
\* A general row and one of a company stand side by side.
Mixed(f) ==
  \E i, j \in DOMAIN ppWas : /\ ppWas[i].field = f /\ ppWas[j].field = f
                             /\ ppWas[i].record = ppWas[j].record
                             /\ ppWas[i].company = General /\ ppWas[j].company # General

\* Two rows about r for the same company.
Doubled(f, r) ==
  \E i, j \in DOMAIN ppWas :
     i < j /\ ppWas[i].field = f /\ ppWas[i].record = r /\ Same(ppWas, i, j)

\* No company sees another value of a record once properties were purged - unless general
\* and company rows are mixed, or a default is there twice, or some of several equal rows
\* were purged and not the others.  purge_properties.py:43-148.
EffectiveKept ==
  \A f \in {ppWas[i].field : i \in DOMAIN ppWas}, c \in Companies :
     \/ Mixed(f) \/ Doubled(f, General) \/ (Doubled(f, OneRecord) /\ ppPartly)
     \/ Effective(ppWas, f, c) = Unknown
     \/ Effective(ppRows, f, c) = Effective(ppWas, f, c)

============================================================================
