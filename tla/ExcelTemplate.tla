---------------------------- MODULE ExcelTemplate ---------------------------
(* excel_import_export: a document and its lines are written into the sheet *)
(* of a template, and a sheet is read back into a document.  What goes      *)
(* where is said by an instruction, which is kept as rows of the template   *)
(* and put together again when it is used.                                  *)
EXTENDS Integers, Sequences, FiniteSets, SequencesExt, FiniteSetsExt, Functions

CONSTANTS
    Templates,  \* the templates, see Assumption
    Tables,     \* the one2many fields of the document
    LineValues, \* the lines they may have: a function of the fields
    Number,     \* the texts that look like a number, with what is read back
    Blank,      \* a value that is "" in the file: empty, zero or false
    Heading,    \* the value in the head of the document
    MaxLines,   \* bound on the lines of a table in the beginning
    None

(* A template: the cells of its file, the cell of the head, and a section   *)
(* for each table: a name, the flags, the maximum ("[5]", or 0) and the     *)
(* cells where the columns begin, in order.                                 *)
SectionFields == {"table", "cont", "extend", "keep", "max", "cells"}
Assumption ==
    /\ \A t \in Templates :
          /\ DOMAIN t = {"file", "head", "export", "import"}
          /\ \A s \in Range(t.export) \cup Range(t.import) : DOMAIN s = SectionFields
    /\ MaxLines \in Nat

VARIABLES
    xlTemplate,  \* the template
    xlRows,      \* export_ids and import_ids, in order
    xlDocument,  \* the lines of each table of the document
    xlState,     \* its state
    xlShown,     \* history: the lines as they were exported
    xlSheet,     \* the sheet of the exported file: [cells -> values]
    xlWizard,    \* the import wizard: "closed", "open" or "done"
    xlEdits      \* how often the document was edited since

xlVars == <<xlTemplate, xlRows, xlDocument, xlState, xlShown, xlSheet, xlWizard, xlEdits>>

-----------------------------------------------------------------------------
(* The instruction of a template                                            *)

(* _compute_input_export_instruction and _compute_input_import_instruction: *)
(* a row for each section and, after it, one for each cell.                 *)
Rows(sections) ==
    FlattenSeq([i \in DOMAIN sections |->
        LET s == sections[i]
        IN  <<[type |-> "row", what |-> [s EXCEPT !.cells = <<>>]]>>
              \o [j \in DOMAIN s.cells |-> [type |-> "data", what |-> s.cells[j]]]])

(* _compute_output_instruction: a cell belongs to the section before it.    *)
Instruction(rows) ==
    FoldLeft(LAMBDA sections, r :
               IF r.type = "row" THEN Append(sections, r.what)
               ELSE [sections EXCEPT ![Len(sections)].cells = Append(@, r.what)],
             <<>>, rows)

-----------------------------------------------------------------------------
(* Export                                                                   *)

At(sheet, col, row) == IF <<col, row>> \in DOMAIN sheet THEN sheet[<<col, row>>] ELSE Blank

(* A blank value empties the cell.                                          *)
Put(sheet, col, row, value) ==
    IF value = Blank THEN [c \in DOMAIN sheet \ {<<col, row>>} |-> sheet[c]]
    ELSE <<col, row>> :> value @@ sheet

(* openpyxl: the cells of the row and below move, by -1 for a table that    *)
(* has no line.  Each is stored under its new place and then removed from   *)
(* its old one: moved by 0, for a table of one line, it is gone.            *)
InsertRows(sheet, row, amount) ==
    LET below == {c \in DOMAIN sheet : c[2] >= row}
        moved == IF amount = 0 THEN {} ELSE below
    IN  [c \in {<<m[1], m[2] + amount>> : m \in moved} |-> sheet[<<c[1], c[2] - amount>>]]
          @@ Restrict(sheet, DOMAIN sheet \ below)

(* str_to_number and _get_cell_value: a text that looks like a number is     *)
(* written as one and read in its plain form.                               *)
Plain(value) == IF value \in DOMAIN Number THEN Number[value] ELSE value

(* The cells of a column, with the sum below, if there is one and a line.   *)
PutColumn(sheet, cell, row, lines) ==
    LET filled == FoldLeft(LAMBDA s, i : Put(s, cell.col, row + i - 1, Plain(lines[i][cell.field])),
                           sheet, [i \in DOMAIN lines |-> i])
    IN  IF cell.sum /\ lines # <<>>
        THEN Put(filled, cell.col, row + Len(lines), "sum") ELSE filled

LastRow(cell, row, lines) ==
    IF lines = <<>> THEN 0 ELSE row + Len(lines) - 1 + (IF cell.sum THEN 1 ELSE 0)

(* One section of _fill_lines: a table that continues begins below the last *)
(* row filled so far, for all of its columns alike; one that extends makes  *)
(* room first, once.                                                        *)
StartRow_PerColumn(section, j, before, now) ==
    IF section.cont THEN now + 1 ELSE section.cells[j].row
StartRow(section, j, before, now) ==
    IF section.cont THEN before + 1 ELSE section.cells[j].row

FillSection(st, section) ==
    LET lines == xlDocument[section.table]
        column(s, j) ==
            LET cell == section.cells[j]
                row == StartRow(section, j, st.last, s.last)
                room == IF section.extend /\ j = 1
                        THEN InsertRows(s.sheet, row + 1, Len(lines) - 1) ELSE s.sheet
            IN  [sheet |-> PutColumn(room, cell, row, lines),
                 last |-> Max({s.last, LastRow(cell, row, lines)})]
    IN  FoldLeft(column, st, [j \in DOMAIN section.cells |-> j])

(* _fill_workbook_data; an error leaves no file.                            *)
TooMany(section) == section.max > 0 /\ Len(xlDocument[section.table]) > section.max
Filled(sections) ==
    FoldLeft(FillSection,
             [sheet |-> Put(xlTemplate.file, xlTemplate.head[1], xlTemplate.head[2], Heading),
              last |-> 0],
             sections).sheet

Export ==
    LET sections == Instruction(xlRows.export)
    IN  /\ xlSheet = None /\ \A i \in DOMAIN sections : ~TooMany(sections[i])
        /\ xlSheet' = Filled(sections)
        /\ xlShown' = xlDocument
        /\ UNCHANGED <<xlTemplate, xlRows, xlDocument, xlState, xlWizard, xlEdits>>

-----------------------------------------------------------------------------
(* Import                                                                   *)

(* Rows are counted from 0 here, as xlrd does.                              *)
NumRows(sheet) == Max({0} \cup {c[2] : c \in DOMAIN sheet})
Columns(section) == {section.cells[j].col : j \in DOMAIN section.cells}
FirstIndex(section) == section.cells[1].row - 1

(* _get_end_row: the first row without a value in any column, else the      *)
(* maximum or the end of the sheet; an empty row 0 is taken for none.       *)
LimitRow(section) ==
    IF section.max > 0 THEN FirstIndex(section) + section.max ELSE NumRows(xlSheet)
EmptyRows(section) ==
    {i \in FirstIndex(section)..(LimitRow(section) - 1) :
        \A col \in Columns(section) : At(xlSheet, col, i + 1) = Blank}
EndRow(section) ==
    IF EmptyRows(section) = {} \/ Min(EmptyRows(section)) = 0
    THEN LimitRow(section) ELSE Min(EmptyRows(section))
BeyondSheet(section) == LimitRow(section) > NumRows(xlSheet)

(* _get_line_vals; a row without any value makes no line.                   *)
LinesRead(section) ==
    LET first == FirstIndex(section)
        line(i) == [f \in {c.field : c \in Range(section.cells)} |->
                       LET c == CHOOSE x \in Range(section.cells) : x.field = f
                       IN  At(xlSheet, c.col, i + 1)]
        rows == [n \in 1..Max({0, EndRow(section) - first}) |-> line(first + n - 1)]
    IN  SelectSeq(rows, LAMBDA l : \E f \in DOMAIN l : l[f] # Blank)

(* _delete_record_data: a section with a maximum has the name of no field.  *)
Deletes(section) == ~section.keep /\ section.max = 0

SectionsOf(table, sections) == {s \in Range(sections) : s.table = table}

(* ImportXLSXWizard.view_init: only a document in draft.                    *)
OpenWizard ==
    /\ xlSheet # None /\ xlWizard = "closed" /\ xlState = "draft"
    /\ xlWizard' = "open"
    /\ UNCHANGED <<xlTemplate, xlRows, xlDocument, xlState, xlShown, xlSheet, xlEdits>>

(* _import_record_data: what the file has is added to what is left.         *)
Added(t, left, sections) ==
    left \o LET own == SectionsOf(t, sections)
            IN  IF own = {} THEN <<>> ELSE LinesRead(CHOOSE s \in own : TRUE)

(* import_xlsx: the lines are deleted, then those of the file are added.    *)
ImportXlsx(sections) ==
    LET left(t) == IF \E s \in SectionsOf(t, sections) : Deletes(s) THEN <<>>
                   ELSE xlDocument[t]
    IN  [t \in Tables |-> Added(t, left(t), sections)]

(* action_import, one transaction.                                          *)
Import ==
    LET sections == Instruction(xlRows.import)
    IN  /\ xlWizard = "open" /\ sections # <<>>
        /\ \A s \in Range(sections) : ~BeyondSheet(s)
        /\ xlDocument' = ImportXlsx(sections)
        /\ xlWizard' = "done"
        /\ UNCHANGED <<xlTemplate, xlRows, xlState, xlShown, xlSheet, xlEdits>>

-----------------------------------------------------------------------------
(* The document                                                             *)

(* Somebody replaces the lines of a table while the file is out ...         *)
Edit(t, lines) ==
    /\ xlSheet # None /\ xlWizard # "done" /\ xlEdits = 0 /\ xlState = "draft"
    /\ lines # xlDocument[t]
    /\ xlDocument' = [xlDocument EXCEPT ![t] = lines]
    /\ xlEdits' = 1
    /\ UNCHANGED <<xlTemplate, xlRows, xlState, xlShown, xlSheet, xlWizard>>

(* ... or confirms it.                                                      *)
Confirm ==
    /\ xlState = "draft"
    /\ xlState' = "done"
    /\ UNCHANGED <<xlTemplate, xlRows, xlDocument, xlShown, xlSheet, xlWizard, xlEdits>>

LinesUpTo(n) == UNION {[1..k -> LineValues] : k \in 0..n}

Init ==
    /\ xlTemplate \in Templates
    /\ xlRows = [export |-> Rows(xlTemplate.export), import |-> Rows(xlTemplate.import)]
    /\ xlDocument \in [Tables -> LinesUpTo(MaxLines)]
    /\ xlState = "draft"
    /\ xlShown = None
    /\ xlSheet = None
    /\ xlWizard = "closed"
    /\ xlEdits = 0

Next ==
    \/ Export
    \/ OpenWizard
    \/ Import
    \/ \E t \in Tables, lines \in LinesUpTo(1) : Edit(t, lines)
    \/ Confirm

Spec == Init /\ [][Next]_xlVars

-----------------------------------------------------------------------------
(* Properties                                                               *)

ShownIn(section, row, i) ==
    \A c \in Range(section.cells) :
        At(xlSheet, c.col, row + i - 1) = Plain(xlShown[section.table][i][c.field])

(* The rows from which the lines of a section stand, one after the other;   *)
(* those of blank lines may be below the last cell.                         *)
Standing(section) ==
    IF xlShown[section.table] = <<>> THEN {1}
    ELSE {row \in 1..(NumRows(xlSheet) + MaxLines * Cardinality(Tables)) :
            \A i \in DOMAIN xlShown[section.table] : ShownIn(section, row, i)}
RowsOf(section, row) == row..(row + Len(xlShown[section.table]) - 1)

(* A table that continues needs one with a line before it, else it begins   *)
(* in row 1.                                                                *)
Continued ==
    \A i \in DOMAIN xlTemplate.export :
        xlTemplate.export[i].cont =>
            \E j \in 1..(i - 1) : xlShown[xlTemplate.export[j].table] # <<>>

(* A table that extends and has one line has removed all cells below it.    *)
CutOff == \E s \in Range(xlTemplate.export) : s.extend /\ Len(xlShown[s.table]) = 1

(* All lines of all tables are in the file, in their order and beside each  *)
(* other, and with them the cells of the template, above each other as they *)
(* were.                                                                    *)
SheetComplete ==
    LET sections == xlTemplate.export
        labels == DOMAIN xlTemplate.file
        standing == [i \in DOMAIN sections |-> Standing(sections[i])]
        found(c) == {d \in DOMAIN xlSheet : xlSheet[d] = xlTemplate.file[c]}
    IN  /\ \E place \in [DOMAIN sections -> UNION Range(standing)] :
              /\ \A i \in DOMAIN sections : place[i] \in standing[i]
              /\ \A i, j \in DOMAIN sections :
                    i # j => RowsOf(sections[i], place[i]) \cap RowsOf(sections[j], place[j]) = {}
        /\ \A c \in labels : Cardinality(found(c)) = 1
        /\ \A c, d \in labels :
              c[2] < d[2] => \A x \in found(c), y \in found(d) : x[2] < y[2]

(* A blank line ends a table when it is read.                               *)
HasBlank(section, lines) ==
    \E i \in DOMAIN lines : \A c \in Range(section.cells) : lines[i][c.field] = Blank

ReadBack(section) ==
    LET exported == [i \in DOMAIN xlShown[section.table] |->
                        [f \in DOMAIN xlShown[section.table][i] |->
                            Plain(xlShown[section.table][i][f])]]
        now == xlDocument[section.table]
    IN  HasBlank(section, exported) \/
        IF section.keep \/ section.max > 0
        THEN IsSuffix(exported, now)
        ELSE now = exported

(* Whatever the number of lines, and however the tables extend or continue: *)
(* the export loses nothing of the document nor of the template, unless a   *)
(* table that extends has exactly one line, and an import of the file gives *)
(* the exported lines again.                                                *)
(* xlsx_export.py:186-238, xlsx_import.py:80-160.                           *)
SheetFaithful ==
    /\ xlShown = xlDocument /\ Continued /\ ~CutOff => SheetComplete
    /\ xlWizard = "done" =>
          \A i \in DOMAIN xlTemplate.import : ReadBack(xlTemplate.import[i])

=============================================================================
