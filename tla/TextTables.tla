---------------------------- MODULE TextTables -----------------------------
(***************************************************************************)
(* The text side of the diagnostic assets: inline data tables              *)
(* (src/src/engine/assets/data_table), the CSV compiler                    *)
(* (src/src/engine/assets/csv) and the CSV exporter                        *)
(* (src/src/engine/assets/csv_export), as functions of their inputs.       *)
(*                                                                         *)
(* A text is a sequence of characters, a cell or a name is a text.  The    *)
(* spelling of a number is one character, whatever its digits.             *)
(***************************************************************************)
EXTENDS Integers, Sequences, SequencesExt

CONSTANTS
    MaxNumber,               \* bound: the largest number a text may contain
    PerOne,                  \* 10^6 in the code: doubles are counted in units of 1/PerOne
    NaN, PosInf, NegInf      \* the doubles that are no finite number

ASSUME NumberAssumption ==
    /\ MaxNumber \in Nat /\ PerOne \in Nat \ {0}
    /\ NaN \notin Int /\ PosInf \notin Int /\ NegInf \notin Int
    /\ NaN # PosInf /\ NaN # NegInf /\ PosInf # NegInf

Quote == "\""   CR == "CR"   LF == "LF"   Comma == ","

-----------------------------------------------------------------------------
(* Numbers in cells *)

Numbers == (-MaxNumber..MaxNumber) \cup {NaN, PosInf, NegInf}

\* The characters: an integer without a point, as std::to_string() and %u print
\* it, and a double as %f does.
Numerals == {ToString(n) : n \in -MaxNumber..MaxNumber}
Spelled(v) ==
    CASE v = NaN -> "nan" [] v = PosInf -> "inf" [] v = NegInf -> "-inf"
      [] OTHER   -> ToString(v) \o "/" \o ToString(PerOne)

WholeOf == [c \in Numerals |-> CHOOSE n \in -MaxNumber..MaxNumber : ToString(n) = c]
DoubleOf == [c \in {Spelled(v) : v \in Numbers} |-> CHOOSE v \in Numbers : Spelled(v) = c]

\* strtoll() reads the whole cell, and the number it finds.
IsWhole(cell) == Len(cell) = 1 /\ cell[1] \in Numerals
WholeIn(cell) == WholeOf[cell[1]]

\* parse_double_strict() accepts the cell, and the number it finds: strtod()
\* takes integers, decimals, "nan" and "inf".
IsNumber(cell) == Len(cell) = 1 /\ cell[1] \in Numerals \cup DOMAIN DoubleOf
NumberIn(cell) ==
    IF cell[1] \in Numerals THEN PerOne * WholeOf[cell[1]] ELSE DoubleOf[cell[1]]

\* std::to_string() of an integer and of a double, and "%.6g", which prints no
\* point when there is nothing behind it.
Shown(n) == <<ToString(n)>>
ShownReal(v) == <<Spelled(v)>>
ShownShort(v) == IF v \in Int /\ v % PerOne = 0 THEN Shown(v \div PerOne) ELSE ShownReal(v)

-----------------------------------------------------------------------------
(* DataTableData *)

\* A std::vector or a std::string, a vector of strings, and the shape of a
\* DataTableData.
IsSequence(s) == s \in Seq(Range(s))
IsTexts(names) == IsSequence(names) /\ \A name \in Range(names) : IsSequence(name)
IsTable(t) == IsTexts(t.columns) /\ IsSequence(t.rows) /\ \A row \in Range(t.rows) : IsTexts(row)

TableValid(t) ==
    /\ t.columns # <<>>
    /\ \A i \in DOMAIN t.columns : t.columns[i] # <<>>
    /\ \A r \in DOMAIN t.rows : Len(t.rows[r]) = Len(t.columns)

\* find_column_index(): the first column of that name, 0 when there is none.
ColumnIndex(t, name) ==
    LET found == {i \in DOMAIN t.columns : t.columns[i] = name} IN
    IF found = {} THEN 0 ELSE CHOOSE i \in found : \A j \in found : i <= j

-----------------------------------------------------------------------------
(* The CSV compiler: a scanner over the bytes of the file.  "closing" has   *)
(* seen a quote inside quotes, which ends the field unless another quote    *)
(* follows; "cr" has seen a CR, which swallows an LF.                       *)

Blank == [rows |-> <<>>, row |-> <<>>, cell |-> <<>>, mode |-> "plain"]

EndCell(s) == [s EXCEPT !.row = Append(@, s.cell), !.cell = <<>>]
EndRow(s) == [EndCell(s) EXCEPT !.rows = Append(@, Append(s.row, s.cell)), !.row = <<>>]
Take(s, c) == [s EXCEPT !.cell = Append(@, c)]
In(s, m) == [s EXCEPT !.mode = m]

PlainChar(s, c) ==
    CASE c = Quote -> In(s, "quoted")
      [] c = Comma -> In(EndCell(s), "plain")
      [] c = CR    -> In(EndRow(s), "cr")
      [] c = LF    -> In(EndRow(s), "plain")
      [] OTHER     -> In(Take(s, c), "plain")

ScanChar(s, c) ==
    CASE s.mode = "quoted"                 -> IF c = Quote THEN In(s, "closing") ELSE Take(s, c)
      [] s.mode = "closing" /\ c = Quote   -> In(Take(s, c), "quoted")
      [] s.mode = "cr" /\ c = LF           -> In(s, "plain")
      [] OTHER                             -> PlainChar(s, c)

\* What a last line without a terminator leaves is flushed as a row.
Flushed(s) == IF s.cell # <<>> \/ s.row # <<>> THEN EndRow(s) ELSE s

AllRows(text) == Flushed(FoldLeft(ScanChar, Blank, text)).rows

\* from_chars() accepts the whole cell as a finite number.
NonNumeric(cell) == ~IsNumber(cell) \/ NumberIn(cell) \notin Int

TreatFirstAsHeader(rows, headerMode) ==
    /\ rows # <<>>
    /\ \/ headerMode = "ForceHeader"
       \/ headerMode = "Auto" /\ \A i \in DOMAIN rows[1] : NonNumeric(rows[1][i])

ParseCsv(text, headerMode) ==
    LET all == AllRows(text)
        header == TreatFirstAsHeader(all, headerMode)
        data == IF header THEN Tail(all) ELSE all
        widths == {Len(data[r]) : r \in DOMAIN data}
    IN [has_header |-> header,
        headers |-> IF header THEN all[1] ELSE <<>>,
        rows |-> data,
        max_column_count |-> IF data = <<>> THEN 0
                             ELSE CHOOSE w \in widths : \A v \in widths : v <= w,
        is_ragged |-> \E r \in DOMAIN data : Len(data[r]) # Len(data[1])]

-----------------------------------------------------------------------------
(* The CSV exporter *)

QuotesUndoubled(field, separator) ==
    IF \E i \in DOMAIN field : field[i] \in {separator, Quote, LF, CR}
    THEN <<Quote>> \o field \o <<Quote>> ELSE field

EscapeField(field, separator) ==
    IF \E i \in DOMAIN field : field[i] \in {separator, Quote, LF, CR}
    THEN <<Quote>> \o FlattenSeq([i \in DOMAIN field |->
                                    IF field[i] = Quote THEN <<Quote, Quote>> ELSE <<field[i]>>])
                   \o <<Quote>>
    ELSE field

Line(cells, separator) ==
    FlattenSeq([i \in DOMAIN cells |->
                  (IF i = 1 THEN <<>> ELSE <<separator>>) \o EscapeField(cells[i], separator)])
    \o <<CR, LF>>

BuildCsv(t, separator, includeHeader) ==
    (IF includeHeader /\ t.columns # <<>> THEN Line(t.columns, separator) ELSE <<>>)
    \o FlattenSeq([r \in DOMAIN t.rows |-> Line(t.rows[r], separator)])

=============================================================================
