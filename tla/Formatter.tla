------------------------------ MODULE Formatter ------------------------------
(***************************************************************************)
(* The "auto" output format of ash_query, GroupedFormatter in             *)
(* src/src/formatter.cpp: get_widths sizes the columns,                   *)
(* get_grouped_level_count decides how many leading columns to group, and *)
(* insert prints each row, replacing a grouped value that repeats the row *)
(* above by an indent.  A cell is a string from Values, known by its      *)
(* identity and its length (CellWidth); the header of a column is known   *)
(* by its length.  The ResultSet is one exec can return: at least one     *)
(* row, every row as wide as the headers.                                 *)
(***************************************************************************)
EXTENDS Integers, Sequences, SequencesExt

CONSTANTS
    Values,        \* cell strings; "" is what exec stores for a NULL
    CellWidth,     \* their lengths
    HeaderWidths,  \* lengths of column names
    MaxRows,
    MaxCols

ASSUME /\ CellWidth \in [Values -> Nat]
       /\ HeaderWidths \subseteq Nat
       /\ MaxRows \in Nat \ {0} /\ MaxCols \in Nat \ {0}

XX == 4          \* spaces between columns, and one indent
MaxWidth == 80   \* max_w of get_widths

MaxOf(a, b) == IF a >= b THEN a ELSE b
MinOf(a, b) == IF a <= b THEN a ELSE b

\* The result sets exec can hand to the formatter.
ResultSets ==
    UNION {[headers : [1..nc -> HeaderWidths],
            data    : [1..nr -> [1..nc -> Values]]] :
             nr \in 1..MaxRows, nc \in 1..MaxCols}

Rows(rs) == Len(rs.data)
Cols(rs) == Len(rs.headers)

\* get_widths: the heading (or just the gap) and the widest cell, each
\* cell counted at most max_w.
GetWidths(rs, show) ==
    [c \in 1..Cols(rs) |->
       FoldLeft(LAMBDA w, row : MaxOf(w, MinOf(MaxWidth, XX + CellWidth[row[c]])),
                IF show THEN XX + rs.headers[c] ELSE XX,
                rs.data)]

\* The rows whose value in column c differs from the previous row's, the
\* first row counted from the empty string.
Changes(rs, c) ==
    Cardinality({r \in 1..Rows(rs) :
                   IF r = 1 THEN rs.data[r][c] # "" ELSE rs.data[r][c] # rs.data[r-1][c]})

\* The loop of get_grouped_level_count over the columns: after column c,
\* the simulated length and width of the output with c levels grouped;
\* areas[k + 1] is the area stored for k levels, min the least area seen.
RECURSIVE Simulate(_, _, _)
Simulate(rs, w, c) ==
    IF c = 0
    THEN [length |-> Rows(rs), width |-> FoldLeft(+, 0, w),
          areas  |-> [k \in 1..Cols(rs) |-> Rows(rs) * FoldLeft(+, 0, w)],
          min    |-> Rows(rs) * FoldLeft(+, 0, w)]
    ELSE LET s      == Simulate(rs, w, c - 1)
             length == s.length + Changes(rs, c)
             width  == MaxOf(s.width - w[c], w[c]) + XX * c
         IN  [length |-> length, width |-> width,
              areas  |-> IF c < Cols(rs)
                         THEN [s.areas EXCEPT ![c + 1] = width * length]
                         ELSE s.areas,
              min    |-> MinOf(length * width, s.min)]

\* get_grouped_level_count: the rightmost stored area equal to the least.
GetGroupedLevelCount(rs, w) ==
    LET s == Simulate(rs, w, Cols(rs))
        k == {i \in 1..Cols(rs) : s.areas[i] = s.min}
    IN  IF k = {} THEN 0 ELSE Max(k) - 1

VARIABLES
    rs,        \* the ResultSet
    show,      \* do_show_headings
    pc,        \* "begin", "headings", "rows", "done"
    levels,    \* the grouped level count
    r, c,      \* the row and column being printed
    prev,      \* prev[k]: the value last printed at level k
    out        \* per printed cell: row, column, printed or indented

vars == <<rs, show, pc, levels, r, c, prev, out>>

Init ==
    /\ rs \in ResultSets
    /\ show \in BOOLEAN
    /\ pc = "begin"
    /\ levels = 0
    /\ r = 1 /\ c = 1
    /\ prev = <<>>
    /\ out = <<>>

\* insert: widths, levels, and `vector<string> prev(levels)`.
Begin ==
    /\ pc = "begin"
    /\ levels' = GetGroupedLevelCount(rs, GetWidths(rs, show))
    /\ prev' = [k \in 1..levels' |-> ""]
    /\ pc' = IF show THEN "headings" ELSE "rows"
    /\ UNCHANGED <<rs, show, r, c, out>>

\* The headings line: layout only.
PrintHeadings ==
    /\ pc = "headings"
    /\ pc' = "rows"
    /\ UNCHANGED <<rs, show, levels, r, c, prev, out>>

Value == rs.data[r][c]

\* Mutant: the deeper levels of prev are not forgotten on a wrap.
GroupedPrintedNoReset ==
    /\ pc = "rows" /\ c <= Cols(rs)
    /\ c <= levels
    /\ Value # prev[c] \/ r = 1
    /\ out' = Append(out, [row |-> r, col |-> c, printed |-> TRUE])
    /\ prev' = [prev EXCEPT ![c] = Value]
    /\ c' = c + 1
    /\ UNCHANGED <<rs, show, pc, levels, r>>

\* A grouped column whose value differs from prev, or the first row: the
\* value is printed; unless it is the last column, the line wraps and
\* the deeper levels are forgotten.
GroupedPrinted ==
    /\ pc = "rows" /\ c <= Cols(rs)
    /\ c <= levels
    /\ Value # prev[c] \/ r = 1
    /\ out' = Append(out, [row |-> r, col |-> c, printed |-> TRUE])
    /\ prev' = [k \in 1..levels |->
                  IF k = c THEN Value
                  ELSE IF k > c /\ c < Cols(rs) THEN "" ELSE prev[k]]
    /\ c' = c + 1
    /\ UNCHANGED <<rs, show, pc, levels, r>>

\* A grouped column repeating prev: only the indent is printed.
GroupedIndented ==
    /\ pc = "rows" /\ c <= Cols(rs)
    /\ c <= levels
    /\ Value = prev[c] /\ r # 1
    /\ out' = Append(out, [row |-> r, col |-> c, printed |-> FALSE])
    /\ c' = c + 1
    /\ UNCHANGED <<rs, show, pc, levels, r, prev>>

\* A column that is not grouped: printed, padded unless last.
Ungrouped ==
    /\ pc = "rows" /\ c <= Cols(rs)
    /\ c > levels
    /\ out' = Append(out, [row |-> r, col |-> c, printed |-> TRUE])
    /\ c' = c + 1
    /\ UNCHANGED <<rs, show, pc, levels, r, prev>>

\* `out << endl`, then the next row or the end.
EndRow ==
    /\ pc = "rows" /\ c > Cols(rs)
    /\ r' = r + 1
    /\ c' = 1
    /\ pc' = IF r = Rows(rs) THEN "done" ELSE "rows"
    /\ UNCHANGED <<rs, show, levels, prev, out>>

Next ==
    \/ Begin \/ PrintHeadings
    \/ GroupedPrinted \/ GroupedIndented \/ Ungrouped \/ EndRow

Spec == Init /\ [][Next]_vars

-----------------------------------------------------------------------------
(* Properties *)

\* A cell of a grouped column is replaced by an indent exactly when its
\* row repeats the row above in that column and every column to its left:
\* the output then reads back as the result set.
GroupingFaithful ==
    \A i \in DOMAIN out :
       LET e == out[i] IN
       e.col <= levels =>
         (e.printed <=> \/ e.row = 1
                        \/ \E k \in 1..e.col :
                              rs.data[e.row][k] # rs.data[e.row - 1][k])

\* The simulated area of the output with k levels grouped, from its
\* definition: every grouped level adds a line per change of its value
\* and narrows the rest of the line to the widest of the remaining
\* columns and the grouped one, plus the indent.
RECURSIVE AreaSim(_, _, _)
AreaSim(x, w, k) ==
    IF k = 0 THEN [len |-> Rows(x), wid |-> FoldLeft(+, 0, w)]
    ELSE LET s == AreaSim(x, w, k - 1) IN
         [len |-> s.len + Changes(x, k),
          wid |-> MaxOf(s.wid - w[k], w[k]) + XX * k]

Area(x, w, k) == AreaSim(x, w, k).len * AreaSim(x, w, k).wid

\* get_grouped_level_count's comment: the level count chosen is the
\* rightmost level whose simulated area is the least.  The loop also
\* simulates grouping every column, which insert cannot print and whose
\* area is never stored: the choice must still be the best printable one.
LevelsMinimizeArea ==
    pc # "begin" =>
      LET w == GetWidths(rs, show)
          best == {k \in 0..Cols(rs) - 1 :
                     \A j \in 0..Cols(rs) - 1 : Area(rs, w, k) <= Area(rs, w, j)}
      IN  levels = Max(best)

====
