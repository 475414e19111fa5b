----------------------------- MODULE MCFormatter -----------------------------
(* Instantiation of Formatter for TLC. *)
EXTENDS Formatter

\* A short and a wide value, and with them the empty string exec stores
\* for a NULL column.
MCValues == {"a", "w"}
MCValuesWithNull == {"", "a", "w"}
MCCellWidth == [v \in MCValuesWithNull |-> IF v = "w" THEN 30 ELSE IF v = "a" THEN 1 ELSE 0]
MCCellWidthNoNull == [v \in MCValues |-> MCCellWidth[v]]
MCHeaderWidths == {2, 12}
\* Result sets of 8 identical rows of two wide values and a short one,
\* under a short and a 12-character header: columns 34, 34 and 16 wide
\* with headings shown.
MCLongResultSets ==
    {[headers |-> <<2, 2, h>>, data |-> [i \in 1..n |-> <<"w", "w", "a">>]] :
        h \in {2, 12}, n \in {3, 8}}
====
