\* Long result sets of identical rows: grouping every column would take
\* the least area, which insert cannot print.
CONSTANTS
    Values <- MCValues
    CellWidth <- MCCellWidthNoNull
    HeaderWidths <- MCHeaderWidths
    MaxRows = 8
    MaxCols = 3
    ResultSets <- MCLongResultSets
SPECIFICATION Spec
INVARIANT LevelsMinimizeArea
\* insert returns after the last row.
CHECK_DEADLOCK FALSE
