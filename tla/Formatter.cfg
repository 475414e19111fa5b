\* Result sets of up to 3 rows and 3 columns of non-empty values, short
\* and wide, so that grouping pays off for some and not for others.
CONSTANTS
    Values <- MCValues
    CellWidth <- MCCellWidthNoNull
    HeaderWidths <- MCHeaderWidths
    MaxRows = 3
    MaxCols = 3
SPECIFICATION Spec
INVARIANT GroupingFaithful
\* insert returns after the last row.
CHECK_DEADLOCK FALSE
