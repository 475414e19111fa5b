\* As Formatter.cfg, with NULL columns, which exec stores as "".
CONSTANTS
    Values <- MCValuesWithNull
    CellWidth <- MCCellWidth
    HeaderWidths <- MCHeaderWidths
    MaxRows = 3
    MaxCols = 3
SPECIFICATION Spec
INVARIANT GroupingFaithful
CHECK_DEADLOCK FALSE
