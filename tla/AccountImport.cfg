SPECIFICATION ImportSpec
CONSTANTS
    r1 = r1
    r2 = r2
    x = x
    y = y
    Row <- MCRow
    Typed <- MCTyped
    First <- MCFirst
    MaxParses = 2
SYMMETRY RowSymmetry
INVARIANTS ImportTypeOK EmailErrorsSettle ReportIsTrue
