SPECIFICATION Spec
CONSTANTS
    t1 = t1
    t2 = t2
    p1 = p1
    p2 = p2
    c1 = c1
    c2 = c2
    x1 = x1
    x2 = x2
    None = None
    Tabs = {t1, t2}
    Pages = {p1}
    Calls = {c1, c2}
    RowIds = {x1, x2}
    MaxToken = 2
SYMMETRY Symmetry
CONSTRAINT OneRow
CHECK_DEADLOCK FALSE
INVARIANTS
    OwnTokenEndsDeadSession
    NoTokenSentTwice
