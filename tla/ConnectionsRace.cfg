\* An edit of a sibling while an account is added.
CONSTANTS
    a = a
    b = b
    w1 = w1
    w2 = w2
    Ids = {a, b}
    Workers = {w1, w2}
    Files <- OperatorFiles
    MaxEdits = 2
SYMMETRY Symmetry
SPECIFICATION ConnSpec
PROPERTY NewAccountsStayHidden
CHECK_DEADLOCK FALSE
