SPECIFICATION NotifierSpec
CONSTANTS
    Nodes = {n1, n2}
    UploadNode = n1
    Waiters = {w1, w2}
    None = None
INVARIANT NotYetUploadedIsTrue
