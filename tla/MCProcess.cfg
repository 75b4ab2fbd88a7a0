CONSTANTS
    Procs = {p1, p2}
    Writes = {w1, w2}
    Inodes = {1, 2, 3, 4, 5}
    None = None
    Torn = Torn
    Empty = Empty
SPECIFICATION Spec
INVARIANTS NothingForgotten SingleInstance OneWriter
VIEW View
SYMMETRY Symmetry
CHECK_DEADLOCK FALSE
