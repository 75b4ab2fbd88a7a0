CONSTANTS
    Hashes = {h1}
    Players = {p1, p2}
    MaxAdds = 2
    MaxAsking = 2
    None = None
SPECIFICATION Spec
INVARIANTS ListMirrorsSession RestartBringsBack
SYMMETRY Symmetry
CHECK_DEADLOCK FALSE
CONSTRAINT NoAccident
