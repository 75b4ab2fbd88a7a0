CONSTANTS
    Torrents = {t1}
    f1 = f1
    f2 = f2
    f3 = f3
    d1 = d1
    n1 = n1
    n2 = n2
    Files = {f1, f2, f3}
    Folder <- MCFolder
    Name <- MCName
    Choices <- MCChoices
    MaxAdds = 1
    Part = Part
    None = None
SPECIFICATION MoveSpec
INVARIANTS ManagerDeletesNothing
CHECK_DEADLOCK FALSE
