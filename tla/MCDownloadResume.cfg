CONSTANTS
    long = long
    Thread = {t1}
    Content = {long}
    Size <- Three
    MaxInode = 2
    MayBreak = TRUE
    MayReplace = FALSE
    Hole = Hole
    None = None
SPECIFICATION Spec
PROPERTIES ResumedIsWhole
CHECK_DEADLOCK FALSE
