SPECIFICATION FairSpec
CONSTANTS
    f1 = f1
    f2 = f2
    x = x
    y = y
    t1 = t1
    t2 = t2
    NoFile = NoFile
    Untitled = Untitled
    Absent = Absent
    NoTimer = NoTimer
    main = main
    engine = engine
    Files = {f1, f2}
    Stored = {f1}
    Texts = {x, y}
    Timers = {t1, t2}
    MaxRules = 4
    MaxChanges = 2
    Floor = 0
CHECK_DEADLOCK FALSE
INVARIANTS NothingForgotten OneRowPerPath
PROPERTIES FilesWin
