SPECIFICATION Spec
CONSTANTS
    main = main
    sub = sub
    h1 = h1
    h2 = h2
    x = x
    NoTopic = NoTopic
    NoEntry = NoEntry
    Torn = Torn
    Agents = {main, sub}
    Main = main
    Hooks = {h1, h2}
    Topics = {x}
    Warn = 1
    Block = 2
    MaxEvents = 3
CHECK_DEADLOCK FALSE
SYMMETRY HookSymmetry
INVARIANTS TypeOK NeverChargedForOthers ExactWithoutOverlap OneFullNoticePerStreak
 
