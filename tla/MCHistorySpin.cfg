SPECIFICATION FairSpec
CONSTANTS
    p1 = p1
    p2 = p2
    p3 = p3
    p4 = p4
    p5 = p5
    Symbols <- Characters
    Threads = {t1, t2}
    Pushers = {p1, p2, p4}
    EntryOf <- Entries
    MatchedList <- AllDomains
    Cap = 1
    Lines = 2
    Faults = {}
PROPERTY PushReturns
CHECK_DEADLOCK FALSE
