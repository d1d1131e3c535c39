CONSTANTS
    g1 = g1
    g2 = g2
    g3 = g3
    k1 = k1
    k2 = k2
    x = x
    y = y
    Nil = Nil
    Absent = Absent
    Waiter = Waiter
    Goroutines <- MCThree
    Keys <- MCKeys
    Needs <- MCNeeds
    MaxDepth = 2
    Values <- MCOneValue
SPECIFICATION FairSpec
INVARIANTS ComputedOnce Agreement
PROPERTIES CallsReturn
