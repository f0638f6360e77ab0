SPECIFICATION FairSpec
CONSTANTS
    w1 = w1
    w2 = w2
    Writers <- TwoWriters
    Loop = loop
    Main = main
    Threshold = 2
    Cap = 2
    MaxGroup = 2
    Limit = 3
INVARIANTS EachEventOnce BatchBounded
PROPERTIES ImplementsOutbox EventuallyConfirmed
