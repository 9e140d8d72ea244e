CONSTANTS
    a = a
    b = b
    c = c
    Texts <- MCTexts
    Documents <- MCDocuments
    Threshold = 2
    Absent = Absent
SPECIFICATION FairSpec
INVARIANTS
    TypeOK
    AnsweredOnce
    SendIsSafe
    BatchIsComplete
PROPERTY EveryCallReturns
