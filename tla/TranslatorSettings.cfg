CONSTANTS
    w1 = w1
    w2 = w2
    a = a
    b = b
    formal = formal
    casual = casual
    menu = menu
    Absent = Absent
    Workers <- MCWorkers
    Base <- MCBase
    Documents <- MCDocuments
    Translators <- MCStyles
SPECIFICATION Spec
INVARIANT OwnSettings
