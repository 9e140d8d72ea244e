CONSTANTS
    w1 = w1
    w2 = w2
    a = a
    b = b
    formal = formal
    casual = casual
    menu = menu
    Absent = Absent
    Workers <- MCWorkers
    Base <- MCBase
    Documents <- MCDocuments
    Translators <- MCTranslators
SYMMETRY MCSymmetry
SPECIFICATION Spec
INVARIANTS
    Faithful
    EveryTextOnce
    CountsAddUp
    BatchIsCached
PROPERTY ImplementsService
