CONSTANTS
    Documents <- MCDocuments
    ASCIISpace = {" "}
    OtherSpace = {"nbsp"}
    Letters = {"x", "y", "z"}
    Translations <- MCTranslations
    Absent = Absent
CHECK_DEADLOCK FALSE
SPECIFICATION Spec
INVARIANTS
    NodesAreTheTexts
    EveryOccurrenceIsReplaced
    WhitespaceIsKept
