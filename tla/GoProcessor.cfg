CONSTANTS
    Files <- MCFiles
    Lower = {"a", "b", "n", "r", "t"}
    Upper = {"A", "B"}
    Translations <- MCTranslations
CHECK_DEADLOCK FALSE
SPECIFICATION GoSpec
INVARIANTS
    NodesAreFirstPlaces
    FirstPlacesAreReplaced
