CONSTANTS
    h1 = h1
    h2 = h2
    h3 = h3
    h4 = h4
    menu = menu
    Hashes <- MCHashes
    Contexts = {menu}
    NoContext = none
    OldVersions <- MCOldVersions
    NewVersions <- MCNewVersions
    Commands <- MCCommands
    Languages <- MCLanguages
    RTLLanguages = {"ar"}
CHECK_DEADLOCK FALSE
SPECIFICATION RunSpec
INVARIANTS
    OutputIsHonest
    NothingAskedInVain
    DiffIsExact
    PairingIsMaximal
