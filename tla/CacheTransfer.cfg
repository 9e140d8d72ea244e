CONSTANTS
    Keys = {k1, k2}
    Values = {v1, v2}
    Exporters = {e1, e2}
    MaxExports = 2
    MaxImports = 1
SYMMETRY Symmetry
SPECIFICATION TransferSpec
INVARIANTS
    TransferTypeOK
    ExportSurvives
    ImportsAreExports
    ImportIsComplete
