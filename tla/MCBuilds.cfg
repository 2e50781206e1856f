SPECIFICATION BuildsSpec
CONSTANTS
    Modules = {"a", "b", "main"}
    Roots = {"main"}
    Imports <- TheImports
    Sources <- TheSources
    Interface <- TheInterface
    Texts <- TheTexts
    MaxExtra = 2
    Nothing = Nothing
INVARIANTS
    BuildsTypeOK
    NoStalePair
    RefusedForAReason
