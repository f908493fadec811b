SPECIFICATION Spec
CONSTANTS
    Programs = {"", "p"}
    Default = ""
    Labels = {"l"}
    NoLabel = "none"
    Idents = {"x", "y"}
    Arrays = {"x"}
    Values = {1, 2}
    get_hash <- MCHash
    strcmp <- MCStrcmp
    EnumSize = 1
    MaxVars = 3
    MaxCalls = 1
INVARIANTS
    EveryNameFound
    LetReadsBack
    Alias
PROPERTIES
    LocalsStay
    IsStore
