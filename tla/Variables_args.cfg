SPECIFICATION Spec
CONSTANTS
    Programs = {"", "p"}
    Default = ""
    Labels = {"l"}
    NoLabel = "none"
    Idents = {"x", "y"}
    Arrays = {"x"}
    Values = {1, 2}
    get_hash <- MCHash
    strcmp <- MCStrcmp
    EnumSize = 4
    MaxVars = 3
    MaxCalls = 1
INVARIANT ArgumentsPassed
