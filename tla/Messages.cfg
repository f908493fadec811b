SPECIFICATION Spec
CONSTANTS
    Radix = 4
    NUM_TMP_VARS = 4
    Protocols = {"hsms", "secs"}
    Items <- MCItems
    Foreign <- MCForeign
    Lines <- MCLines
    SetNames <- MCSetNames
    SetTexts <- MCSetTexts
    MaxTmp = 2
    get_hash <- MCHash
    strcmp <- MCStrcmp
INVARIANTS
    Readable
    InBounds
    
