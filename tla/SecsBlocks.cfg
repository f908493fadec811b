SPECIFICATION Spec
CONSTANTS
    Sizes = {1, 2, 4}
    Retry = 2
    MaxMsgs = 3
INVARIANTS
    Assembled
    OnceEach
