SPECIFICATION Spec
CONSTANTS
    Names = {"secs", "hsms", "standard"}
    Clients = {1, 2}
    get_proto <- MCProto
    MaxMsgs = 3
    MaxStack = 2
INVARIANTS
    TypeOK
    ReplyToSender
