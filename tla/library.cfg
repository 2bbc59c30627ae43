CONSTANTS
    Items <- MCItems
    Weight <- MCWeight
    Heads = {"h", "n"}
    NULL = NULL
    Nowhere = Nowhere
    Nodes <- MCNodes
    Sentinel = Sentinel
    Kinds = {"value", "timer", "str"}
    HalfRange = 8
    Time <- MCTime
    Value <- MCValue
    Hash <- MCHash
    Str <- MCStr
SPECIFICATION Spec
INVARIANTS
    RedBlack
    LookupFinds
    MiddleIsMiddle
PROPERTIES
    ImplementsSortedList
    ImplementsLists
