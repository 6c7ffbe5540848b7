SPECIFICATION Spec
CONSTANTS
    Writers = {"w1", "w2"}
    Capacity = 4
    Sizes = {1, 3}
    MaxBytes = 7
CHECK_DEADLOCK FALSE
INVARIANT
    SentIsCopied
