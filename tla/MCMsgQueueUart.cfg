SPECIFICATION QueueSpec
CONSTANTS
    Item = {a, b}
    Nothing = Nothing
    MaxNumber = 6
INVARIANT
    CntIsCurrent
