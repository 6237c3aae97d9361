CONSTANTS
    add1 = add1
    add2 = add2
    remove = remove
    AddCalls = {add1, add2}
    RemoveCalls = {remove}
    Groups <- MCGroups
    MaxRetries = 0
SPECIFICATION Spec
SYMMETRY MCSymmetry
INVARIANT PresentIsNoError
