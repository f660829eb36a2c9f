SPECIFICATION Spec
CONSTANTS
    Requests = {r1}
    Routes = {product}
    Ids = {1, 2}
    MaxPending = 1
    MaxEdits = 0
    MaxOutages = 1
    None = None
INVARIANTS RightPage
CHECK_DEADLOCK FALSE
