SPECIFICATION FairSpec
CONSTANTS
    Requests = {r1, r2}
    Routes = {product}
    Ids = {1}
    MaxPending = 1
    MaxEdits = 2
    MaxOutages = 1
    None = None
INVARIANTS TypeOK NoPageOfAnOlderLabel
PROPERTIES PagesBecomeCurrent
