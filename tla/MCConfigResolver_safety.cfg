SPECIFICATION Spec
CONSTANTS
    Editors = {e1, e2}
    MaxSaves = 2
    MaxFaults = 1
    None = None
SYMMETRY EditorSymmetry
INVARIANTS TypeOK LabelSound
PROPERTIES RedisNeverRegressesRam 
