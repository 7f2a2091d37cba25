SPECIFICATION MCSpec
CONSTANTS
    Mounts = {m1, m2}
    Names = {a, b}
    Root = root
    Files = {f1}
    Dirs = {d1}
    Timeouts = TRUE
    MaxEntries = 2
    MaxLate = 1
    MaxDisturbed = 1
SYMMETRY Symmetry
INVARIANTS TypeOK NoDanglingFile RepliedOnce 
CHECK_DEADLOCK FALSE
