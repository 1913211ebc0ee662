SPECIFICATION Spec
CONSTANTS
    Starts = {p1, p2}
    Writers = {w1}
    None = None
INVARIANTS NoDeadlock
