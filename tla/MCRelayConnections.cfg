CONSTANTS
    Sockets = {w1, w2}
    Sessions = {s1, s2}
    Users = {d1}
    Reqs = {r1}
    None = None
    MaxHttpBinds = 1
SPECIFICATION Spec
SYMMETRY Symmetry
CHECK_DEADLOCK FALSE
INVARIANTS
    TypeOK
    RegistryInv
    SaidOfOwner
    AnswersSafe
PROPERTIES
    HealthyKept
