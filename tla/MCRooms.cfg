CONSTANTS
    Users   = {u1, u2}
    Admins  = {u1}
    Rooms   = {r1}
    Roles   = {"OWNER", "MEMBER"}
    Conns   = {c1}
    Workers = {w1, w2}
    None    = None
SPECIFICATION Spec
INVARIANTS OwnerlessExplained ClosedSubscribersExplained
PROPERTIES ChangesAreAuthorized
SYMMETRY Symmetry
