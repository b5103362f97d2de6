CONSTANTS
    User = {u1, u2}
    Node = {n1}
    Founder = u1
    Owner <- OneOwner
    Nobody = Nobody
    Request = {r1, r2}
    Idle = Idle
    Session = {s1}
    NoNode = NoNode
SYMMETRY Symmetry
VIEW View
SPECIFICATION BackendSpec
INVARIANTS TypeOK RosterSymmetric OwnerKeepsNode DeletedTakesMessages
CHECK_DEADLOCK FALSE
