CONSTANTS
    User = {u1}
    Node = {n1, n2}
    Founder = u1
    Owner <- OneOwner
    Nobody = Nobody
    Request = {r1}
    Idle = Idle
    Session = {s1, s2}
    NoNode = NoNode
SPECIFICATION BackendSpec
PROPERTY MailToRecipient
CHECK_DEADLOCK FALSE
