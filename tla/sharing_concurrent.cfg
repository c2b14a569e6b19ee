\* Two requests in flight: three people, one invite, two links.
CONSTANTS
    Users = {ann, bob, cy}
    Creator = ann
    Slots = {s1, s2}
    InviteIds = {i1}
    Ops <- AllOps
    MaxTokens = 2
    MaxRows = 3
    NoVehicle = NoVehicle
    NoInvite = NoInvite
SPECIFICATION Spec
SYMMETRY Symmetry
INVARIANTS TypeOK AccessIsEarned
\* A deleted vehicle accepts no request.
CHECK_DEADLOCK FALSE
