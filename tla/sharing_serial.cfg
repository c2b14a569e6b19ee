\* One request at a time: three people, two invites, four links.
CONSTANTS
    Users = {ann, bob, cy}
    Creator = ann
    Slots = {s1}
    InviteIds = {i1, i2}
    Ops <- AllOps
    MaxTokens = 4
    MaxRows = 4
    NoVehicle = NoVehicle
    NoInvite = NoInvite
SPECIFICATION Spec
SYMMETRY Symmetry
INVARIANTS OneOwner AcceptedIsFinal OneStandingOffer
PROPERTIES JoinSpendsInvite ImplementsPromise
\* A deleted vehicle accepts no request.
CHECK_DEADLOCK FALSE
