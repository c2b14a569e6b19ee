\* A removal or role change overtaken by the transfer to the same member.
CONSTANTS
    Users = {ann, bob}
    Creator = ann
    Slots = {s1, s2}
    InviteIds = {i1}
    Ops <- OpsMembers
    MaxTokens = 1
    MaxRows = 2
    NoVehicle = NoVehicle
    NoInvite = NoInvite
SPECIFICATION Spec
SYMMETRY Symmetry
PROPERTIES OwnerOnlyHandsOver
\* A deleted vehicle accepts no request.
CHECK_DEADLOCK FALSE
