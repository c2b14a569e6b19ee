-------------------------- MODULE MCVehicleSharing --------------------------
(* Small instances of VehicleSharing for TLC. *)
EXTENDS VehicleSharing, TLC

(* Slots, invite rows and the people who did not create the vehicle are    *)
(* interchangeable.                                                        *)
Symmetry ==
    Permutations(Slots) \cup Permutations(InviteIds) \cup Permutations(Users \ {Creator})

(* Every operation but the handover of ownership. *)
OpsNoTransfer == AllOps \ {"transferOwnership"}

(* Handover against the other changes of a member's row. *)
OpsMembers == {"createInvite", "accept", "updateRole", "remove", "transferOwnership"}

(* The life of an invite. *)
OpsInvites == {"createInvite", "accept", "revoke"}

(* Joining and leaving. *)
OpsJoinLeave == {"createInvite", "accept", "remove"}
=============================================================================
