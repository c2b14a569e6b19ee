------------------------- MODULE VehicleOwnerProofs -------------------------
(***************************************************************************)
(* A vehicle has exactly one owner, in two settings, for any number of     *)
(* people, invites and links.                                              *)
(*                                                                         *)
(* Nobody transfers the ownership: the creator stays the owner, however    *)
(* the other requests interleave.  The transfer is the one operation whose *)
(* overlap with the others breaks OneOwner.                                *)
(*                                                                         *)
(* Requests do not overlap (there is one slot at most), transfers          *)
(* included: so much by the inductive invariant SerialInv; and, with what  *)
(* OfferInv adds about standing offers, all that SharedVehicle promises.   *)
(***************************************************************************)
EXTENDS VehicleSharingProofs

(* The parts of OwnerInv that NoVehicleNoRows is not. *)
LEMMA OwnerParts ==
    ASSUME TypeOK', NoVehicleNoRows', CreatorUntouched', OneOwner',
           pointer' \in {Creator, NoVehicle},
           \A s \in Slots : req'[s].op # "transferOwnership"
    PROVE  OwnerInv'
BY DEF OwnerInv

(* What the invariant says of a living vehicle. *)
LEMMA OwnerFacts ==
    ASSUME OwnerInv
    PROVE  /\ \A u \in Users : HasRow(u) => pointer = Creator
           /\ \A i \in InviteIds : Exists(i) => pointer = Creator
           /\ pointer = Creator => IsOwner(Creator) /\ nextRow # 1
           /\ \A u \in Users : IsOwner(u) => u = Creator /\ HasRow(u)
           /\ \A s \in Slots : req[s] # Idle => nextRow # 1
<1>1. \A u \in Users : IsOwner(u) => HasRow(u)
  BY DEF OwnerInv, TypeOK, IsOwner, HasRow, Member, NoRow
<1> QED
  BY <1>1, SharingConstants DEF OwnerInv, NoVehicleNoRows, OneOwner

(* A step that changes one slot only, to a request that spares the creator.*)
LEMMA OwnerRequestStep ==
    ASSUME OwnerInv, TypeOK', NEW s \in Slots, Hold(s, req'[s]), UNCHANGED tables, nextRow # 1,
           req'[s].op # "transferOwnership",
           req'[s].op = "accept" => req'[s].actor # Creator,
           req'[s].op = "updateRole" /\ req'[s].pc = "commit" => req'[s].user # Creator,
           req'[s].op = "remove" =>
               /\ req'[s].user = Creator => req'[s].seen = "owner"
               /\ req'[s].pc = "commit" => req'[s].seen # "owner"
    PROVE  OwnerInv'
<1>1. \A t \in Slots : t # s => req'[t] = req[t]
  BY DEF OwnerInv, TypeOK, Hold
<1>2. NoVehicleNoRows'
  BY DEF OwnerInv, NoVehicleNoRows, tables, HasRow, Exists
<1>3. CreatorUntouched'
  BY <1>1 DEF OwnerInv, CreatorUntouched
<1>4. OneOwner' /\ pointer' \in {Creator, NoVehicle}
  BY DEF OwnerInv, OneOwner, tables, IsOwner
<1>5. \A t \in Slots : req'[t].op # "transferOwnership"
  BY <1>1 DEF OwnerInv
<1> QED
  BY <1>2, <1>3, <1>4, <1>5, OwnerParts

LEMMA OwnerBegin ==
    ASSUME "transferOwnership" \notin Ops, OwnerInv, TypeOK', NEW s \in Slots, Begin(s)
    PROVE  OwnerInv'
<1> USE OwnerFacts
<1>1. UNCHANGED tables /\ nextRow # 1
  BY SharingConstants
     DEF Begin, CreateInviteBegin, ResendBegin, RevokeBegin, DeclineBegin, AcceptBegin,
     UpdateRoleBegin, RemoveBegin, TransferBegin, DeleteVehicleBegin, Usable, Pending
<1>2. ASSUME NEW a \in Users, NEW i \in InviteIds, NEW t \in Tokens, AcceptBegin(s, a, i, t)
      PROVE  OwnerInv'
  <2>1. a # Creator
    BY <1>2 DEF AcceptBegin, Usable, Pending
  <2> QED
    BY <1>1, <1>2, <2>1, OwnerRequestStep DEF AcceptBegin, Hold, OwnerInv, TypeOK
<1>3. ASSUME NEW a \in Users, NEW u \in Users, RemoveBegin(s, a, u)
      PROVE  OwnerInv'
  <2>1. u = Creator => members[u].role = "owner"
    BY <1>3 DEF RemoveBegin, IsOwner
  <2> QED
    BY <1>1, <1>3, <2>1, OwnerRequestStep DEF RemoveBegin, Hold, OwnerInv, TypeOK
<1>4. ASSUME NEW a \in Users, NEW u \in Users, NEW r \in Roles,
             CreateInviteBegin(s, a, u, r) \/ UpdateRoleBegin(s, a, u, r)
      PROVE  OwnerInv'
  BY <1>1, <1>4, OwnerRequestStep DEF CreateInviteBegin, UpdateRoleBegin, Hold, OwnerInv, TypeOK
<1>5. ASSUME NEW a \in Users, NEW i \in InviteIds, NEW t \in Tokens, DeclineBegin(s, a, i, t)
      PROVE  OwnerInv'
  BY <1>1, <1>5, OwnerRequestStep DEF DeclineBegin, Hold, OwnerInv, TypeOK
<1>6. ASSUME NEW a \in Users, DeleteVehicleBegin(s, a)
      PROVE  OwnerInv'
  BY <1>1, <1>6, OwnerRequestStep DEF DeleteVehicleBegin, Hold, OwnerInv, TypeOK
<1>7. ASSUME NEW a \in Users, NEW u \in Users, TransferBegin(s, a, u)
      PROVE  FALSE
  BY <1>7 DEF TransferBegin, Free
<1>8. ASSUME NEW a \in Users, NEW i \in InviteIds, ResendBegin(s, a, i) \/ RevokeBegin(s, a, i)
      PROVE  OwnerInv'
  BY <1>1, <1>8, OwnerRequestStep DEF ResendBegin, RevokeBegin, Hold, OwnerInv, TypeOK
<1> QED
  BY <1>2, <1>3, <1>4, <1>5, <1>6, <1>7, <1>8 DEF Begin

LEMMA OwnerRead ==
    ASSUME OwnerInv, TypeOK', NEW s \in Slots, Read(s)
    PROVE  OwnerInv'
<1> USE DEF OwnerInv, TypeOK
<1>1. UNCHANGED tables
  BY DEF Read, CreateInviteMember, CreateInviteActive, ResendRead, RevokeRead, UpdateRoleRead,
     RemoveAssert, TransferTarget, TransferSelf
<1>2. nextRow # 1
  BY OwnerFacts
     DEF Read, CreateInviteMember, CreateInviteActive, ResendRead, RevokeRead, UpdateRoleRead,
     RemoveAssert, TransferTarget, TransferSelf, At, Idle
<1>3. CASE CreateInviteMember(s) \/ CreateInviteActive(s) \/ ResendRead(s) \/ RevokeRead(s)
  <2>1. req[s] \in CreateInviteReq \cup OwnerInviteReq
    BY <1>3, RequestShape
       DEF CreateInviteMember, CreateInviteActive, ResendRead, RevokeRead, At
  <2>2. Hold(s, req'[s]) /\ req'[s].op \in {"createInvite", "resend", "revoke", "idle"}
    BY <1>3, <2>1 DEF CreateInviteMember, CreateInviteActive, ResendRead, RevokeRead, Proceed,
       Hold, Idle, CreateInviteReq, OwnerInviteReq
  <2> QED
    BY <1>1, <1>2, <2>2, OwnerRequestStep
<1>4. CASE UpdateRoleRead(s)
  <2>1. req[s] \in UpdateRoleReq
    BY <1>4, RequestShape DEF UpdateRoleRead, At
  <2>2. RoleChangeable(req[s].user, req[s].row, req[s].role) => req[s].user # Creator
    BY <2>1, OwnerFacts DEF RoleChangeable, RowLives, HasRow, UpdateRoleReq
  <2>3. /\ Hold(s, req'[s])
        /\ req'[s] = Idle \/ (req'[s].op = "updateRole" /\ req'[s].user # Creator)
    BY <1>4, <2>1, <2>2 DEF UpdateRoleRead, Proceed, Hold, UpdateRoleReq
  <2> QED
    BY <1>1, <1>2, <2>3, OwnerRequestStep DEF Idle
<1>5. CASE RemoveAssert(s)
  <2>1. req[s] \in RemoveReq
    BY <1>5, RequestShape DEF RemoveAssert, At
  <2>2. /\ Hold(s, req'[s])
        /\ \/ req'[s] = Idle
           \/ /\ req[s].seen # "owner"
              /\ req'[s] = [req[s] EXCEPT !.pc = "commit"]
    BY <1>5, <2>1 DEF RemoveAssert, Proceed, MayRemove, Hold
  <2>3. req[s].user = Creator => req[s].seen = "owner"
    BY <2>1 DEF CreatorUntouched, RemoveReq
  <2>4. req'[s] = Idle \/ (/\ req'[s].op = "remove" /\ req'[s].seen # "owner"
                           /\ req'[s].user # Creator)
    BY <2>1, <2>2, <2>3 DEF RemoveReq
  <2> QED
    BY <1>1, <1>2, <2>2, <2>4, OwnerRequestStep DEF Idle
<1>6. CASE TransferTarget(s) \/ TransferSelf(s)
  BY <1>6 DEF TransferTarget, TransferSelf, At
<1> QED
  BY <1>3, <1>4, <1>5, <1>6 DEF Read

(* A commit frees its slot; what is left is the rows.                      *)
LEMMA OwnerCommitStep ==
    ASSUME OwnerInv, TypeOK', NEW s \in Slots, Reply(s), NoVehicleNoRows', OneOwner',
           pointer' \in {Creator, NoVehicle}
    PROVE  OwnerInv'
<1>1. req'[s] = Idle /\ \A t \in Slots : t # s => req'[t] = req[t]
  BY DEF OwnerInv, TypeOK, Reply, Hold
<1>2. CreatorUntouched' /\ \A t \in Slots : req'[t].op # "transferOwnership"
  BY <1>1 DEF OwnerInv, CreatorUntouched, Idle
<1> QED
  BY <1>2, OwnerParts

LEMMA OwnerCommit ==
    ASSUME OwnerInv, TypeOK', NoVehicleNoRows', NEW s \in Slots, Commit(s)
    PROVE  OwnerInv'
<1> USE DEF OwnerInv, TypeOK
<1>1. Reply(s)
  BY DEF Commit, CreateInviteCommit, ResendCommit, RevokeCommit, DeclineCommit, AcceptCommit,
     UpdateRoleCommit, RemoveCommit, TransferCommit, DeleteVehicleCommit
<1>2. ASSUME UNCHANGED <<pointer, members>>
      PROVE  OwnerInv'
  BY <1>1, <1>2, OwnerCommitStep DEF OneOwner, IsOwner
<1>3. ASSUME NEW a \in Users, a # Creator, pointer' = pointer, members' # members,
             \A u \in Users : u # a => members'[u] = members[u],
             members'[a].role # "owner"
      PROVE  OwnerInv'
  BY <1>1, <1>3, OwnerCommitStep, SharingConstants DEF OneOwner, IsOwner
<1>4. CASE AcceptCommit(s)
  <2>1. PICK a \in Users : a = req[s].actor /\ req[s].role \in GrantableRoles /\ a # Creator
    BY <1>4, RequestShape DEF AcceptCommit, At, InviteeReq, CreatorUntouched
  <2>2. members' = members
        \/ (/\ \A u \in Users : u # a => members'[u] = members[u]
            /\ members'[a].role = req[s].role)
    BY <1>4, <2>1 DEF AcceptCommit, Upserted, Member, NoRow, HasRow
  <2>3. pointer' = pointer
    BY <1>4 DEF AcceptCommit
  <2> QED
    BY <1>2, <1>3, <2>1, <2>2, <2>3 DEF GrantableRoles
<1>5. CASE UpdateRoleCommit(s)
  <2>1. PICK u \in Users : u = req[s].user /\ req[s].role \in GrantableRoles /\ u # Creator
    BY <1>5, RequestShape DEF UpdateRoleCommit, At, UpdateRoleReq, CreatorUntouched
  <2>2. members' = members
        \/ (/\ \A v \in Users : v # u => members'[v] = members[v]
            /\ members'[u].role = req[s].role)
    BY <1>5, <2>1 DEF UpdateRoleCommit, Member, NoRow
  <2>3. pointer' = pointer
    BY <1>5 DEF UpdateRoleCommit
  <2> QED
    BY <1>2, <1>3, <2>1, <2>2, <2>3 DEF GrantableRoles
<1>6. CASE RemoveCommit(s)
  <2>1. PICK u \in Users : u = req[s].user /\ u # Creator
    BY <1>6, RequestShape DEF RemoveCommit, At, RemoveReq, CreatorUntouched
  <2>2. members' = members
        \/ (/\ \A v \in Users : v # u => members'[v] = members[v]
            /\ members'[u] = NoRow)
    BY <1>6, <2>1 DEF RemoveCommit
  <2>3. pointer' = pointer
    BY <1>6 DEF RemoveCommit
  <2> QED
    BY <1>2, <1>3, <2>1, <2>2, <2>3 DEF NoRow
<1>7. CASE TransferCommit(s)
  BY <1>7 DEF TransferCommit, At
<1>8. CASE DeleteVehicleCommit(s)
  <2>1. OneOwner' /\ pointer' = NoVehicle
    BY <1>8, SharingConstants DEF DeleteVehicleCommit, OneOwner, IsOwner, NoRow
  <2> QED
    BY <1>1, <2>1, OwnerCommitStep
<1>9. CASE (\E i \in InviteIds : CreateInviteCommit(s, i)) \/ ResendCommit(s)
           \/ RevokeCommit(s) \/ DeclineCommit(s)
  BY <1>2, <1>9 DEF CreateInviteCommit, ResendCommit, RevokeCommit, DeclineCommit
<1> QED
  BY <1>4, <1>5, <1>6, <1>7, <1>8, <1>9 DEF Commit

LEMMA OwnerInit == Init => OwnerInv
<1> SUFFICES ASSUME Init PROVE OwnerInv
  OBVIOUS
<1>1. TypeOK /\ NoVehicleNoRows
  BY AccessInit DEF AccessInv
<1> QED
  BY <1>1, SharingConstants DEF Init, OwnerInv, CreatorUntouched, OneOwner, IsOwner, NoRow, Idle

LEMMA OwnerNext ==
    ASSUME "transferOwnership" \notin Ops
    PROVE  AccessInv /\ OwnerInv /\ [Next]_vars => OwnerInv'
<1> SUFFICES ASSUME AccessInv, OwnerInv, [Next]_vars PROVE OwnerInv'
  OBVIOUS
<1>0. TypeOK' /\ NoVehicleNoRows'
  BY AccessNext DEF AccessInv
<1>1. CASE CreateVehicle
  <2>1. /\ \A u \in Users : u # Creator => ~IsOwner(u)'
        /\ IsOwner(Creator)' /\ pointer' = Creator
    BY <1>1, SharingConstants, OwnerFacts
       DEF CreateVehicle, OwnerInv, TypeOK, IsOwner, NoVehicleNoRows, HasRow
  <2>2. \A s \in Slots : req'[s] = Idle
    BY <1>1 DEF CreateVehicle, OwnerInv, NoVehicleNoRows
  <2> QED
    BY <1>0, <2>1, <2>2, OwnerParts, SharingConstants DEF OneOwner, CreatorUntouched, Idle
<1>2. ASSUME NEW i \in InviteIds, Expire(i) PROVE OwnerInv'
  <2>1. UNCHANGED <<pointer, members, req>>
    BY <1>2 DEF Expire
  <2>2. CreatorUntouched' /\ OneOwner'
    BY <2>1 DEF OwnerInv, CreatorUntouched, OneOwner, IsOwner
  <2> QED
    BY <1>0, <2>1, <2>2, OwnerParts DEF OwnerInv
<1>3. CASE UNCHANGED vars
  <2>1. CreatorUntouched' /\ OneOwner'
    BY <1>3 DEF vars, OwnerInv, CreatorUntouched, OneOwner, IsOwner
  <2> QED
    BY <1>0, <1>3, <2>1, OwnerParts DEF OwnerInv, vars
<1> QED
  BY <1>0, <1>1, <1>2, <1>3, OwnerBegin, OwnerRead, OwnerCommit DEF Next

(* With no transfer, a living vehicle has exactly one owner row, and       *)
(* Vehicle.userId names it, whatever accepts, role changes, removals and   *)
(* deletions overlap.                                                      *)
THEOREM OneOwnerWithoutTransfer ==
    ASSUME "transferOwnership" \notin Ops
    PROVE  Spec => []OneOwner
<1>1. OwnerInv => OneOwner
  BY DEF OwnerInv
<1>2. AccessInv /\ OwnerInv /\ [Next]_vars => (AccessInv /\ OwnerInv)'
  BY AccessNext, OwnerNext
<1> QED
  BY <1>1, <1>2, AccessInit, OwnerInit, PTL DEF Spec

-----------------------------------------------------------------------------
(* One request at a time. *)

LEMMA SerialInit == Init => SerialInv
<1> SUFFICES ASSUME Init PROVE SerialInv
  OBVIOUS
<1>1. OneOwner /\ AcceptedIsFinal
  BY SharingConstants DEF Init, OneOwner, IsOwner, NoRow, AcceptedIsFinal, Exists
<1>2. \A s \in Slots : StillSo(s)
  BY DEF Init, StillSo, Idle, At
<1> QED
  BY <1>1, <1>2, AccessInit DEF SerialInv

LEMMA OwnerIsPointer ==
    ASSUME SerialInv
    PROVE  /\ \A u \in Users : IsOwner(u) <=> u = pointer
           /\ \A u \in Users : IsOwner(u) => HasRow(u)
<1>1. \A u \in Users : IsOwner(u) => HasRow(u)
  BY DEF SerialInv, AccessInv, TypeOK, IsOwner, HasRow, Member, NoRow
<1> QED
  BY <1>1, SharingConstants DEF SerialInv, OneOwner

(* A step of the one request that leaves the rows alone. *)
LEMMA RequestMoves ==
    ASSUME SerialInv, AccessInv', UNCHANGED tables, NEW s \in Slots, \A r \in Slots : r = s,
           StillSo(s)'
    PROVE  SerialInv'
BY DEF SerialInv, OneOwner, IsOwner, AcceptedIsFinal, Exists, tables

(* A step that answers the one request. *)
LEMMA RequestEnds ==
    ASSUME AccessInv', TypeOK, NEW s \in Slots, \A r \in Slots : r = s,
           Reply(s), OneOwner', AcceptedIsFinal'
    PROVE  SerialInv'
<1>1. req'[s] = Idle
  BY DEF Reply, Hold, TypeOK
<1> QED
  BY <1>1 DEF SerialInv, StillSo, Idle, At

LEMMA SerialBegin ==
    ASSUME SerialInv, AccessInv', NEW s \in Slots, \A r \in Slots : r = s, Begin(s)
    PROVE  SerialInv'
<1>1. UNCHANGED tables
  BY DEF Begin, CreateInviteBegin, ResendBegin, RevokeBegin, DeclineBegin, AcceptBegin,
     UpdateRoleBegin, RemoveBegin, TransferBegin, DeleteVehicleBegin
<1> SUFFICES StillSo(s)'
  BY <1>1, RequestMoves
<1> USE DEF tables, StillSo, Hold, At, SerialInv, AccessInv, TypeOK
<1>2. ASSUME NEW a \in Users, NEW u \in Users, NEW r \in Roles,
             CreateInviteBegin(s, a, u, r) \/ UpdateRoleBegin(s, a, u, r)
      PROVE  StillSo(s)'
  BY <1>2 DEF CreateInviteBegin, UpdateRoleBegin
<1>3. ASSUME NEW a \in Users, NEW i \in InviteIds, ResendBegin(s, a, i) \/ RevokeBegin(s, a, i)
      PROVE  StillSo(s)'
  BY <1>3 DEF ResendBegin, RevokeBegin
<1>4. ASSUME NEW a \in Users, NEW i \in InviteIds, NEW t \in Tokens,
             DeclineBegin(s, a, i, t) \/ AcceptBegin(s, a, i, t)
      PROVE  StillSo(s)'
  BY <1>1, <1>4 DEF DeclineBegin, AcceptBegin, Usable, Pending, Exists
<1>5. ASSUME NEW a \in Users, NEW u \in Users, RemoveBegin(s, a, u)
      PROVE  StillSo(s)'
  BY <1>1, <1>5, OwnerIsPointer DEF RemoveBegin, IsOwner
<1>6. ASSUME NEW a \in Users, NEW u \in Users, TransferBegin(s, a, u)
      PROVE  StillSo(s)'
  BY <1>1, <1>6, OwnerIsPointer DEF TransferBegin
<1>7. ASSUME NEW a \in Users, DeleteVehicleBegin(s, a)
      PROVE  StillSo(s)'
  BY <1>7 DEF DeleteVehicleBegin
<1> QED
  BY <1>2, <1>3, <1>4, <1>5, <1>6, <1>7 DEF Begin

LEMMA SerialRead ==
    ASSUME SerialInv, AccessInv', NEW s \in Slots, \A r \in Slots : r = s, Read(s)
    PROVE  SerialInv'
<1>1. UNCHANGED tables
  BY DEF Read, CreateInviteMember, CreateInviteActive, ResendRead, RevokeRead, UpdateRoleRead,
     RemoveAssert, TransferTarget, TransferSelf
<1> SUFFICES StillSo(s)'
  BY <1>1, RequestMoves
<1>0. TypeOK /\ StillSo(s) /\ req[s] \in Request
  BY DEF SerialInv, AccessInv, TypeOK
<1>2. CASE req'[s] = Idle
  BY <1>2 DEF StillSo, Idle, At
<1>3. CASE CreateInviteMember(s) \/ CreateInviteActive(s) \/ ResendRead(s)
  <2>1. req[s] \in CreateInviteReq \cup OwnerInviteReq /\ req[s].op # "revoke"
    BY <1>0, <1>3, RequestShape DEF CreateInviteMember, CreateInviteActive, ResendRead, At
  <2>2. req'[s] = Idle \/ req'[s].op \in {"createInvite", "resend"}
    BY <1>0, <1>3, <2>1 DEF CreateInviteMember, CreateInviteActive, ResendRead, Proceed, Hold,
       TypeOK, CreateInviteReq, OwnerInviteReq, At
  <2> QED
    BY <1>2, <2>2 DEF StillSo, At
<1>4. CASE RevokeRead(s) /\ req'[s] # Idle
  <2>1. req[s] \in OwnerInviteReq
    BY <1>0, <1>4, RequestShape DEF RevokeRead, At
  <2>2. Revocable(req[s].inv) /\ req'[s] = [req[s] EXCEPT !.pc = "commit"]
    BY <1>0, <1>4 DEF RevokeRead, Proceed, Hold, TypeOK
  <2>3. req'[s].op = "revoke" /\ req'[s].inv = req[s].inv
    BY <1>4, <2>1, <2>2 DEF RevokeRead, At, OwnerInviteReq
  <2> QED
    BY <1>1, <2>2, <2>3 DEF StillSo, Revocable, Exists, tables, At
<1>5. CASE UpdateRoleRead(s) /\ req'[s] # Idle
  <2>1. req[s] \in UpdateRoleReq
    BY <1>0, <1>5, RequestShape DEF UpdateRoleRead, At
  <2>2. ~IsOwner(req[s].user) /\ req'[s] = [req[s] EXCEPT !.pc = "commit"]
    BY <1>0, <1>5 DEF UpdateRoleRead, Proceed, Hold, TypeOK, RoleChangeable
  <2>3. req'[s].op = "updateRole" /\ req'[s].user = req[s].user /\ req[s].user \in Users
    BY <1>5, <2>1, <2>2 DEF UpdateRoleRead, At, UpdateRoleReq
  <2> QED
    BY <1>1, <2>2, <2>3, OwnerIsPointer DEF StillSo, tables, At
<1>6. CASE RemoveAssert(s) /\ req'[s] # Idle
  <2>1. req[s] \in RemoveReq
    BY <1>0, <1>6, RequestShape DEF RemoveAssert, At
  <2>2. req[s].seen # "owner" /\ req'[s] = [req[s] EXCEPT !.pc = "commit"]
    BY <1>0, <1>6 DEF RemoveAssert, Proceed, Hold, TypeOK, MayRemove
  <2>3. /\ req'[s].op = "remove" /\ req'[s].user = req[s].user /\ req'[s].seen = req[s].seen
        /\ req[s].op = "remove"
    BY <1>6, <2>1, <2>2 DEF RemoveAssert, At, RemoveReq
  <2> QED
    BY <1>0, <1>1, <2>2, <2>3 DEF StillSo, tables, At
<1>7. CASE TransferTarget(s) /\ req'[s] # Idle
  <2>1. req[s] \in TransferReq
    BY <1>0, <1>7, RequestShape DEF TransferTarget, At
  <2>2. req[s].user # req[s].actor /\ req'[s] = [req[s] EXCEPT !.pc = "self"]
    BY <1>0, <1>7 DEF TransferTarget, Proceed, Hold, TypeOK
  <2>3. /\ req'[s].op = "transferOwnership" /\ req[s].op = "transferOwnership"
        /\ req'[s].user = req[s].user /\ req'[s].actor = req[s].actor
    BY <1>7, <2>1, <2>2 DEF TransferTarget, At, TransferReq
  <2> QED
    BY <1>0, <1>1, <2>2, <2>3 DEF StillSo, tables, At
<1>8. CASE TransferSelf(s) /\ req'[s] # Idle
  <2>1. req[s] \in TransferReq
    BY <1>0, <1>8, RequestShape DEF TransferSelf, At
  <2>2. req'[s] = [req[s] EXCEPT !.pc = "commit", !.own = members[req[s].actor].row]
    BY <1>0, <1>8 DEF TransferSelf, Hold, TypeOK
  <2>3. /\ req'[s].op = "transferOwnership" /\ req'[s].user = req[s].user
        /\ req'[s].actor = req[s].actor
        /\ req[s].op = "transferOwnership" /\ req[s].pc = "self"
    BY <1>8, <2>1, <2>2 DEF TransferSelf, At, TransferReq
  <2> QED
    BY <1>0, <1>1, <2>3 DEF StillSo, tables, At
<1> QED
  BY <1>2, <1>3, <1>4, <1>5, <1>6, <1>7, <1>8 DEF Read

(* What a stamp or a new link leaves of the invite it is put on. *)
LEMMA Stamped ==
    ASSUME TypeOK, NEW i \in InviteIds, Exists(i)
    PROVE  /\ invites' = [invites EXCEPT ![i].revoked = TRUE] =>
                invites'[i].accepted = invites[i].accepted
           /\ invites' = [invites EXCEPT ![i].declined = TRUE] =>
                invites'[i].accepted = invites[i].accepted
           /\ invites' = [invites EXCEPT ![i].accepted = TRUE] =>
                /\ invites'[i].revoked = invites[i].revoked
                /\ invites'[i].declined = invites[i].declined
                /\ invites'[i].accepted
           /\ invites' = [invites EXCEPT ![i].token = nextToken, ![i].expired = FALSE] =>
                /\ invites'[i].accepted = invites[i].accepted
                /\ invites'[i].revoked = invites[i].revoked
                /\ invites'[i].declined = invites[i].declined
           /\ invites' = [invites EXCEPT ![i].expired = TRUE] =>
                /\ invites'[i].accepted = invites[i].accepted
                /\ invites'[i].revoked = invites[i].revoked
                /\ invites'[i].declined = invites[i].declined
                /\ invites'[i] \in Invite
<1>1. invites[i] \in Invite /\ invites \in [InviteIds -> Invite \cup {NoInvite}]
  BY DEF TypeOK, Exists
<1>2. ASSUME invites' = [invites EXCEPT ![i].revoked = TRUE]
      PROVE  invites'[i].accepted = invites[i].accepted
  <2>1. invites'[i] = [invites[i] EXCEPT !.revoked = TRUE]
    BY <1>1, <1>2
  <2> QED
    BY <1>1, <2>1 DEF Invite
<1>3. ASSUME invites' = [invites EXCEPT ![i].declined = TRUE]
      PROVE  invites'[i].accepted = invites[i].accepted
  <2>1. invites'[i] = [invites[i] EXCEPT !.declined = TRUE]
    BY <1>1, <1>3
  <2> QED
    BY <1>1, <2>1 DEF Invite
<1>4. ASSUME invites' = [invites EXCEPT ![i].accepted = TRUE]
      PROVE  /\ invites'[i].revoked = invites[i].revoked
             /\ invites'[i].declined = invites[i].declined
             /\ invites'[i].accepted
  <2>1. invites'[i] = [invites[i] EXCEPT !.accepted = TRUE]
    BY <1>1, <1>4
  <2> QED
    BY <1>1, <2>1 DEF Invite
<1>5. ASSUME invites' = [invites EXCEPT ![i].token = nextToken, ![i].expired = FALSE]
      PROVE  /\ invites'[i].accepted = invites[i].accepted
             /\ invites'[i].revoked = invites[i].revoked
             /\ invites'[i].declined = invites[i].declined
  <2>1. invites'[i] = [invites[i] EXCEPT !.token = nextToken, !.expired = FALSE]
    BY <1>1, <1>5
  <2> QED
    BY <1>1, <2>1 DEF Invite
<1>6. ASSUME invites' = [invites EXCEPT ![i].expired = TRUE]
      PROVE  /\ invites'[i].accepted = invites[i].accepted
             /\ invites'[i].revoked = invites[i].revoked
             /\ invites'[i].declined = invites[i].declined
             /\ invites'[i] \in Invite
  <2>1. invites'[i] = [invites[i] EXCEPT !.expired = TRUE]
    BY <1>1, <1>6
  <2> QED
    BY <1>1, <2>1 DEF Invite
<1> QED
  BY <1>2, <1>3, <1>4, <1>5, <1>6

(* Commits that touch the invites only. *)
LEMMA InvitesCommit ==
    ASSUME SerialInv, AccessInv', NEW s \in Slots, \A r \in Slots : r = s,
           (\E i \in InviteIds : CreateInviteCommit(s, i)) \/ ResendCommit(s) \/ RevokeCommit(s)
             \/ DeclineCommit(s)
    PROVE  SerialInv'
<1>0. TypeOK /\ StillSo(s) /\ req[s] \in Request /\ AcceptedIsFinal
  BY DEF SerialInv, AccessInv, TypeOK
<1>1. Reply(s) /\ UNCHANGED <<pointer, members>>
  BY DEF CreateInviteCommit, ResendCommit, RevokeCommit, DeclineCommit
<1>2. OneOwner'
  BY <1>1 DEF SerialInv, OneOwner, IsOwner
<1>3. ASSUME UNCHANGED invites PROVE AcceptedIsFinal'
  BY <1>0, <1>3 DEF AcceptedIsFinal, Exists
<1>4. ASSUME NEW i \in InviteIds, CreateInviteCommit(s, i) PROVE AcceptedIsFinal'
  BY <1>0, <1>3, <1>4 DEF CreateInviteCommit, NewInvite, AcceptedIsFinal, Exists, TypeOK
<1>5. CASE ResendCommit(s) /\ invites' # invites
  <2>1. PICK i \in InviteIds : i = req[s].inv
    BY <1>0, <1>5, RequestShape DEF ResendCommit, At, OwnerInviteReq
  <2>2. Exists(i) /\ invites' = [invites EXCEPT ![i].token = nextToken, ![i].expired = FALSE]
    BY <1>5, <2>1 DEF ResendCommit
  <2>3. \A j \in InviteIds : j # i => invites'[j] = invites[j]
    BY <1>0, <2>2 DEF TypeOK
  <2>4. invites'[i].accepted => ~invites'[i].revoked /\ ~invites'[i].declined
    BY <1>0, <2>2, Stamped DEF AcceptedIsFinal
  <2>5. AcceptedIsFinal'
    BY <1>0, <2>3, <2>4 DEF AcceptedIsFinal, Exists
  <2> QED
    BY <1>0, <1>1, <1>2, <2>5, RequestEnds
<1>6. CASE RevokeCommit(s) /\ invites' # invites
  <2>1. PICK i \in InviteIds : i = req[s].inv
    BY <1>0, <1>6, RequestShape DEF RevokeCommit, At, OwnerInviteReq
  <2>2. Exists(i) /\ invites' = [invites EXCEPT ![i].revoked = TRUE]
    BY <1>6, <2>1 DEF RevokeCommit
  <2>3. \A j \in InviteIds : j # i => invites'[j] = invites[j]
    BY <1>0, <2>2 DEF TypeOK
  <2>4. ~invites'[i].accepted
    BY <1>0, <1>6, <2>1, <2>2, Stamped DEF StillSo, RevokeCommit
  <2>5. AcceptedIsFinal'
    BY <1>0, <2>3, <2>4 DEF AcceptedIsFinal, Exists
  <2> QED
    BY <1>0, <1>1, <1>2, <2>5, RequestEnds
<1>7. CASE DeclineCommit(s) /\ invites' # invites
  <2>1. PICK i \in InviteIds : i = req[s].inv
    BY <1>0, <1>7, RequestShape DEF DeclineCommit, At, InviteeReq
  <2>2. Exists(i) /\ invites' = [invites EXCEPT ![i].declined = TRUE]
    BY <1>7, <2>1 DEF DeclineCommit
  <2>3. \A j \in InviteIds : j # i => invites'[j] = invites[j]
    BY <1>0, <2>2 DEF TypeOK
  <2>4. ~invites'[i].accepted
    BY <1>0, <1>7, <2>1, <2>2, Stamped DEF StillSo, DeclineCommit, At
  <2>5. AcceptedIsFinal'
    BY <1>0, <2>3, <2>4 DEF AcceptedIsFinal, Exists
  <2> QED
    BY <1>0, <1>1, <1>2, <2>5, RequestEnds
<1> QED
  BY <1>0, <1>1, <1>2, <1>3, <1>4, <1>5, <1>6, <1>7, RequestEnds

LEMMA SerialCommit ==
    ASSUME SerialInv, AccessInv', NEW s \in Slots, \A r \in Slots : r = s, Commit(s)
    PROVE  SerialInv'
<1>0. TypeOK /\ StillSo(s) /\ req[s] \in Request /\ AcceptedIsFinal /\ OneOwner
  BY DEF SerialInv, AccessInv, TypeOK
<1>1. Reply(s)
  BY DEF Commit, CreateInviteCommit, ResendCommit, RevokeCommit, DeclineCommit, AcceptCommit,
     UpdateRoleCommit, RemoveCommit, TransferCommit, DeleteVehicleCommit
<1>2. ASSUME UNCHANGED <<pointer, invites>>, NEW u \in Users, u # pointer,
             \A v \in Users : v # u => members'[v] = members[v],
             members' = members \/ members'[u].role # "owner"
      PROVE  SerialInv'
  <2>1. AcceptedIsFinal'
    BY <1>0, <1>2 DEF AcceptedIsFinal, Exists
  <2>2. \A v \in Users : IsOwner(v)' <=> IsOwner(v)
    <3>1. ~IsOwner(u)
      BY <1>0, <1>2 DEF OneOwner
    <3> QED
      BY <1>2, <3>1 DEF IsOwner
  <2>3. OneOwner'
    BY <1>0, <1>2, <2>2 DEF OneOwner, TypeOK
  <2> QED
    BY <1>0, <1>1, <2>1, <2>3, RequestEnds
<1>3. CASE AcceptCommit(s)
  <2>1. /\ req[s] \in InviteeReq /\ req[s].actor # pointer
        /\ Exists(req[s].inv) => ~invites[req[s].inv].revoked /\ ~invites[req[s].inv].declined
    BY <1>0, <1>3, RequestShape DEF AcceptCommit, At, StillSo
  <2>2. req[s].inv \in InviteIds
    BY <2>1 DEF InviteeReq
  <2>3. AcceptedIsFinal'
    <3>1. CASE UNCHANGED invites
      BY <1>0, <3>1 DEF AcceptedIsFinal, Exists
    <3>2. CASE Exists(req[s].inv) /\ invites' = [invites EXCEPT ![req[s].inv].accepted = TRUE]
      <4>1. \A j \in InviteIds : j # req[s].inv => invites'[j] = invites[j]
        BY <1>0, <2>2, <3>2 DEF TypeOK
      <4>2. ~invites'[req[s].inv].revoked /\ ~invites'[req[s].inv].declined
        BY <1>0, <2>1, <2>2, <3>2, Stamped
      <4> QED
        BY <1>0, <2>2, <4>1, <4>2 DEF AcceptedIsFinal, Exists
    <3> QED
      BY <1>3, <3>1, <3>2 DEF AcceptCommit
  <2>4. /\ \A v \in Users : v # req[s].actor => members'[v] = members[v]
        /\ members' = members \/ members'[req[s].actor].role = req[s].role
    BY <1>0, <1>3, <2>1 DEF AcceptCommit, Upserted, TypeOK, Member, NoRow, HasRow, InviteeReq
  <2>5. req[s].role # "owner" /\ req[s].actor \in Users
    BY <2>1 DEF InviteeReq, GrantableRoles
  <2>6. pointer' = pointer
    BY <1>3 DEF AcceptCommit
  <2>7. \A v \in Users : IsOwner(v)' <=> IsOwner(v)
    <3>1. ~IsOwner(req[s].actor)
      BY <1>0, <2>1, <2>5 DEF OneOwner
    <3> QED
      BY <2>4, <2>5, <3>1 DEF IsOwner
  <2>8. OneOwner'
    BY <1>0, <2>6, <2>7 DEF OneOwner, TypeOK
  <2> QED
    BY <1>0, <1>1, <2>3, <2>8, RequestEnds
<1>4. CASE UpdateRoleCommit(s)
  <2>1. req[s] \in UpdateRoleReq /\ req[s].user # pointer
    BY <1>0, <1>4, RequestShape DEF UpdateRoleCommit, At, StillSo
  <2>2. /\ \A v \in Users : v # req[s].user => members'[v] = members[v]
        /\ members' = members \/ members'[req[s].user].role = req[s].role
    BY <1>0, <1>4, <2>1 DEF UpdateRoleCommit, TypeOK, Member, NoRow, UpdateRoleReq
  <2>3. req[s].role # "owner" /\ req[s].user \in Users /\ UNCHANGED <<pointer, invites>>
    BY <1>4, <2>1 DEF UpdateRoleReq, GrantableRoles, UpdateRoleCommit
  <2> QED
    BY <1>2, <2>1, <2>2, <2>3
<1>5. CASE RemoveCommit(s)
  <2>1. req[s] \in RemoveReq /\ req[s].user # pointer
    BY <1>0, <1>5, RequestShape DEF RemoveCommit, At, StillSo
  <2>2. /\ \A v \in Users : v # req[s].user => members'[v] = members[v]
        /\ members' = members \/ members'[req[s].user].role # "owner"
        /\ req[s].user \in Users /\ UNCHANGED <<pointer, invites>>
    BY <1>0, <1>5, <2>1 DEF RemoveCommit, TypeOK, NoRow, RemoveReq
  <2> QED
    BY <1>2, <2>1, <2>2
<1>6. CASE TransferCommit(s)
  <2>1. /\ req[s] \in TransferReq /\ req[s].actor = pointer /\ req[s].user # pointer
        /\ req[s].actor \in Users /\ req[s].user \in Users
    BY <1>0, <1>6, RequestShape DEF TransferCommit, At, StillSo, TransferReq
  <2>2. AcceptedIsFinal'
    BY <1>0, <1>6 DEF TransferCommit, AcceptedIsFinal, Exists
  <2>3. CASE UNCHANGED <<members, pointer>>
    <3>1. OneOwner'
      BY <1>0, <2>3 DEF OneOwner, IsOwner
    <3> QED
      BY <1>0, <1>1, <2>2, <3>1, RequestEnds
  <2>4. CASE Handover(req[s].actor, req[s].user)
    <3>1. /\ pointer' = req[s].user
          /\ \A v \in Users : v # pointer /\ v # req[s].user => members'[v] = members[v]
          /\ members'[req[s].actor].role = "editor" /\ members'[req[s].user].role = "owner"
      BY <1>0, <2>1, <2>4 DEF Handover, TypeOK, Member, NoRow
    <3>2. OneOwner'
      BY <1>0, <2>1, <3>1, SharingConstants DEF OneOwner, IsOwner
    <3> QED
      BY <1>0, <1>1, <2>2, <3>2, RequestEnds
  <2> QED
    BY <1>6, <2>3, <2>4 DEF TransferCommit
<1>7. CASE DeleteVehicleCommit(s)
  <2>1. OneOwner' /\ AcceptedIsFinal'
    BY <1>7, SharingConstants DEF DeleteVehicleCommit, OneOwner, IsOwner, NoRow, AcceptedIsFinal,
       Exists
  <2> QED
    BY <1>0, <1>1, <2>1, RequestEnds
<1> QED
  BY <1>3, <1>4, <1>5, <1>6, <1>7, InvitesCommit DEF Commit

LEMMA SerialNext ==
    ASSUME \A r, s \in Slots : r = s
    PROVE  SerialInv /\ [Next]_vars => SerialInv'
<1> SUFFICES ASSUME SerialInv, [Next]_vars PROVE SerialInv'
  OBVIOUS
<1>0. AccessInv /\ AccessInv'
  BY AccessNext DEF SerialInv
<1>1. CASE CreateVehicle
  <2>1. AcceptedIsFinal'
    BY <1>1 DEF CreateVehicle, SerialInv, AcceptedIsFinal, Exists
  <2>2. \A u \in Users : ~HasRow(u)
    BY <1>0, <1>1 DEF CreateVehicle, AccessInv, NoVehicleNoRows
  <2>3. \A u \in Users : ~IsOwner(u)
    BY <2>2, OwnerIsPointer
  <2>4. OneOwner'
    BY <1>0, <1>1, <2>3, SharingConstants DEF CreateVehicle, OneOwner, IsOwner, AccessInv, TypeOK
  <2>5. \A s \in Slots : req'[s] = Idle
    BY <1>0, <1>1 DEF CreateVehicle, AccessInv, NoVehicleNoRows
  <2> QED
    BY <1>0, <2>1, <2>4, <2>5 DEF SerialInv, StillSo, Idle, At
<1>2. ASSUME NEW i \in InviteIds, Expire(i) PROVE SerialInv'
  <2>1. \A j \in InviteIds :
          /\ Exists(j)' <=> Exists(j)
          /\ Exists(j) => /\ invites'[j].accepted = invites[j].accepted
                          /\ invites'[j].revoked = invites[j].revoked
                          /\ invites'[j].declined = invites[j].declined
    BY <1>0, <1>2, NoInviteIsNoRow DEF Expire, Exists, AccessInv, TypeOK, Invite
  <2>2. UNCHANGED <<pointer, members, req>>
    BY <1>2 DEF Expire
  <2>3. OneOwner' /\ AcceptedIsFinal'
    BY <2>1, <2>2 DEF SerialInv, OneOwner, IsOwner, AcceptedIsFinal
  <2>4. ASSUME NEW s \in Slots PROVE StillSo(s)'
    <3>1. StillSo(s) /\ req[s] \in Request
      BY <1>0 DEF SerialInv, AccessInv, TypeOK
    <3>2. req[s].op \in {"accept", "decline", "revoke"} => req[s].inv \in InviteIds
      BY <3>1, RequestShape DEF InviteeReq, OwnerInviteReq
    <3> QED
      BY <2>1, <2>2, <3>1, <3>2 DEF StillSo, At
  <2> QED
    BY <1>0, <2>3, <2>4 DEF SerialInv
<1>3. CASE UNCHANGED vars
  BY <1>0, <1>3 DEF vars, SerialInv, OneOwner, IsOwner, AcceptedIsFinal, Exists, StillSo, At
<1>4. ASSUME NEW s \in Slots, Begin(s) \/ Read(s) \/ Commit(s) PROVE SerialInv'
  <2>1. \A r \in Slots : r = s
    OBVIOUS
  <2> QED
    BY <1>0, <1>4, <2>1, SerialBegin, SerialRead, SerialCommit
<1> QED
  BY <1>1, <1>2, <1>3, <1>4 DEF Next

(* One request at a time, whatever the order of transfers, removals,       *)
(* accepts and role changes: a living vehicle has one owner row, and       *)
(* Vehicle.userId names it (transferOwnership's three updates).            *)
THEOREM OneOwnerInTurn ==
    ASSUME \A r, s \in Slots : r = s
    PROVE  Spec => []OneOwner
<1>1. SerialInv => OneOwner
  BY DEF SerialInv
<1>2. SerialInv /\ [Next]_vars => SerialInv'
  BY SerialNext
<1> QED
  BY <1>1, <1>2, SerialInit, PTL DEF Spec

(* Between two states with one owner each, an owner who is one no longer   *)
(* has been replaced in that very step.                                    *)
LEMMA OwnersFollow ==
    ASSUME TypeOK', OneOwner, OneOwner', NEW u \in Users,
           IsOwner(u), ~IsOwner(u)', pointer' # NoVehicle
    PROVE  \E v \in Users : ~IsOwner(v) /\ IsOwner(v)'
<1>1. u = pointer
  BY DEF OneOwner
<1>2. pointer' \in Users /\ members'[pointer'].role = "owner"
  BY DEF TypeOK, OneOwner, IsOwner
<1>3. PICK v \in Users : v = pointer'
  BY <1>2
<1>4. IsOwner(v)'
  BY <1>2, <1>3 DEF IsOwner
<1>5. ~IsOwner(v)
  BY <1>1, <1>4 DEF OneOwner, IsOwner
<1> QED
  BY <1>4, <1>5

(* One request at a time no owner's row is removed or demoted but by the   *)
(* handover to the next ("Owners cannot be removed. Transfer ownership     *)
(* first, or delete the vehicle.").                                        *)
THEOREM OwnerHandsOverInTurn ==
    ASSUME \A r, s \in Slots : r = s
    PROVE  Spec => OwnerOnlyHandsOver
<1>1. SerialInv /\ [Next]_vars => SerialInv'
  BY SerialNext
<1>2. SerialInv /\ SerialInv' =>
        \A u \in Users : IsOwner(u) /\ ~IsOwner(u)' /\ pointer' # NoVehicle =>
            \E v \in Users : ~IsOwner(v) /\ IsOwner(v)'
  BY OwnersFollow DEF SerialInv, AccessInv
<1> QED
  BY <1>1, <1>2, SerialInit, PTL DEF Spec, OwnerOnlyHandsOver

(* Without transfers it holds however many requests overlap: then an owner *)
(* leaves only with the vehicle.  To lose one takes an overlap and a       *)
(* transfer in it.                                                         *)
THEOREM OwnerStaysWithoutTransfer ==
    ASSUME "transferOwnership" \notin Ops
    PROVE  Spec => OwnerOnlyHandsOver
<1>1. AccessInv /\ OwnerInv /\ [Next]_vars => (AccessInv /\ OwnerInv)'
  BY AccessNext, OwnerNext
<1>2. OwnerInv /\ OwnerInv' =>
        \A u \in Users : IsOwner(u) /\ ~IsOwner(u)' /\ pointer' # NoVehicle =>
            \E v \in Users : ~IsOwner(v) /\ IsOwner(v)'
  BY OwnersFollow DEF OwnerInv
<1> QED
  BY <1>1, <1>2, AccessInit, OwnerInit, PTL DEF Spec, OwnerOnlyHandsOver

(* Likewise an accepted invite was neither declined nor revoked (revoke's  *)
(* "Cannot revoke an already-accepted invitation").                        *)
THEOREM AcceptedStaysAccepted ==
    ASSUME \A r, s \in Slots : r = s
    PROVE  Spec => []AcceptedIsFinal
<1>1. SerialInv => AcceptedIsFinal
  BY DEF SerialInv
<1>2. SerialInv /\ [Next]_vars => SerialInv'
  BY SerialNext
<1> QED
  BY <1>1, <1>2, SerialInit, PTL DEF Spec

(* Only the accept of an invite, and the creation, give a row to somebody  *)
(* who has none.                                                           *)
LEMMA RowsFromAccepts ==
    ASSUME SerialInv, NEW s \in Slots, Begin(s) \/ Read(s) \/ Commit(s), ~AcceptCommit(s),
           NEW u \in Users, HasRow(u)'
    PROVE  HasRow(u)
<1>0. TypeOK /\ req[s] \in Request /\ members \in [Users -> Member]
  BY DEF SerialInv, AccessInv, TypeOK
<1>1. CASE UNCHANGED members
  BY <1>1 DEF HasRow
<1>2. CASE Begin(s) \/ Read(s)
  <2>1. UNCHANGED members
    BY <1>2 DEF Begin, CreateInviteBegin, ResendBegin, RevokeBegin, DeclineBegin, AcceptBegin,
       UpdateRoleBegin, RemoveBegin, TransferBegin, DeleteVehicleBegin, Read, CreateInviteMember,
       CreateInviteActive, ResendRead, RevokeRead, UpdateRoleRead, RemoveAssert, TransferTarget,
       TransferSelf, tables
  <2> QED
    BY <1>1, <2>1
<1>3. ASSUME NEW f, NEW v \in Users, members' = [members EXCEPT ![v].role = f] PROVE HasRow(u)
  <2>1. members'[u] = members[u] \/ members'[u] = [members[u] EXCEPT !.role = f]
    BY <1>0, <1>3
  <2> QED
    BY <1>0, <2>1 DEF HasRow, Member, NoRow
<1>4. CASE UpdateRoleCommit(s)
  <2>1. req[s].user \in Users
    BY <1>0, <1>4, RequestShape DEF UpdateRoleCommit, At, UpdateRoleReq
  <2> QED
    BY <1>1, <1>3, <1>4, <2>1 DEF UpdateRoleCommit
<1>5. CASE RemoveCommit(s) \/ DeleteVehicleCommit(s)
  BY <1>0, <1>5 DEF RemoveCommit, DeleteVehicleCommit, HasRow, NoRow
<1>6. CASE TransferCommit(s)
  <2>1. req[s].user \in Users /\ req[s].actor \in Users
    BY <1>0, <1>6, RequestShape DEF TransferCommit, At, TransferReq
  <2>2. CASE UNCHANGED members
    BY <1>1, <2>2
  <2>3. CASE members' = [members EXCEPT ![req[s].actor].role = "editor",
                                        ![req[s].user].role = "owner"]
    <3>1. \/ members'[u] = members[u]
          \/ members'[u] = [members[u] EXCEPT !.role = "editor"]
          \/ members'[u] = [members[u] EXCEPT !.role = "owner"]
      <4>1. req[s].user # req[s].actor
        BY <1>6 DEF TransferCommit, At, SerialInv, StillSo
      <4> QED
        BY <1>0, <2>1, <2>3, <4>1
    <3> QED
      BY <1>0, <3>1 DEF HasRow, Member, NoRow
  <2> QED
    BY <1>6, <2>2, <2>3 DEF TransferCommit, Handover
<1>7. CASE (\E i \in InviteIds : CreateInviteCommit(s, i)) \/ ResendCommit(s)
           \/ RevokeCommit(s) \/ DeclineCommit(s)
  BY <1>1, <1>7 DEF CreateInviteCommit, ResendCommit, RevokeCommit, DeclineCommit
<1> QED
  BY <1>2, <1>4, <1>5, <1>6, <1>7 DEF Commit

(* Nobody joins, or comes back after a removal, but by spending an invite  *)
(* of theirs that nobody had used, revoked or declined (accept).           *)
THEOREM JoiningSpends ==
    ASSUME \A r, s \in Slots : r = s
    PROVE  Spec => JoinSpendsInvite
<1> DEFINE Joins == \A u \in Users : ~HasRow(u) /\ HasRow(u)' =>
        \/ pointer = NoVehicle /\ u = Creator
        \/ \E i \in InviteIds :
             /\ Exists(i) /\ invites[i].email = u
             /\ ~invites[i].accepted /\ ~invites[i].revoked /\ ~invites[i].declined
             /\ invites'[i].accepted
<1>1. SerialInv /\ [Next]_vars => [Joins]_vars
  <2> SUFFICES ASSUME SerialInv, Next, NEW u \in Users, ~HasRow(u), HasRow(u)'
               PROVE  \/ pointer = NoVehicle /\ u = Creator
                      \/ \E i \in InviteIds :
                           /\ Exists(i) /\ invites[i].email = u
                           /\ ~invites[i].accepted /\ ~invites[i].revoked /\ ~invites[i].declined
                           /\ invites'[i].accepted
    OBVIOUS
  <2>1. CASE CreateVehicle
    BY <2>1 DEF CreateVehicle, SerialInv, AccessInv, NoVehicleNoRows, HasRow, TypeOK
  <2>2. ~\E i \in InviteIds : Expire(i)
    BY DEF Expire, HasRow
  <2>3. ASSUME NEW s \in Slots, AcceptCommit(s)
        PROVE  \E i \in InviteIds :
                  /\ Exists(i) /\ invites[i].email = u
                  /\ ~invites[i].accepted /\ ~invites[i].revoked /\ ~invites[i].declined
                  /\ invites'[i].accepted
    <3>0. TypeOK /\ req[s] \in Request /\ req[s].op = "accept"
      BY <2>3 DEF SerialInv, AccessInv, TypeOK, AcceptCommit, At
    <3>1. PICK i \in InviteIds, a \in Users : i = req[s].inv /\ a = req[s].actor
      BY <3>0, RequestShape DEF InviteeReq
    <3>2. Exists(i) /\ invites' = [invites EXCEPT ![i].accepted = TRUE]
      <4>1. members' # members
        BY DEF HasRow
      <4> QED
        BY <2>3, <3>1, <4>1 DEF AcceptCommit
    <3>3. u = a
      BY <2>3, <3>0, <3>1 DEF AcceptCommit, Upserted, HasRow, TypeOK
    <3>4. pointer # NoVehicle
      BY <3>2 DEF SerialInv, AccessInv, NoVehicleNoRows
    <3>5. invites[i].email = u
      BY <3>0, <3>1, <3>3, <3>4 DEF SerialInv, AccessInv, AcceptNamesCaller
    <3>6. ~invites[i].accepted /\ ~invites[i].revoked /\ ~invites[i].declined
      BY <3>0, <3>1, <3>2 DEF SerialInv, StillSo
    <3>7. invites'[i].accepted
      BY <3>0, <3>2, Stamped
    <3> QED
      BY <3>2, <3>5, <3>6, <3>7
  <2> QED
    BY <2>1, <2>2, <2>3, RowsFromAccepts DEF Next
<1>2. SerialInv /\ [Next]_vars => SerialInv'
  BY SerialNext
<1> QED
  BY <1>1, <1>2, SerialInit, PTL DEF Spec, JoinSpendsInvite

-----------------------------------------------------------------------------
(* What sharing promises, one request at a time. *)

(* The offers outside S stand as they stood. *)
OffersKept(S) ==
    \A j \in InviteIds \ S :
        /\ Offered(j)' <=> Offered(j)
        /\ Offered(j) => /\ invites'[j].email = invites[j].email
                         /\ invites'[j].role = invites[j].role

(* An offer is withdrawn, spent, made or renewed. *)
OfferEnds(i) == Offered(i) /\ ~Offered(i)' /\ OffersKept({i})
OfferMade(i) == ~Offered(i) /\ Offered(i)' /\ OffersKept({i})

(* What the offer of a person is, given that there is one at most. *)
OfferMeans ==
    /\ offerOf = [u \in Users |-> offerOf[u]]
    /\ \A u \in Users :
         /\ \A i \in InviteIds : Offered(i) /\ invites[i].email = u => offerOf[u] = invites[i].role
         /\ (\A i \in InviteIds : Offered(i) => invites[i].email # u) => offerOf[u] = "none"

LEMMA OfferMeaning == OneStandingOffer => OfferMeans
<1> SUFFICES ASSUME OneStandingOffer, NEW u \in Users
             PROVE  /\ \A i \in InviteIds : Offered(i) /\ invites[i].email = u =>
                         offerOf[u] = invites[i].role
                    /\ (\A i \in InviteIds : Offered(i) => invites[i].email # u) =>
                         offerOf[u] = "none"
  <2>1. offerOf = [u \in Users |-> offerOf[u]]
    BY DEF offerOf
  <2> QED
    BY <2>1 DEF OfferMeans
<1>1. ASSUME NEW i \in InviteIds, Offered(i), invites[i].email = u
      PROVE  offerOf[u] = invites[i].role
  <2>1. OfferTo(u) = {invites[i].role}
    BY <1>1 DEF OneStandingOffer, OfferTo
  <2>2. offerOf[u] = CHOOSE r \in {invites[i].role} : TRUE
    BY <2>1, Zenon DEF offerOf
  <2> QED
    BY <2>2
<1>2. ASSUME \A i \in InviteIds : Offered(i) => invites[i].email # u
      PROVE  offerOf[u] = "none"
  <2>1. OfferTo(u) = {}
    BY <1>2 DEF OfferTo
  <2> QED
    BY <2>1, Zenon DEF offerOf
<1> QED
  BY <1>1, <1>2

LEMMA RoleMeaning ==
    ASSUME TypeOK, NEW u \in Users
    PROVE  /\ roleOf[u] = members[u].role
           /\ roleOf[u] = "none" <=> ~HasRow(u)
           /\ HasRow(u) /\ ~IsOwner(u) => roleOf[u] \in GrantableRoles
BY DEF TypeOK, roleOf, Member, NoRow, HasRow, IsOwner, Roles, GrantableRoles

(* The only request there can be is the one in s. *)
LEMMA OfferedInTurn ==
    ASSUME NEW s \in Slots, \A r \in Slots : r = s, NEW i \in InviteIds
    PROVE  /\ Offered(i) <=> /\ Exists(i)
                             /\ Pending(i) \/ (req[s].op = "accept" /\ req[s].inv = i)
           /\ Offered(i)' <=> /\ Exists(i)'
                              /\ Pending(i)' \/ (req'[s].op = "accept" /\ req'[s].inv = i)
BY DEF Offered

LEMMA OffersShrink ==
    ASSUME OneStandingOffer, TypeOK,
           \A i \in InviteIds : Offered(i)' => Offered(i) /\ invites'[i].email = invites[i].email,
           \A u \in Users : HasRow(u)' => HasRow(u)
    PROVE  OneStandingOffer'
<1>1. \A i \in InviteIds : Offered(i) => invites[i].email \in Users
  BY DEF Offered, Exists, TypeOK, Invite
<1> QED
  BY <1>1 DEF OneStandingOffer

LEMMA OfferBegin ==
    ASSUME OfferInv, TypeOK', NEW s \in Slots, \A r \in Slots : r = s, Begin(s)
    PROVE  OffersKept({}) /\ OfferStillDue(s)'
<1>1. UNCHANGED tables /\ req[s] = Idle
  BY DEF Begin, CreateInviteBegin, ResendBegin, RevokeBegin, DeclineBegin, AcceptBegin,
     UpdateRoleBegin, RemoveBegin, TransferBegin, DeleteVehicleBegin, Free
<1>2. \A i \in InviteIds : (Exists(i)' <=> Exists(i)) /\ (Pending(i)' <=> Pending(i))
  BY <1>1 DEF tables, Exists, Pending
<1>3. req \in [Slots -> Request]
  BY DEF OfferInv, SerialInv, AccessInv, TypeOK
<1>4. ASSUME NEW a \in Users, NEW i \in InviteIds, NEW t \in Tokens, AcceptBegin(s, a, i, t)
      PROVE  /\ req'[s].op = "accept" /\ req'[s].inv = i /\ Pending(i)
             /\ req'[s].role = invites[i].role
  BY <1>3, <1>4 DEF AcceptBegin, Hold, Usable
<1>5. \/ /\ req'[s].op = "accept" /\ req'[s].inv \in InviteIds /\ Pending(req'[s].inv)
         /\ req'[s].role = invites[req'[s].inv].role
      \/ /\ req'[s].op # "accept"
         /\ req'[s].op = "createInvite" => req'[s].pc = "member"
         /\ req'[s].op = "resend" => req'[s].pc = "read"
  BY <1>3, <1>4 DEF Begin, CreateInviteBegin, ResendBegin, RevokeBegin, DeclineBegin,
     UpdateRoleBegin, RemoveBegin, TransferBegin, DeleteVehicleBegin, Hold
<1>6. \A i \in InviteIds : Offered(i)' <=> Offered(i)
  BY <1>1, <1>2, <1>5, OfferedInTurn DEF Idle, Pending
<1>7. OfferStillDue(s)'
  BY <1>1, <1>5 DEF OfferStillDue, At, tables
<1> QED
  BY <1>1, <1>6, <1>7 DEF OffersKept, tables

LEMMA OfferRead ==
    ASSUME OfferInv, TypeOK', NEW s \in Slots, \A r \in Slots : r = s, Read(s)
    PROVE  OffersKept({}) /\ OfferStillDue(s)'
<1>0. /\ TypeOK /\ OneStandingOffer /\ OfferStillDue(s)
      /\ req \in [Slots -> Request] /\ req[s] \in Request
  BY DEF OfferInv, SerialInv, AccessInv, TypeOK
<1>1. UNCHANGED tables /\ req[s].op # "accept"
  BY DEF Read, CreateInviteMember, CreateInviteActive, ResendRead, RevokeRead, UpdateRoleRead,
     RemoveAssert, TransferTarget, TransferSelf, At
<1>2. \A i \in InviteIds : (Exists(i)' <=> Exists(i)) /\ (Pending(i)' <=> Pending(i))
  BY <1>1 DEF tables, Exists, Pending
<1>3. UNCHANGED <<invites, members>>
  BY <1>1 DEF tables
<1>4. CASE req'[s].op \notin {"accept", "createInvite", "resend"}
  <2>1. \A i \in InviteIds : Offered(i)' <=> Offered(i)
    BY <1>1, <1>2, <1>4, OfferedInTurn
  <2> QED
    BY <1>3, <1>4, <2>1 DEF OffersKept, OfferStillDue, At
<1>5. CASE CreateInviteMember(s) /\ req'[s] # Idle
  <2>1. req[s] \in CreateInviteReq
    BY <1>0, <1>5, RequestShape DEF CreateInviteMember, At
  <2>2. /\ req'[s].op = "createInvite" /\ req'[s].pc = "active" /\ req'[s].user = req[s].user
        /\ ~HasRow(req[s].user)
    BY <1>0, <1>5, <2>1 DEF CreateInviteMember, Proceed, Hold, CreateInviteReq
  <2>3. \A i \in InviteIds : Offered(i)' <=> Offered(i)
    BY <1>1, <1>2, <2>2, OfferedInTurn
  <2> QED
    BY <1>3, <2>2, <2>3 DEF OffersKept, OfferStillDue, At, HasRow
<1>6. CASE CreateInviteActive(s) /\ req'[s] # Idle
  <2>1. req[s] \in CreateInviteReq
    BY <1>0, <1>6, RequestShape DEF CreateInviteActive, At
  <2>2. /\ req'[s].op = "createInvite" /\ req'[s].pc = "commit" /\ req'[s].user = req[s].user
        /\ \A i \in InviteIds : Pending(i) => invites[i].email # req[s].user
    BY <1>0, <1>6, <2>1 DEF CreateInviteActive, Proceed, Hold, CreateInviteReq
  <2>3. ~HasRow(req[s].user)
    BY <1>0, <1>6 DEF OfferStillDue, CreateInviteActive, At
  <2>4. \A i \in InviteIds : Offered(i)' <=> Offered(i)
    BY <1>1, <1>2, <2>2, OfferedInTurn
  <2> QED
    BY <1>2, <1>3, <2>2, <2>3, <2>4 DEF OffersKept, OfferStillDue, At, HasRow
<1>7. CASE ResendRead(s) /\ req'[s] # Idle
  <2>1. req[s] \in OwnerInviteReq
    BY <1>0, <1>7, RequestShape DEF ResendRead, At
  <2>2. /\ req'[s].op = "resend" /\ req'[s].inv = req[s].inv /\ req[s].inv \in InviteIds
        /\ Pending(req[s].inv)
    BY <1>0, <1>7, <2>1 DEF ResendRead, Proceed, Hold, OwnerInviteReq, At
  <2>3. \A i \in InviteIds : Pending(i) => Offered(i)
    BY DEF Offered, Pending
  <2>4. LET u == invites[req[s].inv].email IN
        ~HasRow(u) /\ \A i \in InviteIds : Pending(i) /\ invites[i].email = u => i = req[s].inv
    BY <1>0, <2>2, <2>3 DEF OneStandingOffer
  <2>5. \A i \in InviteIds : Offered(i)' <=> Offered(i)
    BY <1>1, <1>2, <2>2, OfferedInTurn
  <2> QED
    BY <1>2, <1>3, <2>2, <2>4, <2>5 DEF OffersKept, OfferStillDue, At, HasRow
<1>8. CASE RevokeRead(s) \/ UpdateRoleRead(s) \/ RemoveAssert(s)
  <2>1. req[s] \in OwnerInviteReq \cup UpdateRoleReq \cup RemoveReq
    BY <1>0, <1>8, RequestShape DEF RevokeRead, UpdateRoleRead, RemoveAssert, At
  <2>2. req'[s] = Idle \/ req'[s] = [req[s] EXCEPT !.pc = "commit"]
    BY <1>0, <1>8 DEF RevokeRead, UpdateRoleRead, RemoveAssert, Proceed, Hold
  <2>3. req'[s].op \in {"idle", "revoke", "updateRole", "remove"}
    BY <1>8, <2>1, <2>2 DEF RevokeRead, UpdateRoleRead, RemoveAssert, At, Idle, OwnerInviteReq,
       UpdateRoleReq, RemoveReq
  <2> QED
    BY <1>4, <2>3
<1>9. CASE TransferTarget(s) \/ TransferSelf(s)
  <2>1. req[s] \in TransferReq
    BY <1>0, <1>9, RequestShape DEF TransferTarget, TransferSelf, At
  <2>2. \/ req'[s] = Idle
        \/ req'[s] = [req[s] EXCEPT !.pc = "self"]
        \/ req'[s] = [req[s] EXCEPT !.pc = "commit", !.own = members[req[s].actor].row]
    BY <1>0, <1>9 DEF TransferTarget, TransferSelf, Proceed, Hold
  <2>3. ASSUME req'[s] = [req[s] EXCEPT !.pc = "self"]
        PROVE  req'[s].op = "transferOwnership"
    BY <2>1, <2>3 DEF TransferReq
  <2>4. ASSUME req'[s] = [req[s] EXCEPT !.pc = "commit", !.own = members[req[s].actor].row]
        PROVE  req'[s].op = "transferOwnership"
    BY <2>1, <2>4 DEF TransferReq
  <2> QED
    BY <1>4, <2>2, <2>3, <2>4 DEF Idle
<1>10. CASE req'[s] = Idle
  BY <1>4, <1>10 DEF Idle
<1> QED
  BY <1>5, <1>6, <1>7, <1>8, <1>9, <1>10 DEF Read

(* What an update of one invite's row leaves as it was. *)
LEMMA RowUpdated ==
    ASSUME TypeOK, TypeOK', NEW i \in InviteIds, Exists(i), NEW row,
           invites' = [invites EXCEPT ![i] = row], row \in Invite,
           row.email = invites[i].email, row.role = invites[i].role
    PROVE  /\ Exists(i)' /\ invites'[i] = row
           /\ \A j \in InviteIds : j # i => invites'[j] = invites[j]
           /\ \A j \in InviteIds : /\ Exists(j)' <=> Exists(j)
                                   /\ invites'[j].email = invites[j].email
                                   /\ invites'[j].role = invites[j].role
           /\ \A j \in InviteIds : j # i => (Pending(j)' <=> Pending(j))
<1>1. invites'[i] = row /\ \A j \in InviteIds : j # i => invites'[j] = invites[j]
  BY DEF TypeOK
<1>2. \A j \in InviteIds : Exists(j)' <=> Exists(j)
  BY <1>1, NoInviteIsNoRow DEF Exists
<1>3. \A j \in InviteIds : j # i => (Pending(j)' <=> Pending(j))
  BY <1>1 DEF Pending, Exists
<1> QED
  BY <1>1, <1>2, <1>3

LEMMA OfferExpire ==
    ASSUME OfferInv, TypeOK', NEW i \in InviteIds, Expire(i)
    PROVE  /\ OffersKept({}) \/ OfferEnds(i)
           /\ \A s \in Slots : OfferStillDue(s)'
<1> DEFINE row == [invites[i] EXCEPT !.expired = TRUE]
<1>0. TypeOK /\ invites[i] \in Invite
  BY DEF OfferInv, SerialInv, AccessInv, TypeOK, Expire, Exists
<1>1. /\ row \in Invite /\ row.email = invites[i].email /\ row.role = invites[i].role
      /\ row.expired
  BY <1>0 DEF Invite
<1>2. Exists(i) /\ invites' = [invites EXCEPT ![i] = row] /\ UNCHANGED <<members, req>>
  BY DEF Expire
<1> HIDE DEF row
<1>3. /\ \A j \in InviteIds : j # i => invites'[j] = invites[j]
      /\ \A j \in InviteIds : /\ Exists(j)' <=> Exists(j)
                              /\ invites'[j].email = invites[j].email
                              /\ invites'[j].role = invites[j].role
      /\ \A j \in InviteIds : j # i => (Pending(j)' <=> Pending(j))
  BY <1>0, <1>1, <1>2, RowUpdated
<1>4. ~Pending(i)'
  <2>1. invites'[i] = row
    BY <1>0, <1>1, <1>2, RowUpdated
  <2>2. invites'[i].expired
    BY <2>1, <1>1
  <2> QED
    BY <2>2 DEF Pending
<1>5. \A j \in InviteIds : j # i => (Offered(j)' <=> Offered(j))
  BY <1>2, <1>3 DEF Offered
<1>6. Offered(i)' => Offered(i)
  BY <1>2, <1>3, <1>4 DEF Offered
<1>7. OffersKept({}) \/ OfferEnds(i)
  BY <1>3, <1>5, <1>6 DEF OffersKept, OfferEnds
<1>8. ASSUME NEW s \in Slots PROVE OfferStillDue(s)'
  <2>1. OfferStillDue(s) /\ req[s] \in Request
    BY <1>0 DEF OfferInv, TypeOK
  <2>2. req[s].op \in {"accept", "resend"} => req[s].inv \in InviteIds
    BY <2>1, RequestShape DEF InviteeReq, OwnerInviteReq
  <2>3. \A j \in InviteIds : Pending(j)' => Pending(j)
    BY <1>3, <1>4
  <2>4. \A u : HasRow(u)' <=> HasRow(u)
    BY <1>2 DEF HasRow
  <2>5. /\ req'[s].op = "createInvite" /\ req'[s].pc # "member" => ~HasRow(req[s].user)
        /\ At(s, "createInvite", "commit")' =>
             \A j \in InviteIds : Pending(j)' => invites'[j].email # req[s].user
    BY <1>2, <1>3, <2>1, <2>3 DEF OfferStillDue, At
  <2>6. At(s, "resend", "commit")' /\ Exists(req[s].inv)' =>
          LET u == invites[req[s].inv].email IN
          ~HasRow(u) /\ \A j \in InviteIds : Pending(j)' /\ invites'[j].email = u => j = req[s].inv
    BY <1>2, <1>3, <2>1, <2>2, <2>3 DEF OfferStillDue, At
  <2>7. req'[s].op = "accept" /\ Exists(req[s].inv)' => invites'[req[s].inv].role = req[s].role
    BY <1>2, <1>3, <2>1, <2>2 DEF OfferStillDue
  <2> QED
    BY <1>2, <1>3, <2>2, <2>4, <2>5, <2>6, <2>7 DEF OfferStillDue, At
<1> QED
  BY <1>7, <1>8

(* One invite's row is updated: the other offers stand. *)
LEMMA OfferUpdated ==
    ASSUME TypeOK, TypeOK', NEW s \in Slots, \A r \in Slots : r = s,
           NEW i \in InviteIds, Exists(i), NEW row \in Invite,
           invites' = [invites EXCEPT ![i] = row],
           row.email = invites[i].email, row.role = invites[i].role,
           req[s].op = "accept" => req[s].inv = i, req'[s].op # "accept"
    PROVE  /\ invites'[i] = row /\ Exists(i)' /\ (Offered(i)' <=> Pending(i)')
           /\ Offered(i) /\ ~Offered(i)' => OfferEnds(i)
           /\ ~Offered(i) /\ Offered(i)' => OfferMade(i)
           /\ (Offered(i) <=> Offered(i)') => OffersKept({})
<1>1. /\ Exists(i)' /\ invites'[i] = row
      /\ \A j \in InviteIds : /\ Exists(j)' <=> Exists(j)
                              /\ invites'[j].email = invites[j].email
                              /\ invites'[j].role = invites[j].role
      /\ \A j \in InviteIds : j # i => (Pending(j)' <=> Pending(j))
  BY RowUpdated
<1>2. \A j \in InviteIds : j # i => (Offered(j)' <=> Offered(j))
  BY <1>1, OfferedInTurn
<1>3. Offered(i)' <=> Pending(i)'
  BY <1>1, OfferedInTurn
<1> QED
  BY <1>1, <1>2, <1>3 DEF OffersKept, OfferEnds, OfferMade

LEMMA OfferStamp ==
    ASSUME OfferInv, TypeOK', NEW s \in Slots, \A r \in Slots : r = s,
           RevokeCommit(s) \/ DeclineCommit(s)
    PROVE  OffersKept({}) \/ \E i \in InviteIds : OfferEnds(i)
<1>0. TypeOK /\ req \in [Slots -> Request] /\ req[s] \in Request
  BY DEF OfferInv, SerialInv, AccessInv, TypeOK
<1>1. PICK i \in InviteIds : i = req[s].inv /\ req[s].op # "accept" /\ req'[s].op # "accept"
  BY <1>0, RequestShape DEF RevokeCommit, DeclineCommit, At, InviteeReq, OwnerInviteReq, Reply,
     Hold, Idle
<1>2. CASE UNCHANGED invites
  <2>1. \A j \in InviteIds : Offered(j)' <=> Offered(j)
    BY <1>1, <1>2, OfferedInTurn DEF Pending, Exists
  <2> QED
    BY <1>2, <2>1 DEF OffersKept
<1>3. ASSUME Exists(i), NEW row \in Invite, invites' = [invites EXCEPT ![i] = row],
             row.email = invites[i].email, row.role = invites[i].role, row.revoked \/ row.declined
      PROVE  OffersKept({}) \/ OfferEnds(i)
  <2>1. ~Offered(i)'
    BY <1>0, <1>1, <1>3, OfferUpdated DEF Pending
  <2> QED
    BY <1>0, <1>1, <1>3, <2>1, OfferUpdated
<1>4. CASE Exists(i) /\ ~UNCHANGED invites
  <2>1. invites[i] \in Invite
    BY <1>0, <1>1, <1>4 DEF TypeOK, Exists
  <2>2. CASE RevokeCommit(s)
    <3>0. PICK row : row = [invites[i] EXCEPT !.revoked = TRUE]
      OBVIOUS
    <3>1. /\ row \in Invite /\ row.email = invites[i].email /\ row.role = invites[i].role
          /\ row.revoked
      BY <2>1, <3>0 DEF Invite
    <3>2. invites' = [invites EXCEPT ![i] = row]
      BY <1>1, <1>4, <2>2, <3>0 DEF RevokeCommit
    <3> QED
      BY <1>1, <1>3, <1>4, <3>1, <3>2
  <2>3. CASE DeclineCommit(s)
    <3>0. PICK row : row = [invites[i] EXCEPT !.declined = TRUE]
      OBVIOUS
    <3>1. /\ row \in Invite /\ row.email = invites[i].email /\ row.role = invites[i].role
          /\ row.declined
      BY <2>1, <3>0 DEF Invite
    <3>2. invites' = [invites EXCEPT ![i] = row]
      BY <1>1, <1>4, <2>3, <3>0 DEF DeclineCommit
    <3> QED
      BY <1>1, <1>3, <1>4, <3>1, <3>2
  <2> QED
    BY <2>2, <2>3
<1> QED
  BY <1>1, <1>2, <1>4 DEF RevokeCommit, DeclineCommit

(* A resend renews an offer that expired since it was read, to somebody    *)
(* who has no row and no other offer.                                      *)
LEMMA OfferResend ==
    ASSUME OfferInv, TypeOK', NEW s \in Slots, \A r \in Slots : r = s, ResendCommit(s)
    PROVE  \/ OffersKept({})
           \/ \E i \in InviteIds :
                /\ OfferMade(i) /\ invites'[i].email = invites[i].email
                /\ ~HasRow(invites'[i].email)
                /\ \A j \in InviteIds : Offered(j) => invites[j].email # invites'[i].email
<1>0. /\ TypeOK /\ req \in [Slots -> Request] /\ req[s] \in Request /\ OfferStillDue(s)
  BY DEF OfferInv, SerialInv, AccessInv, TypeOK
<1>1. PICK i \in InviteIds :
        i = req[s].inv /\ At(s, "resend", "commit") /\ req'[s].op # "accept"
  BY <1>0, RequestShape DEF ResendCommit, At, OwnerInviteReq, Reply, Hold, Idle
<1>2. CASE ~Exists(i)
  <2>1. UNCHANGED invites
    BY <1>1, <1>2 DEF ResendCommit
  <2>2. \A j \in InviteIds : Offered(j)' <=> Offered(j)
    BY <1>1, <2>1, OfferedInTurn DEF Pending, Exists, At
  <2> QED
    BY <2>1, <2>2 DEF OffersKept
<1>3. CASE Exists(i)
  <2>0. PICK row : row = [invites[i] EXCEPT !.token = nextToken, !.expired = FALSE]
    OBVIOUS
  <2>1. invites[i] \in Invite /\ nextToken \in Tokens
    BY <1>0, <1>1, <1>3, SharingConstants DEF TypeOK, Exists, ResendCommit, Tokens
  <2>2. row \in Invite /\ row.email = invites[i].email /\ row.role = invites[i].role
    BY <2>0, <2>1 DEF Invite
  <2>3. invites' = [invites EXCEPT ![i] = row]
    BY <1>1, <1>3, <2>0 DEF ResendCommit
  <2>4. /\ invites'[i].email = invites[i].email
        /\ ~Offered(i) /\ Offered(i)' => OfferMade(i)
        /\ (Offered(i) <=> Offered(i)') => OffersKept({})
    BY <1>0, <1>1, <1>3, <2>2, <2>3, OfferUpdated DEF At
  <2>5. \A j \in InviteIds : Offered(j) <=> Pending(j)
    BY <1>1, OfferedInTurn DEF At, Pending
  <2>6. Offered(i) => Offered(i)'
    <3>1. Pending(i) => Pending(i)'
      <4>1. /\ row.accepted = invites[i].accepted /\ row.revoked = invites[i].revoked
            /\ row.declined = invites[i].declined /\ row.expired = FALSE
        BY <2>0, <2>1 DEF Invite
      <4>2. invites'[i] = row /\ Exists(i)'
        BY <1>0, <1>1, <1>3, <2>2, <2>3, OfferUpdated DEF At
      <4> QED
        BY <4>1, <4>2 DEF Pending
    <3>2. Offered(i)' <=> Pending(i)'
      BY <1>0, <1>1, <1>3, <2>2, <2>3, OfferUpdated DEF At
    <3> QED
      BY <2>5, <3>1, <3>2, <1>1
  <2>7. /\ ~HasRow(invites[i].email)
        /\ \A j \in InviteIds : Offered(j) /\ invites[j].email = invites[i].email => j = i
    BY <1>0, <1>1, <1>3, <2>5 DEF OfferStillDue
  <2> QED
    BY <1>1, <2>4, <2>6, <2>7
<1> QED
  BY <1>2, <1>3

(* createInvite makes an offer to somebody who has no row and no offer. *)
LEMMA OfferCreate ==
    ASSUME OfferInv, TypeOK', NEW s \in Slots, \A r \in Slots : r = s,
           NEW i \in InviteIds, CreateInviteCommit(s, i)
    PROVE  \/ OffersKept({})
           \/ /\ OfferMade(i) /\ pointer # NoVehicle
              /\ ~HasRow(invites'[i].email)
              /\ \A j \in InviteIds : Offered(j) => invites[j].email # invites'[i].email
<1>0. TypeOK /\ req \in [Slots -> Request] /\ req[s] \in Request /\ OfferStillDue(s)
  BY DEF OfferInv, SerialInv, AccessInv, TypeOK
<1>1. At(s, "createInvite", "commit") /\ req'[s].op # "accept"
  BY <1>0 DEF CreateInviteCommit, Reply, Hold, Idle
<1>2. \A j \in InviteIds : (Offered(j) <=> Pending(j)) /\ (Offered(j)' <=> Pending(j)')
  BY <1>1, OfferedInTurn DEF Pending, At
<1>3. CASE UNCHANGED invites
  BY <1>2, <1>3 DEF OffersKept, Pending, Exists
<1>4. CASE /\ pointer # NoVehicle /\ ~Exists(i)
           /\ invites' = [invites EXCEPT ![i] = NewInvite(req[s])]
  <2>1. invites'[i] = NewInvite(req[s]) /\ \A j \in InviteIds : j # i => invites'[j] = invites[j]
    BY <1>0, <1>4 DEF TypeOK
  <2>2. invites'[i].email = req[s].user
    BY <2>1 DEF NewInvite
  <2>3. Exists(i)'
    <3>1. req[s] \in CreateInviteReq /\ nextToken \in Tokens
      BY <1>0, <1>1, <1>4, RequestShape, SharingConstants
         DEF At, TypeOK, Tokens, CreateInviteCommit, Exists
    <3>2. NewInvite(req[s]) \in Invite
      BY <3>1 DEF NewInvite, CreateInviteReq, Invite
    <3> QED
      BY <2>1, <3>2, NoInviteIsNoRow DEF Exists
  <2>4. Pending(i)' /\ ~Pending(i)
    BY <1>4, <2>1, <2>3 DEF Pending, NewInvite
  <2>5. OfferMade(i)
    BY <1>2, <2>1, <2>4 DEF OfferMade, OffersKept, Pending, Exists
  <2>6. /\ ~HasRow(req[s].user)
        /\ \A j \in InviteIds : Pending(j) => invites[j].email # req[s].user
    BY <1>0, <1>1 DEF OfferStillDue, At
  <2> QED
    BY <1>2, <1>4, <2>2, <2>5, <2>6
<1> QED
  BY <1>3, <1>4 DEF CreateInviteCommit

(* An accept turns the offer of its caller into a row with its role. *)
LEMMA OfferTaken ==
    ASSUME OfferInv, TypeOK', NEW s \in Slots, \A r \in Slots : r = s, AcceptCommit(s)
    PROVE  \/ OffersKept({}) /\ UNCHANGED members
           \/ \E i \in InviteIds, u \in Users :
                /\ OfferEnds(i) /\ u = invites[i].email
                /\ members' = [members EXCEPT ![u] = [row |-> nextRow, role |-> invites[i].role]]
<1>0. /\ TypeOK /\ req \in [Slots -> Request] /\ req[s] \in Request /\ OfferStillDue(s)
      /\ AcceptNamesCaller /\ NoVehicleNoRows /\ OneStandingOffer
  BY DEF OfferInv, SerialInv, AccessInv, TypeOK
<1>1. PICK i \in InviteIds, u \in Users :
        /\ i = req[s].inv /\ u = req[s].actor /\ req[s].op = "accept" /\ req'[s].op # "accept"
  BY <1>0, RequestShape DEF AcceptCommit, At, InviteeReq, Reply, Hold, Idle
<1>2. CASE ~Exists(i)
  <2>1. UNCHANGED <<invites, members>>
    BY <1>1, <1>2 DEF AcceptCommit
  <2>2. \A j \in InviteIds : Offered(j)' <=> Offered(j)
    BY <1>1, <1>2, <2>1, OfferedInTurn DEF Pending, Exists
  <2> QED
    BY <2>1, <2>2 DEF OffersKept
<1>3. CASE Exists(i)
  <2>0. PICK row : row = [invites[i] EXCEPT !.accepted = TRUE]
    OBVIOUS
  <2>1. invites[i] \in Invite
    BY <1>0, <1>1, <1>3 DEF TypeOK, Exists
  <2>2. row \in Invite /\ row.email = invites[i].email /\ row.role = invites[i].role /\ row.accepted
    BY <2>0, <2>1 DEF Invite
  <2>3. invites' = [invites EXCEPT ![i] = row]
    BY <1>1, <1>3, <2>0 DEF AcceptCommit
  <2>4. Offered(i) /\ ~Offered(i)' /\ OfferEnds(i)
    <3>1. Offered(i)
      BY <1>1, <1>3 DEF Offered
    <3>2. ~Offered(i)'
      BY <1>0, <1>1, <1>3, <2>2, <2>3, OfferUpdated DEF Pending
    <3> QED
      BY <1>0, <1>1, <1>3, <2>2, <2>3, <3>1, <3>2, OfferUpdated
  <2>5. invites[i].email = u
    BY <1>0, <1>1, <1>3 DEF AcceptNamesCaller, NoVehicleNoRows
  <2>6. ~HasRow(u)
    BY <1>0, <2>4, <2>5 DEF OneStandingOffer
  <2>7. members' = [members EXCEPT ![u] = [row |-> nextRow, role |-> invites[i].role]]
    BY <1>0, <1>1, <1>3, <2>6 DEF AcceptCommit, Upserted, OfferStillDue
  <2> QED
    BY <2>4, <2>5, <2>7
<1> QED
  BY <1>2, <1>3

(* What changes members' rows changes no offer. *)
LEMMA OfferUntouched ==
    ASSUME OfferInv, TypeOK', NEW s \in Slots, \A r \in Slots : r = s,
           UpdateRoleCommit(s) \/ RemoveCommit(s) \/ TransferCommit(s)
    PROVE  OffersKept({})
<1>1. UNCHANGED invites /\ req[s].op # "accept" /\ req'[s].op # "accept"
  BY DEF UpdateRoleCommit, RemoveCommit, TransferCommit, At, Reply, Hold, Idle, OfferInv,
     SerialInv, AccessInv, TypeOK
<1>2. \A j \in InviteIds : Offered(j)' <=> Offered(j)
  BY <1>1, OfferedInTurn DEF Pending, Exists
<1> QED
  BY <1>1, <1>2 DEF OffersKept

LEMMA OffersKeptOnce ==
    ASSUME OfferInv, OffersKept({}) \/ \E i \in InviteIds : OfferEnds(i),
           \A u \in Users : HasRow(u)' => HasRow(u)
    PROVE  OneStandingOffer'
<1>1. \A j \in InviteIds : Offered(j)' => Offered(j) /\ invites'[j].email = invites[j].email
  BY DEF OffersKept, OfferEnds
<1> QED
  BY <1>1, OffersShrink DEF OfferInv, SerialInv, AccessInv

LEMMA OfferMadeOnce ==
    ASSUME OfferInv, NEW i \in InviteIds, OfferMade(i), UNCHANGED members,
           ~HasRow(invites'[i].email),
           \A j \in InviteIds : Offered(j) => invites[j].email # invites'[i].email
    PROVE  OneStandingOffer'
<1>1. \A u : HasRow(u)' <=> HasRow(u)
  BY DEF HasRow
<1>2. \A j \in InviteIds : j # i /\ Offered(j)' => Offered(j) /\ invites'[j].email = invites[j].email
  BY DEF OfferMade, OffersKept
<1>3. \A j, k \in InviteIds :
        Offered(j)' /\ Offered(k)' /\ invites'[j].email = invites'[k].email => j = k
  BY <1>2 DEF OfferInv, OneStandingOffer
<1>4. \A j \in InviteIds : Offered(j)' => ~HasRow(invites'[j].email)
  BY <1>2 DEF OfferInv, OneStandingOffer
<1> QED
  BY <1>1, <1>3, <1>4 DEF OneStandingOffer, HasRow

LEMMA OfferTakenOnce ==
    ASSUME OfferInv, NEW i \in InviteIds, NEW u \in Users, OfferEnds(i), u = invites[i].email,
           members' = [members EXCEPT ![u] = [row |-> nextRow, role |-> invites[i].role]]
    PROVE  OneStandingOffer'
<1>0. TypeOK /\ OneStandingOffer
  BY DEF OfferInv, SerialInv, AccessInv
<1>1. \A j \in InviteIds :
        Offered(j)' => j # i /\ Offered(j) /\ invites'[j].email = invites[j].email
  BY DEF OfferEnds, OffersKept
<1>2. \A j \in InviteIds : Offered(j)' => invites'[j].email # u
  BY <1>0, <1>1 DEF OneStandingOffer, OfferEnds
<1>3. \A v \in Users : v # u => members'[v] = members[v]
  BY <1>0 DEF TypeOK
<1>4. \A j \in InviteIds : Offered(j) => invites[j].email \in Users
  BY <1>0 DEF Offered, Exists, TypeOK, Invite
<1>5. \A j \in InviteIds : Offered(j)' => members'[invites'[j].email].row = 0
  BY <1>0, <1>1, <1>2, <1>3, <1>4 DEF OneStandingOffer, HasRow
<1>6. \A j, k \in InviteIds :
        Offered(j)' /\ Offered(k)' /\ invites'[j].email = invites'[k].email => j = k
  BY <1>0, <1>1 DEF OneStandingOffer
<1> QED
  BY <1>5, <1>6 DEF OneStandingOffer, HasRow

LEMMA OfferInit == Init => OfferInv
<1> SUFFICES ASSUME Init PROVE OfferInv
  OBVIOUS
<1>1. OneStandingOffer
  BY DEF Init, OneStandingOffer, Offered, Exists
<1>2. \A s \in Slots : OfferStillDue(s)
  BY DEF Init, OfferStillDue, Idle, At
<1> QED
  BY <1>1, <1>2, SerialInit DEF OfferInv

LEMMA OfferCommits ==
    ASSUME OfferInv, SerialInv', NEW s \in Slots, \A r \in Slots : r = s, Commit(s)
    PROVE  OneStandingOffer' /\ OfferStillDue(s)'
<1>0. TypeOK /\ TypeOK'
  BY DEF OfferInv, SerialInv, AccessInv
<1>1. req'[s] = Idle
  BY <1>0 DEF Commit, CreateInviteCommit, ResendCommit, RevokeCommit, DeclineCommit, AcceptCommit,
     UpdateRoleCommit, RemoveCommit, TransferCommit, DeleteVehicleCommit, Reply, Hold, TypeOK
<1>2. OfferStillDue(s)'
  BY <1>1 DEF OfferStillDue, Idle, At
<1> SUFFICES OneStandingOffer'
  BY <1>2
<1>3. ASSUME NEW i \in InviteIds, CreateInviteCommit(s, i) PROVE OneStandingOffer'
  <2>1. UNCHANGED members
    BY <1>3 DEF CreateInviteCommit
  <2> QED
    BY <1>0, <1>3, <2>1, OfferCreate, OffersKeptOnce, OfferMadeOnce DEF HasRow
<1>4. CASE ResendCommit(s)
  <2>1. UNCHANGED members
    BY <1>4 DEF ResendCommit
  <2> QED
    BY <1>0, <1>4, <2>1, OfferResend, OffersKeptOnce, OfferMadeOnce DEF HasRow
<1>5. CASE RevokeCommit(s) \/ DeclineCommit(s)
  <2>1. UNCHANGED members
    BY <1>5 DEF RevokeCommit, DeclineCommit
  <2> QED
    BY <1>0, <1>5, <2>1, OfferStamp, OffersKeptOnce DEF HasRow
<1>6. CASE AcceptCommit(s)
  BY <1>0, <1>6, OfferTaken, OfferTakenOnce, OffersKeptOnce DEF HasRow
<1>7. CASE UpdateRoleCommit(s) \/ RemoveCommit(s) \/ TransferCommit(s)
  <2>1. ~AcceptCommit(s)
    BY <1>7 DEF UpdateRoleCommit, RemoveCommit, TransferCommit, AcceptCommit, At
  <2>2. \A u \in Users : HasRow(u)' => HasRow(u)
    BY <2>1, RowsFromAccepts DEF OfferInv
  <2> QED
    BY <1>0, <1>7, <2>2, OfferUntouched, OffersKeptOnce
<1>8. CASE DeleteVehicleCommit(s)
  BY <1>8 DEF DeleteVehicleCommit, OneStandingOffer, Offered, Exists
<1> QED
  BY <1>3, <1>4, <1>5, <1>6, <1>7, <1>8 DEF Commit

LEMMA OfferNext ==
    ASSUME \A r, s \in Slots : r = s
    PROVE  OfferInv /\ [Next]_vars => OfferInv'
<1> SUFFICES ASSUME OfferInv, [Next]_vars PROVE OfferInv'
  OBVIOUS
<1>0. SerialInv' /\ TypeOK /\ TypeOK'
  BY SerialNext DEF OfferInv, SerialInv, AccessInv
<1>1. CASE CreateVehicle
  <2>1. \A i \in InviteIds : ~Offered(i)'
    BY <1>1 DEF CreateVehicle, OfferInv, SerialInv, AccessInv, NoVehicleNoRows, Offered, Exists
  <2>2. \A s \in Slots : req'[s] = Idle
    BY <1>1 DEF CreateVehicle, OfferInv, SerialInv, AccessInv, NoVehicleNoRows
  <2>3. OneStandingOffer'
    BY <2>1 DEF OneStandingOffer
  <2> QED
    BY <1>0, <2>2, <2>3 DEF OfferInv, OfferStillDue, Idle, At
<1>2. ASSUME NEW i \in InviteIds, Expire(i) PROVE OfferInv'
  <2>1. \A u \in Users : HasRow(u)' => HasRow(u)
    BY <1>2 DEF Expire, HasRow
  <2> QED
    BY <1>0, <1>2, <2>1, OfferExpire, OffersKeptOnce DEF OfferInv
<1>3. ASSUME NEW s \in Slots, Begin(s) \/ Read(s) PROVE OfferInv'
  <2>1. \A u \in Users : HasRow(u)' => HasRow(u)
    BY <1>3 DEF Begin, CreateInviteBegin, ResendBegin, RevokeBegin, DeclineBegin, AcceptBegin,
       UpdateRoleBegin, RemoveBegin, TransferBegin, DeleteVehicleBegin, Read, CreateInviteMember,
       CreateInviteActive, ResendRead, RevokeRead, UpdateRoleRead, RemoveAssert, TransferTarget,
       TransferSelf, tables, HasRow
  <2> QED
    BY <1>0, <1>3, <2>1, OfferBegin, OfferRead, OffersKeptOnce DEF OfferInv
<1>4. ASSUME NEW s \in Slots, Commit(s) PROVE OfferInv'
  BY <1>0, <1>4, OfferCommits DEF OfferInv
<1>5. CASE UNCHANGED vars
  BY <1>0, <1>5 DEF vars, OfferInv, OneStandingOffer, OfferStillDue, Offered, Exists, Pending,
     HasRow, At
<1> QED
  BY <1>1, <1>2, <1>3, <1>4, <1>5 DEF Next

LEMMA OfferMeaningNext == OneStandingOffer' => OfferMeans'
BY OfferMeaning, PTL

(* The same step as the promise sees it.                                   *)
LEMMA PromiseKept ==
    ASSUME OfferInv, OfferInv', OffersKept({})
    PROVE  UNCHANGED offerOf
<1>1. OfferMeans /\ OfferMeans'
  BY OfferMeaning, OfferMeaningNext DEF OfferInv
<1>2. ASSUME NEW u \in Users PROVE offerOf'[u] = offerOf[u]
  <2>1. CASE \E i \in InviteIds : Offered(i) /\ invites[i].email = u
    BY <1>1, <2>1 DEF OfferMeans, OffersKept
  <2>2. CASE \A i \in InviteIds : Offered(i) => invites[i].email # u
    BY <1>1, <2>2 DEF OfferMeans, OffersKept
  <2> QED
    BY <2>1, <2>2
<1> QED
  BY <1>1, <1>2 DEF OfferMeans

LEMMA PromiseEnds ==
    ASSUME OfferInv, OfferInv', NEW i \in InviteIds, OfferEnds(i),
           NEW u, u = invites[i].email
    PROVE  /\ u \in Users /\ offerOf[u] = invites[i].role
           /\ offerOf[u] \in GrantableRoles
           /\ offerOf' = [offerOf EXCEPT ![u] = "none"]
<1>1. OfferMeans /\ OfferMeans' /\ OneStandingOffer
  BY OfferMeaning, OfferMeaningNext DEF OfferInv
<1>2. invites[i] \in Invite
  BY DEF OfferInv, SerialInv, AccessInv, TypeOK, OfferEnds, Offered, Exists
<1>3. u \in Users /\ offerOf[u] = invites[i].role /\ offerOf[u] \in GrantableRoles
  BY <1>1, <1>2 DEF OfferMeans, OfferEnds, Invite
<1>4. offerOf'[u] = "none"
  BY <1>1, <1>3 DEF OfferMeans, OfferEnds, OffersKept, OneStandingOffer
<1>5. ASSUME NEW v \in Users, v # u PROVE offerOf'[v] = offerOf[v]
  <2>1. CASE \E j \in InviteIds : Offered(j) /\ invites[j].email = v
    BY <1>1, <1>5, <2>1 DEF OfferMeans, OffersKept, OfferEnds
  <2>2. CASE \A j \in InviteIds : Offered(j) => invites[j].email # v
    BY <1>1, <2>2 DEF OfferMeans, OffersKept, OfferEnds
  <2> QED
    BY <2>1, <2>2
<1> QED
  BY <1>1, <1>3, <1>4, <1>5 DEF OfferMeans

LEMMA PromiseMade ==
    ASSUME OfferInv, OfferInv', NEW i \in InviteIds, OfferMade(i), NEW u, u = invites'[i].email,
           \A j \in InviteIds : Offered(j) => invites[j].email # u
    PROVE  /\ u \in Users /\ offerOf[u] = "none"
           /\ \E r \in GrantableRoles : offerOf' = [offerOf EXCEPT ![u] = r]
<1>1. OfferMeans /\ OfferMeans'
  BY OfferMeaning, OfferMeaningNext DEF OfferInv
<1>2. invites'[i] \in Invite
  BY DEF OfferInv, SerialInv, AccessInv, TypeOK, OfferMade, Offered, Exists
<1>3. u \in Users /\ offerOf[u] = "none" /\ offerOf'[u] = invites'[i].role
  BY <1>1, <1>2 DEF OfferMeans, OfferMade, Invite
<1>4. ASSUME NEW v \in Users, v # u PROVE offerOf'[v] = offerOf[v]
  <2>1. CASE \E j \in InviteIds : Offered(j) /\ invites[j].email = v
    BY <1>1, <1>4, <2>1 DEF OfferMeans, OffersKept, OfferMade
  <2>2. CASE \A j \in InviteIds : Offered(j) => invites[j].email # v
    BY <1>1, <1>4, <2>2 DEF OfferMeans, OffersKept, OfferMade
  <2> QED
    BY <2>1, <2>2
<1>5. offerOf' = [offerOf EXCEPT ![u] = invites'[i].role]
  BY <1>1, <1>3, <1>4 DEF OfferMeans
<1>6. invites'[i].role \in GrantableRoles
  BY <1>2 DEF Invite
<1> QED
  BY <1>3, <1>5, <1>6

LEMMA PromiseInit == Init => Promise!Init
<1> SUFFICES ASSUME Init PROVE Promise!Init
  OBVIOUS
<1>1. OfferMeans /\ \A i \in InviteIds : ~Offered(i)
  BY OfferInit, OfferMeaning DEF OfferInv, Init, Offered, Exists
<1>2. offerOf = [u \in Users |-> "none"]
  BY <1>1 DEF OfferMeans
<1>3. roleOf = [u \in Users |-> "none"]
  BY DEF Init, roleOf, NoRow
<1> QED
  BY <1>2, <1>3 DEF Init, Promise!Init

(* A vehicle that lives has an owner; who is offered something, none.      *)
LEMMA PromiseOffer ==
    ASSUME OfferInv, OfferInv', NEW i \in InviteIds, OfferMade(i), UNCHANGED <<pointer, members>>,
           pointer # NoVehicle, ~HasRow(invites'[i].email),
           \A j \in InviteIds : Offered(j) => invites[j].email # invites'[i].email
    PROVE  Promise!Next
<1>1. PICK u : u = invites'[i].email
  OBVIOUS
<1>2. /\ u \in Users /\ offerOf[u] = "none"
      /\ \E r \in GrantableRoles : offerOf' = [offerOf EXCEPT ![u] = r]
  BY <1>1, PromiseMade
<1>3. roleOf[u] = "none"
  BY <1>1, <1>2, RoleMeaning DEF OfferInv, SerialInv, AccessInv
<1>4. UNCHANGED roleOf
  BY DEF roleOf
<1>5. \E r \in Promise!Grantable : Promise!Offer(u, r)
  BY <1>2, <1>3, <1>4 DEF Promise!Offer, Promise!Grantable, GrantableRoles, Roles
<1> QED
  BY <1>2, <1>5 DEF Promise!Next

LEMMA PromiseWithdraw ==
    ASSUME OfferInv, OfferInv', UNCHANGED <<pointer, members>>,
           OffersKept({}) \/ \E i \in InviteIds : OfferEnds(i)
    PROVE  Promise!Next \/ UNCHANGED <<pointer, roleOf, offerOf>>
<1>1. UNCHANGED roleOf
  BY DEF roleOf
<1>2. ASSUME NEW i \in InviteIds, OfferEnds(i) PROVE Promise!Next
  <2>1. PICK u : u = invites[i].email
    OBVIOUS
  <2>2. u \in Users /\ offerOf[u] # "none" /\ offerOf' = [offerOf EXCEPT ![u] = "none"]
    BY <1>2, <2>1, PromiseEnds DEF GrantableRoles, Roles
  <2>3. Promise!Withdraw(u)
    BY <1>1, <2>2 DEF Promise!Withdraw
  <2> QED
    BY <2>2, <2>3 DEF Promise!Next
<1> QED
  BY <1>1, <1>2, PromiseKept

LEMMA PromiseJoin ==
    ASSUME OfferInv, OfferInv', UNCHANGED pointer, NEW i \in InviteIds, OfferEnds(i),
           NEW u, u = invites[i].email,
           members' = [members EXCEPT ![u] = [row |-> nextRow, role |-> invites[i].role]]
    PROVE  Promise!Next
<1>0. TypeOK /\ OneStandingOffer
  BY DEF OfferInv, SerialInv, AccessInv
<1>1. /\ u \in Users /\ offerOf[u] = invites[i].role /\ offerOf[u] # "none"
      /\ offerOf' = [offerOf EXCEPT ![u] = "none"]
  BY PromiseEnds DEF GrantableRoles, Roles
<1>2. roleOf[u] = "none"
  BY <1>0, <1>1, RoleMeaning DEF OneStandingOffer, OfferEnds
<1>3. roleOf' = [roleOf EXCEPT ![u] = offerOf[u]]
  BY <1>0, <1>1 DEF roleOf, TypeOK
<1>4. Promise!Join(u)
  BY <1>1, <1>2, <1>3 DEF Promise!Join
<1> QED
  BY <1>1, <1>4 DEF Promise!Next

(* Role changes, removals and transfers. *)
LEMMA PromiseMembers ==
    ASSUME OfferInv, OfferInv', NEW s \in Slots, \A r \in Slots : r = s,
           UpdateRoleCommit(s) \/ RemoveCommit(s) \/ TransferCommit(s)
    PROVE  Promise!Next \/ UNCHANGED <<pointer, roleOf, offerOf>>
<1>0. TypeOK /\ TypeOK' /\ StillSo(s) /\ req[s] \in Request /\ SerialInv
  BY DEF OfferInv, SerialInv, AccessInv, TypeOK
<1>1. UNCHANGED offerOf
  BY <1>0, OfferUntouched, PromiseKept
<1>2. CASE UNCHANGED <<members, pointer>>
  BY <1>1, <1>2 DEF roleOf
<1>3. ASSUME NEW u \in Users, u # pointer, HasRow(u) PROVE roleOf[u] \in Promise!Grantable
  BY <1>0, <1>3, RoleMeaning, OwnerIsPointer DEF Promise!Grantable, GrantableRoles, Roles
<1>4. CASE UpdateRoleCommit(s) /\ ~UNCHANGED <<members, pointer>>
  <2>1. req[s] \in UpdateRoleReq /\ req[s].user # pointer
    BY <1>0, <1>4, RequestShape DEF UpdateRoleCommit, At, StillSo
  <2>2. PICK u \in Users, r \in GrantableRoles : u = req[s].user /\ r = req[s].role
    BY <2>1 DEF UpdateRoleReq
  <2>3. members' = [members EXCEPT ![u].role = r] /\ HasRow(u) /\ pointer' = pointer
    BY <1>4, <2>1, <2>2 DEF UpdateRoleCommit, RowLives, HasRow, UpdateRoleReq
  <2>4. roleOf' = [roleOf EXCEPT ![u] = r]
    <3>1. members'[u].role = r /\ \A v \in Users : v # u => members'[v] = members[v]
      BY <1>0, <2>3 DEF TypeOK, Member, NoRow
    <3> QED
      BY <3>1 DEF roleOf
  <2>5. Promise!ChangeRole(u, r)
    BY <1>1, <1>3, <2>1, <2>2, <2>3, <2>4 DEF Promise!ChangeRole
  <2> QED
    BY <2>5 DEF Promise!Next, Promise!Grantable, GrantableRoles, Roles
<1>5. CASE RemoveCommit(s) /\ ~UNCHANGED <<members, pointer>>
  <2>1. req[s] \in RemoveReq /\ req[s].user # pointer
    BY <1>0, <1>5, RequestShape DEF RemoveCommit, At, StillSo
  <2>2. PICK u \in Users : u = req[s].user
    BY <2>1 DEF RemoveReq
  <2>3. members' = [members EXCEPT ![u] = NoRow] /\ HasRow(u) /\ pointer' = pointer
    BY <1>5, <2>1, <2>2 DEF RemoveCommit, RowLives, HasRow, RemoveReq
  <2>4. roleOf' = [roleOf EXCEPT ![u] = "none"]
    BY <1>0, <2>3 DEF roleOf, TypeOK, NoRow
  <2>5. Promise!Leave(u)
    BY <1>1, <1>3, <2>1, <2>2, <2>3, <2>4 DEF Promise!Leave
  <2> QED
    BY <2>5 DEF Promise!Next
<1>6. CASE TransferCommit(s) /\ ~UNCHANGED <<members, pointer>>
  <2>1. req[s] \in TransferReq /\ req[s].actor = pointer /\ req[s].user # pointer
    BY <1>0, <1>6, RequestShape DEF TransferCommit, At, StillSo
  <2>2. PICK u \in Users : u = req[s].user /\ req[s].row # 0
    BY <2>1 DEF TransferReq
  <2>3. Handover(pointer, u) /\ HasRow(u) /\ pointer \in Users
    BY <1>6, <2>1, <2>2 DEF TransferCommit, RowLives, HasRow, TransferReq
  <2>4. /\ members'[pointer].role = "editor" /\ members'[u].role = "owner"
        /\ \A v \in Users : v # u /\ v # pointer => members'[v] = members[v]
    BY <1>0, <2>1, <2>2, <2>3 DEF Handover, TypeOK, Member, NoRow
  <2>5. roleOf' = [roleOf EXCEPT ![pointer] = "editor", ![u] = "owner"]
    BY <2>1, <2>2, <2>3, <2>4 DEF roleOf
  <2>6. Promise!Transfer(u)
    BY <1>1, <1>3, <2>1, <2>2, <2>3, <2>5 DEF Promise!Transfer, Handover
  <2> QED
    BY <2>6 DEF Promise!Next
<1> QED
  BY <1>2, <1>4, <1>5, <1>6

LEMMA PromiseCommit ==
    ASSUME OfferInv, OfferInv', NEW s \in Slots, \A r \in Slots : r = s, Commit(s)
    PROVE  Promise!Next \/ UNCHANGED <<pointer, roleOf, offerOf>>
<1>0. TypeOK /\ TypeOK' /\ NoVehicleNoRows
  BY DEF OfferInv, SerialInv, AccessInv
<1>1. ASSUME NEW i \in InviteIds, CreateInviteCommit(s, i)
      PROVE  Promise!Next \/ UNCHANGED <<pointer, roleOf, offerOf>>
  <2>1. UNCHANGED <<pointer, members>>
    BY <1>1 DEF CreateInviteCommit
  <2> QED
    BY <1>0, <1>1, <2>1, OfferCreate, PromiseOffer, PromiseWithdraw
<1>2. CASE ResendCommit(s)
  <2>1. UNCHANGED <<pointer, members>>
    BY <1>2 DEF ResendCommit
  <2>2. ASSUME NEW i \in InviteIds, OfferMade(i), invites'[i].email = invites[i].email
        PROVE  pointer # NoVehicle
    BY <1>0, <1>2, <2>2 DEF NoVehicleNoRows, ResendCommit, OfferMade, Offered, Exists, TypeOK
  <2> QED
    BY <1>0, <1>2, <2>1, <2>2, OfferResend, PromiseOffer, PromiseWithdraw
<1>3. CASE RevokeCommit(s) \/ DeclineCommit(s)
  <2>1. UNCHANGED <<pointer, members>>
    BY <1>3 DEF RevokeCommit, DeclineCommit
  <2> QED
    BY <1>0, <1>3, <2>1, OfferStamp, PromiseWithdraw
<1>4. CASE AcceptCommit(s)
  <2>1. UNCHANGED pointer
    BY <1>4 DEF AcceptCommit
  <2> QED
    BY <1>0, <1>4, <2>1, OfferTaken, PromiseJoin, PromiseWithdraw
<1>5. CASE DeleteVehicleCommit(s)
  <2>1. roleOf' = [u \in Users |-> "none"]
    BY <1>5 DEF DeleteVehicleCommit, roleOf, NoRow
  <2>2. \A i \in InviteIds : ~Offered(i)'
    BY <1>5 DEF DeleteVehicleCommit, Offered, Exists
  <2>3. offerOf' = [u \in Users |-> "none"]
    BY <2>2, OfferMeaningNext DEF OfferInv, OfferMeans
  <2>4. CASE pointer # NoVehicle
    BY <1>5, <2>1, <2>3, <2>4 DEF DeleteVehicleCommit, Promise!Delete, Promise!Next
  <2>5. CASE pointer = NoVehicle
    <3>1. OffersKept({})
      BY <1>0, <2>2, <2>5 DEF NoVehicleNoRows, OffersKept, Offered
    <3>2. roleOf = [u \in Users |-> "none"]
      <4>1. \A u \in Users : members[u].role = "none"
        BY <1>0, <2>5, RoleMeaning DEF NoVehicleNoRows
      <4> QED
        BY <4>1 DEF roleOf
    <3> QED
      BY <1>5, <2>1, <2>5, <3>1, <3>2, PromiseKept DEF DeleteVehicleCommit
  <2> QED
    BY <2>4, <2>5
<1> QED
  BY <1>1, <1>2, <1>3, <1>4, <1>5, PromiseMembers DEF Commit

LEMMA PromiseNext ==
    ASSUME \A r, s \in Slots : r = s, OfferInv, OfferInv', [Next]_vars
    PROVE  [Promise!Next]_<<pointer, roleOf, offerOf>>
<1>0. TypeOK /\ TypeOK' /\ NoVehicleNoRows
  BY DEF OfferInv, SerialInv, AccessInv
<1>1. CASE CreateVehicle
  <2>1. pointer = NoVehicle /\ \A u \in Users : ~HasRow(u)
    BY <1>0, <1>1 DEF CreateVehicle, NoVehicleNoRows
  <2>2. roleOf' = [roleOf EXCEPT ![Creator] = "owner"]
    BY <1>0, <1>1, SharingConstants DEF CreateVehicle, roleOf, TypeOK
  <2>3. OffersKept({})
    BY <1>1 DEF CreateVehicle, OffersKept, Offered, Exists, Pending
  <2>4. Promise!Create
    BY <1>1, <2>1, <2>2, <2>3, PromiseKept DEF CreateVehicle, Promise!Create
  <2> QED
    BY <2>4 DEF Promise!Next
<1>2. ASSUME NEW i \in InviteIds, Expire(i) PROVE [Promise!Next]_<<pointer, roleOf, offerOf>>
  <2>1. UNCHANGED <<pointer, members>>
    BY <1>2 DEF Expire
  <2> QED
    BY <1>0, <1>2, <2>1, OfferExpire, PromiseWithdraw
<1>3. ASSUME NEW s \in Slots, Begin(s) \/ Read(s)
      PROVE  [Promise!Next]_<<pointer, roleOf, offerOf>>
  <2>1. UNCHANGED <<pointer, members>>
    BY <1>3 DEF Begin, CreateInviteBegin, ResendBegin, RevokeBegin, DeclineBegin, AcceptBegin,
       UpdateRoleBegin, RemoveBegin, TransferBegin, DeleteVehicleBegin, Read, CreateInviteMember,
       CreateInviteActive, ResendRead, RevokeRead, UpdateRoleRead, RemoveAssert, TransferTarget,
       TransferSelf, tables
  <2> QED
    BY <1>0, <1>3, <2>1, OfferBegin, OfferRead, PromiseWithdraw
<1>4. ASSUME NEW s \in Slots, Commit(s) PROVE [Promise!Next]_<<pointer, roleOf, offerOf>>
  BY <1>4, PromiseCommit
<1>5. CASE UNCHANGED vars
  <2>1. OffersKept({}) /\ UNCHANGED <<pointer, members>>
    BY <1>5 DEF vars, OffersKept, Offered, Exists, Pending
  <2> QED
    BY <2>1, PromiseWithdraw
<1> QED
  BY <1>1, <1>2, <1>3, <1>4, <1>5 DEF Next

(* One request at a time nobody has two standing offers, and no member has *)
(* one, whatever expires between the checks of createInvite or resend and  *)
(* their writes.                                                           *)
THEOREM OffersAreSingle ==
    ASSUME \A r, s \in Slots : r = s
    PROVE  Spec => []OneStandingOffer
<1>1. OfferInv => OneStandingOffer
  BY DEF OfferInv
<1>2. OfferInv /\ [Next]_vars => OfferInv'
  BY OfferNext
<1> QED
  BY <1>1, <1>2, OfferInit, PTL DEF Spec

(* One request at a time the sharing endpoints do what SharedVehicle       *)
(* promises, and nothing else: every read of theirs leaves the promise as  *)
(* it stands, and every commit is one of its steps or none.                *)
THEOREM PromiseIsKept ==
    ASSUME \A r, s \in Slots : r = s
    PROVE  Spec => ImplementsPromise
<1>1. OfferInv /\ [Next]_vars => OfferInv'
  BY OfferNext
<1>2. OfferInv /\ OfferInv' /\ [Next]_vars => [Promise!Next]_<<pointer, roleOf, offerOf>>
  BY PromiseNext
<1> QED
  BY <1>1, <1>2, OfferInit, PromiseInit, PTL DEF Spec, ImplementsPromise, Promise!Spec
=============================================================================
