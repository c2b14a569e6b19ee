------------------------ MODULE VehicleSharingProofs ------------------------
(***************************************************************************)
(* Proofs about VehicleSharing, for any number of people, slots, invites   *)
(* and any bounds.                                                         *)
(***************************************************************************)
EXTENDS VehicleSharing, TLAPS

-----------------------------------------------------------------------------
(* Type correctness. *)

(* A slot given a request keeps the slots well typed. *)
LEMMA HoldType ==
    ASSUME req \in [Slots -> Request], NEW s \in Slots, NEW r \in Request, Hold(s, r)
    PROVE  req' \in [Slots -> Request]
BY DEF Hold

LEMMA IdleType == Idle \in Request
BY DEF Request

(* What a request's operation and step say of its other fields. *)
LEMMA RequestShape ==
    ASSUME NEW r \in Request
    PROVE  /\ r.op = "createInvite" => r \in CreateInviteReq
           /\ r.op \in {"resend", "revoke"} => r \in OwnerInviteReq
           /\ r.op \in {"accept", "decline"} => r \in InviteeReq
           /\ r.op = "updateRole" => r \in UpdateRoleReq
           /\ r.op = "remove" => r \in RemoveReq
           /\ r.op = "transferOwnership" => r \in TransferReq
BY DEF Request, Idle, CreateInviteReq, OwnerInviteReq, InviteeReq, UpdateRoleReq,
       RemoveReq, TransferReq, DeleteVehicleReq

(* The tables stay well typed in a step that leaves them alone. *)
LEMMA TablesType ==
    ASSUME TypeOK, UNCHANGED tables, req' \in [Slots -> Request]
    PROVE  TypeOK'
BY DEF TypeOK, tables

LEMMA BeginType ==
    ASSUME TypeOK, NEW s \in Slots, Begin(s)
    PROVE  TypeOK'
<1> USE DEF TypeOK
<1>1. ASSUME NEW a \in Users, NEW u \in Users, NEW r \in Roles, CreateInviteBegin(s, a, u, r)
      PROVE  TypeOK'
  BY <1>1, HoldType, TablesType DEF CreateInviteBegin, Request, CreateInviteReq, RoleOffered,
     GrantableRoles
<1>2. ASSUME NEW a \in Users, NEW i \in InviteIds, ResendBegin(s, a, i) \/ RevokeBegin(s, a, i)
      PROVE  TypeOK'
  BY <1>2, HoldType, TablesType DEF ResendBegin, RevokeBegin, Request, OwnerInviteReq
<1>3. ASSUME NEW a \in Users, NEW i \in InviteIds, NEW t \in Tokens,
             DeclineBegin(s, a, i, t) \/ AcceptBegin(s, a, i, t)
      PROVE  TypeOK'
  <2>1. invites[i].role \in GrantableRoles
    BY <1>3 DEF DeclineBegin, AcceptBegin, Usable, Pending, Exists, Invite
  <2>2. PICK r \in Request : Hold(s, r)
    BY <1>3, <2>1 DEF DeclineBegin, AcceptBegin, Request, InviteeReq
  <2> QED
    BY <1>3, <2>2, HoldType, TablesType DEF DeclineBegin, AcceptBegin
<1>4. ASSUME NEW a \in Users, NEW u \in Users, HasRow(u)
      PROVE  members[u].row \in 1..MaxRows /\ members[u].role \in Roles
  BY <1>4 DEF HasRow, Member, NoRow
<1>5. ASSUME NEW a \in Users, NEW u \in Users, NEW r \in Roles, UpdateRoleBegin(s, a, u, r)
      PROVE  TypeOK'
  BY <1>4, <1>5, HoldType, TablesType DEF UpdateRoleBegin, Request, UpdateRoleReq,
     RoleOffered, GrantableRoles
<1>6. ASSUME NEW a \in Users, NEW u \in Users, RemoveBegin(s, a, u)
      PROVE  TypeOK'
  BY <1>4, <1>6, HoldType, TablesType DEF RemoveBegin, Request, RemoveReq
<1>7. ASSUME NEW a \in Users, NEW u \in Users, TransferBegin(s, a, u)
      PROVE  TypeOK'
  BY <1>4, <1>7, HoldType, TablesType DEF TransferBegin, Request, TransferReq
<1>8. ASSUME NEW a \in Users, DeleteVehicleBegin(s, a)
      PROVE  TypeOK'
  BY <1>8, HoldType, TablesType DEF DeleteVehicleBegin, Request, DeleteVehicleReq
<1> QED
  BY <1>1, <1>2, <1>3, <1>5, <1>6, <1>7, <1>8 DEF Begin

LEMMA ReadType ==
    ASSUME TypeOK, NEW s \in Slots, Read(s)
    PROVE  TypeOK'
<1> USE DEF TypeOK
<1>1. CASE CreateInviteMember(s) \/ CreateInviteActive(s)
  BY <1>1, HoldType, TablesType, RequestShape, IdleType
     DEF CreateInviteMember, CreateInviteActive, At, Proceed, Request, CreateInviteReq
<1>2. CASE ResendRead(s) \/ RevokeRead(s)
  BY <1>2, HoldType, TablesType, RequestShape, IdleType
     DEF ResendRead, RevokeRead, At, Proceed, Request, OwnerInviteReq
<1>3. CASE UpdateRoleRead(s)
  BY <1>3, HoldType, TablesType, RequestShape, IdleType
     DEF UpdateRoleRead, At, Proceed, Request, UpdateRoleReq
<1>4. CASE RemoveAssert(s)
  BY <1>4, HoldType, TablesType, RequestShape, IdleType
     DEF RemoveAssert, At, Proceed, Request, RemoveReq
<1>5. CASE TransferTarget(s)
  BY <1>5, HoldType, TablesType, RequestShape, IdleType
     DEF TransferTarget, At, Proceed, Request, TransferReq
<1>6. CASE TransferSelf(s)
  <2> DEFINE r == [req[s] EXCEPT !.pc = "commit", !.own = members[req[s].actor].row]
  <2>1. req[s] \in TransferReq
    BY <1>6, RequestShape DEF TransferSelf, At
  <2>2. req[s].actor \in Users
    BY <2>1 DEF TransferReq
  <2>3. IsOwner(req[s].actor) => members[req[s].actor].row \in 1..MaxRows
    BY <2>2 DEF IsOwner, Member, NoRow
  <2>4. IsOwner(req[s].actor) => r \in Request
    BY <2>1, <2>3 DEF TransferReq, Request
  <2> QED
    BY <1>6, <2>4, HoldType, TablesType, IdleType DEF TransferSelf
<1> QED
  BY <1>1, <1>2, <1>3, <1>4, <1>5, <1>6 DEF Read

LEMMA CommitType ==
    ASSUME TypeOK, NEW s \in Slots, Commit(s)
    PROVE  TypeOK'
<1> USE SharingConstants DEF TypeOK
<1>1. req' \in [Slots -> Request]
  BY HoldType, IdleType DEF Commit, CreateInviteCommit, ResendCommit, RevokeCommit,
     DeclineCommit, AcceptCommit, UpdateRoleCommit, RemoveCommit, TransferCommit,
     DeleteVehicleCommit, Reply
<1>2. ASSUME NEW i \in InviteIds, CreateInviteCommit(s, i)
      PROVE  TypeOK'
  <2>1. req[s] \in CreateInviteReq
    BY <1>2, RequestShape DEF CreateInviteCommit, At
  <2>2. nextToken <= MaxTokens => NewInvite(req[s]) \in Invite
    BY <2>1 DEF CreateInviteReq, NewInvite, Invite, Tokens
  <2> QED
    BY <1>1, <1>2, <2>2 DEF CreateInviteCommit
<1>3. CASE ResendCommit(s)
  <2>1. req[s].inv \in InviteIds
    BY <1>3, RequestShape DEF ResendCommit, At, OwnerInviteReq
  <2> QED
    BY <1>1, <1>3, <2>1 DEF ResendCommit, Exists, Invite, Tokens
<1>4. CASE RevokeCommit(s)
  <2>1. req[s].inv \in InviteIds
    BY <1>4, RequestShape DEF RevokeCommit, At, OwnerInviteReq
  <2> QED
    BY <1>1, <1>4, <2>1 DEF RevokeCommit, Exists, Invite
<1>5. CASE DeclineCommit(s)
  <2>1. req[s].inv \in InviteIds
    BY <1>5, RequestShape DEF DeclineCommit, At, InviteeReq
  <2> QED
    BY <1>1, <1>5, <2>1 DEF DeclineCommit, Exists, Invite
<1>6. CASE AcceptCommit(s)
  <2>1. req[s] \in InviteeReq
    BY <1>6, RequestShape DEF AcceptCommit, At
  <2>2. /\ req[s].inv \in InviteIds
        /\ req[s].actor \in Users
        /\ req[s].role \in Roles
    BY <2>1 DEF InviteeReq, GrantableRoles
  <2>3. HasRow(req[s].actor) \/ nextRow <= MaxRows
        => Upserted(req[s].actor, req[s].role) \in [Users -> Member]
    BY <2>2 DEF Upserted, HasRow, Member, NoRow
  <2>4. Exists(req[s].inv)
        => [invites EXCEPT ![req[s].inv].accepted = TRUE] \in [InviteIds -> Invite \cup {NoInvite}]
    BY <2>2 DEF Exists, Invite
  <2>5. CASE ~Exists(req[s].inv)
    BY <1>1, <1>6, <2>5 DEF AcceptCommit
  <2>6. CASE Exists(req[s].inv)
    <3>1. /\ invites' \in [InviteIds -> Invite \cup {NoInvite}]
          /\ members' \in [Users -> Member]
          /\ UNCHANGED <<pointer, nextToken>>
      BY <1>6, <2>3, <2>4, <2>6 DEF AcceptCommit
    <3>2. nextRow' \in 1..(MaxRows + 1)
      BY <1>6, <2>6 DEF AcceptCommit
    <3> QED
      BY <1>1, <3>1, <3>2
  <2> QED
    BY <2>5, <2>6
<1>7. CASE UpdateRoleCommit(s)
  <2>1. req[s] \in UpdateRoleReq
    BY <1>7, RequestShape DEF UpdateRoleCommit, At
  <2>2. /\ req[s].user \in Users
        /\ req[s].row \in 1..MaxRows
        /\ req[s].role \in Roles
    BY <2>1 DEF UpdateRoleReq, GrantableRoles
  <2> QED
    BY <1>1, <1>7, <2>2 DEF UpdateRoleCommit, RowLives, Member, NoRow
<1>8. CASE RemoveCommit(s)
  BY <1>1, <1>8 DEF RemoveCommit, Member
<1>9. CASE TransferCommit(s)
  <2>1. req[s] \in TransferReq
    BY <1>9, RequestShape DEF TransferCommit, At
  <2>2. /\ req[s].actor \in Users
        /\ req[s].user \in Users
        /\ req[s].row \in 1..MaxRows
        /\ req[s].own \in 1..MaxRows
    BY <1>9, <2>1 DEF TransferCommit, At, TransferReq
  <2> QED
    BY <1>1, <1>9, <2>2 DEF TransferCommit, Handover, RowLives, Member, NoRow, Roles
<1>10. CASE DeleteVehicleCommit(s)
  BY <1>1, <1>10 DEF DeleteVehicleCommit, Member
<1> QED
  BY <1>2, <1>3, <1>4, <1>5, <1>6, <1>7, <1>8, <1>9, <1>10 DEF Commit

LEMMA TypeInit == Init => TypeOK
BY SharingConstants DEF Init, TypeOK, Member, Request

LEMMA TypeNext == TypeOK /\ [Next]_vars => TypeOK'
<1> SUFFICES ASSUME TypeOK, [Next]_vars PROVE TypeOK'
  OBVIOUS
<1>1. CASE CreateVehicle
  BY <1>1, SharingConstants DEF CreateVehicle, TypeOK, Member, Roles
<1>2. ASSUME NEW i \in InviteIds, Expire(i) PROVE TypeOK'
  BY <1>2 DEF Expire, TypeOK, Exists, Invite
<1>3. CASE UNCHANGED vars
  BY <1>3 DEF vars, TypeOK
<1> QED
  BY <1>1, <1>2, <1>3, BeginType, ReadType, CommitType DEF Next

(* Every reachable state is well typed; in particular no invite row and no *)
(* request in flight ever carries the owner role (createInvite and         *)
(* updateRole refuse it).                                                  *)
THEOREM TypeCorrect == Spec => []TypeOK
BY TypeInit, TypeNext, PTL DEF Spec

-----------------------------------------------------------------------------
(* Access is earned. *)

(* A step that changes only a slot, from one that was idle or already past *)
(* the first request, keeps the invariant if a new accept names its caller.*)
LEMMA AccessRequestStep ==
    ASSUME AccessInv, TypeOK', NEW s \in Slots, NEW r \in Request, Hold(s, r),
           UNCHANGED tables, nextRow # 1,
           r.op = "accept" /\ pointer # NoVehicle =>
               Exists(r.inv) /\ invites[r.inv].email = r.actor
    PROVE  AccessInv'
<1>1. NoVehicleNoRows'
  BY DEF AccessInv, NoVehicleNoRows, tables, HasRow, Exists
<1>2. AcceptNamesCaller'
  BY DEF AccessInv, AcceptNamesCaller, TypeOK, Hold, tables, Exists
<1>3. AccessIsEarned'
  BY DEF AccessInv, AccessIsEarned, tables, HasRow, Accepted, Exists
<1> QED
  BY <1>1, <1>2, <1>3 DEF AccessInv

(* Once the vehicle has a row, an owner or a request, it has been created. *)
LEMMA AlreadyCreated ==
    ASSUME AccessInv
    PROVE  /\ \A u \in Users : HasRow(u) \/ IsOwner(u) => nextRow # 1
           /\ \A i \in InviteIds : Exists(i) => nextRow # 1
           /\ \A s \in Slots : req[s] # Idle => nextRow # 1
<1>1. \A u \in Users : IsOwner(u) => HasRow(u)
  BY DEF AccessInv, TypeOK, IsOwner, HasRow, Member, NoRow
<1> QED
  BY <1>1 DEF AccessInv, NoVehicleNoRows

LEMMA AccessBegin ==
    ASSUME AccessInv, TypeOK', NEW s \in Slots, Begin(s)
    PROVE  AccessInv'
<1> DEFINE r == req'[s]
<1> USE DEF AccessInv, TypeOK, Hold
<1>1. /\ r \in Request /\ Hold(s, r)
      /\ r.op = "accept" => Exists(r.inv) /\ invites[r.inv].email = r.actor
  <2>1. ASSUME NEW a \in Users, NEW i \in InviteIds, NEW t \in Tokens, AcceptBegin(s, a, i, t)
        PROVE  /\ Hold(s, r)
               /\ Exists(r.inv) /\ invites[r.inv].email = r.actor
    BY <2>1 DEF AcceptBegin, Usable, Pending
  <2>2. ASSUME NEW a \in Users, NEW i \in InviteIds, NEW t \in Tokens, DeclineBegin(s, a, i, t)
        PROVE  Hold(s, r) /\ r.op = "decline"
    BY <2>2 DEF DeclineBegin
  <2>3. ASSUME NEW a \in Users, NEW u \in Users, NEW q \in Roles,
               \/ CreateInviteBegin(s, a, u, q)
               \/ UpdateRoleBegin(s, a, u, q)
               \/ RemoveBegin(s, a, u)
               \/ TransferBegin(s, a, u)
        PROVE  Hold(s, r) /\ r.op # "accept"
    BY <2>3 DEF CreateInviteBegin, UpdateRoleBegin, RemoveBegin, TransferBegin
  <2>4. ASSUME NEW a \in Users, NEW i \in InviteIds,
               ResendBegin(s, a, i) \/ RevokeBegin(s, a, i)
        PROVE  Hold(s, r) /\ r.op # "accept"
    BY <2>4 DEF ResendBegin, RevokeBegin
  <2>5. ASSUME NEW a \in Users, DeleteVehicleBegin(s, a)
        PROVE  Hold(s, r) /\ r.op # "accept"
    BY <2>5 DEF DeleteVehicleBegin
  <2>6. "viewer" \in Roles
    BY DEF Roles
  <2> HIDE DEF Hold
  <2> QED
    BY <2>1, <2>2, <2>3, <2>4, <2>5, <2>6 DEF Begin
<1>2. UNCHANGED tables
  BY DEF Begin, CreateInviteBegin, ResendBegin, RevokeBegin, DeclineBegin, AcceptBegin,
     UpdateRoleBegin, RemoveBegin, TransferBegin, DeleteVehicleBegin
<1>3. nextRow # 1
  BY AlreadyCreated
     DEF Begin, CreateInviteBegin, ResendBegin, RevokeBegin, DeclineBegin, AcceptBegin,
     UpdateRoleBegin, RemoveBegin, TransferBegin, DeleteVehicleBegin, Usable, Pending
<1> QED
  BY <1>1, <1>2, <1>3, AccessRequestStep

LEMMA AccessRead ==
    ASSUME AccessInv, TypeOK', NEW s \in Slots, Read(s)
    PROVE  AccessInv'
<1> DEFINE r == req'[s]
<1> USE DEF AccessInv, TypeOK, Hold
<1>1. Hold(s, r) /\ r.op # "accept"
  <2>1. CASE CreateInviteMember(s) \/ CreateInviteActive(s)
    BY <2>1, RequestShape DEF CreateInviteMember, CreateInviteActive, At, Proceed, Idle,
       CreateInviteReq
  <2>2. CASE ResendRead(s) \/ RevokeRead(s)
    BY <2>2, RequestShape DEF ResendRead, RevokeRead, At, Proceed, Idle, OwnerInviteReq
  <2>3. CASE UpdateRoleRead(s)
    BY <2>3, RequestShape DEF UpdateRoleRead, At, Proceed, Idle, UpdateRoleReq
  <2>4. CASE RemoveAssert(s)
    BY <2>4, RequestShape DEF RemoveAssert, At, Proceed, Idle, RemoveReq
  <2>5. CASE TransferTarget(s)
    BY <2>5, RequestShape DEF TransferTarget, At, Proceed, Idle, TransferReq
  <2>6. CASE TransferSelf(s)
    BY <2>6, RequestShape DEF TransferSelf, At, Idle, TransferReq
  <2> QED
    BY <2>1, <2>2, <2>3, <2>4, <2>5, <2>6 DEF Read
<1>2. r \in Request
  OBVIOUS
<1>3. UNCHANGED tables
  BY DEF Read, CreateInviteMember, CreateInviteActive, ResendRead, RevokeRead, UpdateRoleRead,
     RemoveAssert, TransferTarget, TransferSelf
<1>4. nextRow # 1
  <2>1. req[s] # Idle
    BY DEF Read, CreateInviteMember, CreateInviteActive, ResendRead, RevokeRead, UpdateRoleRead,
       RemoveAssert, TransferTarget, TransferSelf, At, Idle
  <2> QED
    BY <2>1, AlreadyCreated
<1> QED
  BY <1>1, <1>2, <1>3, <1>4, AccessRequestStep

(* Commits that leave the vehicle in place: rows keep their address, an    *)
(* accepted invite stays accepted, and the slot is freed.                  *)
LEMMA AccessKept ==
    ASSUME AccessInv, TypeOK', NEW s \in Slots, Reply(s), nextRow # 1, nextRow' # 1,
           pointer # NoVehicle, pointer' # NoVehicle,
           \A i \in InviteIds : Exists(i) =>
               /\ Exists(i)' /\ invites'[i].email = invites[i].email
               /\ invites[i].accepted => invites'[i].accepted,
           \A u \in Users : HasRow(u)' \/ pointer' = u =>
               HasRow(u) \/ pointer = u \/ u = Creator \/ Accepted(u)'
    PROVE  AccessInv'
<1> USE DEF AccessInv
<1>1. NoVehicleNoRows'
  BY DEF NoVehicleNoRows
<1>2. AcceptNamesCaller'
  <2> SUFFICES ASSUME NEW t \in Slots, (req[t].op = "accept")'
               PROVE  (Exists(req[t].inv) /\ invites[req[t].inv].email = req[t].actor)'
    BY DEF AcceptNamesCaller
  <2>1. req'[t] = req[t] /\ req[t].op = "accept"
    BY DEF Reply, Hold, TypeOK, Idle
  <2>2. Exists(req[t].inv) /\ invites[req[t].inv].email = req[t].actor
    BY <2>1 DEF AcceptNamesCaller
  <2>3. req[t].inv \in InviteIds
    BY <2>1, RequestShape DEF TypeOK, InviteeReq
  <2> QED
    BY <2>1, <2>2, <2>3
<1>3. AccessIsEarned'
  <2>1. \A u \in Users : Accepted(u) => Accepted(u)'
    BY DEF Accepted
  <2> QED
    BY <2>1 DEF AccessIsEarned
<1> QED
  BY <1>1, <1>2, <1>3

(* Commits that find the vehicle gone change nothing but the slot.         *)
LEMMA AccessGone ==
    ASSUME AccessInv, TypeOK', NEW s \in Slots, Reply(s), UNCHANGED tables, nextRow # 1
    PROVE  AccessInv'
<1>1. Idle.op # "accept"
  BY DEF Idle
<1> QED
  BY <1>1, IdleType, AccessRequestStep DEF Reply

LEMMA AccessCommit ==
    ASSUME AccessInv, TypeOK', NEW s \in Slots, Commit(s)
    PROVE  AccessInv'
<1>0. TypeOK /\ req[s] \in Request
  BY DEF AccessInv, TypeOK
<1>1. nextRow # 1 /\ nextRow \in 1..(MaxRows + 1)
  <2>1. req[s] # Idle
    BY DEF Commit, CreateInviteCommit, ResendCommit, RevokeCommit, DeclineCommit, AcceptCommit,
       UpdateRoleCommit, RemoveCommit, TransferCommit, DeleteVehicleCommit, At, Idle
  <2> QED
    BY <2>1, <1>0, AlreadyCreated DEF TypeOK
<1>2. Reply(s) /\ nextRow' # 1
  BY <1>1, SharingConstants
     DEF Commit, CreateInviteCommit, ResendCommit, RevokeCommit, DeclineCommit, AcceptCommit,
     UpdateRoleCommit, RemoveCommit, TransferCommit, DeleteVehicleCommit
<1>3. CASE DeleteVehicleCommit(s)
  <2>1. NoVehicleNoRows' /\ AccessIsEarned'
    BY <1>2, <1>3, SharingConstants
       DEF DeleteVehicleCommit, NoVehicleNoRows, AccessIsEarned, HasRow, NoRow, Exists
  <2>2. AcceptNamesCaller'
    BY <1>3 DEF DeleteVehicleCommit, AcceptNamesCaller
  <2> QED
    BY <2>1, <2>2 DEF AccessInv
<1>4. ASSUME pointer = NoVehicle, ~DeleteVehicleCommit(s)
      PROVE  AccessInv'
  <2>1. (\A u \in Users : members[u] = NoRow) /\ \A i \in InviteIds : ~Exists(i)
    BY <1>0, <1>4 DEF AccessInv, NoVehicleNoRows, HasRow, TypeOK, Member
  <2>2. UNCHANGED tables
    <3>1. ASSUME NEW i \in InviteIds, CreateInviteCommit(s, i) PROVE UNCHANGED tables
      BY <1>4, <3>1 DEF CreateInviteCommit, tables
    <3>2. CASE ResendCommit(s) \/ RevokeCommit(s)
      <4>1. req[s].inv \in InviteIds
        BY <1>0, <3>2, RequestShape DEF ResendCommit, RevokeCommit, At, OwnerInviteReq
      <4> QED
        BY <2>1, <3>2, <4>1 DEF ResendCommit, RevokeCommit, tables
    <3>3. CASE DeclineCommit(s) \/ AcceptCommit(s)
      <4>1. req[s].inv \in InviteIds
        BY <1>0, <3>3, RequestShape DEF DeclineCommit, AcceptCommit, At, InviteeReq
      <4> QED
        BY <2>1, <3>3, <4>1 DEF DeclineCommit, AcceptCommit, tables
    <3>4. CASE UpdateRoleCommit(s)
      <4>1. req[s].user \in Users /\ req[s].row # 0
        BY <1>0, <3>4, RequestShape DEF UpdateRoleCommit, At, UpdateRoleReq
      <4> QED
        BY <2>1, <3>4, <4>1 DEF UpdateRoleCommit, RowLives, NoRow, tables
    <3>5. CASE RemoveCommit(s)
      <4>1. req[s].user \in Users /\ req[s].row # 0
        BY <1>0, <3>5, RequestShape DEF RemoveCommit, At, RemoveReq
      <4> QED
        BY <2>1, <3>5, <4>1 DEF RemoveCommit, RowLives, NoRow, tables
    <3>6. CASE TransferCommit(s)
      <4>1. req[s].user \in Users /\ req[s].row # 0
        BY <1>0, <3>6, RequestShape DEF TransferCommit, At, TransferReq
      <4> QED
        BY <2>1, <3>6, <4>1 DEF TransferCommit, Handover, RowLives, NoRow, tables
    <3> QED
      BY <1>4, <3>1, <3>2, <3>3, <3>4, <3>5, <3>6 DEF Commit
  <2> QED
    BY <1>1, <1>2, <2>2, AccessGone
<1>5. ASSUME pointer # NoVehicle, ~DeleteVehicleCommit(s)
      PROVE  AccessInv'
  <2> DEFINE InvitesKept == \A i \in InviteIds : Exists(i) =>
               /\ Exists(i)' /\ invites'[i].email = invites[i].email
               /\ invites[i].accepted => invites'[i].accepted
             RowsEarned == \A u \in Users : HasRow(u)' \/ pointer' = u =>
               HasRow(u) \/ pointer = u \/ u = Creator \/ Accepted(u)'
  <2>1. InvitesKept /\ RowsEarned /\ pointer' # NoVehicle
    <3>1. ASSUME NEW i \in InviteIds, CreateInviteCommit(s, i)
          PROVE  InvitesKept /\ RowsEarned /\ pointer' # NoVehicle
      BY <1>0, <1>5, <3>1 DEF CreateInviteCommit, Exists, HasRow, TypeOK
    <3>2. CASE ResendCommit(s) \/ RevokeCommit(s)
      <4>1. PICK i \in InviteIds : i = req[s].inv
        BY <1>0, <3>2, RequestShape DEF ResendCommit, RevokeCommit, At, OwnerInviteReq
      <4>2. ASSUME Exists(i)
            PROVE  /\ Exists(i)'
                   /\ invites'[i].email = invites[i].email
                   /\ invites'[i].accepted = invites[i].accepted
        <5>1. invites[i] \in Invite
          BY <1>0, <4>2 DEF TypeOK, Exists
        <5>2. /\ invites'[i] \in Invite
              /\ invites'[i].email = invites[i].email
              /\ invites'[i].accepted = invites[i].accepted
          <6>1. CASE RevokeCommit(s)
            BY <1>0, <6>1, <4>1, <4>2, <5>1 DEF RevokeCommit, Invite, TypeOK
          <6>2. CASE ResendCommit(s)
            <7>1. nextToken \in Tokens
              BY <1>0, <6>2 DEF ResendCommit, Tokens, TypeOK
            <7>2. invites'[i] = [invites[i] EXCEPT !.token = nextToken, !.expired = FALSE]
              BY <1>0, <6>2, <4>1, <4>2 DEF ResendCommit, TypeOK
            <7> QED
              BY <5>1, <7>1, <7>2 DEF Invite
          <6> QED
            BY <3>2, <6>1, <6>2
        <5> QED
          BY <5>2, NoInviteIsNoRow DEF Exists
      <4>3. \A j \in InviteIds : j # i => invites'[j] = invites[j]
        BY <1>0, <3>2, <4>1 DEF ResendCommit, RevokeCommit, TypeOK
      <4>4. InvitesKept
        BY <4>2, <4>3 DEF Exists
      <4> QED
        BY <1>0, <1>5, <3>2, <4>4 DEF ResendCommit, RevokeCommit, HasRow, TypeOK
    <3>3. CASE DeclineCommit(s)
      <4>1. PICK i \in InviteIds : i = req[s].inv
        BY <1>0, <3>3, RequestShape DEF DeclineCommit, At, InviteeReq
      <4>2. InvitesKept
        BY <1>0, <3>3, <4>1, NoInviteIsNoRow DEF DeclineCommit, Exists, TypeOK, Invite
      <4> QED
        BY <1>0, <1>5, <3>3, <4>2 DEF DeclineCommit, HasRow, TypeOK
    <3>4. CASE AcceptCommit(s)
      <4>1. PICK i \in InviteIds, a \in Users : i = req[s].inv /\ a = req[s].actor
        BY <1>0, <3>4, RequestShape DEF AcceptCommit, At, InviteeReq
      <4>2. Exists(i) /\ invites[i].email = a
        BY <1>5, <3>4, <4>1 DEF AcceptCommit, At, AccessInv, AcceptNamesCaller
      <4>3. invites[i] \in Invite
        BY <1>0, <4>2 DEF TypeOK, Exists
      <4>4. /\ invites'[i] \in Invite
            /\ invites'[i].accepted
            /\ invites'[i].email = a
        BY <1>0, <3>4, <4>1, <4>2, <4>3 DEF AcceptCommit, Invite, TypeOK
      <4>5. \A j \in InviteIds : j # i => invites'[j] = invites[j]
        BY <1>0, <3>4, <4>1 DEF AcceptCommit, TypeOK
      <4>6. InvitesKept
        BY <4>2, <4>4, <4>5, NoInviteIsNoRow DEF Exists
      <4>7. Accepted(a)'
        BY <4>4, NoInviteIsNoRow DEF Accepted, Exists
      <4>8. \A u \in Users : HasRow(u)' => HasRow(u) \/ u = a
        BY <1>0, <3>4, <4>1 DEF AcceptCommit, Upserted, HasRow, TypeOK
      <4> QED
        BY <1>5, <3>4, <4>6, <4>7, <4>8 DEF AcceptCommit
    <3>5. CASE UpdateRoleCommit(s) \/ RemoveCommit(s)
      <4>1. \A u \in Users : HasRow(u)' => HasRow(u)
        BY <1>0, <3>5 DEF UpdateRoleCommit, RemoveCommit, HasRow, NoRow, TypeOK, Member
      <4> QED
        BY <1>0, <1>5, <3>5, <4>1 DEF UpdateRoleCommit, RemoveCommit, Exists, TypeOK
    <3>6. CASE TransferCommit(s)
      <4>1. req[s].user \in Users /\ req[s].row # 0
        BY <1>0, <3>6, RequestShape DEF TransferCommit, At, TransferReq
      <4>2. \A u \in Users : HasRow(u)' => HasRow(u)
        BY <1>0, <3>6 DEF TransferCommit, Handover, HasRow, NoRow, TypeOK, Member
      <4>3. pointer' = pointer \/ (pointer' = req[s].user /\ HasRow(req[s].user))
        BY <3>6, <4>1 DEF TransferCommit, Handover, RowLives, HasRow
      <4> QED
        BY <1>0, <1>5, <3>6, <4>1, <4>2, <4>3, SharingConstants
           DEF TransferCommit, Handover, Exists, TypeOK
    <3> QED
      BY <1>5, <3>1, <3>2, <3>3, <3>4, <3>5, <3>6 DEF Commit
  <2> QED
    BY <1>1, <1>2, <1>5, <2>1, AccessKept
<1> QED
  BY <1>3, <1>4, <1>5

LEMMA AccessInit == Init => AccessInv
<1> SUFFICES ASSUME Init PROVE AccessInv
  OBVIOUS
<1>1. TypeOK
  BY TypeInit
<1> QED
  BY <1>1, SharingConstants DEF Init, AccessInv, NoVehicleNoRows, AcceptNamesCaller,
     AccessIsEarned, HasRow, Exists, NoRow, Idle

LEMMA AccessNext == AccessInv /\ [Next]_vars => AccessInv'
<1> SUFFICES ASSUME AccessInv, [Next]_vars PROVE AccessInv'
  OBVIOUS
<1>0. TypeOK /\ TypeOK'
  BY TypeNext DEF AccessInv
<1>1. CASE CreateVehicle
  <2>1. \A u \in Users : u # Creator => ~HasRow(u)'
    BY <1>0, <1>1 DEF CreateVehicle, AccessInv, NoVehicleNoRows, HasRow, TypeOK
  <2>2. \A s \in Slots : req'[s] = Idle
    BY <1>1 DEF CreateVehicle, AccessInv, NoVehicleNoRows
  <2>3. pointer' = Creator /\ nextRow' = 2
    BY <1>1 DEF CreateVehicle
  <2> QED
    BY <1>0, <2>1, <2>2, <2>3, SharingConstants
       DEF AccessInv, NoVehicleNoRows, AcceptNamesCaller, AccessIsEarned, Idle
<1>2. ASSUME NEW i \in InviteIds, Expire(i) PROVE AccessInv'
  <2>1. invites[i] \in Invite
    BY <1>0, <1>2 DEF Expire, Exists, TypeOK
  <2>2. /\ invites'[i] \in Invite
        /\ invites'[i].email = invites[i].email
        /\ invites'[i].accepted = invites[i].accepted
    BY <1>0, <1>2, <2>1 DEF Expire, Invite, TypeOK
  <2>3. \A j \in InviteIds : j # i => invites'[j] = invites[j]
    BY <1>0, <1>2 DEF Expire, TypeOK
  <2>4. \A j \in InviteIds : /\ Exists(j) <=> Exists(j)'
                             /\ Exists(j) => /\ invites'[j].email = invites[j].email
                                             /\ invites'[j].accepted = invites[j].accepted
    BY <1>2, <2>2, <2>3, NoInviteIsNoRow DEF Expire, Exists
  <2>5. UNCHANGED <<pointer, members, nextRow, req>>
    BY <1>2 DEF Expire
  <2>6. NoVehicleNoRows'
    BY <2>4, <2>5 DEF AccessInv, NoVehicleNoRows, HasRow
  <2>7. AcceptNamesCaller'
    <3> SUFFICES ASSUME NEW s \in Slots, req[s].op = "accept", pointer # NoVehicle
                 PROVE  (Exists(req[s].inv) /\ invites[req[s].inv].email = req[s].actor)'
      BY <2>5 DEF AcceptNamesCaller
    <3>1. PICK j \in InviteIds : j = req[s].inv
      BY <1>0, RequestShape DEF TypeOK, InviteeReq
    <3>2. Exists(j) /\ invites[j].email = req[s].actor
      BY <3>1 DEF AccessInv, AcceptNamesCaller
    <3>3. Exists(j)' /\ invites'[j].email = req[s].actor
      BY <2>4, <3>2
    <3> QED
      BY <2>5, <3>1, <3>3 DEF Exists
  <2>8. AccessIsEarned'
    BY <2>4, <2>5 DEF AccessInv, AccessIsEarned, Accepted, HasRow
  <2> QED
    BY <1>0, <2>6, <2>7, <2>8 DEF AccessInv
<1>3. CASE UNCHANGED vars
  BY <1>0, <1>3 DEF vars, AccessInv, NoVehicleNoRows, AcceptNamesCaller, AccessIsEarned,
     Accepted, HasRow, Exists
<1> QED
  BY <1>0, <1>1, <1>2, <1>3, AccessBegin, AccessRead, AccessCommit DEF Next

(* The invariant AccessIsEarned rests on, for whoever extends it.          *)
THEOREM AccessInvariant == Spec => []AccessInv
BY AccessInit, AccessNext, PTL DEF Spec

(* However requests interleave, nobody opens a vehicle, or is named as its *)
(* owner by Vehicle.userId, without having created it or accepted an       *)
(* invite addressed to them (findUsableInvite's e-mail check is the only   *)
(* way in, and no overlapping role change, transfer or removal opens       *)
(* another).                                                               *)
THEOREM AccessEarned == Spec => []AccessIsEarned
<1>1. AccessInv => AccessIsEarned
  BY DEF AccessInv
<1> QED
  BY <1>1, AccessInit, AccessNext, PTL DEF Spec
=============================================================================
