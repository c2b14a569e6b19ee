--------------------------- MODULE VehicleSharing ---------------------------
(***************************************************************************)
(* Sharing one vehicle: its VehicleMember rows, its VehicleInvite rows,    *)
(* the legacy owner pointer Vehicle.userId, and the API requests that      *)
(* change them (vehicle-sharing/*, vehicles/vehicle-access.service.ts).    *)
(*                                                                         *)
(* Every request runs in a slot.  Each of its database reads is a step of  *)
(* its own, because each is an `await` after which another request may     *)
(* run; what was read stays in the slot.  A prisma.$transaction is one     *)
(* step.  A request that throws leaves the database alone and frees its    *)
(* slot; one that throws on its first read is a stuttering step.           *)
(*                                                                         *)
(* Bounds: InviteIds (rows ever created), MaxTokens (links ever issued),   *)
(* MaxRows (membership rows ever created).  Requests are not bounded.      *)
(***************************************************************************)
EXTENDS Integers, FiniteSets

CONSTANTS
    Users,      \* accounts; each has one e-mail address, so a user is its address
    Creator,    \* the account that creates the vehicle
    Slots,      \* requests that can be in flight at the same time
    InviteIds,  \* ids of VehicleInvite rows
    Ops,        \* the operations clients call in this instance
    MaxTokens, MaxRows,
    NoVehicle, NoInvite

AllOps == {"createInvite", "resend", "revoke", "accept", "decline",
           "updateRole", "remove", "transferOwnership", "deleteVehicle"}

ASSUME SharingConstants ==
    /\ Creator \in Users
    /\ NoVehicle \notin Users
    /\ Ops \subseteq AllOps
    /\ MaxTokens \in Nat
    /\ MaxRows \in Nat \ {0}

VARIABLES
    pointer,    \* Vehicle.userId, or NoVehicle
    members,    \* user -> its VehicleMember row; row 0 is no row
    invites,    \* invite id -> its VehicleInvite row, or NoInvite
    nextRow,    \* the next membership row id (a uuid: never used twice)
    nextToken,  \* the next invite token (32 random bytes: never issued twice)
    req         \* slot -> the request running in it

vars == <<pointer, members, invites, nextRow, nextToken, req>>

Roles == {"viewer", "editor", "owner"}
GrantableRoles == Roles \ {"owner"}
NoRow == [row |-> 0, role |-> "none"]
Idle == [op |-> "idle"]

Member == {NoRow} \cup [row : 1..MaxRows, role : Roles]
Tokens == 1..MaxTokens
Invite == [email : Users, role : GrantableRoles, token : Tokens, expired : BOOLEAN,
           accepted : BOOLEAN, revoked : BOOLEAN, declined : BOOLEAN]

(* A request in flight: the operation, the step it is at, the caller, and  *)
(* the arguments and rows it has read.                                     *)
CreateInviteReq ==
    [op : {"createInvite"}, pc : {"member", "active", "commit"},
     actor : Users, user : Users, role : GrantableRoles]
OwnerInviteReq ==
    [op : {"resend", "revoke"}, pc : {"read", "commit"}, actor : Users, inv : InviteIds]
InviteeReq ==
    [op : {"accept", "decline"}, pc : {"commit"},
     actor : Users, inv : InviteIds, role : GrantableRoles]
UpdateRoleReq ==
    [op : {"updateRole"}, pc : {"read", "commit"},
     actor : Users, user : Users, row : 1..MaxRows, role : GrantableRoles]
RemoveReq ==
    [op : {"remove"}, pc : {"assert", "commit"},
     actor : Users, user : Users, row : 1..MaxRows, seen : Roles]
TransferReq ==
    [op : {"transferOwnership"}, pc : {"target", "self"},
     actor : Users, user : Users, row : 1..MaxRows, own : {0}]
    \cup [op : {"transferOwnership"}, pc : {"commit"},
          actor : Users, user : Users, row : 1..MaxRows, own : 1..MaxRows]
DeleteVehicleReq ==
    [op : {"deleteVehicle"}, pc : {"commit"}, actor : Users]

Request ==
    {Idle} \cup CreateInviteReq \cup OwnerInviteReq \cup InviteeReq \cup UpdateRoleReq
           \cup RemoveReq \cup TransferReq \cup DeleteVehicleReq

ASSUME NoInviteIsNoRow == NoInvite \notin Invite

TypeOK ==
    /\ pointer \in Users \cup {NoVehicle}
    /\ members \in [Users -> Member]
    /\ invites \in [InviteIds -> Invite \cup {NoInvite}]
    /\ nextRow \in 1..(MaxRows + 1)
    /\ nextToken \in 1..(MaxTokens + 1)
    /\ req \in [Slots -> Request]

-----------------------------------------------------------------------------
(* Queries. *)

HasRow(u) == members[u].row # 0

(* The owner role is granted by a transfer only. *)
AnyRoleOffered(r) == TRUE           \* mutant: the role is not checked
RoleOffered(r) == r # "owner"

(* VehicleAccessService.assertOwner: the caller's row, at least owner. *)
IsOwner(u) == members[u].role = "owner"

(* A row is still the one a request read: ids are never reused. *)
RowLives(u, row) == members[u].row = row

Exists(i) == invites[i] # NoInvite

(* computeInviteStatus(invite) = 'pending' *)
Pending(i) ==
    /\ Exists(i)
    /\ ~invites[i].accepted /\ ~invites[i].revoked /\ ~invites[i].declined
    /\ ~invites[i].expired

(* findUsableInvite: the row the link's hash finds, pending, addressed to a. *)
UsableByAnyone(i, token, a) ==      \* mutant: the e-mail check dropped
    Pending(i) /\ invites[i].token = token
UsableAgain(i, token, a) ==         \* mutant: the status checks dropped
    Exists(i) /\ invites[i].token = token /\ invites[i].email = a
Usable(i, token, a) ==
    /\ Pending(i)
    /\ invites[i].token = token
    /\ invites[i].email = a

-----------------------------------------------------------------------------
(* A slot's bookkeeping. *)

Free(s, op) == op \in Ops /\ req[s] = Idle
At(s, op, pc) == req[s].op = op /\ req[s].pc = pc
Hold(s, r) == req' = [req EXCEPT ![s] = r]
Reply(s) == Hold(s, Idle)

(* The request goes on to the step pc if ok, else it throws. *)
Proceed(s, ok, pc) == Hold(s, IF ok THEN [req[s] EXCEPT !.pc = pc] ELSE Idle)

tables == <<pointer, members, invites, nextRow, nextToken>>

-----------------------------------------------------------------------------
(* VehiclesService.createVehicle: the row, its pointer and the owner's     *)
(* membership in one transaction.                                          *)
CreateVehicle ==
    /\ nextRow = 1
    /\ pointer' = Creator
    /\ members' = [members EXCEPT ![Creator] = [row |-> nextRow, role |-> "owner"]]
    /\ nextRow' = nextRow + 1
    /\ UNCHANGED <<invites, nextToken, req>>

(* Seven days pass since the link of invite i was issued. *)
Expire(i) ==
    /\ Exists(i) /\ ~invites[i].expired
    /\ invites' = [invites EXCEPT ![i].expired = TRUE]
    /\ UNCHANGED <<pointer, members, nextRow, nextToken, req>>

-----------------------------------------------------------------------------
(* createInvite: assertOwner; the role; an existing member; an active      *)
(* invite for the address; then the insert.                                *)

CreateInviteBegin(s, a, u, r) ==
    /\ Free(s, "createInvite") /\ IsOwner(a) /\ RoleOffered(r)
    /\ Hold(s, [op |-> "createInvite", pc |-> "member", actor |-> a, user |-> u, role |-> r])
    /\ UNCHANGED tables

CreateInviteMember(s) ==
    /\ At(s, "createInvite", "member")
    /\ Proceed(s, ~HasRow(req[s].user), "active")
    /\ UNCHANGED tables

CreateInviteAnyway(s) ==             \* mutant: no look for an active invite
    /\ At(s, "createInvite", "active")
    /\ Proceed(s, TRUE, "commit")
    /\ UNCHANGED tables
CreateInviteActive(s) ==
    /\ At(s, "createInvite", "active")
    /\ Proceed(s, ~\E i \in InviteIds : Pending(i) /\ invites[i].email = req[s].user, "commit")
    /\ UNCHANGED tables

NewInvite(r) ==
    [email |-> r.user, role |-> r.role, token |-> nextToken, expired |-> FALSE,
     accepted |-> FALSE, revoked |-> FALSE, declined |-> FALSE]

(* With the vehicle gone the insert breaks its foreign key and throws. *)
CreateInviteCommit(s, i) ==
    /\ At(s, "createInvite", "commit")
    /\ Reply(s)
    /\ \/ /\ pointer = NoVehicle
          /\ UNCHANGED <<invites, nextToken>>
       \/ /\ pointer # NoVehicle
          /\ ~Exists(i) /\ nextToken <= MaxTokens
          /\ invites' = [invites EXCEPT ![i] = NewInvite(req[s])]
          /\ nextToken' = nextToken + 1
    /\ UNCHANGED <<pointer, members, nextRow>>

-----------------------------------------------------------------------------
(* resend: a new token and expiry for a pending invite, on the same row. *)

ResendBegin(s, a, i) ==
    /\ Free(s, "resend") /\ IsOwner(a)
    /\ Hold(s, [op |-> "resend", pc |-> "read", actor |-> a, inv |-> i])
    /\ UNCHANGED tables

ResendRead(s) ==
    /\ At(s, "resend", "read")
    /\ Proceed(s, Pending(req[s].inv), "commit")
    /\ UNCHANGED tables

ResendCommit(s) ==
    /\ At(s, "resend", "commit")
    /\ nextToken <= MaxTokens
    /\ Reply(s)
    /\ LET i == req[s].inv IN
       \/ /\ ~Exists(i) /\ UNCHANGED <<invites, nextToken>>
       \/ /\ Exists(i)
          /\ invites' = [invites EXCEPT ![i].token = nextToken, ![i].expired = FALSE]
          /\ nextToken' = nextToken + 1
    /\ UNCHANGED <<pointer, members, nextRow>>

(* revoke: anything but an accepted invite; a revoked one is left alone, a *)
(* declined or expired one is still stamped.                               *)

RevokeBegin(s, a, i) ==
    /\ Free(s, "revoke") /\ IsOwner(a)
    /\ Hold(s, [op |-> "revoke", pc |-> "read", actor |-> a, inv |-> i])
    /\ UNCHANGED tables

RevocableAfterAccept(i) == Exists(i) /\ ~invites[i].revoked    \* mutant: no accepted check
Revocable(i) == Exists(i) /\ ~invites[i].accepted /\ ~invites[i].revoked

RevokeRead(s) ==
    /\ At(s, "revoke", "read")
    /\ Proceed(s, Revocable(req[s].inv), "commit")
    /\ UNCHANGED tables

RevokeCommit(s) ==
    /\ At(s, "revoke", "commit")
    /\ Reply(s)
    /\ LET i == req[s].inv IN
       invites' = IF Exists(i) THEN [invites EXCEPT ![i].revoked = TRUE] ELSE invites
    /\ UNCHANGED <<pointer, members, nextRow, nextToken>>

-----------------------------------------------------------------------------
(* decline and accept: the caller holds a link, current or replaced.       *)

DeclineBegin(s, a, i, token) ==
    /\ Free(s, "decline") /\ Usable(i, token, a)
    /\ Hold(s, [op |-> "decline", pc |-> "commit", actor |-> a, inv |-> i,
                role |-> invites[i].role])
    /\ UNCHANGED tables

DeclineCommit(s) ==
    /\ At(s, "decline", "commit")
    /\ Reply(s)
    /\ LET i == req[s].inv IN
       invites' = IF Exists(i) THEN [invites EXCEPT ![i].declined = TRUE] ELSE invites
    /\ UNCHANGED <<pointer, members, nextRow, nextToken>>

AcceptBegin(s, a, i, token) ==
    /\ Free(s, "accept") /\ Usable(i, token, a)
    /\ pointer # a
    /\ Hold(s, [op |-> "accept", pc |-> "commit", actor |-> a, inv |-> i,
                role |-> invites[i].role])
    /\ UNCHANGED tables

(* vehicleMember.upsert, with the role of the invite as it was read. *)
Upserted(u, r) ==
    IF HasRow(u) THEN [members EXCEPT ![u].role = r]
                 ELSE [members EXCEPT ![u] = [row |-> nextRow, role |-> r]]

AcceptCommit(s) ==
    /\ At(s, "accept", "commit")
    /\ Reply(s)
    /\ LET i == req[s].inv
           a == req[s].actor IN
       \/ /\ ~Exists(i) /\ UNCHANGED <<invites, members, nextRow>>
       \/ /\ Exists(i)
          /\ HasRow(a) \/ nextRow <= MaxRows
          /\ invites' = [invites EXCEPT ![i].accepted = TRUE]
          /\ members' = Upserted(a, req[s].role)
          /\ nextRow' = IF HasRow(a) THEN nextRow ELSE nextRow + 1
    /\ UNCHANGED <<pointer, nextToken>>

-----------------------------------------------------------------------------
(* updateRole: assertOwner; the member's row; then the update by its id.   *)

UpdateRoleBegin(s, a, u, r) ==
    /\ Free(s, "updateRole") /\ IsOwner(a) /\ RoleOffered(r) /\ HasRow(u)
    /\ Hold(s, [op |-> "updateRole", pc |-> "read", actor |-> a, user |-> u,
                row |-> members[u].row, role |-> r])
    /\ UNCHANGED tables

(* Only a member who is not an owner, and whose role would change. *)
RoleChangeable(u, row, r) == RowLives(u, row) /\ ~IsOwner(u) /\ members[u].role # r

UpdateRoleRead(s) ==
    /\ At(s, "updateRole", "read")
    /\ Proceed(s, RoleChangeable(req[s].user, req[s].row, req[s].role), "commit")
    /\ UNCHANGED tables

UpdateRoleCommit(s) ==
    /\ At(s, "updateRole", "commit")
    /\ Reply(s)
    /\ LET u == req[s].user IN
       members' = IF RowLives(u, req[s].row)
                  THEN [members EXCEPT ![u].role = req[s].role] ELSE members
    /\ UNCHANGED <<pointer, invites, nextRow, nextToken>>

(* remove: the member's row first, the caller's access after it, and the   *)
(* owner check on the row that was read first.                             *)

RemoveBegin(s, a, u) ==
    /\ Free(s, "remove") /\ HasRow(u)
    /\ Hold(s, [op |-> "remove", pc |-> "assert", actor |-> a, user |-> u,
                row |-> members[u].row, seen |-> members[u].role])
    /\ UNCHANGED tables

MayRemoveOwner(a, u, seen) ==       \* mutant: an owner may be removed
    IF a = u THEN HasRow(a) ELSE IsOwner(a)
MayRemove(a, u, seen) ==
    /\ IF a = u THEN HasRow(a) ELSE IsOwner(a)
    /\ seen # "owner"

RemoveAssert(s) ==
    /\ At(s, "remove", "assert")
    /\ Proceed(s, MayRemove(req[s].actor, req[s].user, req[s].seen), "commit")
    /\ UNCHANGED tables

RemoveCommit(s) ==
    /\ At(s, "remove", "commit")
    /\ Reply(s)
    /\ LET u == req[s].user IN
       members' = IF RowLives(u, req[s].row) THEN [members EXCEPT ![u] = NoRow] ELSE members
    /\ UNCHANGED <<pointer, invites, nextRow, nextToken>>

-----------------------------------------------------------------------------
(* transferOwnership: assertOwner; the target's row; the caller's own row  *)
(* as owner; then both roles and the pointer in one transaction.           *)

TransferBegin(s, a, u) ==
    /\ Free(s, "transferOwnership") /\ IsOwner(a) /\ HasRow(u)
    /\ Hold(s, [op |-> "transferOwnership", pc |-> "target", actor |-> a, user |-> u,
                row |-> members[u].row, own |-> 0])
    /\ UNCHANGED tables

TransferTarget(s) ==
    /\ At(s, "transferOwnership", "target")
    /\ Proceed(s, RowLives(req[s].user, req[s].row) /\ req[s].user # req[s].actor, "self")
    /\ UNCHANGED tables

TransferSelf(s) ==
    /\ At(s, "transferOwnership", "self")
    /\ LET a == req[s].actor IN
       Hold(s, IF IsOwner(a) THEN [req[s] EXCEPT !.pc = "commit", !.own = members[a].row]
                             ELSE Idle)
    /\ UNCHANGED tables

HandoverOfRole(a, u) ==             \* mutant: the pointer stays behind
    /\ members' = [members EXCEPT ![a].role = "editor", ![u].role = "owner"]
    /\ UNCHANGED pointer
Handover(a, u) ==
    /\ members' = [members EXCEPT ![a].role = "editor", ![u].role = "owner"]
    /\ pointer' = u

(* Neither update is conditional on the role that was read; a row that is  *)
(* gone fails the whole transaction.                                       *)
TransferCommit(s) ==
    /\ At(s, "transferOwnership", "commit")
    /\ Reply(s)
    /\ LET a == req[s].actor
           u == req[s].user IN
       \/ /\ RowLives(a, req[s].own) /\ RowLives(u, req[s].row)
          /\ Handover(a, u)
       \/ /\ ~(RowLives(a, req[s].own) /\ RowLives(u, req[s].row))
          /\ UNCHANGED <<members, pointer>>
    /\ UNCHANGED <<invites, nextRow, nextToken>>

-----------------------------------------------------------------------------
(* VehiclesService.deleteVehicle: members and invites cascade.             *)

DeleteVehicleBegin(s, a) ==
    /\ Free(s, "deleteVehicle") /\ IsOwner(a)
    /\ Hold(s, [op |-> "deleteVehicle", pc |-> "commit", actor |-> a])
    /\ UNCHANGED tables

DeleteVehicleCommit(s) ==
    /\ At(s, "deleteVehicle", "commit")
    /\ Reply(s)
    /\ pointer' = NoVehicle
    /\ members' = [u \in Users |-> NoRow]
    /\ invites' = [i \in InviteIds |-> NoInvite]
    /\ UNCHANGED <<nextRow, nextToken>>

-----------------------------------------------------------------------------
Init ==
    /\ pointer = NoVehicle
    /\ members = [u \in Users |-> NoRow]
    /\ invites = [i \in InviteIds |-> NoInvite]
    /\ nextRow = 1
    /\ nextToken = 1
    /\ req = [s \in Slots |-> Idle]

Begin(s) ==
    \E a \in Users :
        \/ \E u \in Users, r \in Roles : CreateInviteBegin(s, a, u, r)
        \/ \E i \in InviteIds : ResendBegin(s, a, i)
        \/ \E i \in InviteIds : RevokeBegin(s, a, i)
        \/ \E i \in InviteIds, t \in Tokens : DeclineBegin(s, a, i, t)
        \/ \E i \in InviteIds, t \in Tokens : AcceptBegin(s, a, i, t)
        \/ \E u \in Users, r \in Roles : UpdateRoleBegin(s, a, u, r)
        \/ \E u \in Users : RemoveBegin(s, a, u)
        \/ \E u \in Users : TransferBegin(s, a, u)
        \/ DeleteVehicleBegin(s, a)

Read(s) ==
    \/ CreateInviteMember(s)
    \/ CreateInviteActive(s)
    \/ ResendRead(s)
    \/ RevokeRead(s)
    \/ UpdateRoleRead(s)
    \/ RemoveAssert(s)
    \/ TransferTarget(s)
    \/ TransferSelf(s)

Commit(s) ==
    \/ \E i \in InviteIds : CreateInviteCommit(s, i)
    \/ ResendCommit(s)
    \/ RevokeCommit(s)
    \/ DeclineCommit(s)
    \/ AcceptCommit(s)
    \/ UpdateRoleCommit(s)
    \/ RemoveCommit(s)
    \/ TransferCommit(s)
    \/ DeleteVehicleCommit(s)

Next ==
    \/ CreateVehicle
    \/ \E i \in InviteIds : Expire(i)
    \/ \E s \in Slots : Begin(s) \/ Read(s) \/ Commit(s)

Spec == Init /\ [][Next]_vars

-----------------------------------------------------------------------------
(* Properties. *)

(* A living vehicle has exactly one owner row, and the legacy pointer      *)
(* names it: access checks read the row, deletion and audit the pointer.   *)
OneOwner ==
    /\ pointer # NoVehicle => IsOwner(pointer)
    /\ \A u \in Users : IsOwner(u) => u = pointer

(* Whoever can open the vehicle, or is named by its pointer, created it or *)
(* accepted an invite addressed to them; no other route leads in.          *)
Accepted(u) == \E i \in InviteIds :
    Exists(i) /\ invites[i].email = u /\ invites[i].accepted

AccessIsEarned ==
    \A u \in Users : HasRow(u) \/ pointer = u => u = Creator \/ Accepted(u)

(* Why AccessIsEarned holds between steps too: a deleted vehicle leaves no *)
(* rows and is never created again, and while it lives an accept under way *)
(* still names an invite addressed to its caller.                          *)
NoVehicleNoRows ==
    /\ pointer = NoVehicle => /\ \A u \in Users : ~HasRow(u)
                             /\ \A i \in InviteIds : ~Exists(i)
    /\ nextRow = 1 => pointer = NoVehicle /\ \A s \in Slots : req[s] = Idle

AcceptNamesCaller ==
    \A s \in Slots : req[s].op = "accept" /\ pointer # NoVehicle =>
        Exists(req[s].inv) /\ invites[req[s].inv].email = req[s].actor

AccessInv == TypeOK /\ NoVehicleNoRows /\ AcceptNamesCaller /\ AccessIsEarned

(* Why OneOwner holds when nobody transfers: no request that has passed    *)
(* its checks is about to write the creator's row.                         *)
CreatorUntouched ==
    \A s \in Slots :
        /\ req[s].op = "accept" => req[s].actor # Creator
        /\ req[s].op = "updateRole" /\ req[s].pc = "commit" => req[s].user # Creator
        /\ req[s].op = "remove" =>
             /\ req[s].user = Creator => req[s].seen = "owner"
             /\ req[s].pc = "commit" => req[s].seen # "owner"

OwnerInv ==
    /\ TypeOK /\ NoVehicleNoRows /\ CreatorUntouched /\ OneOwner
    /\ pointer \in {Creator, NoVehicle}
    /\ \A s \in Slots : req[s].op # "transferOwnership"

(* An accepted invite was neither declined nor revoked, whenever that was  *)
(* ("Cannot revoke an already-accepted invitation").                       *)
AcceptedIsFinal ==
    \A i \in InviteIds : Exists(i) /\ invites[i].accepted =>
        ~invites[i].revoked /\ ~invites[i].declined

(* Why OneOwner and AcceptedIsFinal hold of one request at a time: what it *)
(* has checked is still so when it writes.                                 *)
StillSo(s) ==
    /\ req[s].op = "accept" => req[s].actor # pointer
    /\ req[s].op \in {"accept", "decline"} => LET i == req[s].inv IN
         Exists(i) => ~invites[i].accepted /\ ~invites[i].revoked /\ ~invites[i].declined
    /\ At(s, "revoke", "commit") /\ Exists(req[s].inv) => ~invites[req[s].inv].accepted
    /\ At(s, "updateRole", "commit") => req[s].user # pointer
    /\ req[s].op = "remove" /\ req[s].user = pointer => req[s].seen = "owner"
    /\ At(s, "remove", "commit") => req[s].seen # "owner"
    /\ req[s].op = "transferOwnership" =>
         req[s].actor = pointer /\ (req[s].pc # "target" => req[s].user # pointer)

SerialInv == AccessInv /\ OneOwner /\ AcceptedIsFinal /\ \A s \in Slots : StillSo(s)

(* Nobody gains a membership row but by the step that spends an invite of  *)
(* theirs nobody had used, revoked or declined; the creator's first row is *)
(* the exception.  A member who was removed needs a new invite.            *)
JoinSpendsInvite ==
    [][\A u \in Users : ~HasRow(u) /\ HasRow(u)' =>
        \/ pointer = NoVehicle /\ u = Creator
        \/ \E i \in InviteIds :
             /\ Exists(i) /\ invites[i].email = u
             /\ ~invites[i].accepted /\ ~invites[i].revoked /\ ~invites[i].declined
             /\ invites'[i].accepted]_vars

(* While the vehicle lives an owner's row is neither removed nor demoted   *)
(* except in the step that makes someone else the owner ("Owners cannot be *)
(* removed. Transfer ownership first, or delete the vehicle.").            *)
OwnerOnlyHandsOver ==
    [][\A u \in Users : IsOwner(u) /\ ~IsOwner(u)' /\ pointer' # NoVehicle =>
        \E v \in Users : ~IsOwner(v) /\ IsOwner(v)']_vars

(* The promise of SharedVehicle.  An invite counts as offered from its     *)
(* insert until it is spent, or for as long as an accept that found it     *)
(* usable is under way.                                                    *)
Offered(i) ==
    /\ Exists(i)
    /\ Pending(i) \/ \E s \in Slots : req[s].op = "accept" /\ req[s].inv = i

OfferTo(u) == {invites[i].role : i \in {j \in InviteIds : Offered(j) /\ invites[j].email = u}}

roleOf == [u \in Users |-> members[u].role]
offerOf == [u \in Users |-> IF OfferTo(u) = {} THEN "none" ELSE CHOOSE r \in OfferTo(u) : TRUE]

Promise == INSTANCE SharedVehicle WITH owner <- pointer, role <- roleOf, offer <- offerOf

ImplementsPromise == Promise!Spec

(* Nobody has two standing offers, and no member has one ("An active       *)
(* invitation already exists for that email.", "That user already has      *)
(* access to this vehicle."), through expiries, resends and removals.      *)
OneStandingOffer ==
    /\ \A i, j \in InviteIds :
         Offered(i) /\ Offered(j) /\ invites[i].email = invites[j].email => i = j
    /\ \A i \in InviteIds : Offered(i) => ~HasRow(invites[i].email)

(* Why it holds of one request at a time: what a request that is about to  *)
(* make, renew or spend an offer has found out is still so.                *)
OfferStillDue(s) ==
    /\ req[s].op = "createInvite" /\ req[s].pc # "member" => ~HasRow(req[s].user)
    /\ At(s, "createInvite", "commit") =>
         \A i \in InviteIds : Pending(i) => invites[i].email # req[s].user
    /\ At(s, "resend", "commit") /\ Exists(req[s].inv) => LET u == invites[req[s].inv].email IN
         ~HasRow(u) /\ \A i \in InviteIds : Pending(i) /\ invites[i].email = u => i = req[s].inv
    /\ req[s].op = "accept" /\ Exists(req[s].inv) => invites[req[s].inv].role = req[s].role

OfferInv == SerialInv /\ OneStandingOffer /\ \A s \in Slots : OfferStillDue(s)
=============================================================================
