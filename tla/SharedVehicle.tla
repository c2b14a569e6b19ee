---------------------------- MODULE SharedVehicle ----------------------------
(***************************************************************************)
(* What sharing a vehicle promises, with no requests, rows or links: one   *)
(* owner, members with a role, and at most one standing offer for each     *)
(* person who is not a member.  Every step is atomic.                      *)
(***************************************************************************)
CONSTANTS Users, Creator, NoVehicle

VARIABLES
    owner,  \* the one account answerable for the vehicle, or NoVehicle
    role,   \* user -> its role, or "none"
    offer   \* user -> the role it has been offered, or "none"

Grantable == {"viewer", "editor"}

Init ==
    /\ owner = NoVehicle
    /\ role = [u \in Users |-> "none"]
    /\ offer = [u \in Users |-> "none"]

Create ==
    /\ owner = NoVehicle
    /\ owner' = Creator
    /\ role' = [role EXCEPT ![Creator] = "owner"]
    /\ UNCHANGED offer

Offer(u, r) ==
    /\ owner # NoVehicle
    /\ role[u] = "none" /\ offer[u] = "none"
    /\ offer' = [offer EXCEPT ![u] = r]
    /\ UNCHANGED <<owner, role>>

(* Revoked, declined or expired. *)
Withdraw(u) ==
    /\ offer[u] # "none"
    /\ offer' = [offer EXCEPT ![u] = "none"]
    /\ UNCHANGED <<owner, role>>

Join(u) ==
    /\ offer[u] # "none" /\ role[u] = "none"
    /\ role' = [role EXCEPT ![u] = offer[u]]
    /\ offer' = [offer EXCEPT ![u] = "none"]
    /\ UNCHANGED owner

ChangeRole(u, r) ==
    /\ role[u] \in Grantable
    /\ role' = [role EXCEPT ![u] = r]
    /\ UNCHANGED <<owner, offer>>

Leave(u) ==
    /\ role[u] \in Grantable
    /\ role' = [role EXCEPT ![u] = "none"]
    /\ UNCHANGED <<owner, offer>>

Transfer(u) ==
    /\ role[u] \in Grantable
    /\ role' = [role EXCEPT ![owner] = "editor", ![u] = "owner"]
    /\ owner' = u
    /\ UNCHANGED offer

Delete ==
    /\ owner # NoVehicle
    /\ owner' = NoVehicle
    /\ role' = [u \in Users |-> "none"]
    /\ offer' = [u \in Users |-> "none"]

Next ==
    \/ Create
    \/ Delete
    \/ \E u \in Users :
        \/ Withdraw(u) \/ Join(u) \/ Leave(u) \/ Transfer(u)
        \/ \E r \in Grantable : Offer(u, r) \/ ChangeRole(u, r)

Spec == Init /\ [][Next]_<<owner, role, offer>>
=============================================================================
