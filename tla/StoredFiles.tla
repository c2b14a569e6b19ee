----------------------------- MODULE StoredFiles -----------------------------
(***************************************************************************)
(* The files of one vehicle: the object in storage, the attachment row     *)
(* that points at it, the record, paper, claim, loan or accessory that     *)
(* holds the row, and what is removed when any of them, the vehicle or an  *)
(* account is deleted (attachments.service.ts, claim-attachments.service.ts,*)
(* vehicle-documents.service.ts, accessories.service.ts,                   *)
(* maintenance.service.ts, vehicles.service.ts,                            *)
(* users/account-deletion.service.ts).                                     *)
(*                                                                         *)
(* Storage and database share no transaction: a request takes a step in    *)
(* one, then in the other.  Storage may refuse any call, and the process   *)
(* may stop between any two steps.  Everyone here may edit; who owns the   *)
(* vehicle does not change.  One holder stands for all of its kind.        *)
(* Bounds: the files ever uploaded (Files), the requests in flight.        *)
(***************************************************************************)
EXTENDS Integers, FiniteSets

CONSTANTS Files,            \* stored names, never used twice: [kind, by, no]
          Owner, Guests,
          Clients

Users == {Owner} \union Guests
Kinds == {"record", "insurance", "warranty", "compliance", "accessory", "claim", "loan"}
Private == {"claim", "loan"}        \* answer to the vehicle's owner only

ASSUME FilesAssumption ==
    /\ Owner \notin Guests
    /\ Files \subseteq [kind : Kinds, by : Users, no : Nat]
    /\ \A f \in Files : f.kind \in Private => f.by = Owner

VARIABLES
    stored,     \* objects in storage
    rows,       \* files an attachment row points at
    holders,    \* the kinds of holder the vehicle has
    vehicle,    \* the vehicle is there
    users,      \* accounts
    members,    \* members of the vehicle
    used,       \* names given out
    req,        \* client -> its request
    asked,      \* history: files someone asked to remove
    astray      \* history: what a crash, a refusal, a race or a known gap leaves

vars == <<stored, rows, holders, vehicle, users, members, used, req, asked, astray>>
data == <<stored, rows, holders, vehicle, users, members, used>>
history == <<asked, astray>>

Idle == [pc |-> "idle"]
Under(u) == {f \in Files : f.by = u}
OfKinds(ks) == {f \in rows : f.kind \in ks}
MayEdit(u, k) == u \in members /\ (k \in Private => u = Owner)

Request(pc, u, of, fs) ==
    [pc |-> pc, by |-> u, of |-> of, files |-> fs, left |-> {}, alone |-> TRUE]
Begin(c, r) == req[c] = Idle /\ req' = [req EXCEPT ![c] = r]
At(c, pc) == req[c].pc = pc
To(c, pc) == req' = [req EXCEPT ![c].pc = pc]
Ends(c) == req' = [req EXCEPT ![c] = Idle]

(* A commit: every other request has read what may no longer be so. *)
Disturbed(r) == IF r = Idle THEN Idle ELSE [r EXCEPT !.alone = FALSE]
Commits(c, next) ==
    req' = [d \in Clients |-> IF d = c THEN next ELSE Disturbed(req[d])]

(* What a request has yet to remove, should nothing else point at it. *)
Pending(c) ==
    CASE req[c].pc \in {"put", "record", "tidy", "remove", "sweep", "match"} -> req[c].files
      [] req[c].pc = "clear" -> req[c].files \union Under(req[c].by)
      [] req[c].pc = "list" -> Under(req[c].by)
      [] OTHER -> {}

-----------------------------------------------------------------------------
(* Upload: every file is stored, then every row is written at once.        *)
Upload(c, u, k) ==
    /\ k \in holders /\ MayEdit(u, k)
    /\ \E batch \in SUBSET {f \in Files \ used : f.kind = k /\ f.by = u} :
        /\ batch # {}
        /\ used' = used \union batch
        /\ Begin(c, [Request("put", u, k, {}) EXCEPT !.left = batch])
    /\ UNCHANGED <<stored, rows, holders, vehicle, users, members, asked, astray>>

PutOne(c) ==
    /\ At(c, "put")
    /\ \E f \in req[c].left :
        /\ stored' = stored \union {f}
        /\ req' = [req EXCEPT ![c].files = @ \union {f}, ![c].left = @ \ {f},
                              ![c].pc = IF req[c].left = {f} THEN "record" ELSE "put"]
    /\ UNCHANGED <<rows, holders, vehicle, users, members, used, asked, astray>>

(* Storage refuses a file, having kept it or not: those before it are      *)
(* removed again.                                                          *)
PutRefused(c) ==
    /\ At(c, "put") /\ To(c, "tidy")
    /\ \E kept \in {{}} \union {{f} : f \in req[c].left} :
        stored' = stored \union kept /\ astray' = astray \union kept
    /\ UNCHANGED <<rows, holders, vehicle, users, members, used, asked>>

(* The holder must still be there, and the account for the audit row. *)
Recordable(c) == req[c].of \in holders /\ req[c].by \in users

Record(c) ==
    /\ At(c, "record") /\ Recordable(c)
    /\ rows' = rows \union req[c].files
    /\ Commits(c, Idle)
    /\ UNCHANGED <<stored, holders, vehicle, users, members, used, asked, astray>>

RecordRefused(c) == At(c, "record") /\ To(c, "tidy") /\ UNCHANGED <<data, history>>

(* Best effort: whatever storage refuses to remove stays.                  *)
Doomed(c) == req[c].files
Removes(c, next) ==
    /\ \E kept \in SUBSET Doomed(c) :
        /\ stored' = stored \ (Doomed(c) \ kept)
        /\ astray' = astray \union kept
    /\ req' = [req EXCEPT ![c] = next]
    /\ UNCHANGED <<rows, holders, vehicle, users, members, used, asked>>

CleanUp(c) == At(c, "tidy") /\ Removes(c, Idle)

-----------------------------------------------------------------------------
(* deleteAttachment: the object first, then the row. *)
Detach(c, u) ==
    /\ \E f \in rows : /\ MayEdit(u, f.kind)
                       /\ Begin(c, Request("object", u, f.kind, {f}))
                       /\ asked' = asked \union {f}
    /\ UNCHANGED <<data, astray>>

(* Storage may refuse, having removed the object or not. *)
DetachObject(c) ==
    /\ At(c, "object")
    /\ \/ stored' = stored \ req[c].files /\ (To(c, "row") \/ Ends(c))
       \/ stored' = stored /\ Ends(c)
    /\ UNCHANGED <<rows, holders, vehicle, users, members, used, history>>

DetachRow(c) ==
    /\ At(c, "row")
    /\ rows' = rows \ req[c].files
    /\ IF rows' = rows THEN Ends(c) ELSE Commits(c, Idle)
    /\ UNCHANGED <<stored, holders, vehicle, users, members, used, history>>

(* reconcileAttachments: the rows of records and claims whose file is not  *)
(* there are removed.                                                      *)
Reconcilable(u) == OfKinds({k \in {"record", "claim"} : MayEdit(u, k)})

Reconcile(c, u) ==
    /\ Begin(c, [Request("check", u, "rows", {}) EXCEPT !.left = Reconcilable(u)])
    /\ Reconcilable(u) # {}
    /\ UNCHANGED <<data, history>>

MissingSwapped(f) == f \in stored                   \* mutant
Missing(f) == f \notin stored

Check(c) ==
    /\ At(c, "check")
    /\ \E f \in req[c].left :
        req' = [req EXCEPT ![c].files = IF Missing(f) THEN @ \union {f} ELSE @,
                           ![c].left = @ \ {f},
                           ![c].pc = IF req[c].left = {f} THEN "purge" ELSE "check"]
    /\ UNCHANGED <<data, history>>

Purge(c) ==
    /\ At(c, "purge")
    /\ rows' = rows \ (req[c].files \intersect Reconcilable(req[c].by))
    /\ IF rows' = rows THEN Ends(c) ELSE Commits(c, Idle)
    /\ UNCHANGED <<stored, holders, vehicle, users, members, used, history>>

-----------------------------------------------------------------------------
(* Deleting a holder or the vehicle: the files are listed, the rows go by  *)
(* cascade, then what was listed is removed.  Claims and loans list none.  *)
HolderLists(k) == {k} \ Private

ListedOfRecords == {"record"}                       \* mutant
Listed == {"record", "insurance", "warranty", "loan", "compliance"}

Delete(c, u, k) ==
    /\ k \in holders /\ MayEdit(u, k)
    /\ Begin(c, Request("delete", u, k, OfKinds(HolderLists(k))))
    /\ UNCHANGED <<data, history>>

DeleteVehicle(c) ==
    /\ vehicle /\ Owner \in members
    /\ Begin(c, Request("delete", Owner, "vehicle", OfKinds(Listed)))
    /\ UNCHANGED <<data, history>>

(* What goes with it, and which of that its list is known to leave out. *)
FallsAlone(of) == IF of \in Kinds THEN {of} ELSE Kinds       \* mutant: claims outlive their policy
Falls(of) ==
    CASE of = "insurance" -> {"insurance", "claim"}
      [] of \in Kinds \ {"insurance"} -> {of}
      [] OTHER -> Kinds
Gaps(of) ==
    CASE of = "vehicle" -> {"claim", "accessory"}
      [] of = "account" -> {"compliance", "accessory"}
      [] OTHER -> Private

(* A list read before another commit may be short. *)
Strays(c, took) ==
    astray' = astray \union
        IF req[c].alone THEN {f \in took : f.kind \in Gaps(req[c].of)} ELSE took \ req[c].files

Standing(of) == IF of = "vehicle" THEN vehicle ELSE of \in holders

DeleteCommit(c) ==
    /\ At(c, "delete") /\ Standing(req[c].of)
    /\ LET falls == Falls(req[c].of)
       IN /\ holders' = holders \ falls
          /\ rows' = rows \ OfKinds(falls)
          /\ Strays(c, OfKinds(falls))
    /\ vehicle' = (vehicle /\ req[c].of # "vehicle")
    /\ members' = IF req[c].of = "vehicle" THEN {} ELSE members
    /\ Commits(c, [req[c] EXCEPT !.pc = "remove"])
    /\ UNCHANGED <<stored, users, used, asked>>

DeleteMissing(c) == At(c, "delete") /\ ~Standing(req[c].of) /\ Ends(c) /\ UNCHANGED <<data, history>>

Remove(c) == At(c, "remove") /\ Removes(c, Idle)

-----------------------------------------------------------------------------
(* deleteAccount: the plan is refused while the vehicle is shared.         *)
AccountLists == {"record", "insurance", "warranty", "claim", "loan"}

MayClose(u) == u \in users /\ (u = Owner /\ vehicle => members \subseteq {Owner})

Plan(c, u) ==
    /\ MayClose(u)
    /\ Begin(c, Request("close", u, "account", IF u = Owner THEN OfKinds(AccountLists) ELSE {}))
    /\ UNCHANGED <<data, history>>

(* The account goes, and by cascade the vehicle it owns. *)
Close(c) ==
    /\ At(c, "close") /\ req[c].by \in users
    /\ users' = users \ {req[c].by}
    /\ IF req[c].by = Owner
       THEN /\ vehicle' = FALSE /\ rows' = {} /\ holders' = {} /\ members' = {}
            /\ Strays(c, rows)
       ELSE /\ members' = members \ {req[c].by}
            /\ UNCHANGED <<vehicle, rows, holders, astray>>
    /\ Commits(c, [req[c] EXCEPT !.pc = "clear"])
    /\ UNCHANGED <<stored, used, asked>>

CloseMissing(c) == At(c, "close") /\ req[c].by \notin users /\ Ends(c) /\ UNCHANGED <<data, history>>

Clear(c) == At(c, "clear") /\ Removes(c, [req[c] EXCEPT !.pc = "list", !.files = {}])

(* findOrphanedObjects: what is stored under the prefix, less what a row   *)
(* points at.  From here on nothing left astray before is excused.         *)
List(c) ==
    /\ At(c, "list")
    /\ req' = [req EXCEPT ![c].pc = "match", ![c].files = stored \intersect Under(req[c].by)]
    /\ astray' = astray \ Under(req[c].by)
    /\ UNCHANGED <<data, asked>>

UnreferencedAll(fs) == fs                           \* mutant: the rows are not asked
Unreferenced(fs) == fs \ rows

Match(c) ==
    /\ At(c, "match")
    /\ req' = [req EXCEPT ![c].pc = "sweep", ![c].files = Unreferenced(@)]
    /\ UNCHANGED <<data, history>>

Sweep(c) == At(c, "sweep") /\ Removes(c, Idle)

-----------------------------------------------------------------------------
(* Members come and go (VehicleSharing). *)
Join(g) ==
    /\ vehicle /\ g \in users \ members /\ members' = members \union {g}
    /\ req' = [c \in Clients |-> Disturbed(req[c])]
    /\ UNCHANGED <<stored, rows, holders, vehicle, users, used, history>>

Leave(g) ==
    /\ g \in members /\ members' = members \ {g}
    /\ req' = [c \in Clients |-> Disturbed(req[c])]
    /\ UNCHANGED <<stored, rows, holders, vehicle, users, used, history>>

(* The process stops, or a call it does not catch is refused. *)
Crash(c) ==
    /\ req[c] # Idle /\ Ends(c)
    /\ astray' = astray \union Pending(c)
    /\ UNCHANGED <<data, asked>>

-----------------------------------------------------------------------------
Init ==
    /\ stored = {} /\ rows = {} /\ used = {}
    /\ holders = {f.kind : f \in Files} \union {"insurance"}
    /\ vehicle = TRUE
    /\ users = Users /\ members = Users
    /\ req = [c \in Clients |-> Idle]
    /\ asked = {} /\ astray = {}

UploadStep(c) ==
    \/ \E u \in Users, k \in Kinds : Upload(c, u, k)
    \/ PutOne(c) \/ PutRefused(c) \/ Record(c) \/ RecordRefused(c) \/ CleanUp(c)

RowStep(c) ==
    \/ \E u \in Users : Detach(c, u) \/ Reconcile(c, u)
    \/ DetachObject(c) \/ DetachRow(c) \/ Check(c) \/ Purge(c)

DeleteStep(c) ==
    \/ \E u \in Users, k \in Kinds : Delete(c, u, k)
    \/ DeleteVehicle(c) \/ DeleteCommit(c) \/ DeleteMissing(c) \/ Remove(c)

AccountStep(c) ==
    \/ \E u \in Users : Plan(c, u)
    \/ Close(c) \/ CloseMissing(c) \/ Clear(c) \/ List(c) \/ Match(c) \/ Sweep(c)

Next ==
    \/ \E c \in Clients : UploadStep(c) \/ RowStep(c) \/ DeleteStep(c) \/ AccountStep(c) \/ Crash(c)
    \/ \E g \in Guests : Join(g) \/ Leave(g)

Spec == Init /\ [][Next]_vars

-----------------------------------------------------------------------------
(* Rows have a holder that is there, members an account.                   *)
TypeOK ==
    /\ used \subseteq Files /\ stored \subseteq used /\ rows \subseteq used
    /\ holders \subseteq Kinds /\ (~vehicle => holders = {} /\ members = {})
    /\ \A f \in rows : f.kind \in holders
    /\ "claim" \in holders => "insurance" \in holders
    /\ members \subseteq users /\ users \subseteq Users
    /\ \A c \in Clients : req[c] = Idle \/ req[c].files \subseteq used
    /\ asked \subseteq Files /\ astray \subseteq Files

(* A row never points at a file that is not there, unless someone asked to *)
(* remove that very file: no deletion, cleanup or sweep takes a file that  *)
(* has a row, or is about to be given one.                                 *)
RowsHaveFiles == rows \ stored \subseteq asked

(* A stored file without a row is on its way in or out, or is one a crash, *)
(* a refusal, a race or a known gap left behind; and an account's sweep    *)
(* leaves none of those under its prefix either.                           *)
NoneForgotten ==
    stored \ rows \subseteq astray \union UNION {Pending(c) : c \in Clients}

(* Reconciling drops only rows whose file is gone. *)
ReconcileSpares == [][\A c \in Clients : At(c, "purge") /\ rows' # rows /\ req'[c] = Idle
                        => (rows \ rows') \intersect stored = {}]_vars

(* "Every other owner of stored files goes with the vehicle too": whatever *)
(* rows a vehicle takes with it, undisturbed, their files are removed next.*)
FilesGoToo == [][\A c \in Clients :
    At(c, "delete") /\ At(c, "remove")' /\ req[c].alone /\ vehicle /\ ~vehicle'
    => rows \subseteq req'[c].files]_vars

=============================================================================
