------------------------------ MODULE Renewals ------------------------------
(***************************************************************************)
(* One vehicle's papers of one kind (an insurance policy, a PUC            *)
(* certificate, ...) and the reminders that follow them                    *)
(* (vehicle-documents/vehicle-documents.service.ts, document-recency.ts,   *)
(* reminders/renewal-link.ts, reminders/reminders.service.ts).             *)
(*                                                                         *)
(* A paper is saved first and its reminders are synced in a transaction    *)
(* of their own; a transaction reads, then writes and commits, and others  *)
(* may commit in between (read committed).  What the database refuses (a   *)
(* second holder of the unique link, a row or a paper that is gone) rolls  *)
(* the transaction back.  Access checks, audit rows and the bell are left  *)
(* out, and so is the repeat rule: completing may or may not schedule a    *)
(* successor, at any date.  Service records write reminders of the         *)
(* papers' types too (maintenance/next-due-reminder.ts).                   *)
(*                                                                         *)
(* Papers and reminders are numbered in the order they are created.        *)
(* Bounds: the papers and reminders ever created (Papers, Reminders), the  *)
(* requests in flight (Clients).                                           *)
(***************************************************************************)
EXTENDS Integers, FiniteSets

CONSTANTS Papers, Reminders,    \* ids, in order of creation
          Starts, Ends, Dates,  \* days
          NoStart,              \* a paper without a start date ranks lowest
          Never,                \* a paper without an end date ranks highest
          Window,               \* RENEWAL_ADOPT_WINDOW_DAYS
          Clients,
          Unborn, Gone          \* a row not yet created, or deleted

NoPaper == 0
NoDate == 0
NoReminder == 0
Idle == [pc |-> "idle"]

ASSUME RenewalConstants ==
    /\ Papers \subseteq Nat \ {NoPaper} /\ Reminders \subseteq Nat \ {NoReminder}
    /\ Starts \subseteq Int /\ NoStart \in Int /\ \A s \in Starts : NoStart < s
    /\ Ends \subseteq Int /\ Never \in Int /\ \A e \in Ends : e < Never
    /\ Ends \subseteq Dates /\ Dates \subseteq Int \ {NoDate, Never}
    /\ NoDate # Never /\ Window \in Nat

VARIABLES
    papers,     \* paper -> its row
    reminders,  \* reminder -> its row
    req,        \* client -> what its request has read and is about to do
    owed        \* history: no sync has run undisturbed since the papers changed, or
                \* since a service record re-dated a reminder that follows one

vars == <<papers, reminders, req, owed>>

Paper == [start : Starts \union {NoStart}, end : Ends \union {Never}]
Reminder == [link : Papers \union {NoPaper}, date : Dates \union {NoDate},
             done : BOOLEAN, ours : BOOLEAN]

ASSUME RowsAssumption ==
    \A absent \in {Unborn, Gone} : absent \notin Paper /\ absent \notin Reminder

Live == {p \in Papers : papers[p] \notin {Unborn, Gone}}
Present == {r \in Reminders : reminders[r] \notin {Unborn, Gone}}
Open(r) == r \in Present /\ ~reminders[r].done
Holds(r, p) == r \in Present /\ reminders[r].link = p

(* The next row to be created. *)
NextPaper(p) == papers[p] = Unborn /\ \A q \in Papers : q < p => papers[q] # Unborn
NextReminder(r) == reminders[r] = Unborn /\ \A s \in Reminders : s < r => reminders[s] # Unborn

-----------------------------------------------------------------------------
(* isMoreRecentDocument, and latestOf's choice among exact ties. *)
MoreRecent(p, q) ==
    \/ papers[p].start > papers[q].start
    \/ /\ papers[p].start = papers[q].start
       /\ \/ papers[p].end > papers[q].end
          \/ papers[p].end = papers[q].end /\ p > q

OfRecord(p) == p \in Live /\ \A q \in Live \ {p} : MoreRecent(p, q)

(* releasePaper: a completed reminder lets go of the paper. *)
ReleaseNone(rs, p) == rs                    \* mutant
Release(rs, p) ==
    [r \in Reminders |-> IF r \in Present /\ rs[r].link = p /\ rs[r].done
                         THEN [rs[r] EXCEPT !.link = NoPaper] ELSE rs[r]]

Completed(rs, old) ==
    [r \in Reminders |-> IF r \in old THEN [rs[r] EXCEPT !.done = TRUE] ELSE rs[r]]

(* The unique index and the foreign key let a row be given the link. *)
MayFollowAny(rs, p, r) == p \in Live        \* mutant: no unique index
MayFollow(rs, p, r) == p \in Live /\ \A s \in Present \ {r} : rs[s].link # p

(* A row is written and its request moves on; every other request in       *)
(* flight has read what may no longer be so.                               *)
Goes(c, next) ==
    req' = [d \in Clients |-> IF d = c THEN next
                              ELSE IF req[d] = Idle THEN Idle
                              ELSE [req[d] EXCEPT !.fresh = FALSE]]

Begin(c, next) == req[c] = Idle /\ req' = [req EXCEPT ![c] = next]

(* Nothing was written: refused, nothing to do, or the process died. *)
Stops(c) == req' = [req EXCEPT ![c] = Idle] /\ UNCHANGED <<papers, reminders, owed>>

(* A write from a disturbed read may leave things as only a sync can mend. *)
Owes(c) == owed' = (owed \/ ~req[c].fresh)

-----------------------------------------------------------------------------
(* VehicleDocumentsService: a paper is saved, its reminders synced after.  *)
ToSync == [pc |-> "sync", fresh |-> TRUE]

CreatePaper(c, p, row) ==
    /\ req[c] = Idle /\ NextPaper(p)
    /\ papers' = [papers EXCEPT ![p] = row]
    /\ Goes(c, ToSync)
    /\ owed' = TRUE
    /\ UNCHANGED reminders

UpdatePaper(c, p, row) ==
    /\ req[c] = Idle /\ p \in Live /\ row # papers[p]
    /\ papers' = [papers EXCEPT ![p] = row]
    /\ Goes(c, ToSync)
    /\ owed' = TRUE
    /\ UNCHANGED reminders

(* The foreign key lets go of the paper; no sync follows. *)
LetGoNone(p) == reminders                   \* mutant: the link outlives its paper
LetGo(p) == [r \in Reminders |-> IF Holds(r, p) THEN [reminders[r] EXCEPT !.link = NoPaper]
                                 ELSE reminders[r]]

RemovePaper(c, p) ==
    /\ req[c] = Idle /\ p \in Live
    /\ papers' = [papers EXCEPT ![p] = Gone]
    /\ reminders' = LetGo(p)
    /\ Goes(c, Idle)
    /\ UNCHANGED owed

-----------------------------------------------------------------------------
(* syncRenewals: reads the papers and the open reminders that follow them. *)
SyncNoPaper(c) == req[c].pc = "sync" /\ Live = {} /\ Stops(c)

SyncRead(c) ==
    /\ req[c].pc = "sync"
    /\ \E p \in Papers :
        /\ OfRecord(p)
        /\ req' = [req EXCEPT ![c] =
             [pc |-> "commit", fresh |-> TRUE, paper |-> p, end |-> papers[p].end,
              old |-> {r \in Reminders : Open(r) /\ reminders[r].link \notin {p, NoPaper}},
              following |-> {r \in Reminders : Open(r) /\ Holds(r, p)},
              redate |-> \E r \in Reminders : /\ Open(r) /\ Holds(r, p)
                                              /\ reminders[r].date # papers[p].end]]
    /\ UNCHANGED <<papers, reminders, owed>>

(* Every row it goes on to update must still be there. *)
Written(c) == req[c].old \union
    (IF req[c].redate \/ req[c].end = Never THEN req[c].following ELSE {})

Synced(c, rs) ==
    /\ Written(c) \subseteq Present
    /\ reminders' = rs
    /\ Goes(c, Idle)
    /\ owed' = ~req[c].fresh
    /\ UNCHANGED papers

(* Renewed: what followed an older paper is done, and the first of them    *)
(* hands on to a successor.                                                *)
Renewing(c) == req[c].following = {} /\ req[c].end # Never /\ req[c].old # {}
First(c, r) == r \in req[c].old /\ \A s \in req[c].old : r <= s
Handed(c, r) == Release(Completed(reminders, {r}), req[c].paper)
HeirDone(c, r) ==                           \* mutant: the whole row is copied
    [reminders[r] EXCEPT !.done = TRUE, !.link = req[c].paper, !.date = req[c].end]
Heir(c, r) == [link |-> req[c].paper, date |-> req[c].end, done |-> FALSE,
               ours |-> reminders[r].ours]

SyncRenew(c) ==
    /\ req[c].pc = "commit" /\ Renewing(c)
    /\ \E r, n \in Reminders :
         /\ First(c, r) /\ NextReminder(n)
         /\ MayFollow(Handed(c, r), req[c].paper, NoReminder)
         /\ Synced(c, Completed([Handed(c, r) EXCEPT ![n] = Heir(c, r)], req[c].old))

(* Something follows the paper of record already: re-dated, or let go when *)
(* the paper no longer runs out.                                           *)
RedatedNever(c, row) ==                     \* mutant: a lifetime paper keeps its reminder
    IF req[c].redate /\ req[c].end # Never THEN [row EXCEPT !.date = req[c].end] ELSE row
Redated(c, row) ==
    IF req[c].end = Never THEN [row EXCEPT !.link = NoPaper]
    ELSE IF req[c].redate THEN [row EXCEPT !.date = req[c].end]
    ELSE row

SyncFollowing(c) ==
    /\ req[c].pc = "commit" /\ req[c].following # {}
    /\ Synced(c, [r \in Reminders |->
                    IF r \in req[c].following THEN Redated(c, reminders[r])
                    ELSE Completed(reminders, req[c].old)[r]])

(* Nothing follows it: the one open, unlinked reminder of its type, if it  *)
(* is due about then or has no date.                                       *)
Candidates == {r \in Reminders : Open(r) /\ reminders[r].ours /\ reminders[r].link = NoPaper}
Near(d, e) == d = NoDate \/ (d - e <= Window /\ e - d <= Window)
Adoptable(c, r) == Candidates = {r} /\ Near(reminders[r].date, req[c].end)

Follow(rs, r, p, e) == [Release(rs, p) EXCEPT ![r].link = p, ![r].date = e]

Adopting(c) == req[c].following = {} /\ req[c].end # Never /\ req[c].old = {}

SyncAdopt(c) ==
    /\ req[c].pc = "commit" /\ Adopting(c)
    /\ \E r \in Candidates :
        /\ Adoptable(c, r) /\ MayFollow(Release(reminders, req[c].paper), req[c].paper, r)
        /\ Synced(c, Follow(reminders, r, req[c].paper, req[c].end))

SyncNothing(c) ==
    /\ req[c].pc = "commit"
    /\ \/ Adopting(c) /\ \A r \in Candidates : ~Adoptable(c, r)
       \/ req[c].following = {} /\ req[c].end = Never
    /\ Synced(c, Completed(reminders, req[c].old))

(* The database refuses what it writes. *)
Refused(c) ==
    \/ ~(Written(c) \subseteq Present)
    \/ /\ Renewing(c)
       /\ \E r \in req[c].old : First(c, r) /\ ~MayFollow(Handed(c, r), req[c].paper, NoReminder)
    \/ /\ Adopting(c)
       /\ \E r \in Candidates :
            Adoptable(c, r) /\ ~MayFollow(Release(reminders, req[c].paper), req[c].paper, r)
SyncRefused(c) == req[c].pc = "commit" /\ Refused(c) /\ Stops(c)

-----------------------------------------------------------------------------
(* RemindersService.  What linkRenewalReminder finds: the paper of record, *)
(* when it ends and nothing open follows it.                               *)
FreePaper(p) == OfRecord(p) /\ papers[p].end # Never /\ ~\E r \in Reminders : Open(r) /\ Holds(r, p)
ToFollow == IF \E p \in Papers : FreePaper(p) THEN CHOOSE p \in Papers : FreePaper(p) ELSE NoPaper
EndOf(p) == IF p = NoPaper THEN Never ELSE papers[p].end

(* createReminder: inserted, then linked, in one transaction.  What the    *)
(* caller asks for is picked when it is written.                           *)
CreateRead(c) ==
    /\ Begin(c, [pc |-> "create", fresh |-> TRUE, paper |-> ToFollow, end |-> EndOf(ToFollow)])
    /\ UNCHANGED <<papers, reminders, owed>>

Inserted(n, row) == NextReminder(n) /\ reminders' = [reminders EXCEPT ![n] = row]

CreatePlain(c, n, d, ours) ==
    /\ req[c] # Idle /\ req[c].pc = "create" /\ (ours => req[c].paper = NoPaper)
    /\ Inserted(n, [link |-> NoPaper, date |-> d, done |-> FALSE, ours |-> ours])
    /\ Goes(c, Idle) /\ Owes(c)
    /\ UNCHANGED papers

CreateLinked(c, n) ==
    /\ req[c].pc = "create" /\ req[c].paper # NoPaper /\ NextReminder(n)
    /\ LET freed == Release(reminders, req[c].paper)
       IN /\ MayFollow(freed, req[c].paper, NoReminder)
          /\ reminders' = [freed EXCEPT ![n] = [link |-> req[c].paper, date |-> req[c].end,
                                                done |-> FALSE, ours |-> TRUE]]
    /\ Goes(c, Idle) /\ Owes(c)
    /\ UNCHANGED papers

CreateRefused(c) ==
    /\ req[c].pc = "create" /\ req[c].paper # NoPaper
    /\ ~MayFollow(Release(reminders, req[c].paper), req[c].paper, NoReminder)
    /\ Stops(c)

(* updateReminder: a reminder that follows a paper keeps the paper's date  *)
(* unless its type is changed away, which unlinks it; one that follows     *)
(* none may be linked, by what its transaction finds when it commits.      *)
UpdateRead(c, r) ==
    /\ r \in Present
    /\ LET p == reminders[r].link
       IN Begin(c, [pc |-> "update", fresh |-> TRUE, row |-> r, followed |-> p # NoPaper,
                    date |-> IF p # NoPaper /\ papers[p].end # Never THEN papers[p].end
                             ELSE reminders[r].date,
                    fixed |-> p # NoPaper /\ papers[p].end # Never])
    /\ UNCHANGED <<papers, reminders, owed>>

Types == {"kept", "ours", "other"}

UpdateCommit(c, d, type) ==
    LET q == req[c]
        away == q.followed /\ type = "other"
        date == IF d = NoDate \/ (q.fixed /\ ~away) THEN q.date ELSE d
        old == reminders[q.row]
        row == [link |-> IF away THEN NoPaper ELSE old.link,
                date |-> IF date = NoDate THEN old.date ELSE date,
                done |-> old.done,
                ours |-> type = "ours" \/ (type = "kept" /\ old.ours)]
        wrote == [reminders EXCEPT ![q.row] = row]
    IN /\ q # Idle /\ q.pc = "update" /\ q.row \in Present
       /\ reminders' = IF /\ ~q.followed \/ away
                          /\ row.ours /\ ~row.done /\ row.link = NoPaper /\ ToFollow # NoPaper
                       THEN Follow(wrote, q.row, ToFollow, EndOf(ToFollow))
                       ELSE wrote
       /\ Goes(c, Idle) /\ Owes(c)
       /\ UNCHANGED papers

(* completeReminder: whether it is completed already is not looked at; the *)
(* successor its rule schedules follows nothing.                           *)
CompleteReminder(c, r) ==
    /\ req[c] = Idle /\ r \in Present
    /\ LET done == Completed(reminders, {r})
       IN \/ reminders' = done
          \/ \E n \in Reminders, d \in Dates \union {NoDate} :
               /\ NextReminder(n)
               /\ reminders' = [done EXCEPT ![n] = [link |-> NoPaper, date |-> d, done |-> FALSE,
                                                    ours |-> reminders[r].ours]]
    /\ Goes(c, Idle)
    /\ UNCHANGED <<papers, owed>>

(* syncNextDueReminder: a service record of the paper's own category makes *)
(* a reminder of this type that follows nothing; editing a record re-dates *)
(* the open one it made, although that may have been adopted since.  Which *)
(* reminders records have made is not kept: any may be one.  A record      *)
(* keeps its category; what it fulfils is completed (CompleteReminder).    *)
RecordMakes(c, n, d) ==
    /\ req[c] = Idle
    /\ Inserted(n, [link |-> NoPaper, date |-> d, done |-> FALSE, ours |-> TRUE])
    /\ Goes(c, Idle)
    /\ UNCHANGED <<papers, owed>>

RecordRedates(c, r, d) ==
    /\ req[c] = Idle /\ Open(r) /\ reminders[r].ours
    /\ reminders' = [reminders EXCEPT ![r].date = d]
    /\ Goes(c, Idle)
    /\ owed' = (owed \/ reminders[r].link # NoPaper)
    /\ UNCHANGED papers

(* snoozeReminder: an open reminder that follows no paper, when it is read. *)
SnoozeRead(c, r) ==
    /\ Open(r) /\ reminders[r].link = NoPaper
    /\ Begin(c, [pc |-> "snooze", fresh |-> TRUE, row |-> r])
    /\ UNCHANGED <<papers, reminders, owed>>

SnoozeCommit(c, d) ==
    /\ req[c].pc = "snooze" /\ req[c].row \in Present
    /\ reminders' = [reminders EXCEPT ![req[c].row].date = d]
    /\ Goes(c, Idle) /\ Owes(c)
    /\ UNCHANGED papers

WriteMissing(c) ==
    /\ req[c].pc \in {"update", "snooze"} /\ req[c].row \notin Present
    /\ Stops(c)

DeleteReminder(c, r) ==
    /\ req[c] = Idle /\ r \in Present
    /\ reminders' = [reminders EXCEPT ![r] = Gone]
    /\ Goes(c, Idle)
    /\ UNCHANGED <<papers, owed>>

(* The process stops, or the database is lost, before the commit. *)
Crash(c) == req[c] # Idle /\ Stops(c)

-----------------------------------------------------------------------------
Init ==
    /\ papers = [p \in Papers |-> Unborn]
    /\ reminders = [r \in Reminders |-> Unborn]
    /\ req = [c \in Clients |-> Idle]
    /\ owed = FALSE

PaperStep(c) ==
    \/ \E p \in Papers, row \in Paper : CreatePaper(c, p, row) \/ UpdatePaper(c, p, row)
    \/ \E p \in Papers : RemovePaper(c, p)

SyncStep(c) ==
    SyncNoPaper(c) \/ SyncRead(c) \/ SyncRenew(c) \/ SyncFollowing(c)
    \/ SyncAdopt(c) \/ SyncNothing(c) \/ SyncRefused(c)

ReminderStep(c) ==
    \/ CreateRead(c) \/ CreateRefused(c)
    \/ \E n \in Reminders, d \in Dates \union {NoDate}, ours \in BOOLEAN : CreatePlain(c, n, d, ours)
    \/ \E r \in Reminders : \/ CreateLinked(c, r) \/ UpdateRead(c, r) \/ CompleteReminder(c, r)
                            \/ SnoozeRead(c, r) \/ DeleteReminder(c, r)
    \/ \E d \in Dates \union {NoDate}, type \in Types : UpdateCommit(c, d, type)
    \/ \E d \in Dates : SnoozeCommit(c, d)
    \/ \E r \in Reminders, d \in Dates \union {NoDate} :
         RecordMakes(c, r, d) \/ RecordRedates(c, r, d)
    \/ WriteMissing(c)

Next == \E c \in Clients : PaperStep(c) \/ SyncStep(c) \/ ReminderStep(c) \/ Crash(c)

Spec == Init /\ [][Next]_vars

-----------------------------------------------------------------------------
TypeOK ==
    /\ papers \in [Papers -> Paper \union {Unborn, Gone}]
    /\ reminders \in [Reminders -> Reminder \union {Unborn, Gone}]
    /\ \A r \in Present : reminders[r].link \in Live \union {NoPaper}
    /\ owed \in BOOLEAN

(* A paper has one renewal: no two reminders hold one paper, whichever     *)
(* syncs, edits and completions overlap.                                   *)
OneRenewal == \A r, s \in Present :
    reminders[r].link = reminders[s].link /\ reminders[r].link # NoPaper => r = s

(* Once a sync has run undisturbed, and whatever undisturbed edits,        *)
(* completions, snoozes and deletions follow it: an open reminder follows  *)
(* only the paper of record, and is dated where that paper ends (unless a  *)
(* service record has re-dated it).                                        *)
Settled == \A r \in Present : Open(r) /\ reminders[r].link # NoPaper =>
    /\ OfRecord(reminders[r].link)
    /\ reminders[r].date = papers[reminders[r].link].end
SettledUnlessOwed == ~owed => Settled

(* A transaction that nothing disturbed is never refused: in particular    *)
(* the unique link is always let go of by a completed reminder in time.    *)
UndisturbedAccepted == \A c \in Clients : req[c] # Idle /\ req[c].fresh =>
    /\ req[c].pc = "commit" => ~Refused(c)
    /\ req[c].pc = "create" /\ req[c].paper # NoPaper =>
         MayFollow(Release(reminders, req[c].paper), req[c].paper, NoReminder)

(* A renewal hands on: when a sync completes reminders, and the paper of   *)
(* record runs out, one open reminder follows it from then on.             *)
HandsOn == [][\A c \in Clients :
    /\ req[c] # Idle /\ req[c].pc = "commit" /\ req[c].fresh /\ reminders' # reminders
    /\ req'[c] = Idle /\ req[c].end # Never
    => \E r \in Present' : ~reminders'[r].done /\ reminders'[r].link = req[c].paper]_vars

=============================================================================
