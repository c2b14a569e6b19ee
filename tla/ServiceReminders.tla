-------------------------- MODULE ServiceReminders --------------------------
(***************************************************************************)
(* One vehicle's service records of one category and its reminders to do   *)
(* that work: made by hand, from one item of the suggested schedule, or    *)
(* from what the workshop wrote down                                       *)
(* (maintenance/maintenance.service.ts, next-due-reminder.ts,              *)
(* reminders/reminders.service.ts, service-schedule.service.ts,            *)
(* repeat-rule.ts).                                                        *)
(*                                                                         *)
(* A request reads before its transaction opens: the reminder, whether it  *)
(* is completed, whether something else covers the item, and from that the *)
(* next occurrence.  The transaction is one step; others' may come in      *)
(* between.  Due dates are left out but for one thing, that a successor    *)
(* may be born already due and is then not scheduled: when it is counted   *)
(* from a logged service, or the item is the tyre walk-around, counted     *)
(* from the last reading of the tyres.  The item keeps applying to the     *)
(* vehicle.  Renewals have a module of their own.                          *)
(* Bounds: the records and reminders ever created (Records, Reminders),    *)
(* the requests in flight (Clients).                                       *)
(***************************************************************************)
EXTENDS Integers

CONSTANTS Records, Reminders,   \* ids, in order of creation
          Days,                 \* service dates
          Walkaround,           \* the item is the tyre walk-around
          Clients,
          Unborn, Gone          \* a row not yet created, or deleted

NoRecord == 0
Idle == [pc |-> "idle"]
NoHandoff == [row |-> 0]

ASSUME ServiceReminderConstants ==
    /\ Records \subseteq Nat \ {NoRecord} /\ Reminders \subseteq Nat \ {0} /\ Days \subseteq Int
    /\ Walkaround \in BOOLEAN

VARIABLES
    records,    \* record -> its service date, all that is read of it later
    reminders,  \* reminder -> its row
    req         \* client -> what its request has read

vars == <<records, reminders, req>>

Record == [confirmed : BOOLEAN, date : Days,    \* as it is written
           next : BOOLEAN]              \* the workshop wrote down when to come back
Reminder == [src : Records \union {NoRecord},   \* sourceMaintenanceRecordId
             slug : BOOLEAN,            \* made from the schedule's item
             rule : BOOLEAN,            \* it repeats
             done : BOOLEAN,            \* completedAt is set
             closed : BOOLEAN]          \* the status column says completed

ASSUME ServiceReminderRows ==
    \A absent \in {Unborn, Gone} : absent \notin Days /\ absent \notin Reminder

Kept(rows, id) == rows[id] \notin {Unborn, Gone}
Present == {r \in Reminders : Kept(reminders, r)}
Open(r) == r \in Present /\ ~reminders[r].done
Next1(rows, ids, id) == rows[id] = Unborn /\ \A i \in ids : i < id => rows[i] # Unborn

TypeOK ==
    /\ records \in [Records -> Days \union {Unborn, Gone}]
    /\ reminders \in [Reminders -> Reminder \union {Unborn, Gone}]
    /\ \A r \in Present : reminders[r].src # NoRecord => Kept(records, reminders[r].src)
    /\ \A r, s \in Present : reminders[r].src = reminders[s].src /\ reminders[r].src # NoRecord => r = s

Begin(c, next) == req[c] = Idle /\ req' = [req EXCEPT ![c] = next]
Done(c) == req' = [req EXCEPT ![c] = Idle]

-----------------------------------------------------------------------------
(* buildNextOccurrence: a rule is followed unless another reminder covers  *)
(* the item, which it tells by the status column.                          *)
CoversItself(s, r) == s \in Present /\ reminders[s].slug /\ ~reminders[s].closed    \* mutant
CoversNone(s, r) == FALSE                                   \* mutant: it never looks
Covers(s, r) == s \in Present \ {r} /\ reminders[s].slug /\ ~reminders[s].closed

Repeats(r) ==
    /\ reminders[r].rule
    /\ reminders[r].slug => \A s \in Reminders : ~Covers(s, r)

(* What a request finds out before its transaction: the next occurrence,   *)
(* if there is to be one.                                                  *)
BornDue(r, logged) ==
    {due \in BOOLEAN : due => Repeats(r) /\ (logged \/ (Walkaround /\ reminders[r].slug))}
Found(r, due) == [row |-> r, next |-> Repeats(r) /\ ~due, due |-> due, slug |-> reminders[r].slug]

(* It repeats, or there would be none. *)
Successor(h) == [src |-> NoRecord, slug |-> h.slug, rule |-> TRUE, done |-> FALSE, closed |-> FALSE]

Completion(row) == [row EXCEPT !.done = TRUE, !.closed = TRUE]

(* writeCompletion, by id, whatever the row has become; the successor is   *)
(* of the row as it was read.                                              *)
Complete(rows, h, next, n) ==
    LET done == [rows EXCEPT ![h.row] = Completion(@)]
    IN IF next THEN [done EXCEPT ![n] = Successor(h)] ELSE done

-----------------------------------------------------------------------------
(* RemindersService *)
CreateReminder(c, n, rule) ==
    /\ req[c] = Idle /\ Next1(reminders, Reminders, n)
    /\ reminders' = [reminders EXCEPT ![n] = [src |-> NoRecord, slug |-> FALSE, rule |-> rule,
                                              done |-> FALSE, closed |-> FALSE]]
    /\ UNCHANGED <<records, req>>

(* applySuggestions: whether the item is covered is the caller's to see. *)
ApplySuggestion(c, n) ==
    /\ req[c] = Idle /\ Next1(reminders, Reminders, n)
    /\ reminders' = [reminders EXCEPT ![n] = [src |-> NoRecord, slug |-> TRUE, rule |-> TRUE,
                                              done |-> FALSE, closed |-> FALSE]]
    /\ UNCHANGED <<records, req>>

CompleteRead(c, r) ==
    /\ r \in Present
    /\ \E due \in BornDue(r, FALSE) : Begin(c, [pc |-> "complete", handoff |-> Found(r, due)])
    /\ UNCHANGED <<records, reminders>>

CompleteCommit(c, n) ==
    /\ req[c].pc = "complete" /\ req[c].handoff.row \in Present
    /\ req[c].handoff.next => Next1(reminders, Reminders, n)
    /\ reminders' = Complete(reminders, req[c].handoff, req[c].handoff.next, n)
    /\ Done(c) /\ UNCHANGED records

(* updateReminder: the status is computed from the row as it was read. *)
UpdateRead(c, r) ==
    /\ r \in Present
    /\ Begin(c, [pc |-> "update", row |-> r, done |-> reminders[r].done])
    /\ UNCHANGED <<records, reminders>>

StatusReopened(done) == FALSE           \* mutant: the status forgets completedAt
Status(done) == done

UpdateCommit(c, rule) ==
    /\ req[c].pc = "update" /\ req[c].row \in Present
    /\ reminders' = [reminders EXCEPT ![req[c].row].closed = Status(req[c].done),
                                      ![req[c].row].rule = rule]
    /\ Done(c) /\ UNCHANGED records

SnoozeRead(c, r) ==
    /\ Open(r)
    /\ Begin(c, [pc |-> "snooze", row |-> r])
    /\ UNCHANGED <<records, reminders>>

SnoozeCommit(c) ==
    /\ req[c].pc = "snooze" /\ req[c].row \in Present
    /\ reminders' = [reminders EXCEPT ![req[c].row].closed = FALSE]
    /\ Done(c) /\ UNCHANGED records

DeleteReminder(c, r) ==
    /\ req[c] = Idle /\ r \in Present
    /\ reminders' = [reminders EXCEPT ![r] = Gone]
    /\ UNCHANGED <<records, req>>

-----------------------------------------------------------------------------
(* syncNextDueReminder, for a record just written as row. *)
Speaks(row) == row.confirmed /\ row.next
MadeFrom(rows, rec) == {r \in Reminders : Kept(rows, r) /\ rows[r].src = rec}
FulfilsAny(row, old) == TRUE            \* mutant: newer services are closed too
Fulfils(row, old) == old < row.date

RefreshDone(row) == [row EXCEPT !.done = FALSE, !.closed = FALSE]   \* mutant: reopened
Refresh(row) == IF row.done THEN row ELSE [row EXCEPT !.closed = FALSE]

MakesAgain(rows, rec, row) == Speaks(row)   \* mutant: whatever it made before
Makes(rows, rec, row) == Speaks(row) /\ MadeFrom(rows, rec) = {}

SyncNextDue(rows, rec, row, n) ==
    IF ~Speaks(row) THEN rows
    ELSE [r \in Reminders |->
           IF r = n /\ Makes(rows, rec, row)
           THEN [src |-> rec, slug |-> FALSE, rule |-> FALSE, done |-> FALSE, closed |-> FALSE]
           ELSE IF ~Kept(rows, r) THEN rows[r]
           ELSE IF rows[r].src = rec THEN Refresh(rows[r])
           ELSE IF rows[r].src # NoRecord /\ ~rows[r].done /\ Fulfils(row, records[rows[r].src])
           THEN Completion(rows[r])
           ELSE rows[r]]

(* completeByRecord, after the sync: the reminder is completed, if it is   *)
(* still there and open; the next occurrence is the one the record made,   *)
(* when it made one, and that takes the rule on.                           *)
TakesRule(row) == ~row.done /\ ~row.rule
HandOff(rows, h, rec, row, n) ==
    LET due == IF h.row \in Present /\ ~rows[h.row].done
               THEN Complete(rows, h, h.next /\ ~row.next, n) ELSE rows
    IN [r \in Reminders |->
         IF row.next /\ h.next /\ r \in MadeFrom(rows, rec) /\ TakesRule(due[r])
         THEN [due[r] EXCEPT !.rule = TRUE, !.slug = @ \/ h.slug] ELSE due[r]]

(* The reminder a record was logged from, unless it is completed already.  *)
Handoffs == {NoHandoff} \union
    UNION {{Found(r, due) : due \in BornDue(r, TRUE)} : r \in {s \in Present : Open(s)}}

(* A record's transaction: its row, its next-due reminder, the handoff.    *)
Schedules(h, row) == h # NoHandoff /\ Open(h.row) /\ h.next /\ ~row.next
Save(rec, row, h, n) ==
    LET synced == SyncNextDue(reminders, rec, row, n)
    IN /\ Makes(reminders, rec, row) \/ Schedules(h, row) => Next1(reminders, Reminders, n)
       /\ records' = [records EXCEPT ![rec] = row.date]
       /\ reminders' = IF h = NoHandoff THEN synced ELSE HandOff(synced, h, rec, row, n)

LogRead(c, h) ==
    /\ Begin(c, [pc |-> "log", handoff |-> h])
    /\ UNCHANGED <<records, reminders>>

(* Handoffs are for confirmed records only: createForVehicle, updateRecord.*)
CreateRecord(c, rec, row, n) ==
    /\ req[c].pc = "log" /\ Next1(records, Records, rec)
    /\ req[c].handoff # NoHandoff => row.confirmed
    /\ Save(rec, row, req[c].handoff, n)
    /\ Done(c)

UpdateRecord(c, rec, row, n) ==
    /\ req[c].pc = "log" /\ Kept(records, rec)
    /\ req[c].handoff # NoHandoff => row.confirmed
    /\ Save(rec, row, req[c].handoff, n)
    /\ Done(c)

DeleteRecord(c, rec) ==
    /\ req[c] = Idle /\ Kept(records, rec)
    /\ records' = [records EXCEPT ![rec] = Gone]
    /\ reminders' = [r \in Reminders |-> IF r \in MadeFrom(reminders, rec)
                                         THEN [reminders[r] EXCEPT !.src = NoRecord]
                                         ELSE reminders[r]]
    /\ UNCHANGED req

(* createBulkForVehicle: the rows first, then the newest one that says     *)
(* when to come back speaks, in a transaction of its own.                  *)
Import(c, old, new, oldRow, newRow) ==
    /\ Begin(c, IF newRow.next /\ (oldRow.next => oldRow.date < newRow.date)
                THEN [pc |-> "import", rec |-> new, row |-> newRow]
                ELSE [pc |-> "import", rec |-> old, row |-> oldRow])
    /\ old < new /\ Next1(records, Records, old)
    /\ Next1([records EXCEPT ![old] = oldRow.date], Records, new)
    /\ records' = [records EXCEPT ![old] = oldRow.date, ![new] = newRow.date]
    /\ UNCHANGED reminders

ImportSync(c, n) ==
    /\ req[c].pc = "import" /\ Kept(records, req[c].rec)
    /\ Makes(reminders, req[c].rec, req[c].row) => Next1(reminders, Reminders, n)
    /\ reminders' = SyncNextDue(reminders, req[c].rec, req[c].row, n)
    /\ Done(c) /\ UNCHANGED records

(* A write finds its row gone, or the process stops before it. *)
Stop(c) == req[c] # Idle /\ Done(c) /\ UNCHANGED <<records, reminders>>

-----------------------------------------------------------------------------
Init ==
    /\ records = [r \in Records |-> Unborn]
    /\ reminders = [r \in Reminders |-> Unborn]
    /\ req = [c \in Clients |-> Idle]

ReminderStep(c) ==
    \/ \E n \in Reminders, rule \in BOOLEAN : CreateReminder(c, n, rule)
    \/ \E r \in Reminders : \/ ApplySuggestion(c, r) \/ CompleteRead(c, r) \/ CompleteCommit(c, r)
                            \/ UpdateRead(c, r) \/ SnoozeRead(c, r) \/ DeleteReminder(c, r)
    \/ \E rule \in BOOLEAN : UpdateCommit(c, rule)
    \/ SnoozeCommit(c)

RecordStep(c) ==
    \/ \E h \in Handoffs : LogRead(c, h)
    \/ \E rec \in Records, row \in Record, n \in Reminders :
         CreateRecord(c, rec, row, n) \/ UpdateRecord(c, rec, row, n)
    \/ \E rec \in Records : DeleteRecord(c, rec)
    \/ \E old, new \in Records, oldRow, newRow \in Record : Import(c, old, new, oldRow, newRow)
    \/ \E n \in Reminders : ImportSync(c, n)

Next == \E c \in Clients : ReminderStep(c) \/ RecordStep(c) \/ Stop(c)

Spec == Init /\ [][Next]_vars

-----------------------------------------------------------------------------
(* The status column and completedAt, written by seven operations, never   *)
(* tell different stories (one request at a time).                         *)
StatusTellsDone == \A r \in Present : reminders[r].done <=> reminders[r].closed

(* "It keeps its cadence however many times it is completed": while a      *)
(* repeating reminder of the item is open and no other open one covers it, *)
(* nothing the completion looks up tells it not to schedule the next (only *)
(* the walk-around's, or that of a service logged late, may then be born   *)
(* due).                                                                   *)
OnlyOne(r) ==
    /\ Open(r) /\ reminders[r].slug /\ reminders[r].rule
    /\ \A s \in Present \ {r} : Open(s) => ~reminders[s].slug
KeepsCadence == \A r \in Present : OnlyOne(r) => Repeats(r)

(* And from one completion to the next, whether it is ticked off or a      *)
(* service is logged from it: an open reminder that repeats takes its      *)
(* place, of the item or made from the record.  Not so when the next is    *)
(* born due, or when a record is saved again whose own reminder is         *)
(* completed by then.                                                      *)
Completes(c, r) ==
    /\ req[c].pc \in {"complete", "log"} /\ req[c].handoff.row = r /\ ~req[c].handoff.due
    /\ r \in Present' /\ reminders'[r].done
SavedAgain(c) == \E rec \in Records, row \in Record, n \in Reminders :
    /\ UpdateRecord(c, rec, row, n) /\ row.next
    /\ \E s \in MadeFrom(reminders, rec) : reminders'[s].done
CadenceGoesOn == [][\A c \in Clients, r \in Present :
    OnlyOne(r) /\ Completes(c, r) /\ ~SavedAgain(c) =>
        \E s \in Present' : /\ ~reminders'[s].done /\ reminders'[s].rule
                            /\ reminders'[s].slug \/ reminders'[s].src # NoRecord]_vars

(* The app never doubles the nagging: when completing a reminder or saving *)
(* a record gives the item a reminder, no other open one covers it.        *)
SoleSuccessor == [][req' # req =>
    \A r \in Present' : reminders'[r].slug /\ ~(r \in Present /\ reminders[r].slug) =>
        \A s \in Present' \ {r} : reminders'[s].slug => reminders'[s].done]_vars

(* A completed reminder stays completed, however often its record is       *)
(* saved, edited, imported or snoozed around.                              *)
StaysCompleted == [][\A r \in Present : reminders[r].done /\ r \in Present' => reminders'[r].done]_vars

(* A reminder a record made is closed by its user, by the record logged    *)
(* from it, or by a later service of the same kind.                         *)
ClosedByLaterService == [][\A r \in Present :
    /\ Open(r) /\ reminders[r].src # NoRecord /\ r \in Present' /\ reminders'[r].done
    /\ \A c \in Clients : req[c] # Idle /\ req'[c] = Idle =>
         /\ req[c].pc # "complete"
         /\ req[c].pc = "log" => req[c].handoff.row # r
    => \E rec \in Records :
         Kept(records', rec) /\ records[reminders[r].src] < records'[rec]]_vars

=============================================================================
