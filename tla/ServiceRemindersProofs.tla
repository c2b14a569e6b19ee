----------------------- MODULE ServiceRemindersProofs -----------------------
(***************************************************************************)
(* The reminders of a service for any number of records, reminders and     *)
(* dates.  However many requests are in flight: types, and that a          *)
(* completed reminder stays completed.  One at a time: what a request read *)
(* is still so when it writes (StillSo), and so the status column tells    *)
(* the truth, and a cadence is kept once and only once.                    *)
(***************************************************************************)
EXTENDS ServiceReminders, TLAPS

HandoffRow == [row : Reminders, next : BOOLEAN, due : BOOLEAN, slug : BOOLEAN]

Requests ==
    {Idle} \union [pc : {"complete"}, handoff : HandoffRow]
    \union [pc : {"update"}, row : Reminders, done : BOOLEAN]
    \union [pc : {"snooze"}, row : Reminders]
    \union [pc : {"log"}, handoff : {NoHandoff} \union HandoffRow]
    \union [pc : {"import"}, rec : Records, row : Record]

Types == TypeOK /\ req \in [Clients -> Requests]

LEMMA RequestTypes ==
    ASSUME NEW q \in Requests
    PROVE  /\ q.pc = "idle" <=> q = Idle
           /\ q.pc = "complete" => q.handoff \in HandoffRow
           /\ q.pc = "update" => q.row \in Reminders /\ q.done \in BOOLEAN
           /\ q.pc = "snooze" => q.row \in Reminders
           /\ q.pc = "log" => q.handoff \in {NoHandoff} \union HandoffRow
           /\ q.pc = "import" => q.rec \in Records /\ q.row \in Record
BY DEF Requests, Idle

(* A handoff that is one names a reminder. *)
LEMMA HandoffTypes ==
    ASSUME NEW h \in {NoHandoff} \union HandoffRow
    PROVE  /\ h # NoHandoff <=> h \in HandoffRow
           /\ NoHandoff.row \notin Reminders
BY ServiceReminderConstants DEF HandoffRow, NoHandoff

LEMMA PresentRows ==
    ASSUME TypeOK
    PROVE  /\ \A r \in Present : r \in Reminders /\ reminders[r] \in Reminder
           /\ \A r \in Reminders \ Present : reminders[r] \in {Unborn, Gone}
           /\ \A r \in Reminders \ Present : reminders[r] \notin Reminder
BY ServiceReminderRows DEF TypeOK, Present, Kept

-----------------------------------------------------------------------------
(* What is written over a row. *)

Agrees(row) == row.done <=> row.closed
Made(rec) == [src |-> rec, slug |-> FALSE, rule |-> FALSE, done |-> FALSE, closed |-> FALSE]

LEMMA Edits ==
    ASSUME NEW row \in Reminder
    PROVE  /\ Completion(row) \in Reminder /\ Completion(row).src = row.src
           /\ Completion(row).slug = row.slug /\ Completion(row).rule = row.rule
           /\ Completion(row).done /\ Agrees(Completion(row))
           /\ Refresh(row) \in Reminder /\ Refresh(row).src = row.src
           /\ Refresh(row).slug = row.slug /\ Refresh(row).rule = row.rule
           /\ Refresh(row).done = row.done
           /\ Agrees(row) => Agrees(Refresh(row))
BY DEF Reminder, Completion, Refresh, Agrees

LEMMA SuccessorRow ==
    ASSUME NEW h \in HandoffRow
    PROVE  /\ Successor(h) \in Reminder /\ Successor(h).src = NoRecord
           /\ Successor(h).slug = h.slug /\ Successor(h).rule
           /\ ~Successor(h).done /\ Agrees(Successor(h))
BY DEF Reminder, HandoffRow, Successor, Agrees

LEMMA MadeType ==
    ASSUME NEW rec \in Records
    PROVE  /\ Made(rec) \in Reminder /\ Made(rec).src = rec
           /\ ~Made(rec).slug /\ ~Made(rec).done /\ ~Made(rec).closed
BY DEF Made, Reminder

(* What any write leaves of a reminder there is. *)
Carried(rs, r) ==
    /\ rs[r] \in Reminder /\ rs[r].src = reminders[r].src
    /\ reminders[r].done => rs[r].done
    /\ Agrees(reminders[r]) => Agrees(rs[r])

Table == [Reminders -> Reminder \union {Unborn, Gone}]

(* A reminder of another record, closed by this one, the later of the two. *)
ClosedBy(r, rec, row) ==
    /\ reminders[r].src \notin {NoRecord, rec} /\ Fulfils(row, records[reminders[r].src])

SyncOf(rs, rec, row, n) ==
    /\ rs \in Table
    /\ \A r \in Present :
        /\ Carried(rs, r) /\ rs[r].slug = reminders[r].slug /\ rs[r].rule = reminders[r].rule
        /\ rs[r].done => reminders[r].done \/ ClosedBy(r, rec, row)
    /\ \A r \in Reminders \ Present :
        rs[r] = reminders[r] \/ (r = n /\ Makes(reminders, rec, row) /\ rs[n] = Made(rec))

LEMMA SyncRows ==
    ASSUME TypeOK, NEW rec \in Records, NEW row \in Record, NEW n \in Reminders,
           Makes(reminders, rec, row) => Next1(reminders, Reminders, n)
    PROVE  SyncOf(SyncNextDue(reminders, rec, row, n), rec, row, n)
<1> DEFINE rs == SyncNextDue(reminders, rec, row, n)
<1>1. CASE ~Speaks(row)
  <2>1. rs = reminders
    BY <1>1 DEF SyncNextDue
  <2> QED
    BY <2>1, PresentRows DEF SyncOf, Carried, Table, TypeOK
<1>2. CASE Speaks(row)
  <2> DEFINE Row(r) ==
        IF r = n /\ Makes(reminders, rec, row) THEN Made(rec)
        ELSE IF ~Kept(reminders, r) THEN reminders[r]
        ELSE IF reminders[r].src = rec THEN Refresh(reminders[r])
        ELSE IF reminders[r].src # NoRecord /\ ~reminders[r].done
                  /\ Fulfils(row, records[reminders[r].src])
        THEN Completion(reminders[r])
        ELSE reminders[r]
  <2>1. rs = [r \in Reminders |-> Row(r)]
    BY <1>2 DEF SyncNextDue, Made
  <2>2. ASSUME NEW r \in Present
        PROVE  /\ Carried(rs, r) /\ rs[r].slug = reminders[r].slug /\ rs[r].rule = reminders[r].rule
               /\ rs[r].done => reminders[r].done \/ ClosedBy(r, rec, row)
    <3>1. r \in Reminders /\ reminders[r] \in Reminder /\ Kept(reminders, r)
          /\ ~(r = n /\ Makes(reminders, rec, row))
      BY <2>2, PresentRows DEF Present, Kept, Next1
    <3>2. rs[r] = Row(r)
      BY <2>1, <3>1
    <3>3. CASE reminders[r].src = rec
      <4>1. rs[r] = Refresh(reminders[r])
        BY <3>1, <3>2, <3>3
      <4> HIDE DEF rs
      <4> QED
        BY <3>1, <4>1, Edits DEF Carried
    <3>4. CASE /\ reminders[r].src \notin {NoRecord, rec} /\ ~reminders[r].done
               /\ Fulfils(row, records[reminders[r].src])
      <4>1. rs[r] = Completion(reminders[r])
        BY <3>1, <3>2, <3>4
      <4> HIDE DEF rs
      <4> QED
        BY <3>1, <3>4, <4>1, Edits DEF Carried, ClosedBy
    <3>5. CASE /\ reminders[r].src # rec
               /\ ~(/\ reminders[r].src # NoRecord /\ ~reminders[r].done
                    /\ Fulfils(row, records[reminders[r].src]))
      <4>1. rs[r] = reminders[r]
        BY <3>1, <3>2, <3>5
      <4> HIDE DEF rs
      <4> QED
        BY <3>1, <4>1 DEF Carried, Agrees
    <3> QED
      BY <3>3, <3>4, <3>5
  <2>3. ASSUME NEW r \in Reminders \ Present
        PROVE  rs[r] = reminders[r] \/ (r = n /\ Makes(reminders, rec, row) /\ rs[n] = Made(rec))
    BY <2>1, <2>3 DEF Present
  <2>4. rs \in Table
    <3>1. \A r \in Reminders : rs[r] \in Reminder \union {Unborn, Gone}
      BY <2>2, <2>3, MadeType, PresentRows DEF Carried
    <3> QED
      BY <2>1, <3>1 DEF Table
  <2> QED
    BY <2>2, <2>3, <2>4 DEF SyncOf
<1> QED
  BY <1>1, <1>2

-----------------------------------------------------------------------------
(* The handoff, after the sync. *)

TakesOn(row, h) == [row EXCEPT !.rule = TRUE, !.slug = @ \/ h.slug]

LEMMA TakesOnRow ==
    ASSUME NEW row \in Reminder, NEW h \in HandoffRow
    PROVE  /\ TakesOn(row, h) \in Reminder /\ TakesOn(row, h).src = row.src
           /\ TakesOn(row, h).done = row.done /\ TakesOn(row, h).rule
           /\ Agrees(row) => Agrees(TakesOn(row, h))
           /\ TakesOn(row, h).slug => row.slug \/ h.slug
BY DEF TakesOn, Reminder, HandoffRow, Agrees

Due(rs, h, row, n) ==
    IF h.row \in Present /\ ~rs[h.row].done THEN Complete(rs, h, h.next /\ ~row.next, n) ELSE rs

LEMMA DueRows ==
    ASSUME TypeOK, NEW rec \in Records, NEW row \in Record, NEW n \in Reminders,
           NEW h \in HandoffRow, NEW rs, SyncOf(rs, rec, row, n),
           Schedules(h, row) => Next1(reminders, Reminders, n)
    PROVE  /\ Due(rs, h, row, n) \in Table
           /\ \A r \in Present :
                /\ Carried(Due(rs, h, row, n), r)
                /\ Due(rs, h, row, n)[r].slug = reminders[r].slug
                /\ Due(rs, h, row, n)[r].done =>
                     reminders[r].done \/ ClosedBy(r, rec, row) \/ r = h.row
                /\ r = h.row => Due(rs, h, row, n)[r].done
                /\ r # h.row => Due(rs, h, row, n)[r] = rs[r]
           /\ \A r \in Reminders \ Present :
                \/ Due(rs, h, row, n)[r] = rs[r]
                \/ /\ r = n /\ h.next /\ ~row.next
                   /\ Due(rs, h, row, n)[n] = Successor(h)
           /\ Schedules(h, row) /\ rs = reminders =>
                n \notin Present /\ Due(rs, h, row, n)[n] = Successor(h)
<1> DEFINE due == Due(rs, h, row, n)
           next == h.next /\ ~row.next
<1>1. rs \in Table /\ (h.row \in Present => h.row \in Reminders /\ rs[h.row] \in Reminder)
  BY PresentRows DEF SyncOf, Carried
<1>2. CASE ~(h.row \in Present /\ ~rs[h.row].done)
  <2>1. due = rs
    BY <1>2 DEF Due
  <2>2. ~(Schedules(h, row) /\ rs = reminders)
    BY <1>2 DEF Schedules, Open
  <2> QED
    BY <1>1, <1>2, <2>1, <2>2 DEF SyncOf
<1>3. CASE h.row \in Present /\ ~rs[h.row].done
  <2>1. next => n # h.row /\ n \notin Present
    <3>1. next => Schedules(h, row)
      BY <1>3, HandoffTypes DEF Schedules, Open, SyncOf, Carried
    <3> QED
      BY <1>3, <3>1, ServiceReminderRows, PresentRows DEF Next1, Present, Kept
  <2>2. due = IF next THEN [[rs EXCEPT ![h.row] = Completion(@)] EXCEPT ![n] = Successor(h)]
              ELSE [rs EXCEPT ![h.row] = Completion(@)]
    BY <1>3 DEF Due, Complete
  <2>3. due \in Table
    BY <1>1, <1>3, <2>2, Edits, SuccessorRow DEF Table
  <2>4. due[h.row] = Completion(rs[h.row])
    BY <1>1, <1>3, <2>1, <2>2 DEF Table
  <2>5. \A r \in Reminders : r # h.row /\ ~(r = n /\ next) => due[r] = rs[r]
    BY <1>1, <2>2 DEF Table
  <2>6. next => due[n] = Successor(h)
    BY <1>1, <2>2 DEF Table
  <2> HIDE DEF due
  <2>7. ASSUME NEW r \in Present
        PROVE  /\ Carried(due, r) /\ due[r].slug = reminders[r].slug
               /\ due[r].done => reminders[r].done \/ ClosedBy(r, rec, row) \/ r = h.row
               /\ r = h.row => due[r].done
               /\ r # h.row => due[r] = rs[r]
    <3>1. CASE r = h.row
      BY <1>1, <2>4, <3>1, Edits DEF SyncOf, Carried
    <3>2. CASE r # h.row
      <4>1. due[r] = rs[r]
        BY <2>1, <2>5, <3>2, PresentRows
      <4> QED
        BY <3>2, <4>1 DEF SyncOf, Carried
    <3> QED
      BY <3>1, <3>2
  <2>8. Schedules(h, row) => next
    BY DEF Schedules
  <2> QED
    BY <1>3, <2>1, <2>3, <2>5, <2>6, <2>7, <2>8 DEF due
<1> QED
  BY <1>2, <1>3

(* A reminder that the item did not have, and has now. *)
Heir(row, r, h, rec, service, n) ==
    \/ service.next /\ row.src = rec /\ h.next /\ h.slug
    \/ ~service.next /\ r = n /\ h.next /\ h.slug

HandOf(hs, h, rec, row, n) ==
    /\ hs \in Table
    /\ \A r \in Present :
        /\ Carried(hs, r)
        /\ hs[r].slug => reminders[r].slug \/ Heir(hs[r], r, h, rec, row, n)
        /\ hs[r].done => reminders[r].done \/ ClosedBy(r, rec, row) \/ r = h.row
        /\ r = h.row => hs[r].done
    /\ \A r \in Reminders \ Present :
        \/ hs[r] = reminders[r]
        \/ /\ r = n /\ hs[r] \in Reminder /\ Agrees(hs[r])
           /\ hs[r].src = NoRecord \/ (hs[r].src = rec /\ MadeFrom(reminders, rec) = {})
           /\ hs[r].slug => Heir(hs[r], r, h, rec, row, n)

LEMMA HandRows ==
    ASSUME TypeOK, NEW rec \in Records, NEW row \in Record, NEW n \in Reminders,
           NEW h \in HandoffRow, NEW rs, SyncOf(rs, rec, row, n),
           Schedules(h, row) => Next1(reminders, Reminders, n)
    PROVE  HandOf(HandOff(rs, h, rec, row, n), h, rec, row, n)
<1> DEFINE due == Due(rs, h, row, n)
           hs == HandOff(rs, h, rec, row, n)
           takes(r) == row.next /\ h.next /\ r \in MadeFrom(rs, rec) /\ TakesRule(due[r])
<1>1. hs = [r \in Reminders |-> IF takes(r) THEN TakesOn(due[r], h) ELSE due[r]]
  BY DEF HandOff, Due, TakesOn
<1>2. \A r \in Reminders : hs[r] = IF takes(r) THEN TakesOn(due[r], h) ELSE due[r]
  BY <1>1
<1>3. \A r \in Reminders : hs[r] = due[r] \/ (takes(r) /\ hs[r] = TakesOn(due[r], h))
  BY <1>2
<1>4. h.row \in Present => due[h.row].done /\ hs[h.row] = due[h.row]
  BY <1>2, DueRows, PresentRows DEF TakesRule
<1> HIDE DEF due, hs
<1>5. ASSUME NEW r \in Present
      PROVE  /\ Carried(hs, r)
             /\ hs[r].slug => reminders[r].slug \/ Heir(hs[r], r, h, rec, row, n)
             /\ hs[r].done => reminders[r].done \/ ClosedBy(r, rec, row) \/ r = h.row
             /\ r = h.row => hs[r].done
  <2>1. /\ r \in Reminders /\ Carried(due, r) /\ due[r].slug = reminders[r].slug
        /\ due[r].done => reminders[r].done \/ ClosedBy(r, rec, row) \/ r = h.row
        /\ due[r] \in Reminder
    BY <1>5, DueRows, PresentRows DEF due, Carried
  <2>2. CASE hs[r] = due[r]
    BY <1>4, <1>5, <2>1, <2>2 DEF Carried
  <2>3. CASE takes(r) /\ hs[r] = TakesOn(due[r], h)
    <3>1. rs[r].src = rec /\ due[r].src = rec
      BY <1>5, <2>1, <2>3 DEF MadeFrom, SyncOf, Carried
    <3>2. Carried(hs, r) /\ hs[r].src = rec /\ (hs[r].slug => due[r].slug \/ h.slug)
          /\ hs[r].done = due[r].done
      BY <2>1, <2>3, <3>1, TakesOnRow DEF Carried
    <3> QED
      BY <1>4, <1>5, <2>1, <2>3, <3>2 DEF Heir
  <2> QED
    BY <1>3, <2>1, <2>2, <2>3
<1>6. ASSUME NEW r \in Reminders \ Present
      PROVE  \/ hs[r] = reminders[r]
             \/ /\ r = n /\ hs[r] \in Reminder /\ Agrees(hs[r])
                /\ hs[r].src = NoRecord \/ (hs[r].src = rec /\ MadeFrom(reminders, rec) = {})
                /\ hs[r].slug => Heir(hs[r], r, h, rec, row, n)
  <2>1. CASE r = n /\ h.next /\ ~row.next /\ due[r] = Successor(h)
    <3>1. hs[r] = Successor(h)
      BY <1>3, <2>1
    <3> QED
      BY <2>1, <3>1, SuccessorRow DEF Heir
  <2>2. CASE due[r] = rs[r]
    <3>1. CASE rs[r] = reminders[r]
      <4>1. ~takes(r)
        BY <1>6, <3>1 DEF MadeFrom, Kept, Present
      <4> QED
        BY <1>3, <1>6, <2>2, <3>1, <4>1
    <3>2. CASE r = n /\ Makes(reminders, rec, row) /\ rs[r] = Made(rec)
      <4>1. due[r] \in Reminder /\ due[r].src = rec /\ ~due[r].slug /\ ~due[r].done /\ ~due[r].closed
        BY <2>2, <3>2, MadeType
      <4>2. row.next /\ MadeFrom(reminders, rec) = {}
        BY <3>2 DEF Makes, Speaks
      <4>3. CASE hs[r] = due[r]
        BY <3>2, <4>1, <4>2, <4>3 DEF Agrees
      <4>4. CASE takes(r) /\ hs[r] = TakesOn(due[r], h)
        <5>1. hs[r] \in Reminder /\ hs[r].src = rec /\ Agrees(hs[r]) /\ (hs[r].slug => h.slug)
          BY <4>1, <4>4, TakesOnRow DEF Agrees
        <5> QED
          BY <3>2, <4>2, <4>4, <5>1 DEF Heir
      <4> QED
        BY <1>3, <1>6, <4>3, <4>4
    <3> QED
      BY <1>6, <3>1, <3>2 DEF SyncOf
  <2> QED
    BY <1>6, <2>1, <2>2, DueRows DEF due
<1>7. hs \in Table
  <2>1. \A r \in Reminders : hs[r] \in Reminder \union {Unborn, Gone}
    BY <1>5, <1>6, PresentRows DEF Carried
  <2> QED
    BY <1>1, <2>1 DEF Table, hs
<1> QED
  BY <1>5, <1>6, <1>7 DEF HandOf, hs

-----------------------------------------------------------------------------
(* The steps. *)

FoundSo(h) ==
    /\ h.row \in Present /\ (h.slug <=> reminders[h.row].slug)
    /\ h.next <=> Repeats(h.row) /\ ~h.due

LEMMA FoundTypes ==
    ASSUME TypeOK, NEW r \in Present, NEW due \in BOOLEAN
    PROVE  Found(r, due) \in HandoffRow /\ Found(r, due).row = r /\ FoundSo(Found(r, due))
<1>1. r \in Reminders /\ reminders[r].slug \in BOOLEAN
  BY PresentRows DEF Reminder
<1>2. (Repeats(r) /\ ~due) \in BOOLEAN
  OBVIOUS
<1> QED
  BY <1>1, <1>2 DEF Found, HandoffRow, FoundSo

(* What the request has read is so: of use when nothing else has written.  *)
StillSo(c) ==
    /\ req[c].pc = "complete" => FoundSo(req[c].handoff)
    /\ req[c].pc = "update" =>
         req[c].row \in Present /\ (req[c].done <=> reminders[req[c].row].done)
    /\ req[c].pc = "snooze" => Open(req[c].row)
    /\ req[c].pc = "log" /\ req[c].handoff \in HandoffRow =>
         FoundSo(req[c].handoff) /\ Open(req[c].handoff.row)
    /\ req[c].pc = "import" =>
         Kept(records, req[c].rec) /\ records[req[c].rec] = req[c].row.date

(* What every step does, and what it does besides when that is so. *)
Forward == \A r \in Present : r \in Present' /\ reminders[r].done => reminders'[r].done
Sound(c) == Types' /\ Forward /\ (StillSo(c) /\ StatusTellsDone => StatusTellsDone')

LEMMA Grows ==
    ASSUME TypeOK, NEW rec, NEW n, reminders' \in Table,
           records' \in [Records -> Days \union {Unborn, Gone}],
           \A x \in Records : Kept(records, x) => Kept(records', x),
           \A r \in Present : /\ reminders'[r] \in Reminder
                              /\ reminders'[r].src = reminders[r].src
                              /\ reminders[r].done => reminders'[r].done,
           \A r \in Reminders \ Present :
               \/ reminders'[r] = reminders[r]
               \/ /\ r = n /\ reminders'[r] \in Reminder
                  /\ \/ reminders'[r].src = NoRecord
                     \/ /\ reminders'[r].src = rec /\ MadeFrom(reminders, rec) = {}
                        /\ rec \in Records /\ Kept(records', rec)
    PROVE  TypeOK' /\ Forward
<1>1. \A r \in Present' : r \in Present \/ r = n
  BY PresentRows DEF Present, Kept
<1>2. \A r \in Present' : reminders'[r].src # NoRecord => Kept(records', reminders'[r].src)
  BY <1>1, PresentRows DEF TypeOK, Present, Reminder, Kept
<1>3. \A r \in Present : reminders[r].src = rec /\ rec \in Records => r \in MadeFrom(reminders, rec)
  BY DEF MadeFrom, Present
<1>4. ASSUME NEW r \in Present', NEW s \in Present',
             reminders'[r].src = reminders'[s].src, reminders'[r].src # NoRecord
      PROVE  r = s
  <2>1. \A q \in Present' \ Present :
          /\ q = n
          /\ reminders'[q].src # NoRecord =>
               /\ reminders'[q].src = rec /\ rec \in Records
               /\ MadeFrom(reminders, rec) = {}
    BY PresentRows DEF Present, Kept
  <2> QED
    BY <1>3, <1>4, <2>1 DEF TypeOK
<1> QED
  BY <1>2, <1>4 DEF TypeOK, Table, Forward

LEMMA AgreesAll ==
    ASSUME TypeOK, StatusTellsDone,
           \A r \in Present : r \in Present' => Agrees(reminders'[r]),
           \A r \in Reminders \ Present : reminders'[r] = reminders[r] \/ Agrees(reminders'[r])
    PROVE  StatusTellsDone'
BY PresentRows DEF StatusTellsDone, Present, Kept, Agrees

(* A row is added, or none; the records stay. *)
LEMMA Adds ==
    ASSUME Types, NEW n \in Reminders, NEW row \in Reminder, row.src = NoRecord, Agrees(row),
           NEW rows \in Table, \A r \in Present : Carried(rows, r),
           \A r \in Reminders \ Present : rows[r] = reminders[r] \/ (r = n /\ rows[r] = row),
           reminders' = rows, UNCHANGED records, req' \in [Clients -> Requests],
           NEW c
    PROVE  Sound(c)
<1>1. TypeOK' /\ Forward
  BY Grows DEF Types, TypeOK, Carried
<1>2. StatusTellsDone => \A r \in Present : Agrees(reminders'[r])
  BY DEF StatusTellsDone, Carried, Agrees
<1> QED
  BY <1>1, <1>2, AgreesAll DEF Types, Sound

(* The step of a request that writes one row over. *)
LEMMA WritesOver ==
    ASSUME Types, NEW r \in Present, NEW row \in Reminder, row.src = reminders[r].src,
           reminders[r].done => row.done, reminders' = [reminders EXCEPT ![r] = row],
           UNCHANGED records, req' \in [Clients -> Requests],
           NEW c, StillSo(c) /\ StatusTellsDone => Agrees(row)
    PROVE  Sound(c)
<1>1. /\ reminders' \in Table /\ reminders'[r] = row
      /\ \A s \in Reminders : s # r => reminders'[s] = reminders[s]
  BY PresentRows DEF Types, TypeOK, Table
<1>2. TypeOK' /\ Forward
  BY <1>1, Grows, PresentRows DEF Types, TypeOK
<1>3. StillSo(c) /\ StatusTellsDone => \A s \in Present : Agrees(reminders'[s])
  BY <1>1, PresentRows DEF Types, StatusTellsDone, Agrees
<1> QED
  BY <1>1, <1>2, <1>3, AgreesAll, PresentRows DEF Types, Sound

(* The rows stay as they are. *)
LEMMA RowsStay ==
    ASSUME Types, UNCHANGED <<records, reminders>>, req' \in [Clients -> Requests], NEW c
    PROVE  Sound(c)
BY DEF Sound, Types, TypeOK, Present, Kept, Forward, StatusTellsDone

LEMMA RequestGoes ==
    ASSUME Types, NEW c \in Clients, NEW next \in Requests, req' = [req EXCEPT ![c] = next]
    PROVE  req' \in [Clients -> Requests]
BY DEF Types

LEMMA ReminderStepSound ==
    ASSUME Types, NEW c \in Clients, ReminderStep(c)
    PROVE  Sound(c)
<1> DEFINE q == req[c]
<1>1. q \in Requests /\ Idle \in Requests
  BY DEF Types, Requests
<1>2. ASSUME Done(c) PROVE req' \in [Clients -> Requests]
  BY <1>1, <1>2, RequestGoes DEF Done
<1>3. ASSUME NEW n \in Reminders, NEW row \in Reminder, row.src = NoRecord, Agrees(row),
             Next1(reminders, Reminders, n), reminders' = [reminders EXCEPT ![n] = row],
             UNCHANGED <<records, req>>
      PROVE  Sound(c)
  <2>1. n \notin Present
    BY <1>3 DEF Next1, Present, Kept
  <2>2. /\ reminders' \in Table /\ reminders'[n] = row
        /\ \A r \in Reminders : r # n => reminders'[r] = reminders[r]
    BY <1>3 DEF Types, TypeOK, Table
  <2>3. \A r \in Present : Carried(reminders', r)
    BY <2>1, <2>2, PresentRows DEF Types, Carried
  <2> QED
    BY <1>3, <2>2, <2>3, Adds DEF Types
<1>4. ASSUME NEW n \in Reminders, NEW rule \in BOOLEAN, CreateReminder(c, n, rule) PROVE Sound(c)
  <2> DEFINE row == [src |-> NoRecord, slug |-> FALSE, rule |-> rule, done |-> FALSE, closed |-> FALSE]
  <2>1. row \in Reminder /\ row.src = NoRecord /\ Agrees(row)
    BY DEF Reminder, Agrees
  <2> QED
    BY <1>3, <1>4, <2>1 DEF CreateReminder
<1>5. ASSUME NEW n \in Reminders, ApplySuggestion(c, n) PROVE Sound(c)
  <2> DEFINE row == [src |-> NoRecord, slug |-> TRUE, rule |-> TRUE, done |-> FALSE, closed |-> FALSE]
  <2>1. row \in Reminder /\ row.src = NoRecord /\ Agrees(row)
    BY DEF Reminder, Agrees
  <2> QED
    BY <1>3, <1>5, <2>1 DEF ApplySuggestion
<1>6. ASSUME NEW r \in Reminders, CompleteRead(c, r) PROVE Sound(c)
  <2>1. PICK due \in BOOLEAN : Begin(c, [pc |-> "complete", handoff |-> Found(r, due)])
    BY <1>6 DEF CompleteRead, BornDue
  <2>2. [pc |-> "complete", handoff |-> Found(r, due)] \in Requests
    BY <1>6, FoundTypes DEF CompleteRead, Types, Requests
  <2> QED
    BY <1>6, <2>1, <2>2, RequestGoes, RowsStay DEF CompleteRead, Begin
<1>7. ASSUME NEW n \in Reminders, CompleteCommit(c, n) PROVE Sound(c)
  <2> DEFINE h == q.handoff
             r == h.row
  <2>1. h \in HandoffRow /\ r \in Present /\ req' \in [Clients -> Requests]
    BY <1>1, <1>2, <1>7, RequestTypes DEF CompleteCommit
  <2>2. r \in Reminders /\ reminders[r] \in Reminder /\ reminders \in Table
    BY <2>1, PresentRows DEF Types, TypeOK, Table
  <2>3. CASE ~h.next
    <3>1. reminders' = [reminders EXCEPT ![r] = Completion(reminders[r])]
      BY <1>7, <2>3 DEF CompleteCommit, Complete
    <3> QED
      BY <1>7, <2>1, <2>2, <3>1, Edits, WritesOver DEF CompleteCommit
  <2>4. CASE h.next
    <3>1. reminders' = [[reminders EXCEPT ![r] = Completion(reminders[r])]
                          EXCEPT ![n] = Successor(h)]
      BY <1>7, <2>4 DEF CompleteCommit, Complete
    <3>2. n \notin Present
      BY <1>7, <2>4 DEF CompleteCommit, Next1, Present, Kept
    <3>3. /\ reminders' \in Table /\ reminders'[n] = Successor(h)
          /\ reminders'[r] = Completion(reminders[r])
          /\ \A s \in Reminders \ {r, n} : reminders'[s] = reminders[s]
      BY <2>1, <2>2, <3>1, <3>2, Edits, SuccessorRow DEF Table
    <3>4. \A s \in Present : Carried(reminders', s)
      BY <2>2, <3>2, <3>3, Edits, PresentRows DEF Types, Carried
    <3> QED
      BY <1>7, <2>1, <3>3, <3>4, SuccessorRow, Adds DEF CompleteCommit
  <2> QED
    BY <2>3, <2>4
<1>8. ASSUME NEW r \in Reminders, UpdateRead(c, r) PROVE Sound(c)
  <2>1. reminders[r].done \in BOOLEAN
    BY <1>8, PresentRows DEF UpdateRead, Types, Reminder
  <2>2. [pc |-> "update", row |-> r, done |-> reminders[r].done] \in Requests
    BY <2>1 DEF Requests
  <2> QED
    BY <1>8, <2>2, RequestGoes, RowsStay DEF UpdateRead, Begin
<1>9. ASSUME NEW rule \in BOOLEAN, UpdateCommit(c, rule) PROVE Sound(c)
  <2> DEFINE r == q.row
             row == [reminders[r] EXCEPT !.closed = Status(q.done), !.rule = rule]
  <2>1. r \in Present /\ q.done \in BOOLEAN /\ req' \in [Clients -> Requests]
    BY <1>1, <1>2, <1>9, RequestTypes DEF UpdateCommit
  <2>2. r \in Reminders /\ reminders[r] \in Reminder /\ reminders \in Table
    BY <2>1, PresentRows DEF Types, TypeOK, Table
  <2>3. /\ row \in Reminder /\ row.src = reminders[r].src /\ row.done = reminders[r].done
        /\ row.closed = q.done
    BY <2>1, <2>2 DEF Reminder, Status
  <2>4. reminders' = [reminders EXCEPT ![r] = row]
    BY <1>9, <2>2 DEF UpdateCommit, Table, Reminder
  <2>5. StillSo(c) => Agrees(row)
    BY <1>9, <2>3 DEF StillSo, Agrees, UpdateCommit
  <2> HIDE DEF row
  <2> QED
    BY <1>9, <2>1, <2>3, <2>4, <2>5, WritesOver DEF UpdateCommit
<1>10. ASSUME NEW r \in Reminders, SnoozeRead(c, r) PROVE Sound(c)
  <2>1. [pc |-> "snooze", row |-> r] \in Requests
    BY DEF Requests
  <2> QED
    BY <1>10, <2>1, RequestGoes, RowsStay DEF SnoozeRead, Begin
<1>11. ASSUME SnoozeCommit(c) PROVE Sound(c)
  <2> DEFINE r == q.row
             row == [reminders[r] EXCEPT !.closed = FALSE]
  <2>1. r \in Present /\ req' \in [Clients -> Requests]
    BY <1>2, <1>11 DEF SnoozeCommit
  <2>2. r \in Reminders /\ reminders[r] \in Reminder /\ reminders \in Table
    BY <2>1, PresentRows DEF Types, TypeOK, Table
  <2>3. /\ row \in Reminder /\ row.src = reminders[r].src /\ row.done = reminders[r].done
        /\ ~row.closed
    BY <2>2 DEF Reminder
  <2>4. reminders' = [reminders EXCEPT ![r] = row]
    BY <1>11, <2>2 DEF SnoozeCommit, Table, Reminder
  <2>5. StillSo(c) => Agrees(row)
    BY <1>11, <2>3 DEF StillSo, Agrees, SnoozeCommit, Open
  <2> HIDE DEF row
  <2> QED
    BY <1>11, <2>1, <2>3, <2>4, <2>5, WritesOver DEF SnoozeCommit
<1>12. ASSUME NEW r \in Reminders, DeleteReminder(c, r) PROVE Sound(c)
  <2>1. /\ reminders' \in Table /\ reminders'[r] = Gone
        /\ \A s \in Reminders \ {r} : reminders'[s] = reminders[s]
        /\ UNCHANGED <<records, req>>
    BY <1>12 DEF DeleteReminder, Types, TypeOK, Table
  <2>2. Present' \subseteq Present /\ \A s \in Present' : reminders'[s] = reminders[s]
    BY <2>1 DEF Present, Kept
  <2>3. TypeOK' /\ Forward
    BY <2>1, <2>2 DEF Types, TypeOK, Kept, Table, Forward
  <2>4. StatusTellsDone => StatusTellsDone'
    BY <2>2 DEF StatusTellsDone
  <2> QED
    BY <2>1, <2>3, <2>4 DEF Sound, Types
<1> QED
  BY <1>4, <1>5, <1>6, <1>7, <1>8, <1>9, <1>10, <1>11, <1>12 DEF ReminderStep

(* A transaction that saves a record, whichever it is. *)
SaveOf(rec, row, h, n) ==
    \/ h = NoHandoff /\ SyncOf(reminders', rec, row, n)
    \/ h \in HandoffRow /\ HandOf(reminders', h, rec, row, n)

LEMMA SaveRows ==
    ASSUME TypeOK, NEW rec \in Records, NEW row \in Record, NEW n \in Reminders,
           NEW h \in {NoHandoff} \union HandoffRow, Save(rec, row, h, n)
    PROVE  /\ SaveOf(rec, row, h, n)
           /\ records' = [records EXCEPT ![rec] = row.date]
<1> DEFINE synced == SyncNextDue(reminders, rec, row, n)
<1>1. SyncOf(synced, rec, row, n)
  BY SyncRows DEF Save
<1>2. CASE h = NoHandoff
  BY <1>1, <1>2 DEF Save, SaveOf
<1>3. CASE h # NoHandoff
  <2>1. h \in HandoffRow /\ reminders' = HandOff(synced, h, rec, row, n)
        /\ (Schedules(h, row) => Next1(reminders, Reminders, n))
    BY <1>3, HandoffTypes DEF Save
  <2> HIDE DEF synced
  <2> QED
    BY <1>1, <2>1, HandRows DEF SaveOf, Save
<1> QED
  BY <1>2, <1>3

LEMMA RecordRows ==
    ASSUME TypeOK, NEW rec \in Records, NEW row \in Record, records' = [records EXCEPT ![rec] = row.date]
    PROVE  /\ records' \in [Records -> Days \union {Unborn, Gone}]
           /\ \A x \in Records : Kept(records, x) => Kept(records', x)
           /\ Kept(records', rec) /\ records'[rec] = row.date
BY ServiceReminderRows DEF TypeOK, Record, Kept

LEMMA SaveSound ==
    ASSUME Types, NEW c, NEW rec \in Records, NEW row \in Record, NEW n \in Reminders,
           NEW h \in {NoHandoff} \union HandoffRow, SaveOf(rec, row, h, n),
           records' \in [Records -> Days \union {Unborn, Gone}],
           \A x \in Records : Kept(records, x) => Kept(records', x),
           Kept(records', rec), req' \in [Clients -> Requests]
    PROVE  Sound(c)
<1>1. reminders' \in Table /\ \A r \in Present : Carried(reminders', r)
  BY DEF SaveOf, SyncOf, HandOf
<1>2. ASSUME NEW r \in Reminders \ Present
      PROVE  \/ reminders'[r] = reminders[r]
             \/ /\ r = n /\ reminders'[r] \in Reminder /\ Agrees(reminders'[r])
                /\ \/ reminders'[r].src = NoRecord
                   \/ reminders'[r].src = rec /\ MadeFrom(reminders, rec) = {}
  <2>1. CASE h = NoHandoff
    <3>1. reminders'[r] = reminders[r]
          \/ (r = n /\ Makes(reminders, rec, row) /\ reminders'[r] = Made(rec))
      BY <1>2, <2>1, HandoffTypes DEF SaveOf, SyncOf
    <3> QED
      BY <3>1, MadeType DEF Agrees, Makes
  <2>2. CASE h # NoHandoff
    BY <1>2, <2>2 DEF SaveOf, HandOf
  <2> QED
    BY <2>1, <2>2
<1>3. TypeOK' /\ Forward
  BY <1>1, <1>2, Grows DEF Types, Carried
<1>4. StatusTellsDone => \A r \in Present : Agrees(reminders'[r])
  BY <1>1 DEF StatusTellsDone, Carried, Agrees
<1> QED
  BY <1>2, <1>3, <1>4, AgreesAll DEF Types, Sound

LEMMA HandoffsTyped ==
    ASSUME TypeOK, NEW h \in Handoffs
    PROVE  /\ h \in {NoHandoff} \union HandoffRow
           /\ h \in HandoffRow => FoundSo(h) /\ Open(h.row)
<1>1. ASSUME h # NoHandoff
      PROVE  \E r \in Present, due \in BOOLEAN : Open(r) /\ h = Found(r, due)
  BY <1>1 DEF Handoffs, BornDue
<1> QED
  BY <1>1, FoundTypes, HandoffTypes

(* Of the two rows of an import, the one that speaks. *)
LEMMA ImportReads ==
    ASSUME Types, NEW c \in Clients, NEW old \in Records, NEW new \in Records,
           NEW oldRow \in Record, NEW newRow \in Record, Import(c, old, new, oldRow, newRow)
    PROVE  /\ req' \in [Clients -> Requests] /\ req'[c].pc = "import" /\ reminders' = reminders
           /\ records' \in [Records -> Days \union {Unborn, Gone}]
           /\ \A x \in Records : Kept(records, x) => Kept(records', x)
           /\ Kept(records', req'[c].rec) /\ records'[req'[c].rec] = req'[c].row.date
<1>1. records' = [records EXCEPT ![old] = oldRow.date, ![new] = newRow.date] /\ old # new
  BY ServiceReminderConstants DEF Import
<1>2. oldRow.date \in Days /\ newRow.date \in Days
  BY DEF Record
<1>3. /\ records' \in [Records -> Days \union {Unborn, Gone}]
      /\ records'[old] = oldRow.date /\ records'[new] = newRow.date
      /\ \A x \in Records \ {old, new} : records'[x] = records[x]
  BY <1>1, <1>2 DEF Types, TypeOK
<1>4. \E q \in {[pc |-> "import", rec |-> new, row |-> newRow],
                [pc |-> "import", rec |-> old, row |-> oldRow]} : req' = [req EXCEPT ![c] = q]
  BY DEF Import, Begin
<1>5. PICK q \in {[pc |-> "import", rec |-> new, row |-> newRow],
                  [pc |-> "import", rec |-> old, row |-> oldRow]} : req' = [req EXCEPT ![c] = q]
  BY <1>4
<1>6. q \in Requests
  BY DEF Requests
<1>7. req' \in [Clients -> Requests] /\ req'[c] = q
  BY <1>5, <1>6 DEF Types
<1> QED
  BY <1>2, <1>3, <1>7, ServiceReminderRows DEF Kept, Import

LEMMA RecordStepSound ==
    ASSUME Types, NEW c \in Clients, RecordStep(c)
    PROVE  Sound(c)
<1> DEFINE q == req[c]
<1>1. q \in Requests /\ Idle \in Requests
  BY DEF Types, Requests
<1>2. ASSUME Done(c) PROVE req' \in [Clients -> Requests]
  BY <1>1, <1>2, RequestGoes DEF Done
<1>3. ASSUME NEW h \in Handoffs, LogRead(c, h) PROVE Sound(c)
  <2>1. [pc |-> "log", handoff |-> h] \in Requests
    BY HandoffsTyped DEF Requests, Types
  <2> QED
    BY <1>3, <2>1, RequestGoes, RowsStay DEF LogRead, Begin
<1>4. ASSUME NEW rec \in Records, NEW row \in Record, NEW n \in Reminders,
             CreateRecord(c, rec, row, n) \/ UpdateRecord(c, rec, row, n)
      PROVE  Sound(c)
  <2>1. /\ q.handoff \in {NoHandoff} \union HandoffRow
        /\ Save(rec, row, q.handoff, n) /\ Done(c)
    BY <1>1, <1>4, RequestTypes DEF CreateRecord, UpdateRecord
  <2>2. /\ SaveOf(rec, row, q.handoff, n)
        /\ records' = [records EXCEPT ![rec] = row.date]
    BY <2>1, SaveRows DEF Types
  <2> QED
    BY <1>2, <2>1, <2>2, RecordRows, SaveSound DEF Types
<1>5. ASSUME NEW rec \in Records, DeleteRecord(c, rec) PROVE Sound(c)
  <2>1. /\ UNCHANGED req /\ records' = [records EXCEPT ![rec] = Gone]
        /\ reminders' = [r \in Reminders |-> IF r \in MadeFrom(reminders, rec)
                                             THEN [reminders[r] EXCEPT !.src = NoRecord]
                                             ELSE reminders[r]]
    BY <1>5 DEF DeleteRecord
  <2>2. ASSUME NEW r \in Present
        PROVE  /\ reminders'[r] \in Reminder
               /\ reminders'[r].src = IF reminders[r].src = rec THEN NoRecord ELSE reminders[r].src
               /\ reminders'[r].done = reminders[r].done /\ reminders'[r].closed = reminders[r].closed
    <3>1. r \in Reminders /\ reminders[r] \in Reminder /\ Kept(reminders, r)
      BY <2>2, PresentRows DEF Types, Present
    <3>2. reminders'[r] = IF reminders[r].src = rec THEN [reminders[r] EXCEPT !.src = NoRecord]
                          ELSE reminders[r]
      BY <2>1, <3>1 DEF MadeFrom
    <3> QED
      BY <3>1, <3>2 DEF Reminder
  <2>3. \A r \in Reminders \ Present : reminders'[r] = reminders[r]
    BY <2>1 DEF MadeFrom, Present
  <2>4. Present' = Present /\ reminders' \in Table
    BY <2>1, <2>2, <2>3, PresentRows, ServiceReminderRows DEF Types, TypeOK, Present, Kept, Table
  <2>5. records' \in [Records -> Days \union {Unborn, Gone}]
        /\ \A x \in Records \ {rec} : records'[x] = records[x]
    BY <2>1 DEF Types, TypeOK
  <2>6. \A r \in Present' : reminders'[r].src # NoRecord => Kept(records', reminders'[r].src)
    BY <2>2, <2>4, <2>5, PresentRows DEF Types, TypeOK, Kept, Reminder
  <2>7. TypeOK' /\ Forward
    BY <2>2, <2>4, <2>5, <2>6 DEF Types, TypeOK, Table, Forward
  <2>8. StatusTellsDone => StatusTellsDone'
    BY <2>2, <2>4 DEF StatusTellsDone
  <2> QED
    BY <2>1, <2>7, <2>8 DEF Sound, Types
<1>6. ASSUME NEW old \in Records, NEW new \in Records, NEW oldRow \in Record, NEW newRow \in Record,
             Import(c, old, new, oldRow, newRow)
      PROVE  Sound(c)
  <2>1. /\ req' \in [Clients -> Requests] /\ reminders' = reminders
        /\ records' \in [Records -> Days \union {Unborn, Gone}]
        /\ \A x \in Records : Kept(records, x) => Kept(records', x)
    BY <1>6, ImportReads
  <2>2. TypeOK'
    BY <2>1 DEF Types, TypeOK, Present, Kept, Reminder
  <2> QED
    BY <2>1, <2>2 DEF Sound, Types, Forward, StatusTellsDone, Present, Kept
<1>7. ASSUME NEW n \in Reminders, ImportSync(c, n) PROVE Sound(c)
  <2>1. /\ q.rec \in Records /\ q.row \in Record /\ Kept(records, q.rec)
        /\ SyncOf(reminders', q.rec, q.row, n)
    BY <1>1, <1>7, RequestTypes, SyncRows DEF ImportSync, Types
  <2>2. SaveOf(q.rec, q.row, NoHandoff, n)
    BY <2>1 DEF SaveOf
  <2>3. records' = records /\ req' \in [Clients -> Requests]
        /\ records' \in [Records -> Days \union {Unborn, Gone}]
    BY <1>2, <1>7 DEF ImportSync, Types, TypeOK
  <2> HIDE DEF q
  <2> QED
    BY <2>1, <2>2, <2>3, SaveSound DEF Kept
<1> QED
  BY <1>3, <1>4, <1>5, <1>6, <1>7 DEF RecordStep

LEMMA StepSound ==
    ASSUME Types, NEW c \in Clients, ReminderStep(c) \/ RecordStep(c) \/ Stop(c)
    PROVE  Sound(c)
<1>1. ASSUME Stop(c) PROVE Sound(c)
  <2>1. Idle \in Requests
    BY DEF Requests
  <2> QED
    BY <1>1, <2>1, RequestGoes, RowsStay DEF Stop, Done
<1> QED
  BY <1>1, ReminderStepSound, RecordStepSound

LEMMA NextTypes == Types /\ [Next]_vars => Types' /\ Forward
<1>1. ASSUME Types, UNCHANGED vars PROVE Types' /\ Forward
  BY <1>1, RowsStay DEF Sound, Types, vars
<1> QED
  BY <1>1, StepSound DEF Next, Sound

LEMMA InitTypes == Init => Types /\ StatusTellsDone
<1> SUFFICES ASSUME Init PROVE Types /\ StatusTellsDone
  OBVIOUS
<1>1. Present = {}
  BY DEF Init, Present, Kept
<1> QED
  BY <1>1 DEF Init, Types, TypeOK, Requests, StatusTellsDone

(* Types, and one reminder made from a record at most, however requests    *)
(* interleave.                                                             *)
THEOREM TypeCorrect == Spec => []TypeOK
<1>1. Types => TypeOK
  BY DEF Types
<1> QED
  BY <1>1, InitTypes, NextTypes, PTL DEF Spec

(* Completed is for good, however requests interleave: every write there   *)
(* is leaves completedAt set, those made from an old read of the row too.  *)
THEOREM CompletedStays == Spec => StaysCompleted
<1>1. Types /\ [Next]_vars =>
        [\A r \in Present : reminders[r].done /\ r \in Present' => reminders'[r].done]_vars
  BY NextTypes DEF Forward
<1> QED
  BY <1>1, InitTypes, NextTypes, PTL DEF Spec, StaysCompleted

-----------------------------------------------------------------------------
(* One request at a time. *)

SerialInv == Types /\ StatusTellsDone /\ \A c \in Clients : StillSo(c)

(* A request that reads and writes nothing has read what is so. *)
LEMMA ReadSo ==
    ASSUME Types, NEW c \in Clients, NEW q \in Requests, req' = [req EXCEPT ![c] = q],
           UNCHANGED <<records, reminders>>,
           q.pc = "complete" => FoundSo(q.handoff),
           q.pc = "update" => q.row \in Present /\ (q.done <=> reminders[q.row].done),
           q.pc = "snooze" => Open(q.row),
           q.pc = "log" /\ q.handoff \in HandoffRow =>
               FoundSo(q.handoff) /\ Open(q.handoff.row),
           q.pc # "import"
    PROVE  StillSo(c)'
<1>1. req'[c] = q
  BY DEF Types
<1>2. /\ Present' = Present
      /\ \A r : (Repeats(r) <=> Repeats(r)') /\ (Open(r) <=> Open(r)')
  BY DEF Present, Kept, Repeats, Covers, Open
<1> QED
  BY <1>1, <1>2 DEF StillSo, FoundSo

LEMMA IdleSo ==
    ASSUME NEW c \in Clients, req'[c] = Idle
    PROVE  StillSo(c)'
BY DEF StillSo, Idle

LEMMA StepSo ==
    ASSUME Types, NEW c \in Clients, ReminderStep(c) \/ RecordStep(c) \/ Stop(c)
    PROVE  StillSo(c)'
<1>0. req \in [Clients -> Requests]
  BY DEF Types
<1>1. ASSUME Done(c) \/ (req[c] = Idle /\ UNCHANGED req) PROVE StillSo(c)'
  BY <1>0, <1>1, IdleSo DEF Done
<1>2. ASSUME NEW r \in Reminders, CompleteRead(c, r) PROVE StillSo(c)'
  <2>1. PICK due \in BOOLEAN : Begin(c, [pc |-> "complete", handoff |-> Found(r, due)])
    BY <1>2 DEF CompleteRead, BornDue
  <2> DEFINE q == [pc |-> "complete", handoff |-> Found(r, due)]
  <2>2. Found(r, due) \in HandoffRow /\ FoundSo(Found(r, due))
    BY <1>2, FoundTypes DEF CompleteRead, Types
  <2>3. q \in Requests
    BY <2>2 DEF Requests
  <2>4. q.pc = "complete" /\ FoundSo(q.handoff)
    BY <2>2
  <2>5. req' = [req EXCEPT ![c] = q] /\ UNCHANGED <<records, reminders>>
    BY <1>2, <2>1 DEF CompleteRead, Begin
  <2> HIDE DEF q
  <2> QED
    BY <2>3, <2>4, <2>5, ReadSo
<1>3. ASSUME NEW r \in Reminders, UpdateRead(c, r) PROVE StillSo(c)'
  <2> DEFINE q == [pc |-> "update", row |-> r, done |-> reminders[r].done]
  <2>1. reminders[r].done \in BOOLEAN
    BY <1>3, PresentRows DEF UpdateRead, Types, Reminder
  <2>2. q \in Requests
    BY <2>1 DEF Requests
  <2>3. q.pc = "update" /\ q.row = r /\ q.done = reminders[r].done
    OBVIOUS
  <2>4. r \in Present /\ req' = [req EXCEPT ![c] = q] /\ UNCHANGED <<records, reminders>>
    BY <1>3 DEF UpdateRead, Begin
  <2> HIDE DEF q
  <2> QED
    BY <2>2, <2>3, <2>4, ReadSo
<1>4. ASSUME NEW r \in Reminders, SnoozeRead(c, r) PROVE StillSo(c)'
  <2> DEFINE q == [pc |-> "snooze", row |-> r]
  <2>1. q \in Requests
    BY DEF Requests
  <2>2. Open(r) /\ req' = [req EXCEPT ![c] = q] /\ UNCHANGED <<records, reminders>>
    BY <1>4 DEF SnoozeRead, Begin
  <2> QED
    BY <2>1, <2>2, ReadSo
<1>5. ASSUME NEW h \in Handoffs, LogRead(c, h) PROVE StillSo(c)'
  <2> DEFINE q == [pc |-> "log", handoff |-> h]
  <2>1. h \in {NoHandoff} \union HandoffRow /\ (h \in HandoffRow => FoundSo(h) /\ Open(h.row))
    BY HandoffsTyped DEF Types
  <2>2. q \in Requests
    BY <2>1 DEF Requests
  <2>4. req' = [req EXCEPT ![c] = q] /\ UNCHANGED <<records, reminders>>
    BY <1>5 DEF LogRead, Begin
  <2>5. q.pc = "log" /\ q.handoff = h
    OBVIOUS
  <2> HIDE DEF q
  <2> QED
    BY <2>1, <2>2, <2>4, <2>5, ReadSo
<1>6. ASSUME NEW old \in Records, NEW new \in Records, NEW oldRow \in Record, NEW newRow \in Record,
             Import(c, old, new, oldRow, newRow)
      PROVE  StillSo(c)'
  BY <1>6, ImportReads DEF StillSo
<1>7. ASSUME ReminderStep(c) PROVE StillSo(c)'
  BY <1>1, <1>2, <1>3, <1>4, <1>7 DEF ReminderStep, CreateReminder, ApplySuggestion,
     CompleteCommit, UpdateCommit, SnoozeCommit, DeleteReminder
<1>8. ASSUME RecordStep(c) PROVE StillSo(c)'
  BY <1>1, <1>5, <1>6, <1>8 DEF RecordStep, CreateRecord, UpdateRecord, DeleteRecord, ImportSync
<1>9. ASSUME Stop(c) PROVE StillSo(c)'
  BY <1>1, <1>9 DEF Stop
<1> QED
  BY <1>7, <1>8, <1>9

LEMMA SerialInit == Init => SerialInv
BY InitTypes DEF SerialInv, Init, StillSo, Idle

LEMMA SerialNext ==
    ASSUME \A c, d \in Clients : c = d, SerialInv, [Next]_vars
    PROVE  SerialInv'
<1>1. ASSUME NEW c \in Clients, ReminderStep(c) \/ RecordStep(c) \/ Stop(c)
      PROVE  SerialInv'
  <2>1. Sound(c) /\ StillSo(c)'
    BY <1>1, StepSound, StepSo DEF SerialInv
  <2>2. \A d \in Clients : StillSo(d)'
    <3> SUFFICES ASSUME NEW d \in Clients PROVE StillSo(d)'
      OBVIOUS
    <3>1. d = c
      OBVIOUS
    <3> QED
      BY <2>1, <3>1
  <2> QED
    BY <2>1, <2>2 DEF SerialInv, Sound
<1>2. ASSUME UNCHANGED vars PROVE SerialInv'
  BY <1>2 DEF SerialInv, vars, Types, TypeOK, Present, Kept, StatusTellsDone, StillSo, Open,
     FoundSo, Repeats, Covers
<1> QED
  BY <1>1, <1>2 DEF Next

(* The status column and completedAt agree. *)
THEOREM StatusIsTrue ==
    ASSUME \A c, d \in Clients : c = d
    PROVE  Spec => []StatusTellsDone
<1>1. SerialInv /\ [Next]_vars => SerialInv'
  BY SerialNext
<1>2. SerialInv => StatusTellsDone
  BY DEF SerialInv
<1> QED
  BY <1>1, <1>2, SerialInit, PTL DEF Spec

-----------------------------------------------------------------------------
(* What covers the item is told by the status column: while that is true,  *)
(* nothing stands in the way of the next.                                  *)
LEMMA NothingInTheWay == StatusTellsDone => KeepsCadence
BY DEF StatusTellsDone, KeepsCadence, OnlyOne, Repeats, Covers, Open

GoesOn == \E s \in Present' :
    /\ ~reminders'[s].done /\ reminders'[s].rule
    /\ reminders'[s].slug \/ reminders'[s].src # NoRecord

LEMMA SuccessorGoesOn ==
    ASSUME NEW h \in HandoffRow, h.slug, NEW n \in Reminders, reminders'[n] = Successor(h)
    PROVE  GoesOn
<1>1. Successor(h) \notin {Unborn, Gone}
  BY SuccessorRow, ServiceReminderRows
<1> QED
  BY <1>1, SuccessorRow DEF GoesOn, Present, Kept

(* A record saved with a reminder handed over: a successor, or the         *)
(* reminder the record made, unless that one is completed.                 *)
LEMMA SaveGoesOn ==
    ASSUME Types, NEW rec \in Records, NEW row \in Record, row.confirmed, NEW n \in Reminders,
           NEW h \in HandoffRow, Open(h.row), h.next, h.slug, Save(rec, row, h, n)
    PROVE  GoesOn \/ (row.next /\ \E s \in MadeFrom(reminders, rec) : reminders'[s].done)
<1> DEFINE rs == SyncNextDue(reminders, rec, row, n)
           due == Due(rs, h, row, n)
           takes(r) == row.next /\ h.next /\ r \in MadeFrom(rs, rec) /\ TakesRule(due[r])
<1>1. /\ SyncOf(rs, rec, row, n) /\ h # NoHandoff
      /\ Makes(reminders, rec, row) \/ Schedules(h, row) => Next1(reminders, Reminders, n)
  BY SyncRows, HandoffTypes DEF Save, Types
<1>2. reminders' = [r \in Reminders |-> IF takes(r) THEN TakesOn(due[r], h) ELSE due[r]]
  BY <1>1 DEF Save, HandOff, Due, TakesOn
<1>3. \A r \in Reminders : reminders'[r] = due[r] \/ (takes(r) /\ reminders'[r] = TakesOn(due[r], h))
  BY <1>2
<1>4. \A r \in Reminders : takes(r) => reminders'[r] = TakesOn(due[r], h)
  BY <1>2
<1>5. CASE ~row.next
  <2>1. rs = reminders /\ Schedules(h, row)
    BY <1>1, <1>5 DEF SyncNextDue, Speaks, Schedules
  <2>2. due[n] = Successor(h)
    BY <1>1, <2>1, DueRows DEF Types
  <2>3. reminders'[n] = Successor(h)
    BY <1>3, <1>5, <2>2
  <2> QED
    BY <2>3, SuccessorGoesOn
<1>6. CASE row.next
  <2>1. Speaks(row) /\ (MadeFrom(reminders, rec) = {} => Makes(reminders, rec, row))
    BY <1>6 DEF Speaks, Makes
  <2>2. PICK s \in Reminders : s \in MadeFrom(rs, rec) /\ due[s] \in Reminder /\ due[s].src = rec
                               /\ (s \in MadeFrom(reminders, rec) \/ ~due[s].done)
    <3>1. CASE MadeFrom(reminders, rec) = {}
      <4>1. Makes(reminders, rec, row) /\ Next1(reminders, Reminders, n)
        BY <1>1, <2>1, <3>1
      <4>2. n \notin Present /\ rs[n] = Made(rec)
        BY <2>1, <4>1 DEF SyncNextDue, Made, Next1, Present, Kept
      <4>3. due[n] = rs[n]
        BY <1>1, <1>6, <4>2, DueRows DEF Types
      <4>4. Made(rec) \notin {Unborn, Gone}
        BY MadeType, ServiceReminderRows
      <4> HIDE DEF rs, due
      <4> QED
        BY <4>2, <4>3, <4>4, MadeType DEF MadeFrom, Kept
    <3>2. CASE MadeFrom(reminders, rec) # {}
      <4>1. PICK s \in MadeFrom(reminders, rec) : TRUE
        BY <3>2
      <4>2. s \in Present /\ s \in Reminders /\ reminders[s].src = rec
        BY <4>1 DEF MadeFrom, Present
      <4>3. Carried(rs, s) /\ Carried(due, s)
        BY <1>1, <4>2, DueRows DEF SyncOf, Types
      <4> HIDE DEF rs, due
      <4> QED
        BY <4>1, <4>2, <4>3, ServiceReminderRows DEF Carried, MadeFrom, Kept
    <3> QED
      BY <3>1, <3>2
  <2> HIDE DEF rs, due
  <2>3. TakesOn(due[s], h).done = due[s].done /\ TakesOn(due[s], h).rule
        /\ TakesOn(due[s], h).src = rec /\ TakesOn(due[s], h) \in Reminder
    BY <2>2, TakesOnRow
  <2>4. reminders'[s].done = due[s].done /\ reminders'[s].src = rec /\ reminders'[s] \in Reminder
    BY <1>3, <2>2, <2>3
  <2>5. CASE due[s].done
    BY <1>6, <2>2, <2>4, <2>5
  <2>6. CASE ~due[s].done
    <3>1. reminders'[s].rule
      BY <1>3, <1>4, <1>6, <2>2, <2>3, <2>6 DEF TakesRule
    <3>2. s \in Present' /\ rec # NoRecord
      BY <2>2, <2>4, ServiceReminderRows, ServiceReminderConstants DEF Present, Kept
    <3> QED
      BY <2>4, <2>6, <3>1, <3>2 DEF GoesOn
  <2> QED
    BY <2>5, <2>6
<1> QED
  BY <1>5, <1>6

LEMMA StepGoesOn ==
    ASSUME SerialInv, NEW c \in Clients, ReminderStep(c) \/ RecordStep(c) \/ Stop(c),
           NEW r \in Present, OnlyOne(r), Completes(c, r), ~SavedAgain(c)
    PROVE  GoesOn
<1> DEFINE q == req[c]
           h == q.handoff
<1>1. /\ Types /\ TypeOK /\ q \in Requests /\ StillSo(c) /\ Repeats(r)
      /\ ~reminders[r].done /\ reminders[r].slug
  BY NothingInTheWay DEF SerialInv, Types, KeepsCadence, OnlyOne, Open
<1>2. /\ q.pc \in {"complete", "log"} /\ q # Idle /\ r \in Reminders /\ h.row = r /\ ~h.due
      /\ reminders' # reminders
  BY <1>1, PresentRows DEF Completes, Idle
<1>3. h \in HandoffRow /\ h.next /\ h.slug
  BY <1>1, <1>2, RequestTypes, HandoffTypes DEF StillSo, FoundSo
<1>4. ASSUME NEW n \in Reminders, CompleteCommit(c, n) PROVE GoesOn
  <2>1. reminders' = [[reminders EXCEPT ![r] = Completion(@)] EXCEPT ![n] = Successor(h)]
    BY <1>2, <1>3, <1>4 DEF CompleteCommit, Complete
  <2>2. reminders'[n] = Successor(h)
    BY <1>1, <2>1 DEF TypeOK
  <2> HIDE DEF h
  <2> QED
    BY <1>3, <2>2, SuccessorGoesOn
<1>5. ASSUME ReminderStep(c) PROVE GoesOn
  BY <1>2, <1>4, <1>5 DEF ReminderStep, CreateReminder, ApplySuggestion, CompleteRead,
     UpdateRead, UpdateCommit, SnoozeRead, SnoozeCommit, DeleteReminder, Begin
<1>6. ASSUME NEW rec \in Records, NEW row \in Record, NEW n \in Reminders,
             CreateRecord(c, rec, row, n) \/ UpdateRecord(c, rec, row, n)
      PROVE  GoesOn
  <2>1. h # NoHandoff /\ Open(h.row)
    BY <1>1, <1>2, <1>3, HandoffTypes DEF Open
  <2>2. Save(rec, row, h, n) /\ row.confirmed
    BY <1>6, <2>1 DEF CreateRecord, UpdateRecord
  <2>3. GoesOn \/ (row.next /\ \E s \in MadeFrom(reminders, rec) : reminders'[s].done)
    <3> HIDE DEF h
    <3> QED
      BY <1>1, <1>3, <2>1, <2>2, SaveGoesOn
  <2>4. CreateRecord(c, rec, row, n) => MadeFrom(reminders, rec) = {}
    <3>1. CreateRecord(c, rec, row, n) => records[rec] = Unborn
      BY DEF CreateRecord, Next1
    <3>2. \A s \in MadeFrom(reminders, rec) : s \in Present /\ reminders[s].src = rec
      BY DEF MadeFrom, Present
    <3>3. TypeOK /\ rec # NoRecord
      BY <1>1, ServiceReminderConstants
    <3>4. \A s \in MadeFrom(reminders, rec) : records[rec] # Unborn
      BY <3>2, <3>3 DEF TypeOK, Kept
    <3> QED
      BY <3>1, <3>4
  <2>5. UpdateRecord(c, rec, row, n) /\ ~GoesOn => SavedAgain(c)
    BY <2>3 DEF SavedAgain
  <2> QED
    BY <1>6, <2>3, <2>4, <2>5
<1>7. ASSUME RecordStep(c) PROVE GoesOn
  BY <1>2, <1>6, <1>7 DEF RecordStep, LogRead, DeleteRecord, Import, ImportSync, Begin
<1> QED
  BY <1>2, <1>5, <1>7 DEF Stop

(* The item never drops out of the schedule: whichever way its one open    *)
(* repeating reminder is completed, another repeats in its place.          *)
THEOREM CadenceKept ==
    ASSUME \A c, d \in Clients : c = d
    PROVE  Spec => CadenceGoesOn
<1>1. SerialInv /\ [Next]_vars => SerialInv'
  BY SerialNext
<1>2. SerialInv /\ [Next]_vars =>
        [\A c \in Clients, r \in Present :
           OnlyOne(r) /\ Completes(c, r) /\ ~SavedAgain(c) =>
             \E s \in Present' :
               /\ ~reminders'[s].done /\ reminders'[s].rule
               /\ reminders'[s].slug \/ reminders'[s].src # NoRecord]_vars
  <2> SUFFICES ASSUME SerialInv, Next, NEW c \in Clients, NEW r \in Present,
                      OnlyOne(r), Completes(c, r), ~SavedAgain(c)
               PROVE  GoesOn
    BY DEF GoesOn
  <2>1. PICK d \in Clients : ReminderStep(d) \/ RecordStep(d) \/ Stop(d)
    BY DEF Next
  <2>2. d = c
    OBVIOUS
  <2> QED
    BY <2>1, <2>2, StepGoesOn
<1> QED
  BY <1>1, <1>2, SerialInit, PTL DEF Spec, CadenceGoesOn

-----------------------------------------------------------------------------
(* No reminder is new to the item. *)
NoneNew == \A r \in Present' : reminders'[r].slug => r \in Present /\ reminders[r].slug

(* When a repeating reminder of the item is due a successor, every other   *)
(* reminder of the item is completed.                                      *)
LEMMA OthersDone ==
    ASSUME TypeOK, StatusTellsDone, NEW r \in Reminders, Repeats(r), reminders[r].slug,
           NEW s \in Present, s # r, reminders[s].slug
    PROVE  reminders[s].done
BY PresentRows DEF Repeats, Covers, StatusTellsDone

LEMMA HandSole ==
    ASSUME Types, TypeOK', StatusTellsDone, NEW c \in Clients, StillSo(c), req[c].pc = "log",
           req[c].handoff \in HandoffRow, NEW rec \in Records, NEW row \in Record, NEW n \in Reminders,
           HandOf(reminders', req[c].handoff, rec, row, n),
           NEW r \in Present', reminders'[r].slug, ~(r \in Present /\ reminders[r].slug),
           NEW s \in Present', s # r, reminders'[s].slug
    PROVE  reminders'[s].done
<1> DEFINE h == req[c].handoff
<1>1. ASSUME NEW x \in Present', reminders'[x].slug, ~(x \in Present /\ reminders[x].slug)
      PROVE  Heir(reminders'[x], x, h, rec, row, n)
  <2>1. x \in Present \/ x \in Reminders \ Present
    BY DEF Present
  <2>2. x \in Reminders \ Present => reminders'[x] # reminders[x]
    BY DEF Present, Kept
  <2> QED
    BY <1>1, <2>1, <2>2 DEF HandOf
<1>2. /\ h.next /\ h.row \in Present /\ reminders[h.row].slug /\ Repeats(h.row)
  BY <1>1 DEF Heir, StillSo, FoundSo
<1>3. CASE s = h.row
  BY <1>2, <1>3 DEF HandOf
<1>4. CASE s # h.row /\ s \in Present /\ reminders[s].slug
  <2>1. reminders[s].done
    BY <1>2, <1>4, OthersDone, PresentRows DEF Types
  <2> QED
    BY <1>4, <2>1 DEF HandOf, Carried
<1>5. CASE ~(s \in Present /\ reminders[s].slug)
  <2>1. Heir(reminders'[r], r, h, rec, row, n) /\ Heir(reminders'[s], s, h, rec, row, n)
    BY <1>1, <1>5
  <2>2. CASE row.next
    BY <2>1, <2>2, ServiceReminderConstants DEF Heir, TypeOK
  <2>3. CASE ~row.next
    BY <2>1, <2>3 DEF Heir
  <2> QED
    BY <2>2, <2>3
<1> QED
  BY <1>3, <1>4, <1>5

LEMMA CompleteSole ==
    ASSUME Types, StatusTellsDone, NEW c \in Clients, StillSo(c), NEW n \in Reminders,
           CompleteCommit(c, n),
           NEW r \in Present', reminders'[r].slug, ~(r \in Present /\ reminders[r].slug),
           NEW s \in Present', s # r, reminders'[s].slug
    PROVE  reminders'[s].done
<1> DEFINE h == req[c].handoff
           x == h.row
<1>1. /\ x \in Present /\ x \in Reminders /\ reminders[x] \in Reminder /\ reminders \in Table
      /\ h \in HandoffRow /\ (h.slug <=> reminders[x].slug) /\ (h.next => Repeats(x))
  BY PresentRows, RequestTypes DEF CompleteCommit, Types, TypeOK, Table, StillSo, FoundSo
<1>2. CASE ~h.next
  <2>1. reminders' = [reminders EXCEPT ![x] = Completion(reminders[x])]
    BY <1>2 DEF CompleteCommit, Complete
  <2>2. NoneNew
    BY <1>1, <2>1, Edits DEF NoneNew, Present, Kept, Table
  <2> QED
    BY <2>2 DEF NoneNew
<1>3. CASE h.next
  <2>1. reminders' = [[reminders EXCEPT ![x] = Completion(reminders[x])]
                        EXCEPT ![n] = Successor(h)]
    BY <1>3 DEF CompleteCommit, Complete
  <2>2. n \notin Present /\ Repeats(x)
    BY <1>1, <1>3 DEF CompleteCommit, Next1, Present, Kept
  <2>3. /\ reminders'[n] = Successor(h) /\ reminders'[x] = Completion(reminders[x])
        /\ \A y \in Reminders \ {x, n} : reminders'[y] = reminders[y]
    BY <1>1, <2>1, <2>2 DEF Table
  <2>4. \A y \in Present' : y \in Present \/ y = n
    BY <1>1, <2>3 DEF Present, Kept
  <2>5. \A y \in Present : reminders'[y].slug => reminders[y].slug
    BY <1>1, <2>2, <2>3, Edits, PresentRows DEF Types
  <2>6. r = n /\ reminders[x].slug
    BY <1>1, <2>3, <2>4, <2>5, SuccessorRow
  <2>7. CASE s = x
    BY <1>1, <2>3, <2>7, Edits
  <2>8. CASE s # x
    <3>1. s \in Present /\ s \in Reminders \ {x, n} /\ reminders[s].slug
      BY <2>2, <2>4, <2>5, <2>6, <2>8, PresentRows DEF Types
    <3>2. reminders[s].done
      BY <1>1, <2>2, <2>6, <2>8, <3>1, OthersDone DEF Types
    <3> QED
      BY <2>3, <3>1, <3>2
  <2> QED
    BY <2>7, <2>8
<1> QED
  BY <1>2, <1>3

LEMMA OverNoneNew ==
    ASSUME TypeOK, NEW r \in Present, NEW row, row.slug => reminders[r].slug,
           reminders' = [reminders EXCEPT ![r] = row]
    PROVE  NoneNew
BY PresentRows DEF NoneNew, Present, Kept, TypeOK

LEMMA SyncNoneNew ==
    ASSUME TypeOK, NEW rec \in Records, NEW row, NEW n, SyncOf(reminders', rec, row, n)
    PROVE  NoneNew
<1> SUFFICES ASSUME NEW r \in Present', reminders'[r].slug
             PROVE  r \in Present /\ reminders[r].slug
  BY DEF NoneNew
<1>1. r \in Reminders /\ Kept(reminders', r)
  BY DEF Present
<1>2. CASE r \in Present
  BY <1>2 DEF SyncOf
<1>3. CASE r \notin Present
  BY <1>1, <1>3, MadeType DEF SyncOf, Present, Kept
<1> QED
  BY <1>2, <1>3

LEMMA StepSole ==
    ASSUME SerialInv, TypeOK', NEW c \in Clients, ReminderStep(c) \/ RecordStep(c) \/ Stop(c), req' # req,
           NEW r \in Present', reminders'[r].slug, ~(r \in Present /\ reminders[r].slug),
           NEW s \in Present' \ {r}, reminders'[s].slug
    PROVE  reminders'[s].done
<1>1. Types /\ TypeOK /\ StatusTellsDone /\ StillSo(c) /\ req[c] \in Requests /\ ~NoneNew
  BY DEF SerialInv, Types, NoneNew
<1>2. UNCHANGED reminders => NoneNew
  BY DEF NoneNew, Present, Kept
<1>3. ASSUME NEW rule \in BOOLEAN, UpdateCommit(c, rule) PROVE FALSE
  <2> DEFINE x == req[c].row
             row == [reminders[x] EXCEPT !.closed = Status(req[c].done), !.rule = rule]
  <2>1. x \in Present /\ x \in Reminders /\ reminders[x] \in Reminder
    BY <1>1, <1>3, PresentRows DEF UpdateCommit
  <2>2. row.slug = reminders[x].slug
    BY <2>1 DEF Reminder
  <2>3. reminders' = [reminders EXCEPT ![x] = row]
    BY <1>1, <1>3, <2>1 DEF UpdateCommit, TypeOK, Reminder
  <2> HIDE DEF row
  <2> QED
    BY <1>1, <2>1, <2>2, <2>3, OverNoneNew
<1>4. ASSUME SnoozeCommit(c) PROVE FALSE
  <2> DEFINE x == req[c].row
             row == [reminders[x] EXCEPT !.closed = FALSE]
  <2>1. x \in Present /\ x \in Reminders /\ reminders[x] \in Reminder
    BY <1>1, <1>4, PresentRows DEF SnoozeCommit
  <2>2. row.slug = reminders[x].slug
    BY <2>1 DEF Reminder
  <2>3. reminders' = [reminders EXCEPT ![x] = row]
    BY <1>1, <1>4, <2>1 DEF SnoozeCommit, TypeOK, Reminder
  <2> HIDE DEF row
  <2> QED
    BY <1>1, <2>1, <2>2, <2>3, OverNoneNew
<1>5. CASE ReminderStep(c)
  BY <1>1, <1>2, <1>3, <1>4, <1>5, CompleteSole DEF ReminderStep, CreateReminder, ApplySuggestion,
     CompleteRead, UpdateRead, SnoozeRead, DeleteReminder
<1>6. ASSUME NEW rec \in Records, NEW row \in Record, NEW n \in Reminders,
             CreateRecord(c, rec, row, n) \/ UpdateRecord(c, rec, row, n)
      PROVE  reminders'[s].done
  <2>1. /\ req[c].pc = "log" /\ req[c].handoff \in {NoHandoff} \union HandoffRow
        /\ Save(rec, row, req[c].handoff, n)
    BY <1>1, <1>6, RequestTypes DEF CreateRecord, UpdateRecord
  <2>2. SaveOf(rec, row, req[c].handoff, n)
    BY <1>1, <2>1, SaveRows
  <2> QED
    BY <1>1, <2>1, <2>2, SyncNoneNew, HandSole DEF SaveOf
<1>7. ASSUME NEW n \in Reminders, ImportSync(c, n) PROVE FALSE
  BY <1>1, <1>7, RequestTypes, SyncRows, SyncNoneNew DEF ImportSync
<1>8. CASE RecordStep(c)
  BY <1>1, <1>2, <1>6, <1>7, <1>8 DEF RecordStep, LogRead, DeleteRecord, Import
<1>9. CASE Stop(c)
  BY <1>1, <1>2, <1>9 DEF Stop
<1> QED
  BY <1>5, <1>8, <1>9

(* The item never has two open reminders by the app's own doing.           *)
THEOREM OneSuccessor ==
    ASSUME \A c, d \in Clients : c = d
    PROVE  Spec => SoleSuccessor
<1>1. SerialInv /\ [Next]_vars => SerialInv'
  BY SerialNext
<1>2. SerialInv /\ SerialInv' /\ [Next]_vars =>
        [req' # req =>
           \A r \in Present' : reminders'[r].slug /\ ~(r \in Present /\ reminders[r].slug) =>
             \A s \in Present' \ {r} : reminders'[s].slug => reminders'[s].done]_vars
  BY StepSole DEF Next, SerialInv, Types, vars
<1> QED
  BY <1>1, <1>2, SerialInit, PTL DEF Spec, SoleSuccessor

-----------------------------------------------------------------------------
(* A reminder closed by what its own request did not name.                 *)
LEMMA SavedLater ==
    ASSUME NEW rec \in Records, NEW row \in Record, NEW n, NEW h, SaveOf(rec, row, h, n),
           Kept(records', rec), records'[rec] = row.date,
           NEW r \in Present, ~reminders[r].done, reminders'[r].done, h.row # r
    PROVE  \E x \in Records : Kept(records', x) /\ records[reminders[r].src] < records'[x]
<1>1. ClosedBy(r, rec, row)
  BY DEF SaveOf, SyncOf, HandOf
<1> QED
  BY <1>1 DEF ClosedBy, Fulfils

LEMMA StepCloses ==
    ASSUME SerialInv, NEW c \in Clients, ReminderStep(c) \/ RecordStep(c) \/ Stop(c),
           NEW r \in Present, ~reminders[r].done, reminders[r].src # NoRecord,
           r \in Present', reminders'[r].done,
           req[c] # Idle /\ req'[c] = Idle =>
               req[c].pc # "complete" /\ (req[c].pc = "log" => req[c].handoff.row # r)
    PROVE  \E rec \in Records : Kept(records', rec) /\ records[reminders[r].src] < records'[rec]
<1> DEFINE q == req[c]
<1>1. Types /\ TypeOK /\ StillSo(c) /\ q \in Requests /\ req \in [Clients -> Requests]
  BY DEF SerialInv, Types
<1>2. /\ r \in Reminders /\ reminders[r] \in Reminder /\ reminders'[r] # reminders[r]
      /\ reminders \in Table
  BY <1>1, PresentRows DEF TypeOK, Table
<1>3. ASSUME Done(c), q # Idle PROVE q.pc # "complete" /\ (q.pc = "log" => q.handoff.row # r)
  BY <1>1, <1>3 DEF Done
<1>4. ASSUME NEW n \in Reminders, CompleteCommit(c, n) PROVE FALSE
  BY <1>3, <1>4 DEF CompleteCommit, Idle
<1>5. ASSUME NEW rule \in BOOLEAN, UpdateCommit(c, rule) PROVE FALSE
  <2>1. reminders'[r].done = reminders[r].done
    BY <1>2, <1>5 DEF UpdateCommit, Table, Reminder
  <2> QED
    BY <2>1
<1>6. ASSUME SnoozeCommit(c) PROVE FALSE
  <2>1. reminders'[r].done = reminders[r].done
    BY <1>2, <1>6 DEF SnoozeCommit, Table, Reminder
  <2> QED
    BY <2>1
<1>7. ASSUME NEW n \in Reminders, NEW row, reminders' = [reminders EXCEPT ![n] = row],
             Next1(reminders, Reminders, n) \/ row = Gone
      PROVE  FALSE
  BY <1>2, <1>7 DEF Next1, Present, Kept, Table
<1>8. ~ReminderStep(c)
  BY <1>2, <1>4, <1>5, <1>6, <1>7 DEF ReminderStep, CreateReminder, ApplySuggestion,
     CompleteRead, UpdateRead, SnoozeRead, DeleteReminder
<1>9. ASSUME NEW rec \in Records, NEW row \in Record, NEW n \in Reminders,
             CreateRecord(c, rec, row, n) \/ UpdateRecord(c, rec, row, n)
      PROVE  \E x \in Records : Kept(records', x) /\ records[reminders[r].src] < records'[x]
  <2>1. /\ q.pc = "log" /\ q # Idle /\ q.handoff \in {NoHandoff} \union HandoffRow
        /\ Save(rec, row, q.handoff, n) /\ Done(c)
    BY <1>1, <1>9, RequestTypes DEF CreateRecord, UpdateRecord, Idle
  <2>2. /\ SaveOf(rec, row, q.handoff, n) /\ q.handoff.row # r
        /\ Kept(records', rec) /\ records'[rec] = row.date
    BY <1>1, <1>3, <2>1, SaveRows, RecordRows
  <2> HIDE DEF q
  <2> QED
    BY <2>2, SavedLater
<1>10. ASSUME NEW n \in Reminders, ImportSync(c, n)
       PROVE  \E x \in Records : Kept(records', x) /\ records[reminders[r].src] < records'[x]
  <2>1. /\ q.rec \in Records /\ q.row \in Record /\ UNCHANGED records
        /\ SyncOf(reminders', q.rec, q.row, n)
        /\ Kept(records, q.rec) /\ records[q.rec] = q.row.date
    BY <1>1, <1>10, RequestTypes, SyncRows DEF ImportSync, StillSo
  <2>2. SaveOf(q.rec, q.row, NoHandoff, n) /\ Kept(records', q.rec) /\ records'[q.rec] = q.row.date
    BY <2>1 DEF SaveOf, Kept
  <2>3. NoHandoff.row # r
    BY <1>2, HandoffTypes
  <2> HIDE DEF q
  <2> QED
    BY <2>1, <2>2, <2>3, SavedLater
<1>11. ASSUME NEW rec \in Records, DeleteRecord(c, rec) PROVE FALSE
  <2>1. reminders'[r] = reminders[r] \/ reminders'[r] = [reminders[r] EXCEPT !.src = NoRecord]
    BY <1>2, <1>11 DEF DeleteRecord
  <2>2. reminders'[r].done = reminders[r].done
    BY <1>2, <2>1 DEF Reminder
  <2> QED
    BY <2>2
<1>12. CASE RecordStep(c)
  BY <1>2, <1>9, <1>10, <1>11, <1>12 DEF RecordStep, LogRead, Import
<1> QED
  BY <1>2, <1>8, <1>12 DEF Stop

(* A reminder that a record made is closed by its user, by the record      *)
(* logged from it, or by a service of a later date.                        *)
THEOREM LaterServiceCloses ==
    ASSUME \A c, d \in Clients : c = d
    PROVE  Spec => ClosedByLaterService
<1>1. SerialInv /\ [Next]_vars => SerialInv'
  BY SerialNext
<1>2. SerialInv /\ [Next]_vars =>
        [\A r \in Present :
           /\ Open(r) /\ reminders[r].src # NoRecord /\ r \in Present' /\ reminders'[r].done
           /\ \A c \in Clients : req[c] # Idle /\ req'[c] = Idle =>
                /\ req[c].pc # "complete"
                /\ req[c].pc = "log" => req[c].handoff.row # r
           => \E rec \in Records :
                Kept(records', rec) /\ records[reminders[r].src] < records'[rec]]_vars
  BY StepCloses DEF Next, Open, vars
<1> QED
  BY <1>1, <1>2, SerialInit, PTL DEF Spec, ClosedByLaterService

=============================================================================
