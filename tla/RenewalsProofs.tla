--------------------------- MODULE RenewalsProofs ---------------------------
(***************************************************************************)
(* Papers and their renewals for any number of papers, reminders, dates    *)
(* and requests.  What a transaction writes was decided by what it read;   *)
(* the inductive invariant says that as long as nothing was written in     *)
(* between, what it read is still so (FreshReads).                         *)
(***************************************************************************)
EXTENDS Renewals, TLAPS

Requests ==
    {Idle} \union [pc : {"sync"}, fresh : BOOLEAN]
    \union [pc : {"commit"}, fresh : BOOLEAN, paper : Papers, end : Ends \union {Never},
            old : SUBSET Reminders, following : SUBSET Reminders, redate : BOOLEAN]
    \union [pc : {"create"}, fresh : BOOLEAN, paper : Papers, end : Ends]
    \union [pc : {"create"}, fresh : BOOLEAN, paper : {NoPaper}, end : {Never}]
    \union [pc : {"update"}, fresh : BOOLEAN, row : Reminders, followed : BOOLEAN,
            date : Dates \union {NoDate}, fixed : BOOLEAN]
    \union [pc : {"snooze"}, fresh : BOOLEAN, row : Reminders]

ITypes ==
    /\ papers \in [Papers -> Paper \union {Unborn, Gone}]
    /\ reminders \in [Reminders -> Reminder \union {Unborn, Gone}]
    /\ req \in [Clients -> Requests]
    /\ owed \in BOOLEAN

Linked == \A r \in Present : reminders[r].link \in Live \union {NoPaper}

(* What a request has read is what the rows say now. *)
AsRead(q) ==
    /\ q.pc = "commit" =>
         /\ OfRecord(q.paper) /\ q.end = papers[q.paper].end
         /\ \A r \in Reminders : /\ r \in q.old <=> Open(r) /\ reminders[r].link \notin {q.paper, NoPaper}
                                 /\ r \in q.following <=> Open(r) /\ Holds(r, q.paper)
         /\ ~q.redate => \A r \in q.following : reminders[r].date = q.end
    /\ q.pc = "create" /\ q.paper # NoPaper => FreePaper(q.paper) /\ q.end = papers[q.paper].end
    /\ q.pc = "update" => \A p \in Papers :
         Holds(q.row, p) => /\ q.followed
                            /\ papers[p].end # Never => q.fixed /\ q.date = papers[p].end
    /\ q.pc = "snooze" => ~\E p \in Papers : Holds(q.row, p)

FreshReads == \A c \in Clients : req[c] # Idle /\ req[c].fresh => AsRead(req[c])

-----------------------------------------------------------------------------
LEMMA RequestTypes ==
    ASSUME NEW q \in Requests
    PROVE  /\ q # Idle => q.fresh \in BOOLEAN
           /\ q.pc = "idle" <=> q = Idle
           /\ q.pc = "sync" => q \in [pc : {"sync"}, fresh : BOOLEAN]
           /\ q.pc = "commit" =>
                /\ q.paper \in Papers /\ q.end \in Ends \union {Never}
                /\ q.old \subseteq Reminders /\ q.following \subseteq Reminders
                /\ q.redate \in BOOLEAN
           /\ q.pc = "create" => \/ q.paper \in Papers /\ q.end \in Ends
                                 \/ q.paper = NoPaper
           /\ q.pc = "update" => /\ q.row \in Reminders /\ q.date \in Dates \union {NoDate}
                                 /\ q.followed \in BOOLEAN /\ q.fixed \in BOOLEAN
           /\ q.pc = "snooze" => q.row \in Reminders
BY DEF Requests, Idle

(* A request disturbed is the same request, but for its being fresh. *)
LEMMA DisturbedType ==
    ASSUME NEW q \in Requests, q # Idle
    PROVE  /\ [q EXCEPT !.fresh = FALSE] \in Requests
           /\ [q EXCEPT !.fresh = FALSE].fresh = FALSE
           /\ [q EXCEPT !.fresh = FALSE] # Idle
<1>1. CASE q \in [pc : {"sync"}, fresh : BOOLEAN]
  BY <1>1 DEF Requests, Idle
<1>2. CASE q \in [pc : {"commit"}, fresh : BOOLEAN, paper : Papers, end : Ends \union {Never},
                  old : SUBSET Reminders, following : SUBSET Reminders, redate : BOOLEAN]
  BY <1>2 DEF Requests, Idle
<1>3. CASE q \in [pc : {"create"}, fresh : BOOLEAN, paper : Papers, end : Ends]
  BY <1>3 DEF Requests, Idle
<1>6. CASE q \in [pc : {"create"}, fresh : BOOLEAN, paper : {NoPaper}, end : {Never}]
  BY <1>6 DEF Requests, Idle
<1>4. CASE q \in [pc : {"update"}, fresh : BOOLEAN, row : Reminders, followed : BOOLEAN,
                  date : Dates \union {NoDate}, fixed : BOOLEAN]
  BY <1>4 DEF Requests, Idle
<1>5. CASE q \in [pc : {"snooze"}, fresh : BOOLEAN, row : Reminders]
  BY <1>5 DEF Requests, Idle
<1> QED
  BY <1>1, <1>2, <1>3, <1>4, <1>5, <1>6 DEF Requests

LEMMA GoesType ==
    ASSUME ITypes, NEW c \in Clients, NEW next \in Requests, Goes(c, next)
    PROVE  req' \in [Clients -> Requests]
BY DisturbedType DEF Goes, ITypes

(* After a write no other request is fresh, and this one has read nothing. *)
LEMMA WrittenReads ==
    ASSUME ITypes, NEW c \in Clients, NEW next, next \in {Idle, ToSync}, Goes(c, next)
    PROVE  FreshReads'
<1> SUFFICES ASSUME NEW d \in Clients, req'[d] # Idle, req'[d].fresh
             PROVE  AsRead(req[d])'
  BY DEF FreshReads
<1>1. req[d] \in Requests /\ req'[d] = IF d = c THEN next ELSE IF req[d] = Idle THEN Idle
                                       ELSE [req[d] EXCEPT !.fresh = FALSE]
  BY DEF Goes, ITypes
<1>2. d = c /\ next = ToSync
  BY <1>1, DisturbedType
<1> QED
  BY <1>1, <1>2 DEF AsRead, ToSync

(* A read leaves the rows alone: every other request is as fresh as it was.*)
LEMMA ReadReads ==
    ASSUME ITypes, FreshReads, NEW c \in Clients, NEW next \in Requests,
           next # Idle => AsRead(next),
           req' = [req EXCEPT ![c] = next], UNCHANGED <<papers, reminders>>
    PROVE  FreshReads' /\ req' \in [Clients -> Requests]
<1>1. ASSUME NEW q PROVE AsRead(q)' <=> AsRead(q)
  BY DEF AsRead, OfRecord, Live, Open, Holds, Present, FreePaper, MoreRecent
<1> QED
  BY <1>1 DEF FreshReads, ITypes

-----------------------------------------------------------------------------
(* Tables of reminders with the rows there are now. *)
Rows == [Reminders -> Reminder \union {Unborn, Gone}]
Table(rs) ==
    /\ rs \in Rows
    /\ \A r \in Present : rs[r] \in Reminder
    /\ \A r \in Reminders \ Present : rs[r] = reminders[r]

LEMMA PresentRows ==
    ASSUME ITypes
    PROVE  /\ Table(reminders)
           /\ \A r \in Reminders \ Present : reminders[r] \in {Unborn, Gone} /\ reminders[r] \notin Reminder
           /\ \A r \in Present : r \in Reminders /\ reminders[r] \in Reminder
           /\ \A p \in Live : p \in Papers /\ papers[p] \in Paper /\ p # NoPaper
BY RowsAssumption, RenewalConstants DEF ITypes, Table, Rows, Present, Live

(* releasePaper takes the link from completed reminders and nothing else. *)
LEMMA Released ==
    ASSUME ITypes, NEW rs, Table(rs), NEW p
    PROVE  /\ Table(Release(rs, p))
           /\ \A r \in Present :
                /\ Release(rs, p)[r].link = IF rs[r].link = p /\ rs[r].done THEN NoPaper ELSE rs[r].link
                /\ Release(rs, p)[r].date = rs[r].date
                /\ Release(rs, p)[r].done = rs[r].done
                /\ Release(rs, p)[r].ours = rs[r].ours
<1>1. ASSUME NEW r \in Present
      PROVE  /\ r \in Reminders /\ rs[r] \in Reminder
             /\ [rs[r] EXCEPT !.link = NoPaper] \in Reminder
             /\ [rs[r] EXCEPT !.link = NoPaper].link = NoPaper
             /\ [rs[r] EXCEPT !.link = NoPaper].date = rs[r].date
             /\ [rs[r] EXCEPT !.link = NoPaper].done = rs[r].done
             /\ [rs[r] EXCEPT !.link = NoPaper].ours = rs[r].ours
  <2>1. r \in Reminders /\ rs[r] \in Reminder
    BY PresentRows DEF Table
  <2> QED
    BY <2>1 DEF Reminder
<1>2. \A r \in Reminders : Release(rs, p)[r] = IF r \in Present /\ rs[r].link = p /\ rs[r].done
                                               THEN [rs[r] EXCEPT !.link = NoPaper] ELSE rs[r]
  BY DEF Release
<1>3. Release(rs, p) \in Rows
  BY <1>1 DEF Table, Rows, Release
<1> QED
  BY <1>1, <1>2, <1>3 DEF Table

(* Completing touches nothing but done. *)
LEMMA CompletedRows ==
    ASSUME ITypes, NEW rs, Table(rs), NEW old, old \subseteq Present
    PROVE  /\ Table(Completed(rs, old))
           /\ \A r \in Present :
                /\ Completed(rs, old)[r].link = rs[r].link
                /\ Completed(rs, old)[r].date = rs[r].date
                /\ Completed(rs, old)[r].done = (rs[r].done \/ r \in old)
                /\ Completed(rs, old)[r].ours = rs[r].ours
                /\ r \notin old => Completed(rs, old)[r] = rs[r]
<1>1. ASSUME NEW r \in Present
      PROVE  /\ r \in Reminders /\ rs[r] \in Reminder /\ rs[r].done \in BOOLEAN
             /\ [rs[r] EXCEPT !.done = TRUE] \in Reminder
             /\ [rs[r] EXCEPT !.done = TRUE].done = TRUE
             /\ [rs[r] EXCEPT !.done = TRUE].date = rs[r].date
             /\ [rs[r] EXCEPT !.done = TRUE].link = rs[r].link
             /\ [rs[r] EXCEPT !.done = TRUE].ours = rs[r].ours
  <2>1. r \in Reminders /\ rs[r] \in Reminder
    BY PresentRows DEF Table
  <2> QED
    BY <2>1 DEF Reminder
<1>2. \A r \in Reminders : Completed(rs, old)[r] = IF r \in old THEN [rs[r] EXCEPT !.done = TRUE] ELSE rs[r]
  BY DEF Completed
<1>3. Completed(rs, old) \in Rows
  BY <1>1 DEF Table, Rows, Completed
<1> QED
  BY <1>1, <1>2, <1>3 DEF Table

(* What a step does to the links, row by row. *)
Stays(r) == r \in Present' /\ reminders'[r].link # NoPaper =>
    r \in Present /\ reminders'[r].link = reminders[r].link
Undated(r) == Open(r)' /\ reminders'[r].link # NoPaper =>
    ~reminders[r].done /\ reminders'[r].date = reminders[r].date

OthersStay(r) == \A s \in Reminders \ {r} :
    Stays(s) /\ Undated(s) /\ (s \in Present' => reminders'[s].link # reminders'[r].link)

(* Links that are kept or dropped leave a paper one renewal at most. *)
LEMMA LinksKept ==
    ASSUME Linked, OneRenewal, Live \subseteq Live', \A r \in Reminders : Stays(r)
    PROVE  Linked' /\ OneRenewal'
BY DEF Linked, OneRenewal, Stays, Present

(* A link given to one row, and to no other row at the time. *)
LEMMA LinkGiven ==
    ASSUME Linked, OneRenewal, papers' = papers, NEW r \in Reminders, reminders'[r].link \in Live,
           OthersStay(r)
    PROVE  Linked' /\ OneRenewal'
BY DEF Linked, OneRenewal, OthersStay, Stays, Present, Live

(* Links kept or dropped on rows whose dates stand leave the rest settled. *)
LEMMA SettledKept ==
    ASSUME Settled, papers' = papers, \A r \in Reminders : Stays(r) /\ Undated(r)
    PROVE  Settled'
BY DEF Settled, Stays, Undated, Present, Open, OfRecord, Live, MoreRecent

LEMMA SettledGiven ==
    ASSUME Settled, papers' = papers, NEW r \in Reminders, OfRecord(reminders'[r].link),
           reminders'[r].date = papers[reminders'[r].link].end, OthersStay(r)
    PROVE  Settled'
BY DEF Settled, OthersStay, Stays, Undated, Present, Open, OfRecord, Live, MoreRecent

-----------------------------------------------------------------------------
(* The inductive invariant. *)
IInv == ITypes /\ Linked /\ OneRenewal /\ FreshReads /\ SettledUnlessOwed

LEMMA WriteKeeps ==
    ASSUME IInv, NEW c \in Clients, NEW next, next \in {Idle, ToSync}, Goes(c, next),
           papers' \in [Papers -> Paper \union {Unborn, Gone}], reminders' \in Rows,
           owed' \in BOOLEAN, Linked' /\ OneRenewal', ~owed' => Settled'
    PROVE  IInv'
<1>0. ToSync \in [pc : {"sync"}, fresh : BOOLEAN]
  BY DEF ToSync
<1>1. next \in Requests
  BY <1>0 DEF Requests
<1>2. req' \in [Clients -> Requests] /\ FreshReads'
  BY <1>1, GoesType, WrittenReads DEF IInv
<1> QED
  BY <1>2 DEF IInv, ITypes, Rows, SettledUnlessOwed

LEMMA ReadKeeps ==
    ASSUME IInv, NEW c \in Clients, NEW next \in Requests, next # Idle => AsRead(next),
           req' = [req EXCEPT ![c] = next], UNCHANGED <<papers, reminders, owed>>
    PROVE  IInv'
<1>1. req' \in [Clients -> Requests] /\ FreshReads'
  BY ReadReads DEF IInv
<1> QED
  BY <1>1 DEF IInv, ITypes, Linked, OneRenewal, SettledUnlessOwed, Settled, Present, Live, Open,
              OfRecord, MoreRecent

LEMMA StopsKeeps ==
    ASSUME IInv, NEW c \in Clients, Stops(c)
    PROVE  IInv'
BY ReadKeeps DEF Stops, Requests

-----------------------------------------------------------------------------
LEMMA SavePaperKeeps ==
    ASSUME IInv, NEW c \in Clients, NEW p \in Papers, NEW row \in Paper,
           CreatePaper(c, p, row) \/ UpdatePaper(c, p, row)
    PROVE  IInv'
<1>1. papers' = [papers EXCEPT ![p] = row] /\ Goes(c, ToSync) /\ owed' = TRUE /\ reminders' = reminders
  BY DEF CreatePaper, UpdatePaper
<1>2. papers' \in [Papers -> Paper \union {Unborn, Gone}] /\ reminders' \in Rows
  BY <1>1 DEF IInv, ITypes, Rows
<1>3. Live \subseteq Live'
  BY <1>1, RowsAssumption DEF Live, IInv, ITypes
<1>4. \A r \in Reminders : Stays(r)
  BY <1>1 DEF Stays, Present
<1>5. Linked' /\ OneRenewal'
  BY <1>3, <1>4, LinksKept DEF IInv
<1> QED
  BY <1>1, <1>2, <1>5, WriteKeeps

LEMMA RemovePaperKeeps ==
    ASSUME IInv, NEW c \in Clients, NEW p \in Papers, RemovePaper(c, p)
    PROVE  IInv'
<1>1. /\ papers' = [papers EXCEPT ![p] = Gone] /\ reminders' = LetGo(p)
      /\ Goes(c, Idle) /\ owed' = owed
  BY DEF RemovePaper
<1>2. ASSUME NEW r \in Reminders
      PROVE  /\ reminders'[r] \in Reminder \union {Unborn, Gone}
             /\ r \in Present' <=> r \in Present
             /\ r \in Present => /\ reminders'[r].link = IF reminders[r].link = p THEN NoPaper
                                                        ELSE reminders[r].link
                                 /\ reminders'[r].done = reminders[r].done
                                 /\ reminders'[r].date = reminders[r].date
  <2>1. CASE r \notin Present
    BY <1>1, <2>1 DEF IInv, ITypes, LetGo, Holds, Present
  <2>2. CASE r \in Present
    <3>1. reminders[r] \in Reminder
      BY <2>2, PresentRows DEF IInv
    <3>2. reminders'[r] = IF reminders[r].link = p THEN [reminders[r] EXCEPT !.link = NoPaper]
                          ELSE reminders[r]
      BY <1>1, <2>2 DEF LetGo, Holds
    <3>3. reminders'[r] \in Reminder
      BY <3>1, <3>2 DEF Reminder
    <3> QED
      BY <2>2, <3>1, <3>2, <3>3, RowsAssumption DEF Reminder, Present
  <2> QED
    BY <2>1, <2>2
<1>3. papers' \in [Papers -> Paper \union {Unborn, Gone}]
  BY <1>1 DEF IInv, ITypes
<1>4. reminders' \in Rows
  BY <1>1, <1>2 DEF Rows, LetGo
<1>5. \A q \in Papers \ {p} : (q \in Live' <=> q \in Live) /\ papers'[q] = papers[q]
  BY <1>1 DEF Live, IInv, ITypes
<1>6. p \notin Live'
  BY <1>1 DEF Live, IInv, ITypes
<1>7. Linked' /\ OneRenewal'
  BY <1>2, <1>5 DEF IInv, Linked, OneRenewal, Present, Live
<1>8. ASSUME ~owed' PROVE Settled'
  <2>1. Settled
    BY <1>1, <1>8 DEF IInv, SettledUnlessOwed
  <2>2. ASSUME NEW q \in Papers, q # p, OfRecord(q) PROVE OfRecord(q)'
    BY <1>5, <1>6, <2>2 DEF OfRecord, MoreRecent, Live
  <2>3. \A r \in Present' : Open(r)' /\ reminders'[r].link # NoPaper =>
          Open(r) /\ reminders'[r].link = reminders[r].link /\ reminders[r].link # p
    BY <1>2 DEF Open, Present
  <2> QED
    BY <1>2, <1>5, <2>1, <2>2, <2>3 DEF Settled, OfRecord, Live, Open, Present
<1> QED
  BY <1>1, <1>3, <1>4, <1>7, <1>8, WriteKeeps DEF IInv, ITypes

-----------------------------------------------------------------------------
(* What a sync has read. *)
LEMMA SyncReads ==
    ASSUME IInv, NEW c \in Clients, req[c].pc = "commit"
    PROVE  /\ req[c] # Idle /\ req[c].fresh \in BOOLEAN
           /\ req[c].paper \in Papers /\ req[c].paper # NoPaper
           /\ req[c].end \in Ends \union {Never}
           /\ req[c].end # Never => req[c].end \in Dates
           /\ req[c].old \subseteq Reminders /\ req[c].following \subseteq Reminders
           /\ req[c].redate \in BOOLEAN
           /\ req[c].fresh => AsRead(req[c])
<1>1. req[c] \in Requests
  BY DEF IInv, ITypes
<1>2. req[c] # Idle
  BY DEF Idle
<1> QED
  BY <1>1, <1>2, RequestTypes, RenewalConstants DEF IInv, FreshReads

(* The rows a sync commits: it suffices that they are rows, that a paper   *)
(* keeps one renewal, and that what a fresh read decides settles the rest. *)
LEMMA SyncKeeps ==
    ASSUME IInv, NEW c \in Clients, req[c].pc = "commit", NEW rs, Synced(c, rs), rs \in Rows,
           Linked' /\ OneRenewal', req[c].fresh => Settled'
    PROVE  IInv'
BY WriteKeeps, SyncReads DEF Synced, IInv, ITypes

LEMMA SyncNothingKeeps ==
    ASSUME IInv, NEW c \in Clients, SyncNothing(c)
    PROVE  IInv'
<1> DEFINE q == req[c]
           rs == Completed(reminders, q.old)
<1>1. q.pc = "commit" /\ q.following = {} /\ Synced(c, rs) /\ reminders' = rs /\ papers' = papers
  BY DEF SyncNothing, Synced, Adopting
<1>2. q.old \subseteq Present
  BY <1>1 DEF Synced, Written
<1>3. Table(rs) /\ \A r \in Present : /\ rs[r].link = reminders[r].link
                                     /\ rs[r].date = reminders[r].date
                                     /\ rs[r].done = (reminders[r].done \/ r \in q.old)
  BY <1>2, PresentRows, CompletedRows DEF IInv
<1>4. \A r \in Reminders : r \in Present' => r \in Present
  BY <1>1, <1>3 DEF Table, Present
<1>5. \A r \in Reminders : Stays(r) /\ Undated(r)
  BY <1>1, <1>3, <1>4 DEF Stays, Undated, Open
<1>6. Linked' /\ OneRenewal'
  BY <1>1, <1>5, LinksKept DEF IInv, Live
<1>7. ASSUME q.fresh PROVE Settled'
  <2>1. \A r \in Reminders : Open(r) /\ reminders[r].link # NoPaper => r \in q.old
    BY <1>1, <1>7, SyncReads DEF AsRead, Holds, Open
  <2> QED
    BY <1>1, <1>3, <1>4, <2>1 DEF Settled, Open, Present
<1> QED
  BY <1>1, <1>3, <1>6, <1>7, SyncKeeps DEF Table

LEMMA SyncFollowingKeeps ==
    ASSUME IInv, NEW c \in Clients, SyncFollowing(c)
    PROVE  IInv'
<1> DEFINE q == req[c]
           done == Completed(reminders, q.old)
           rs == [r \in Reminders |-> IF r \in q.following THEN Redated(c, reminders[r]) ELSE done[r]]
<1>1. q.pc = "commit" /\ Synced(c, rs) /\ reminders' = rs /\ papers' = papers
  BY DEF SyncFollowing, Synced
<1>2. q.old \subseteq Present /\ (q.redate \/ q.end = Never => q.following \subseteq Present)
  BY <1>1 DEF Synced, Written
<1>3. Table(done) /\ \A r \in Present : /\ done[r].link = reminders[r].link
                                       /\ done[r].date = reminders[r].date
                                       /\ done[r].done = (reminders[r].done \/ r \in q.old)
  BY <1>2, PresentRows, CompletedRows DEF IInv
<1>4. ASSUME NEW r \in Present, r \in q.following
      PROVE  /\ rs[r] \in Reminder
             /\ rs[r].link = IF q.end = Never THEN NoPaper ELSE reminders[r].link
             /\ rs[r].date = IF q.end # Never /\ q.redate THEN q.end ELSE reminders[r].date
             /\ rs[r].done = reminders[r].done
  <2>1. r \in Reminders /\ reminders[r] \in Reminder /\ rs[r] = Redated(c, reminders[r])
    BY <1>4, PresentRows DEF IInv
  <2> QED
    BY <1>1, <2>1, SyncReads DEF Redated, Reminder
<1>5. ASSUME NEW r \in Reminders \ Present
      PROVE  rs[r] = reminders[r]
  <2>1. CASE r \in q.following
    <3>1. ~q.redate /\ q.end # Never
      BY <1>2, <1>5, <2>1
    <3> QED
      BY <2>1, <3>1 DEF Redated
  <2>2. CASE r \notin q.following
    BY <1>3, <1>5, <2>2 DEF Table
  <2> QED
    BY <2>1, <2>2
<1>6. rs \in Rows
  <2>1. \A r \in Reminders : rs[r] \in Reminder \union {Unborn, Gone}
    BY <1>3, <1>4, <1>5, PresentRows DEF Table, IInv
  <2> QED
    BY <2>1 DEF Rows
<1>7. \A r \in Reminders : r \in Present' => r \in Present
  BY <1>1, <1>5 DEF Present
<1>8. \A r \in Reminders : Stays(r)
  BY <1>1, <1>3, <1>4, <1>7 DEF Stays
<1>9. Linked' /\ OneRenewal'
  BY <1>1, <1>8, LinksKept DEF IInv, Live
<1>10. ASSUME q.fresh PROVE Settled'
  <2>1. /\ OfRecord(q.paper) /\ q.end = papers[q.paper].end
        /\ \A r \in Reminders : Open(r) /\ reminders[r].link # NoPaper => r \in q.old \/ r \in q.following
        /\ \A r \in q.following : reminders[r].link = q.paper /\ (~q.redate => reminders[r].date = q.end)
    BY <1>1, <1>10, SyncReads DEF AsRead, Holds, Open
  <2>2. ASSUME NEW r \in Present', ~rs[r].done, rs[r].link # NoPaper
        PROVE  r \in q.following
    BY <1>1, <1>3, <1>4, <1>7, <2>1, <2>2 DEF Open, Present
  <2> QED
    <3>1. ASSUME NEW r \in Present', ~rs[r].done, rs[r].link # NoPaper
          PROVE  rs[r].link = q.paper /\ rs[r].date = q.end
      BY <1>1, <1>4, <1>7, <2>1, <2>2, <3>1, SyncReads DEF Present
    <3> QED
      BY <1>1, <2>1, <3>1, SyncReads DEF Settled, Open, OfRecord, MoreRecent, Live
<1> QED
  BY <1>1, <1>6, <1>9, <1>10, SyncKeeps

(* The unique index: what a link is given to is its only holder. *)
LEMMA SyncAdoptKeeps ==
    ASSUME IInv, NEW c \in Clients, SyncAdopt(c)
    PROVE  IInv'
<1> DEFINE q == req[c]
           freed == Release(reminders, q.paper)
<1>1. PICK r \in Candidates : /\ MayFollow(freed, q.paper, r)
                              /\ Synced(c, Follow(reminders, r, q.paper, q.end))
  BY DEF SyncAdopt
<1> DEFINE rs == Follow(reminders, r, q.paper, q.end)
<1>2. /\ q.pc = "commit" /\ q.following = {} /\ q.old = {} /\ q.end # Never
      /\ reminders' = rs /\ papers' = papers
  BY <1>1 DEF SyncAdopt, Adopting, Synced
<1>3. /\ Table(freed)
      /\ \A s \in Present : /\ freed[s].link \in {reminders[s].link, NoPaper}
                            /\ freed[s].date = reminders[s].date
                            /\ freed[s].done = reminders[s].done
  BY PresentRows, Released DEF IInv
<1>4. r \in Present /\ r \in Reminders
  BY DEF Candidates, Open
<1>5. /\ rs \in Rows /\ rs[r] \in Reminder /\ rs[r].link = q.paper /\ rs[r].date = q.end
      /\ \A s \in Reminders \ {r} : rs[s] = freed[s]
  <2>1. freed[r] \in Reminder /\ freed \in Rows
    BY <1>3, <1>4 DEF Table
  <2>2. /\ [freed[r] EXCEPT !.link = q.paper, !.date = q.end] \in Reminder
        /\ [freed[r] EXCEPT !.link = q.paper, !.date = q.end].link = q.paper
        /\ [freed[r] EXCEPT !.link = q.paper, !.date = q.end].date = q.end
    BY <1>2, <2>1, SyncReads DEF Reminder
  <2>3. rs = [freed EXCEPT ![r] = [freed[r] EXCEPT !.link = q.paper, !.date = q.end]]
    BY <1>4, <2>1 DEF Follow, Rows
  <2> QED
    BY <1>4, <2>1, <2>2, <2>3 DEF Rows
<1>6. \A s \in Reminders : s \in Present' => s \in Present
  BY <1>2, <1>3, <1>4, <1>5 DEF Table, Present
<1>7. OthersStay(r)
  BY <1>1, <1>2, <1>3, <1>5, <1>6 DEF OthersStay, Stays, Undated, Open, MayFollow
<1>8. Linked' /\ OneRenewal'
  <2>1. q.paper \in Live /\ reminders'[r].link = q.paper
    BY <1>1, <1>2, <1>5 DEF MayFollow
  <2> QED
    BY <1>2, <1>4, <1>7, <2>1, LinkGiven DEF IInv
<1>9. ASSUME q.fresh PROVE Settled'
  <2>1. /\ OfRecord(q.paper) /\ q.end = papers[q.paper].end
        /\ \A s \in Reminders : Open(s) => reminders[s].link = NoPaper
    BY <1>2, <1>9, SyncReads DEF AsRead, Holds, Open
  <2>2. Settled
    BY <2>1 DEF Settled, Open, Present
  <2>3. OfRecord(reminders'[r].link) /\ reminders'[r].date = papers[reminders'[r].link].end
    BY <1>2, <1>5, <2>1
  <2> QED
    BY <1>2, <1>4, <1>7, <2>2, <2>3, SettledGiven
<1> QED
  BY <1>1, <1>2, <1>5, <1>8, <1>9, SyncKeeps

(* A renewal: the older papers' reminders are done, and one new row, which *)
(* alone holds the paper of record, follows it.                            *)
LEMMA SyncRenewKeeps ==
    ASSUME IInv, NEW c \in Clients, SyncRenew(c)
    PROVE  IInv'
<1> DEFINE q == req[c]
<1>1. PICK first, n \in Reminders :
             /\ first \in q.old /\ reminders[n] = Unborn
             /\ MayFollow(Handed(c, first), q.paper, NoReminder)
             /\ Synced(c, Completed([Handed(c, first) EXCEPT ![n] = Heir(c, first)], q.old))
  BY DEF SyncRenew, NextReminder, First
<1> DEFINE done == Completed(reminders, {first})
           handed == Handed(c, first)
<1> DEFINE table == [handed EXCEPT ![n] = Heir(c, first)]
           rs == Completed(table, q.old)
<1>2. /\ q.pc = "commit" /\ q.following = {} /\ q.end # Never /\ q.old # {}
      /\ reminders' = rs /\ papers' = papers /\ q.old \subseteq Present
      /\ MayFollow(handed, q.paper, NoReminder)
  BY <1>1 DEF SyncRenew, Renewing, Synced, Written
<1>3. first \in q.old /\ first \in Present /\ reminders[first] \in Reminder
  BY <1>1, <1>2, PresentRows DEF IInv
<1>4. /\ Table(handed)
      /\ \A s \in Present : /\ handed[s].link \in {reminders[s].link, NoPaper}
                            /\ handed[s].date = reminders[s].date
                            /\ handed[s].done = (reminders[s].done \/ s = first)
  <2>1. /\ Table(done)
        /\ \A s \in Present : /\ done[s].link = reminders[s].link /\ done[s].date = reminders[s].date
                              /\ done[s].done = (reminders[s].done \/ s = first)
    BY <1>3, PresentRows, CompletedRows DEF IInv
  <2>2. handed = Release(done, q.paper)
    BY DEF Handed
  <2> HIDE DEF done, handed, q
  <2> QED
    BY <2>1, <2>2, Released DEF IInv
<1>5. n \notin Present /\ n \notin q.old
  BY <1>1, <1>2 DEF Present
<1>6. /\ Heir(c, first) \in Reminder /\ Heir(c, first).link = q.paper /\ Heir(c, first).date = q.end
  BY <1>2, <1>3, SyncReads DEF Heir, Reminder
<1>7. /\ rs \in Rows /\ rs[n] = Heir(c, first)
      /\ \A s \in Reminders \ {n} :
           rs[s] = IF s \in q.old THEN [handed[s] EXCEPT !.done = TRUE] ELSE handed[s]
  <2>1. /\ table \in Rows /\ table[n] = Heir(c, first)
        /\ \A s \in Reminders \ {n} : table[s] = handed[s]
    BY <1>4, <1>6 DEF Table, Rows
  <2>2. \A s \in Reminders : rs[s] = IF s \in q.old THEN [table[s] EXCEPT !.done = TRUE] ELSE table[s]
    BY DEF Completed
  <2>3. ASSUME NEW s \in q.old PROVE [handed[s] EXCEPT !.done = TRUE] \in Reminder
    BY <1>2, <1>4, <2>3 DEF Table, Reminder
  <2>4. \A s \in Reminders : rs[s] \in Reminder \union {Unborn, Gone}
    BY <1>2, <1>5, <2>1, <2>2, <2>3 DEF Rows
  <2> QED
    BY <1>5, <2>1, <2>2, <2>4 DEF Rows, Completed
<1>8. ASSUME NEW s \in Reminders \ {n}
      PROVE  /\ s \in Present' => s \in Present
             /\ s \in Present => /\ rs[s].link = handed[s].link /\ rs[s].date = handed[s].date
                                 /\ rs[s].done = (handed[s].done \/ s \in q.old)
  <2>1. CASE s \in Present
    <3>1. handed[s] \in Reminder
      BY <1>4, <2>1 DEF Table
    <3> QED
      BY <1>7, <2>1, <3>1 DEF Reminder
  <2>2. CASE s \notin Present
    BY <1>2, <1>4, <1>7, <2>2 DEF Table, Present
  <2> QED
    BY <2>1, <2>2
<1>9. OthersStay(n)
  <2>1. n # NoReminder /\ \A s \in Present : handed[s].link # q.paper
    BY <1>2, PresentRows, RenewalConstants DEF MayFollow, IInv
  <2> QED
    BY <1>2, <1>4, <1>6, <1>7, <1>8, <2>1 DEF OthersStay, Stays, Undated, Open
<1>10. Linked' /\ OneRenewal'
  <2>1. reminders'[n].link \in Live
    BY <1>2, <1>6, <1>7 DEF MayFollow
  <2> QED
    BY <1>2, <1>9, <2>1, LinkGiven DEF IInv
<1>11. ASSUME q.fresh PROVE Settled'
  <2>1. /\ OfRecord(q.paper) /\ q.end = papers[q.paper].end
        /\ \A s \in Reminders : Open(s) /\ reminders[s].link # NoPaper => s \in q.old
    BY <1>2, <1>11, SyncReads DEF AsRead, Holds, Open
  <2>2. ASSUME NEW s \in Present', ~rs[s].done, rs[s].link # NoPaper
        PROVE  s = n
    <3>1. CASE s # n
      BY <1>4, <1>8, <2>1, <2>2, <3>1 DEF Open, Present
    <3> QED
      BY <3>1
  <2>3. rs[n].link = q.paper /\ rs[n].date = q.end
    BY <1>6, <1>7
  <2> HIDE DEF rs, q
  <2> QED
    BY <1>2, <2>1, <2>2, <2>3 DEF Settled, Open, OfRecord, MoreRecent, Live
<1> QED
  BY <1>1, <1>2, <1>7, <1>10, <1>11, SyncKeeps

-----------------------------------------------------------------------------
(* The reads: what is put down is so. *)
LEMMA SyncReadKeeps ==
    ASSUME IInv, NEW c \in Clients, SyncRead(c)
    PROVE  IInv'
<1>1. PICK p \in Papers :
        /\ OfRecord(p)
        /\ req' = [req EXCEPT ![c] =
             [pc |-> "commit", fresh |-> TRUE, paper |-> p, end |-> papers[p].end,
              old |-> {r \in Reminders : Open(r) /\ reminders[r].link \notin {p, NoPaper}},
              following |-> {r \in Reminders : Open(r) /\ Holds(r, p)},
              redate |-> \E r \in Reminders : /\ Open(r) /\ Holds(r, p)
                                              /\ reminders[r].date # papers[p].end]]
  BY DEF SyncRead
<1> DEFINE old == {r \in Reminders : Open(r) /\ reminders[r].link \notin {p, NoPaper}}
           following == {r \in Reminders : Open(r) /\ Holds(r, p)}
           redate == \E r \in Reminders : /\ Open(r) /\ Holds(r, p)
                                           /\ reminders[r].date # papers[p].end
           next == [pc |-> "commit", fresh |-> TRUE, paper |-> p, end |-> papers[p].end,
                    old |-> old, following |-> following, redate |-> redate]
<1>2. p \in Live /\ papers[p] \in Paper
  BY <1>1, PresentRows DEF OfRecord, IInv
<1>3. redate \in BOOLEAN /\ old \in SUBSET Reminders /\ following \in SUBSET Reminders
  OBVIOUS
<1>4. next \in [pc : {"commit"}, fresh : BOOLEAN, paper : Papers, end : Ends \union {Never},
                 old : SUBSET Reminders, following : SUBSET Reminders, redate : BOOLEAN]
  <2> HIDE DEF redate, old, following
  <2> QED
    BY <1>2, <1>3 DEF Paper
<1>5. next \in Requests
  BY <1>4 DEF Requests
<1>6. AsRead(next)
  <2>1. /\ \A r \in Reminders : /\ r \in old <=> Open(r) /\ reminders[r].link \notin {p, NoPaper}
                                /\ r \in following <=> Open(r) /\ Holds(r, p)
        /\ ~redate => \A r \in following : reminders[r].date = papers[p].end
    OBVIOUS
  <2> HIDE DEF redate, old, following
  <2> QED
    BY <1>1, <2>1 DEF AsRead
<1>7. UNCHANGED <<papers, reminders, owed>> /\ req' = [req EXCEPT ![c] = next]
  BY <1>1 DEF SyncRead
<1> HIDE DEF next
<1> QED
  BY <1>5, <1>6, <1>7, ReadKeeps

LEMMA CreateReadKeeps ==
    ASSUME IInv, NEW c \in Clients, CreateRead(c)
    PROVE  IInv'
<1> DEFINE next == [pc |-> "create", fresh |-> TRUE, paper |-> ToFollow, end |-> EndOf(ToFollow)]
<1>1. ToFollow # NoPaper => /\ ToFollow \in Papers /\ FreePaper(ToFollow)
                            /\ EndOf(ToFollow) = papers[ToFollow].end
  BY DEF ToFollow, EndOf
<1>2. \/ ToFollow = NoPaper /\ EndOf(ToFollow) = Never
      \/ ToFollow \in Papers /\ EndOf(ToFollow) \in Ends
  <2>1. CASE ToFollow = NoPaper
    BY <2>1 DEF EndOf
  <2>2. CASE ToFollow # NoPaper
    BY <1>1, <2>2, PresentRows DEF IInv, FreePaper, OfRecord, Paper
  <2> QED
    BY <2>1, <2>2
<1>4. next \in Requests
  <2>1. CASE ToFollow = NoPaper /\ EndOf(ToFollow) = Never
    <3>1. next \in [pc : {"create"}, fresh : BOOLEAN, paper : {NoPaper}, end : {Never}]
      BY <2>1
    <3> QED
      BY <3>1 DEF Requests
  <2>2. CASE ToFollow \in Papers /\ EndOf(ToFollow) \in Ends
    <3>1. next \in [pc : {"create"}, fresh : BOOLEAN, paper : Papers, end : Ends]
      BY <2>2
    <3> QED
      BY <3>1 DEF Requests
  <2> QED
    BY <1>2, <2>1, <2>2
<1>5. AsRead(next)
  BY <1>1 DEF AsRead
<1>6. req' = [req EXCEPT ![c] = next] /\ UNCHANGED <<papers, reminders, owed>>
  BY DEF CreateRead, Begin
<1> HIDE DEF next
<1> QED
  BY <1>4, <1>5, <1>6, ReadKeeps

LEMMA UpdateReadKeeps ==
    ASSUME IInv, NEW c \in Clients, NEW r \in Reminders, UpdateRead(c, r)
    PROVE  IInv'
<1> DEFINE p == reminders[r].link
           fixed == p # NoPaper /\ papers[p].end # Never
           date == IF p # NoPaper /\ papers[p].end # Never THEN papers[p].end ELSE reminders[r].date
           followed == p # NoPaper
           next == [pc |-> "update", fresh |-> TRUE, row |-> r, followed |-> followed, date |-> date,
                    fixed |-> fixed]
<1>1. req' = [req EXCEPT ![c] = next] /\ UNCHANGED <<papers, reminders, owed>> /\ r \in Present
  BY DEF UpdateRead, Begin
<1>2. reminders[r] \in Reminder /\ (p # NoPaper => papers[p] \in Paper)
  BY <1>1, PresentRows DEF IInv, Linked
<1>3. date \in Dates \union {NoDate} /\ followed \in BOOLEAN /\ fixed \in BOOLEAN
  BY <1>2, RenewalConstants DEF Paper, Reminder
<1>4. next \in [pc : {"update"}, fresh : BOOLEAN, row : Reminders, followed : BOOLEAN,
                 date : Dates \union {NoDate}, fixed : BOOLEAN]
  <2> HIDE DEF date, followed, fixed
  <2> QED
    BY <1>3
<1>5. next \in Requests
  BY <1>4 DEF Requests
<1>6. AsRead(next)
  <2>1. \A q \in Papers : Holds(r, q) => followed /\ (papers[q].end # Never => fixed /\ date = papers[q].end)
    BY RenewalConstants DEF Holds
  <2> HIDE DEF date, followed, fixed
  <2> QED
    BY <2>1 DEF AsRead
<1> HIDE DEF next
<1> QED
  BY <1>1, <1>5, <1>6, ReadKeeps

LEMMA SnoozeReadKeeps ==
    ASSUME IInv, NEW c \in Clients, NEW r \in Reminders, SnoozeRead(c, r)
    PROVE  IInv'
<1> DEFINE next == [pc |-> "snooze", fresh |-> TRUE, row |-> r]
<1>1. next \in [pc : {"snooze"}, fresh : BOOLEAN, row : Reminders]
  OBVIOUS
<1>2. next \in Requests
  BY <1>1 DEF Requests
<1>3. AsRead(next)
  BY RenewalConstants DEF AsRead, SnoozeRead, Holds
<1>4. req' = [req EXCEPT ![c] = next] /\ UNCHANGED <<papers, reminders, owed>>
  BY DEF SnoozeRead, Begin
<1> HIDE DEF next
<1> QED
  BY <1>2, <1>3, <1>4, ReadKeeps

-----------------------------------------------------------------------------
(* One row is written that holds no paper, or the one it held. *)
LEMMA RowKeeps ==
    ASSUME IInv, NEW c \in Clients, NEW r \in Reminders, NEW row \in Reminder \union {Gone},
           reminders' = [reminders EXCEPT ![r] = row], papers' = papers, Goes(c, Idle),
           owed' \in BOOLEAN, owed => owed',
           row \in Reminder /\ row.link # NoPaper =>
             /\ r \in Present /\ row.link = reminders[r].link
             /\ ~owed' /\ ~row.done => ~reminders[r].done /\ row.date = reminders[r].date
    PROVE  IInv'
<1>1. reminders' \in Rows /\ reminders'[r] = row /\ \A s \in Reminders \ {r} : reminders'[s] = reminders[s]
  BY DEF IInv, ITypes, Rows
<1>2. \A s \in Reminders : Stays(s)
  BY <1>1, RowsAssumption DEF Stays, Present
<1>3. Linked' /\ OneRenewal'
  BY <1>2, LinksKept DEF IInv, Live
<1>4. ASSUME ~owed' PROVE Settled'
  <2>1. \A s \in Reminders : Stays(s) /\ Undated(s)
    BY <1>1, <1>2, <1>4, RowsAssumption DEF Undated, Open, Present, Stays
  <2> QED
    BY <1>4, <2>1, SettledKept DEF IInv, SettledUnlessOwed
<1> QED
  BY <1>1, <1>3, <1>4, WriteKeeps DEF IInv, ITypes

LEMMA UnlinkedKeeps ==
    ASSUME IInv, NEW c \in Clients, NEW n \in Reminders, NEW d \in Dates \union {NoDate},
           NEW ours \in BOOLEAN, CreatePlain(c, n, d, ours) \/ RecordMakes(c, n, d)
    PROVE  IInv'
<1>1. PICK o \in BOOLEAN :
        reminders' = [reminders EXCEPT ![n] = [link |-> NoPaper, date |-> d, done |-> FALSE, ours |-> o]]
  BY DEF CreatePlain, RecordMakes, Inserted
<1>2. [link |-> NoPaper, date |-> d, done |-> FALSE, ours |-> o] \in Reminder
  BY DEF Reminder
<1>3. owed' \in BOOLEAN /\ (owed => owed') /\ papers' = papers /\ Goes(c, Idle)
  BY DEF CreatePlain, RecordMakes, Owes, IInv, ITypes
<1> QED
  BY <1>1, <1>2, <1>3, RowKeeps

LEMMA RecordRedatesKeeps ==
    ASSUME IInv, NEW c \in Clients, NEW r \in Reminders, NEW d \in Dates \union {NoDate},
           RecordRedates(c, r, d)
    PROVE  IInv'
<1> DEFINE row == [reminders[r] EXCEPT !.date = d]
<1>1. reminders[r] \in Reminder /\ r \in Present /\ ~reminders[r].done
  BY PresentRows DEF RecordRedates, Open, IInv
<1>2. row \in Reminder /\ row.link = reminders[r].link
  BY <1>1 DEF Reminder
<1>3. reminders' = [reminders EXCEPT ![r] = row]
  BY <1>1 DEF RecordRedates, IInv, ITypes
<1>4. /\ owed' \in BOOLEAN /\ (owed => owed') /\ papers' = papers /\ Goes(c, Idle)
      /\ ~owed' => reminders[r].link = NoPaper
  BY DEF RecordRedates, IInv, ITypes
<1> HIDE DEF row
<1> QED
  BY <1>1, <1>2, <1>3, <1>4, RowKeeps

(* What a request that names a row has read of it. *)
LEMMA RowReads ==
    ASSUME IInv, NEW c \in Clients, req[c].pc \in {"update", "snooze"}
    PROVE  /\ req[c] # Idle /\ req[c].fresh \in BOOLEAN /\ req[c].row \in Reminders
           /\ req[c].pc = "update" => /\ req[c].date \in Dates \union {NoDate}
                                      /\ req[c].followed \in BOOLEAN /\ req[c].fixed \in BOOLEAN
           /\ req[c].fresh => AsRead(req[c])
<1>1. req[c] \in Requests
  BY DEF IInv, ITypes
<1>2. req[c] # Idle
  BY DEF Idle
<1> QED
  BY <1>1, <1>2, RequestTypes DEF IInv, FreshReads

LEMMA SnoozeCommitKeeps ==
    ASSUME IInv, NEW c \in Clients, NEW d \in Dates, SnoozeCommit(c, d)
    PROVE  IInv'
<1> DEFINE r == req[c].row
           row == [reminders[r] EXCEPT !.date = d]
<1>1. r \in Reminders /\ r \in Present /\ reminders[r] \in Reminder
  BY PresentRows, RowReads DEF SnoozeCommit, IInv
<1>2. row \in Reminder /\ row.link = reminders[r].link
  BY <1>1 DEF Reminder
<1>3. reminders' = [reminders EXCEPT ![r] = row]
  BY <1>1 DEF SnoozeCommit, IInv, ITypes
<1>4. owed' \in BOOLEAN /\ (owed => owed') /\ papers' = papers /\ Goes(c, Idle)
  BY RowReads DEF SnoozeCommit, Owes, IInv, ITypes
<1>5. ~owed' => reminders[r].link = NoPaper
  <2>1. ~owed' => AsRead(req[c]) /\ req[c].pc = "snooze"
    BY RowReads DEF SnoozeCommit, Owes
  <2> QED
    BY <1>1, <2>1, PresentRows DEF AsRead, Holds, IInv, Linked
<1> HIDE DEF row, r
<1> QED
  BY <1>1, <1>2, <1>3, <1>4, <1>5, RowKeeps

LEMMA DeleteKeeps ==
    ASSUME IInv, NEW c \in Clients, NEW r \in Reminders, DeleteReminder(c, r)
    PROVE  IInv'
<1>1. /\ reminders' = [reminders EXCEPT ![r] = Gone] /\ papers' = papers /\ Goes(c, Idle)
      /\ owed' = owed /\ owed \in BOOLEAN /\ Gone \notin Reminder
  BY RowsAssumption DEF DeleteReminder, IInv, ITypes
<1> QED
  BY <1>1, RowKeeps

(* A completed reminder, and the successor its rule may schedule. *)
LEMMA CompleteKeeps ==
    ASSUME IInv, NEW c \in Clients, NEW r \in Reminders, CompleteReminder(c, r)
    PROVE  IInv'
<1> DEFINE done == Completed(reminders, {r})
<1>1. r \in Present /\ Goes(c, Idle) /\ papers' = papers /\ owed' = owed
  BY DEF CompleteReminder
<1>2. reminders[r] \in Reminder
  BY <1>1, PresentRows DEF IInv
<1>3. /\ Table(done)
      /\ \A s \in Present : /\ done[s].link = reminders[s].link /\ done[s].date = reminders[s].date
                            /\ done[s].done = (reminders[s].done \/ s = r)
  BY <1>1, PresentRows, CompletedRows DEF IInv
<1>4. /\ reminders' \in Rows
      /\ \A s \in Reminders : s \in Present' /\ reminders'[s].link # NoPaper =>
           s \in Present /\ reminders'[s] = done[s]
  <2>1. CASE reminders' = done
    BY <1>3, <2>1 DEF Table, Present
  <2>2. ASSUME NEW n \in Reminders, NEW d \in Dates \union {NoDate}, NextReminder(n),
               reminders' = [done EXCEPT ![n] = [link |-> NoPaper, date |-> d, done |-> FALSE,
                                                 ours |-> reminders[r].ours]]
        PROVE  /\ reminders' \in Rows
               /\ \A s \in Reminders : s \in Present' /\ reminders'[s].link # NoPaper =>
                    s \in Present /\ reminders'[s] = done[s]
    <3>1. [link |-> NoPaper, date |-> d, done |-> FALSE, ours |-> reminders[r].ours] \in Reminder
      BY <1>2 DEF Reminder
    <3> HIDE DEF done
    <3> QED
      BY <1>3, <2>2, <3>1 DEF Table, Rows, Present
  <2> QED
    BY <2>1, <2>2 DEF CompleteReminder
<1>5. \A s \in Reminders : Stays(s) /\ Undated(s)
  BY <1>3, <1>4 DEF Stays, Undated, Open
<1>6. \A s \in Reminders : Stays(s)
  BY <1>5
<1>7. Linked' /\ OneRenewal'
  BY <1>1, <1>6, LinksKept DEF IInv, Live
<1>8. ASSUME ~owed' PROVE Settled'
  BY <1>1, <1>5, <1>8, SettledKept DEF IInv, SettledUnlessOwed
<1> QED
  BY <1>1, <1>4, <1>7, <1>8, WriteKeeps DEF IInv, ITypes

(* A reminder created on the paper that was free when it was looked up. *)
LEMMA CreateLinkedKeeps ==
    ASSUME IInv, NEW c \in Clients, NEW n \in Reminders, CreateLinked(c, n)
    PROVE  IInv'
<1> DEFINE q == req[c]
           freed == Release(reminders, q.paper)
           row == [link |-> q.paper, date |-> q.end, done |-> FALSE, ours |-> TRUE]
<1>1. /\ q.pc = "create" /\ q.paper # NoPaper /\ reminders[n] = Unborn
      /\ MayFollow(freed, q.paper, NoReminder)
      /\ reminders' = [freed EXCEPT ![n] = row]
      /\ Goes(c, Idle) /\ papers' = papers
  BY DEF CreateLinked, NextReminder
<1>2. /\ q # Idle /\ q.fresh \in BOOLEAN /\ q.paper \in Papers /\ q.end \in Ends
      /\ q.fresh => AsRead(q)
  <2>1. q \in Requests
    BY DEF IInv, ITypes
  <2>2. q # Idle
    BY <1>1 DEF Idle
  <2> QED
    BY <1>1, <2>1, <2>2, RequestTypes DEF IInv, FreshReads
<1>3. /\ Table(freed)
      /\ \A s \in Present : /\ freed[s].link \in {reminders[s].link, NoPaper}
                            /\ freed[s].date = reminders[s].date
                            /\ freed[s].done = reminders[s].done
  BY PresentRows, Released DEF IInv
<1>4. row \in Reminder
  BY <1>2, RenewalConstants DEF Reminder
<1>5. /\ reminders' \in Rows /\ reminders'[n] = row
      /\ \A s \in Reminders \ {n} : reminders'[s] = freed[s]
  <2> HIDE DEF freed, row
  <2> QED
    BY <1>1, <1>3, <1>4 DEF Table, Rows
<1>6. \A s \in Reminders \ {n} : s \in Present' => s \in Present
  BY <1>3, <1>5 DEF Table, Present
<1>7. OthersStay(n)
  <2>1. n # NoReminder /\ \A s \in Present : freed[s].link # q.paper
    BY <1>1, PresentRows, RenewalConstants DEF MayFollow, IInv
  <2> QED
    BY <1>3, <1>5, <1>6, <2>1 DEF OthersStay, Stays, Undated, Open
<1>8. reminders'[n].link = q.paper /\ q.paper \in Live /\ reminders'[n].date = q.end
  BY <1>1, <1>5 DEF MayFollow
<1>9. Linked' /\ OneRenewal'
  BY <1>1, <1>7, <1>8, LinkGiven DEF IInv
<1>10. ASSUME ~owed' PROVE Settled'
  <2>1. ~owed /\ q.fresh
    BY <1>10, <1>2 DEF CreateLinked, Owes
  <2>2. OfRecord(q.paper) /\ q.end = papers[q.paper].end
    BY <1>1, <1>2, <2>1 DEF AsRead, FreePaper
  <2>3. OfRecord(reminders'[n].link) /\ reminders'[n].date = papers[reminders'[n].link].end
    BY <1>8, <2>2
  <2> QED
    BY <1>1, <1>7, <2>1, <2>3, SettledGiven DEF IInv, SettledUnlessOwed
<1>11. owed' \in BOOLEAN
  BY <1>2 DEF CreateLinked, Owes, IInv, ITypes
<1> QED
  BY <1>1, <1>5, <1>9, <1>10, <1>11, WriteKeeps DEF IInv, ITypes

(* An update: the row it writes, then the link its transaction may find.   *)
LEMMA UpdateCommitKeeps ==
    ASSUME IInv, NEW c \in Clients, NEW d \in Dates \union {NoDate}, NEW type \in Types,
           UpdateCommit(c, d, type)
    PROVE  IInv'
<1> DEFINE q == req[c]
           r == q.row
           away == q.followed /\ type = "other"
           date == IF d = NoDate \/ (q.fixed /\ ~away) THEN q.date ELSE d
           old == reminders[r]
           ours == type = "ours" \/ (type = "kept" /\ old.ours)
           dated == IF date = NoDate THEN old.date ELSE date
           link == IF away THEN NoPaper ELSE old.link
           row == [link |-> link, date |-> dated, done |-> old.done, ours |-> ours]
           wrote == [reminders EXCEPT ![r] = row]
           links == /\ ~q.followed \/ away
                    /\ row.ours /\ ~row.done /\ row.link = NoPaper /\ ToFollow # NoPaper
<1>1. /\ q # Idle /\ q.pc = "update" /\ r \in Present
      /\ reminders' = IF links THEN Follow(wrote, r, ToFollow, EndOf(ToFollow)) ELSE wrote
      /\ Goes(c, Idle) /\ owed' = (owed \/ ~q.fresh) /\ papers' = papers
  BY DEF UpdateCommit, Owes
<1>2. /\ q.fresh \in BOOLEAN /\ q.followed \in BOOLEAN /\ q.fixed \in BOOLEAN
      /\ q.date \in Dates \union {NoDate} /\ (q.fresh => AsRead(q))
      /\ r \in Reminders /\ reminders[r] \in Reminder
  BY <1>1, RowReads, PresentRows DEF IInv
<1>3. /\ row \in Reminder /\ row.done = old.done
      /\ row.link = link /\ row.date = dated
  <2>1. ours \in BOOLEAN
    BY <1>2 DEF Reminder
  <2>2. dated \in Dates \union {NoDate} /\ link \in Papers \union {NoPaper} /\ old.done \in BOOLEAN
    BY <1>2 DEF Reminder
  <2> HIDE DEF ours, dated, link, old
  <2> QED
    BY <2>1, <2>2 DEF Reminder
<1> HIDE DEF row
<1>4. CASE ~links
  <2>1. reminders' = [reminders EXCEPT ![r] = row]
    BY <1>1, <1>4
  <2>2. row.link # NoPaper => r \in Present /\ row.link = reminders[r].link
    BY <1>1, <1>3
  <2>3. ASSUME row.link # NoPaper, ~owed', ~row.done
        PROVE  ~reminders[r].done /\ row.date = reminders[r].date
    <3> DEFINE p == reminders[r].link
    <3>1. p \in Papers /\ p # NoPaper /\ Open(r) /\ ~away /\ Holds(r, p)
      BY <1>1, <1>2, <1>3, <2>3 DEF Open, Holds, Reminder
    <3>2. reminders[r].date = papers[p].end
      BY <1>1, <2>3, <3>1 DEF IInv, SettledUnlessOwed, Settled
    <3>3. papers[p].end # Never /\ papers[p].end \in Ends
      BY <1>1, <1>2, <3>1, <3>2, PresentRows, RenewalConstants DEF IInv, Linked, Paper, Reminder
    <3>4. q.fixed /\ q.date = papers[p].end
      <4>1. q.fresh /\ AsRead(q)
        BY <1>1, <1>2, <2>3
      <4> QED
        BY <1>1, <3>1, <3>3, <4>1 DEF AsRead
    <3>5. date = papers[p].end /\ date # NoDate
      BY <3>1, <3>3, <3>4, RenewalConstants
    <3> QED
      BY <1>3, <2>3, <3>2, <3>5
  <2>4. owed' \in BOOLEAN /\ (owed => owed')
    BY <1>1, <1>2 DEF IInv, ITypes
  <2> HIDE DEF r, links
  <2> QED
    BY <1>1, <1>2, <1>3, <2>1, <2>2, <2>3, <2>4, RowKeeps
<1>5. CASE links
  <2> DEFINE p == ToFollow
             e == EndOf(p)
             freed == Release(wrote, p)
             rs == Follow(wrote, r, p, e)
  <2>1. reminders' = rs /\ p # NoPaper /\ ~row.done
    BY <1>1, <1>5
  <2>2. p \in Papers /\ FreePaper(p) /\ e = papers[p].end /\ e \in Ends /\ p \in Live
    <3>1. p \in Papers /\ FreePaper(p) /\ e = papers[p].end
      BY <2>1 DEF ToFollow, EndOf
    <3> HIDE DEF p, e
    <3> QED
      BY <3>1, PresentRows DEF IInv, FreePaper, OfRecord, Paper
  <2>3. /\ Table(wrote) /\ wrote[r] = row
        /\ \A s \in Reminders \ {r} : wrote[s] = reminders[s]
    <3>1. /\ wrote \in Rows /\ wrote[r] = row
          /\ \A s \in Reminders \ {r} : wrote[s] = reminders[s]
      BY <1>2, <1>3 DEF IInv, ITypes, Rows
    <3> HIDE DEF wrote
    <3> QED
      BY <1>1, <1>2, <1>3, <3>1, PresentRows DEF Table, IInv
  <2>4. /\ Table(freed)
        /\ \A s \in Present : /\ freed[s].link = IF wrote[s].link = p /\ wrote[s].done THEN NoPaper
                                                 ELSE wrote[s].link
                              /\ freed[s].date = wrote[s].date /\ freed[s].done = wrote[s].done
    <3> HIDE DEF p, wrote
    <3> QED
      BY <2>3, Released DEF IInv
  <2>5. /\ rs \in Rows /\ rs[r] \in Reminder /\ rs[r].link = p /\ rs[r].date = e
        /\ \A s \in Reminders \ {r} : rs[s] = freed[s]
    <3>1. freed[r] \in Reminder /\ freed \in Rows
      BY <1>1, <2>4 DEF Table
    <3>2. /\ [freed[r] EXCEPT !.link = p, !.date = e] \in Reminder
          /\ [freed[r] EXCEPT !.link = p, !.date = e].link = p
          /\ [freed[r] EXCEPT !.link = p, !.date = e].date = e
      <4> HIDE DEF p, e, freed, r
      <4> QED
        BY <2>2, <3>1, RenewalConstants DEF Reminder
    <3>3. rs = [freed EXCEPT ![r] = [freed[r] EXCEPT !.link = p, !.date = e]]
      BY <1>2, <3>1 DEF Follow, Rows
    <3> HIDE DEF p, e, freed, r, rs
    <3> QED
      BY <1>2, <3>1, <3>2, <3>3 DEF Rows
  <2>6. OthersStay(r)
    <3>1. \A s \in Reminders \ {r} : s \in Present' => s \in Present
      BY <1>1, <2>1, <2>4, <2>5, <2>3 DEF Table, Present
    <3>2. \A s \in Reminders \ {r} : s \in Present => freed[s].link # p
      BY <2>1, <2>2, <2>3, <2>4 DEF FreePaper, Open, Holds
    <3> HIDE DEF r, p, e, freed, rs, wrote
    <3> QED
      BY <1>2, <2>1, <2>3, <2>4, <2>5, <3>1, <3>2 DEF OthersStay, Stays, Undated, Open
  <2>7. reminders'[r].link = p /\ reminders'[r].date = e
    BY <2>1, <2>5
  <2> HIDE DEF r, p, e, freed, rs, wrote
  <2>8. Linked' /\ OneRenewal'
    BY <1>1, <1>2, <2>2, <2>6, <2>7, LinkGiven DEF IInv
  <2>9. ASSUME ~owed' PROVE Settled'
    <3>1. Settled
      BY <1>1, <2>9 DEF IInv, SettledUnlessOwed
    <3>2. OfRecord(reminders'[r].link) /\ reminders'[r].date = papers[reminders'[r].link].end
      BY <2>2, <2>7 DEF FreePaper
    <3> QED
      BY <1>1, <1>2, <2>6, <3>1, <3>2, SettledGiven
  <2>10. owed' \in BOOLEAN
    BY <1>1, <1>2 DEF IInv, ITypes
  <2> QED
    BY <1>1, <2>1, <2>5, <2>8, <2>9, <2>10, WriteKeeps DEF IInv, ITypes
<1> QED
  BY <1>4, <1>5

-----------------------------------------------------------------------------
LEMMA InitInv ==
    ASSUME Init
    PROVE  IInv
<1>1. ITypes
  BY DEF Init, ITypes, Requests
<1>2. Present = {} /\ owed = FALSE
  BY DEF Init, Present
<1>3. FreshReads
  BY DEF Init, FreshReads
<1> QED
  BY <1>1, <1>2, <1>3 DEF IInv, Linked, OneRenewal, SettledUnlessOwed, Settled

LEMMA NextKeeps ==
    ASSUME IInv, [Next]_vars
    PROVE  IInv'
<1>1. CASE UNCHANGED vars
  BY <1>1 DEF vars, IInv, ITypes, Linked, OneRenewal, FreshReads, SettledUnlessOwed, Settled, AsRead,
              OfRecord, MoreRecent, FreePaper, Live, Present, Open, Holds
<1>2. ASSUME NEW c \in Clients, PaperStep(c) PROVE IInv'
  BY <1>2, SavePaperKeeps, RemovePaperKeeps DEF PaperStep
<1>3. ASSUME NEW c \in Clients, SyncStep(c) PROVE IInv'
  BY <1>3, SyncReadKeeps, SyncRenewKeeps, SyncFollowingKeeps, SyncAdoptKeeps, SyncNothingKeeps,
     StopsKeeps DEF SyncStep, SyncNoPaper, SyncRefused
<1>4. ASSUME NEW c \in Clients, ReminderStep(c) PROVE IInv'
  <2>1. CASE CreateRead(c) \/ CreateRefused(c) \/ WriteMissing(c)
    BY <2>1, CreateReadKeeps, StopsKeeps DEF CreateRefused, WriteMissing
  <2>2. CASE \E n \in Reminders, d \in Dates \union {NoDate}, ours \in BOOLEAN : CreatePlain(c, n, d, ours)
    BY <2>2, UnlinkedKeeps
  <2>3. CASE \E r \in Reminders : \/ CreateLinked(c, r) \/ UpdateRead(c, r) \/ CompleteReminder(c, r)
                                  \/ SnoozeRead(c, r) \/ DeleteReminder(c, r)
    BY <2>3, CreateLinkedKeeps, UpdateReadKeeps, CompleteKeeps, SnoozeReadKeeps, DeleteKeeps
  <2>4. CASE \E d \in Dates \union {NoDate}, type \in Types : UpdateCommit(c, d, type)
    BY <2>4, UpdateCommitKeeps
  <2>5. CASE \E d \in Dates : SnoozeCommit(c, d)
    BY <2>5, SnoozeCommitKeeps
  <2>6. CASE \E r \in Reminders, d \in Dates \union {NoDate} :
               RecordMakes(c, r, d) \/ RecordRedates(c, r, d)
    BY <2>6, UnlinkedKeeps, RecordRedatesKeeps
  <2> QED
    BY <1>4, <2>1, <2>2, <2>3, <2>4, <2>5, <2>6 DEF ReminderStep
<1>5. ASSUME NEW c \in Clients, Crash(c) PROVE IInv'
  BY <1>5, StopsKeeps DEF Crash
<1> QED
  BY <1>1, <1>2, <1>3, <1>4, <1>5 DEF Next

THEOREM Invariance == Spec => []IInv
BY InitInv, NextKeeps, PTL DEF Spec

(* Every row is well-typed and every link names a paper that is there:     *)
(* deleting a paper leaves no reminder behind that follows it.             *)
THEOREM TypeCorrect == Spec => []TypeOK
<1>1. IInv => TypeOK
  BY DEF IInv, ITypes, Linked, TypeOK
<1> QED
  BY <1>1, Invariance, PTL

(* No two reminders hold one paper.                                        *)
THEOREM RenewalIsUnique == Spec => []OneRenewal
<1>1. IInv => OneRenewal
  BY DEF IInv
<1> QED
  BY <1>1, Invariance, PTL

(* After an undisturbed sync, open reminders follow the paper of record    *)
(* only, dated where it ends.                                              *)
THEOREM SyncSettles == Spec => []SettledUnlessOwed
<1>1. IInv => SettledUnlessOwed
  BY DEF IInv
<1> QED
  BY <1>1, Invariance, PTL

(* What a fresh request writes, the unique index and the rows it updates   *)
(* allow.                                                                  *)
LEMMA FreshAccepted ==
    ASSUME IInv
    PROVE  UndisturbedAccepted
<1> SUFFICES ASSUME NEW c \in Clients, req[c] # Idle, req[c].fresh
             PROVE  /\ req[c].pc = "commit" => ~Refused(c)
                    /\ req[c].pc = "create" /\ req[c].paper # NoPaper =>
                         MayFollow(Release(reminders, req[c].paper), req[c].paper, NoReminder)
  BY DEF UndisturbedAccepted
<1> DEFINE q == req[c]
<1>1. AsRead(q)
  BY DEF IInv, FreshReads
<1>2. CASE q.pc = "commit"
  <2>1. /\ OfRecord(q.paper) /\ q.paper \in Live
        /\ \A r \in q.old : Open(r)
        /\ \A r \in q.following : Open(r)
        /\ q.following = {} => \A r \in Present : reminders[r].link = q.paper => reminders[r].done
    BY <1>1, <1>2, SyncReads, PresentRows DEF AsRead, OfRecord, Open, Holds, IInv
  <2>2. Written(c) \subseteq Present
    BY <2>1 DEF Written, Open
  <2>3. ASSUME q.following = {}, NEW first \in q.old
        PROVE  MayFollow(Handed(c, first), q.paper, NoReminder)
    <3> DEFINE done == Completed(reminders, {first})
    <3>1. /\ Table(done)
          /\ \A s \in Present : /\ done[s].link = reminders[s].link
                                /\ done[s].done = (reminders[s].done \/ s = first)
      BY <2>1, <2>3, PresentRows, CompletedRows DEF IInv, Open
    <3>2. \A s \in Present : done[s].link = q.paper => done[s].done
      BY <2>1, <2>3, <3>1
    <3> HIDE DEF done
    <3>3. \A s \in Present : Release(done, q.paper)[s].link # q.paper
      BY <1>2, <3>1, <3>2, Released, SyncReads DEF IInv
    <3> QED
      BY <2>1, <3>3 DEF Handed, MayFollow, done
  <2>4. ASSUME q.following = {}, NEW r \in Candidates
        PROVE  MayFollow(Release(reminders, q.paper), q.paper, r)
    <3>1. \A s \in Present : Release(reminders, q.paper)[s].link # q.paper
      BY <1>2, <2>1, <2>4, PresentRows, Released, SyncReads DEF IInv
    <3> QED
      BY <2>1, <3>1 DEF MayFollow
  <2> QED
    BY <1>2, <2>2, <2>3, <2>4 DEF Refused, Renewing, Adopting
<1>3. CASE q.pc = "create" /\ q.paper # NoPaper
  <2>1. FreePaper(q.paper)
    BY <1>1, <1>3 DEF AsRead
  <2>2. q.paper \in Live /\ \A s \in Present : reminders[s].link = q.paper => reminders[s].done
    BY <2>1, PresentRows DEF FreePaper, OfRecord, Open, Holds, IInv
  <2>3. \A s \in Present : Release(reminders, q.paper)[s].link # q.paper
    BY <1>3, <2>2, PresentRows, Released DEF IInv
  <2> QED
    BY <1>3, <2>2, <2>3 DEF MayFollow
<1> QED
  BY <1>2, <1>3

(* A transaction that nothing disturbed is never refused.                  *)
THEOREM FreshIsAccepted == Spec => []UndisturbedAccepted
BY FreshAccepted, Invariance, PTL

-----------------------------------------------------------------------------
Followed(p) == \E r \in Present' : ~reminders'[r].done /\ reminders'[r].link = p

LEMMA RenewFollows ==
    ASSUME IInv, NEW c \in Clients, SyncRenew(c)
    PROVE  Followed(req[c].paper)
<1>1. PICK r, n \in Reminders :
        /\ r \in req[c].old /\ reminders[n] = Unborn
        /\ Synced(c, Completed([Handed(c, r) EXCEPT ![n] = Heir(c, r)], req[c].old))
  BY DEF SyncRenew, NextReminder, First
<1>2. n \notin req[c].old /\ r \in Present
  BY <1>1 DEF Synced, Written, Present
<1>3. reminders'[n] = Heir(c, r)
  BY <1>1, <1>2 DEF Synced, Completed, Handed, Release
<1>4. reminders'[n] \in Reminder
  <2>1. req[c].pc = "commit" /\ req[c].end # Never /\ reminders[r] \in Reminder
    BY <1>2, PresentRows DEF SyncRenew, Renewing, IInv
  <2> QED
    BY <1>3, <2>1, SyncReads DEF Heir, Reminder
<1>5. n \in Present'
  BY <1>4, RowsAssumption DEF Present
<1> QED
  BY <1>3, <1>5 DEF Followed, Heir

LEMMA AdoptFollows ==
    ASSUME IInv, NEW c \in Clients, SyncAdopt(c)
    PROVE  Followed(req[c].paper)
<1> DEFINE p == req[c].paper
           e == req[c].end
           freed == Release(reminders, p)
<1>1. PICK r \in Candidates : Synced(c, Follow(reminders, r, p, e))
  BY DEF SyncAdopt
<1>2. r \in Present /\ r \in Reminders /\ ~reminders[r].done
  BY DEF Candidates, Open
<1>3. freed[r] \in Reminder /\ freed \in Rows /\ ~freed[r].done
  BY <1>2, PresentRows, Released DEF Table, IInv
<1>4. reminders'[r] = [freed[r] EXCEPT !.link = p, !.date = e]
  BY <1>1, <1>2, <1>3 DEF Synced, Follow, Rows
<1>5. p \in Papers /\ e \in Dates
  BY SyncReads DEF SyncAdopt, Adopting
<1>6. reminders'[r] \in Reminder /\ reminders'[r].link = p /\ ~reminders'[r].done
  <2> HIDE DEF p, e, freed
  <2> QED
    BY <1>3, <1>4, <1>5 DEF Reminder
<1> QED
  BY <1>2, <1>6, RowsAssumption DEF Followed, Present

LEMMA FollowingFollows ==
    ASSUME IInv, NEW c \in Clients, SyncFollowing(c), req[c].fresh, req[c].end # Never
    PROVE  Followed(req[c].paper)
<1> DEFINE p == req[c].paper
           e == req[c].end
<1>1. PICK r \in req[c].following : TRUE
  BY DEF SyncFollowing
<1>2. /\ p \in Papers /\ e \in Dates /\ r \in Reminders
      /\ r \in Present /\ ~reminders[r].done /\ reminders[r].link = p
  BY SyncReads DEF SyncFollowing, AsRead, Open, Holds
<1>3. reminders[r] \in Reminder /\ reminders'[r] = Redated(c, reminders[r])
  BY <1>2, PresentRows DEF SyncFollowing, Synced, IInv
<1>4. reminders'[r] \in Reminder /\ reminders'[r].link = p /\ ~reminders'[r].done
  BY <1>2, <1>3 DEF Redated, Reminder
<1> QED
  BY <1>2, <1>4, RowsAssumption DEF Followed, Present

(* When a sync of a paper that runs out writes at all, one open reminder   *)
(* follows the paper from then on.                                         *)
LEMMA StepHandsOn ==
    ASSUME IInv, [Next]_vars, NEW c \in Clients, req[c] # Idle, req[c].pc = "commit", req[c].fresh,
           reminders' # reminders, req'[c] = Idle, req[c].end # Never
    PROVE  Followed(req[c].paper)
<1>1. ASSUME NEW d \in Clients, d # c, NEW next, Goes(d, next) PROVE FALSE
  <2>1. req[c] \in Requests
    BY DEF IInv, ITypes
  <2>2. req'[c] = [req[c] EXCEPT !.fresh = FALSE]
    BY <1>1 DEF Goes
  <2> QED
    BY <2>1, <2>2, DisturbedType
<1>2. ASSUME NEW d \in Clients, PaperStep(d) PROVE FALSE
  <2>1. d = c
    BY <1>1, <1>2 DEF PaperStep, CreatePaper, UpdatePaper, RemovePaper
  <2> QED
    BY <1>2, <2>1 DEF PaperStep, CreatePaper, UpdatePaper, RemovePaper
<1>3. ASSUME NEW d \in Clients, ReminderStep(d) PROVE FALSE
  <2>1. ASSUME d # c PROVE FALSE
    BY <1>1, <1>3, <2>1 DEF ReminderStep, CreateRead, CreateRefused, WriteMissing, CreatePlain,
       CreateLinked, UpdateRead, CompleteReminder, SnoozeRead, DeleteReminder, UpdateCommit,
       SnoozeCommit, RecordMakes, RecordRedates, Stops
  <2>2. d = c
    BY <2>1
  <2> QED
    BY <1>3, <2>2 DEF ReminderStep, CreateRead, CreateRefused, WriteMissing, CreatePlain,
       CreateLinked, UpdateRead, CompleteReminder, SnoozeRead, DeleteReminder, UpdateCommit,
       SnoozeCommit, RecordMakes, RecordRedates, Stops, Begin
<1>4. ASSUME NEW d \in Clients, SyncStep(d) PROVE Followed(req[c].paper)
  <2>1. SyncRenew(d) \/ SyncFollowing(d) \/ SyncAdopt(d) \/ SyncNothing(d)
    BY <1>4 DEF SyncStep, SyncNoPaper, SyncRead, SyncRefused, Stops
  <2>2. d = c
    BY <1>1, <2>1 DEF SyncRenew, SyncFollowing, SyncAdopt, SyncNothing, Synced
  <2>3. ~SyncNothing(c)
    <3>1. ASSUME SyncNothing(c) PROVE reminders' = reminders
      BY <3>1 DEF SyncNothing, Adopting, Synced, Completed, IInv, ITypes
    <3> QED
      BY <3>1
  <2> QED
    BY <2>1, <2>2, <2>3, RenewFollows, AdoptFollows, FollowingFollows
<1> QED
  BY <1>2, <1>3, <1>4 DEF Next, Crash, Stops, vars

(* A renewal hands on.                                                     *)
THEOREM RenewalHandsOn == Spec => HandsOn
<1>1. IInv /\ [Next]_vars =>
        [\A c \in Clients :
          /\ req[c] # Idle /\ req[c].pc = "commit" /\ req[c].fresh /\ reminders' # reminders
          /\ req'[c] = Idle /\ req[c].end # Never
          => \E r \in Present' : ~reminders'[r].done /\ reminders'[r].link = req[c].paper]_vars
  BY StepHandsOn DEF Followed
<1> QED
  BY <1>1, Invariance, PTL DEF Spec, HandsOn

=============================================================================
