-------------------------- MODULE StoredFilesProofs --------------------------
(***************************************************************************)
(* Files and their rows for any number of files, guests and requests.      *)
(* Storage and database share no transaction, so a row keeps its file only *)
(* if nobody removes it in between: the inductive invariant says whose     *)
(* names a request holds (Sound), and that no other request that removes   *)
(* what it holds has one of them (Apart).  The one request that may, the   *)
(* sweep of an account, only runs when the account is gone, and a row      *)
(* needs the account of who uploads.  That no file is forgotten rests on   *)
(* one thing more: what a deletion listed is all that falls with it        *)
(* (Complete), as long as nothing else was written since.                  *)
(***************************************************************************)
EXTENDS StoredFiles, TLAPS

Pcs == {"put", "record", "tidy", "object", "row", "check", "purge", "delete", "remove",
        "close", "clear", "list", "match", "sweep"}
Running == [pc : Pcs, by : Users, of : Kinds \union {"rows", "vehicle", "account"},
            files : SUBSET Files, left : SUBSET Files, alone : BOOLEAN]
Requests == {Idle} \union Running

Names(q) == q.files \union q.left
Uploading(q) == q.pc \in {"put", "record", "tidy"}
Holding(q) == q.pc \in Pcs \ {"list", "match", "sweep"}

(* What a request holds. *)
Sound(q) == q # Idle =>
    /\ Names(q) \subseteq used
    /\ Uploading(q) => Names(q) \intersect rows = {} /\ \A f \in Names(q) : f.by = q.by /\ f.kind = q.of
    /\ q.pc \in {"put", "record"} /\ q.by \in users => q.files \subseteq stored
    /\ q.pc \in {"remove", "clear", "sweep"} => q.files \intersect rows = {}
    /\ q.pc = "delete" => \A f \in q.files : f.kind \in Falls(q.of)
    /\ q.pc = "close" /\ q.by # Owner => q.files = {}
    /\ q.pc \in {"clear", "list", "match", "sweep"} => q.by \notin users
    /\ q.pc \in {"match", "sweep"} => q.files \subseteq Under(q.by)
    /\ q.pc = "object" => q.files \subseteq asked
    /\ q.pc \in {"check", "purge", "row"} => q.files \intersect stored = {}

(* Nobody else holds what an upload holds. *)
Apart(q, p) == q # Idle /\ p # Idle /\ Uploading(q) /\ Holding(p) => Names(q) \intersect Names(p) = {}

Data ==
    /\ used \subseteq Files /\ stored \subseteq used /\ rows \subseteq used
    /\ holders \subseteq Kinds /\ (~vehicle => holders = {} /\ members = {})
    /\ \A f \in rows : f.kind \in holders
    /\ "claim" \in holders => "insurance" \in holders
    /\ members \subseteq users /\ users \subseteq Users
    /\ vehicle \in BOOLEAN
    /\ asked \subseteq Files /\ astray \subseteq Files
    /\ RowsHaveFiles

IInv ==
    /\ Data /\ req \in [Clients -> Requests]
    /\ \A c \in Clients : Sound(req[c])
    /\ \A c, d \in Clients : c # d => Apart(req[c], req[d])

-----------------------------------------------------------------------------
LEMMA FileKinds == \A f \in Files : f.kind \in Kinds /\ f.by \in Users
BY FilesAssumption

LEMMA RequestFields ==
    ASSUME NEW q \in Requests, q # Idle
    PROVE  /\ q.pc \in Pcs /\ q.by \in Users /\ q.of \in Kinds \union {"rows", "vehicle", "account"}
           /\ q.files \subseteq Files /\ q.left \subseteq Files /\ q.alone \in BOOLEAN
BY DEF Requests, Running

(* Another's commit leaves a request what it was, but for its being alone. *)
Alike(p, q) == (p = Idle <=> q = Idle) /\ (p # Idle =>
    p.pc = q.pc /\ p.by = q.by /\ p.of = q.of /\ p.files = q.files /\ p.left = q.left)

LEMMA DisturbedAlike ==
    ASSUME NEW q \in Requests
    PROVE  Disturbed(q) \in Requests /\ Alike(q, Disturbed(q))
BY DEF Requests, Running, Disturbed, Alike, Idle

(* The others' requests, whoever moved and whether or not that disturbed   *)
(* them.                                                                   *)
Others(c) == req' \in [Clients -> Requests] /\ \A d \in Clients \ {c} : Alike(req[d], req'[d])

LEMMA MovesAlone ==
    ASSUME req \in [Clients -> Requests], NEW c \in Clients, NEW next \in Requests,
           req' = [req EXCEPT ![c] = next]
    PROVE  Others(c) /\ req'[c] = next
BY DEF Others, Alike

LEMMA MovesCommitting ==
    ASSUME req \in [Clients -> Requests], NEW c \in Clients, NEW next \in Requests, Commits(c, next)
    PROVE  Others(c) /\ req'[c] = next
BY DisturbedAlike DEF Others, Commits

(* What any step of c owes to the others: the rows it adds it held, and    *)
(* what it takes from storage no upload with an account holds.             *)
LEMMA OthersKeep ==
    ASSUME IInv, NEW c \in Clients, Others(c), used \subseteq used', users' \subseteq users,
           asked \subseteq asked',
           \A f \in rows' \ rows : /\ req[c] # Idle /\ Uploading(req[c]) /\ f \in Names(req[c])
                                   /\ f.by \in users',
           \A f \in stored \ stored' : \/ req[c] # Idle /\ Holding(req[c]) /\ f \in Names(req[c])
                                       \/ f.by \notin users,
           \A f \in stored' \ stored : req[c] # Idle /\ Uploading(req[c]) /\ f \in Names(req[c])
    PROVE  \A d \in Clients \ {c} : Sound(req[d])'
<1> SUFFICES ASSUME NEW d \in Clients, d # c, req'[d] # Idle
             PROVE  Sound(req[d])'
  BY DEF Sound
<1> DEFINE q == req[d]
           p == req'[d]
<1>1. /\ p.pc = q.pc /\ p.by = q.by /\ p.of = q.of /\ p.files = q.files /\ p.left = q.left
      /\ q # Idle /\ Sound(q) /\ Apart(q, req[c]) /\ Apart(req[c], q)
  BY DEF Others, Alike, IInv
<1>2. Names(q) \subseteq used'
  BY <1>1 DEF Sound
<1>3. Holding(q) => Names(q) \intersect (rows' \ rows) = {}
  BY <1>1 DEF Apart
<1>4. q.by \notin users => \A f \in rows' \ rows : f \notin Under(q.by)
  BY DEF Under
<1>5. Uploading(q) => Names(q) \intersect rows' = {} /\ \A f \in Names(q) : f.by = q.by /\ f.kind = q.of
  BY <1>1, <1>3 DEF Sound, Uploading, Holding, Pcs
<1>6. q.pc \in {"put", "record"} /\ q.by \in users' => q.files \subseteq stored'
  <2>1. ASSUME q.pc \in {"put", "record"}, q.by \in users', NEW f \in q.files PROVE f \in stored'
    <3>1. f \in stored /\ f.by \in users /\ f \in Names(q) /\ Uploading(q)
      BY <1>1, <2>1 DEF Sound, Names, Uploading
    <3>2. ~(req[c] # Idle /\ Holding(req[c]) /\ f \in Names(req[c]))
      BY <1>1, <3>1 DEF Apart
    <3> QED
      BY <3>1, <3>2
  <2> QED
    BY <2>1
<1>7. q.pc \in {"remove", "clear"} => q.files \intersect rows' = {}
  BY <1>1, <1>3 DEF Sound, Holding, Pcs, Names
<1>8. q.pc = "sweep" => q.files \intersect rows' = {}
  BY <1>1, <1>4 DEF Sound
<1>9. q.pc \in {"clear", "list", "match", "sweep"} => q.by \notin users'
  BY <1>1 DEF Sound
<1>10. q.pc = "object" => q.files \subseteq asked'
  BY <1>1 DEF Sound
<1>11. q.pc \in {"check", "purge", "row"} => q.files \intersect stored' = {}
  <2>1. q.pc \in {"check", "purge", "row"} => Holding(q) /\ q.files \intersect stored = {}
    BY <1>1 DEF Sound, Holding, Pcs
  <2> QED
    BY <1>1, <2>1 DEF Apart, Names
<1> QED
  BY <1>1, <1>2, <1>5, <1>6, <1>7, <1>8, <1>9, <1>10, <1>11 DEF Sound, Names, Uploading, Under

(* A request keeps apart from the others that takes no name, or only new   *)
(* ones, or only names with rows.                                          *)
LEMMA ApartKept ==
    ASSUME IInv, NEW c \in Clients, Others(c),
           req'[c] # Idle =>
             \/ ~Uploading(req'[c]) /\ ~Holding(req'[c])
             \/ ~Uploading(req'[c]) /\ Names(req'[c]) \subseteq rows
             \/ Names(req'[c]) \intersect used = {}
             \/ /\ req[c] # Idle /\ Names(req'[c]) \subseteq Names(req[c])
                /\ Uploading(req'[c]) => Uploading(req[c])
                /\ Holding(req'[c]) => Holding(req[c])
    PROVE  \A d, e \in Clients : d # e => Apart(req[d], req[e])'
<1> SUFFICES ASSUME NEW d \in Clients, NEW e \in Clients, d # e, req'[d] # Idle, req'[e] # Idle,
                    Uploading(req'[d]), Holding(req'[e])
             PROVE  Names(req'[d]) \intersect Names(req'[e]) = {}
  BY DEF Apart, Uploading, Holding, Pcs, Names
<1>1. ASSUME NEW o \in Clients \ {c}, req'[o] # Idle
      PROVE  /\ req[o] # Idle /\ Names(req'[o]) = Names(req[o]) /\ Sound(req[o])
             /\ Uploading(req'[o]) = Uploading(req[o]) /\ Holding(req'[o]) = Holding(req[o])
  BY <1>1 DEF Others, Alike, Names, Uploading, Holding, Pcs, IInv
<1>2. CASE d # c /\ e # c
  BY <1>1, <1>2 DEF IInv, Apart
<1>3. CASE d = c
  <2>1. /\ req[e] # Idle /\ Names(req'[e]) = Names(req[e]) /\ Holding(req[e])
        /\ Names(req[e]) \subseteq used
    BY <1>1, <1>3 DEF Sound
  <2> QED
    BY <1>3, <2>1 DEF IInv, Apart
<1>4. CASE e = c
  <2>1. /\ req[d] # Idle /\ Names(req'[d]) = Names(req[d]) /\ Uploading(req[d])
        /\ Names(req[d]) \subseteq used /\ Names(req[d]) \intersect rows = {}
    BY <1>1, <1>4 DEF Sound
  <2> QED
    BY <1>4, <2>1 DEF IInv, Apart
<1> QED
  BY <1>2, <1>3, <1>4

(* What is left to show of a step, then: the data, and its own request.    *)
OthersMay(c) ==
    /\ Others(c) /\ used \subseteq used' /\ users' \subseteq users /\ asked \subseteq asked'
    /\ \A f \in rows' \ rows : /\ req[c] # Idle /\ Uploading(req[c]) /\ f \in Names(req[c])
                               /\ f.by \in users'
    /\ \A f \in stored \ stored' : \/ req[c] # Idle /\ Holding(req[c]) /\ f \in Names(req[c])
                                   \/ f.by \notin users
    /\ \A f \in stored' \ stored : req[c] # Idle /\ Uploading(req[c]) /\ f \in Names(req[c])
Takes(c) == req'[c] # Idle =>
    \/ ~Uploading(req'[c]) /\ ~Holding(req'[c])
    \/ ~Uploading(req'[c]) /\ Names(req'[c]) \subseteq rows
    \/ Names(req'[c]) \intersect used = {}
    \/ /\ req[c] # Idle /\ Names(req'[c]) \subseteq Names(req[c])
       /\ Uploading(req'[c]) => Uploading(req[c])
       /\ Holding(req'[c]) => Holding(req[c])

LEMMA StepKeeps ==
    ASSUME IInv, NEW c \in Clients, OthersMay(c), Takes(c), Data', Sound(req[c])'
    PROVE  IInv'
<1>1. \A d \in Clients \ {c} : Sound(req[d])'
  BY OthersKeep DEF OthersMay
<1>2. \A d, e \in Clients : d # e => Apart(req[d], req[e])'
  BY ApartKept DEF OthersMay, Takes
<1>3. req' \in [Clients -> Requests] /\ Sound(req[c])'
  BY DEF OthersMay, Others
<1> QED
  BY <1>1, <1>2, <1>3 DEF IInv

(* A request that only ends. *)
LEMMA EndKeeps ==
    ASSUME IInv, NEW c \in Clients, Others(c), req'[c] = Idle, Data',
           used' = used, users' = users, asked' = asked, rows' \subseteq rows, stored' = stored
    PROVE  IInv'
<1>1. OthersMay(c) /\ Takes(c)
  BY DEF OthersMay, Takes
<1>2. Sound(req[c])'
  BY DEF Sound
<1> QED
  BY <1>1, <1>2, StepKeeps

LEMMA AtStep ==
    ASSUME IInv, NEW c \in Clients, NEW pc, pc # "idle", At(c, pc)
    PROVE  /\ req[c] # Idle /\ req[c] \in Running /\ req[c].pc = pc /\ Sound(req[c])
           /\ req[c].by \in Users /\ req[c].of \in Kinds \union {"rows", "vehicle", "account"}
           /\ req[c].files \subseteq Files /\ req[c].left \subseteq Files
           /\ Names(req[c]) \subseteq used
<1>1. req[c] # Idle /\ req[c] \in Requests /\ Sound(req[c])
  BY DEF At, Idle, IInv
<1> QED
  BY <1>1 DEF Requests, Running, Sound, At

-----------------------------------------------------------------------------
(* The requests a step can leave behind. *)
LEMMA RunningIsNotIdle == ASSUME NEW q \in Running PROVE q # Idle /\ q \in Requests
BY DEF Running, Pcs, Idle, Requests

LEMMA RequestMade ==
    ASSUME NEW pc \in Pcs, NEW u \in Users, NEW of \in Kinds \union {"rows", "vehicle", "account"},
           NEW fs \in SUBSET Files
    PROVE  LET q == Request(pc, u, of, fs)
           IN /\ q \in Running /\ q.pc = pc /\ q.by = u /\ q.of = of
              /\ q.files = fs /\ q.left = {} /\ Names(q) = fs
BY DEF Request, Running, Names

LEMMA LeftMade ==
    ASSUME NEW q \in Running, NEW fs \in SUBSET Files
    PROVE  LET p == [q EXCEPT !.left = fs]
           IN /\ p \in Running /\ p.pc = q.pc /\ p.by = q.by /\ p.of = q.of
              /\ p.files = q.files /\ p.left = fs
BY DEF Running

LEMMA PcMade ==
    ASSUME NEW q \in Running, NEW pc \in Pcs
    PROVE  LET p == [q EXCEPT !.pc = pc]
           IN /\ p \in Running /\ p.pc = pc /\ p.by = q.by /\ p.of = q.of
              /\ p.files = q.files /\ p.left = q.left /\ Names(p) = Names(q)
BY DEF Running, Names

Made(q, pc, fs, ls) == [q EXCEPT !.files = fs, !.left = ls, !.pc = pc]
LEMMA AllMade ==
    ASSUME NEW q \in Running, NEW pc \in Pcs, NEW fs \in SUBSET Files, NEW ls \in SUBSET Files
    PROVE  LET p == Made(q, pc, fs, ls)
           IN /\ p \in Running /\ p.pc = pc /\ p.by = q.by /\ p.of = q.of
              /\ p.files = fs /\ p.left = ls /\ Names(p) = fs \union ls
BY DEF Made, Running, Names

Turned(q, pc, fs) == [q EXCEPT !.pc = pc, !.files = fs]
LEMMA FilesMade ==
    ASSUME NEW q \in Running, NEW pc \in Pcs, NEW fs \in SUBSET Files
    PROVE  LET p == Turned(q, pc, fs)
           IN /\ p \in Running /\ p.pc = pc /\ p.by = q.by /\ p.of = q.of
              /\ p.files = fs /\ p.left = q.left /\ Names(p) = fs \union q.left
BY DEF Turned, Running, Names

LEMMA PcMoves ==
    ASSUME IInv, NEW c \in Clients, NEW pc \in Pcs, req[c] \in Running, To(c, pc)
    PROVE  /\ Others(c) /\ req'[c] \in Running /\ req'[c].pc = pc /\ req'[c].by = req[c].by
           /\ req'[c].of = req[c].of /\ req'[c].files = req[c].files
           /\ req'[c].left = req[c].left /\ Names(req'[c]) = Names(req[c])
<1> DEFINE next == [req[c] EXCEPT !.pc = pc]
<1>1. /\ next \in Running /\ next.pc = pc /\ next.by = req[c].by /\ next.of = req[c].of
      /\ next.files = req[c].files /\ next.left = req[c].left /\ Names(next) = Names(req[c])
  BY PcMade
<1>2. req' = [req EXCEPT ![c] = next]
  BY DEF To, IInv
<1> HIDE DEF next
<1>3. Others(c) /\ req'[c] = next
  BY <1>1, <1>2, RunningIsNotIdle, MovesAlone DEF IInv
<1> QED
  BY <1>1, <1>3

LEMMA ReqBegins ==
    ASSUME IInv, NEW c \in Clients, NEW next \in Running, Begin(c, next)
    PROVE  Others(c) /\ req'[c] = next /\ req[c] = Idle
BY RunningIsNotIdle, MovesAlone DEF IInv, Begin

LEMMA ReqEnds ==
    ASSUME IInv, NEW c \in Clients, Ends(c)
    PROVE  Others(c) /\ req'[c] = Idle
<1>1. Idle \in Requests
  BY DEF Requests
<1> QED
  BY <1>1, MovesAlone DEF IInv, Ends

LEMMA ReqCommitsIdle ==
    ASSUME IInv, NEW c \in Clients, Commits(c, Idle)
    PROVE  Others(c) /\ req'[c] = Idle
<1>1. Idle \in Requests
  BY DEF Requests
<1> QED
  BY <1>1, MovesCommitting DEF IInv

-----------------------------------------------------------------------------
LEMMA UploadKeeps ==
    ASSUME IInv, NEW c \in Clients, NEW u \in Users, NEW k \in Kinds, Upload(c, u, k)
    PROVE  IInv'
<1>1. PICK batch \in SUBSET {f \in Files \ used : f.kind = k /\ f.by = u} :
        /\ used' = used \union batch
        /\ Begin(c, [Request("put", u, k, {}) EXCEPT !.left = batch])
  BY DEF Upload
<1> DEFINE empty == Request("put", u, k, {})
           next == [empty EXCEPT !.left = batch]
<1>2. "put" \in Pcs /\ batch \in SUBSET Files
  BY DEF Pcs
<1>3. /\ empty \in Running /\ empty.pc = "put" /\ empty.by = u /\ empty.of = k /\ empty.files = {}
  BY <1>2, RequestMade
<1> HIDE DEF empty
<1>4. /\ next \in Running /\ next.pc = "put" /\ next.by = u /\ next.of = k
      /\ next.files = {} /\ next.left = batch
  BY <1>2, <1>3, LeftMade
<1> HIDE DEF next
<1>5. Others(c) /\ req'[c] = next
  BY <1>1, <1>4, ReqBegins DEF next, empty
<1>6. UNCHANGED <<stored, rows, holders, vehicle, users, members, asked, astray>>
  BY DEF Upload
<1>7. Names(next) = batch
  BY <1>4 DEF Names
<1>8. Data'
  BY <1>1, <1>6 DEF Data, RowsHaveFiles, IInv
<1>9. Sound(req[c])'
  <2>1. batch \subseteq used' /\ batch \intersect rows' = {}
    BY <1>1, <1>6 DEF IInv, Data
  <2>2. \A f \in batch : f.by = next.by /\ f.kind = next.of
    BY <1>4
  <2> QED
    BY <1>4, <1>5, <1>7, <2>1, <2>2 DEF Sound, Uploading
<1>10. OthersMay(c)
  BY <1>1, <1>5, <1>6 DEF OthersMay
<1>11. Takes(c)
  BY <1>1, <1>5, <1>7 DEF Takes
<1> QED
  BY <1>8, <1>9, <1>10, <1>11, StepKeeps

LEMMA PutOneKeeps ==
    ASSUME IInv, NEW c \in Clients, PutOne(c)
    PROVE  IInv'
<1> DEFINE q == req[c]
<1>1. PICK f \in q.left :
        /\ stored' = stored \union {f}
        /\ req' = [req EXCEPT ![c].files = @ \union {f}, ![c].left = @ \ {f},
                              ![c].pc = IF req[c].left = {f} THEN "record" ELSE "put"]
  BY DEF PutOne
<1> DEFINE pc == IF q.left = {f} THEN "record" ELSE "put"
           fs == q.files \union {f}
           ls == q.left \ {f}
           next == Made(q, pc, fs, ls)
<1>2. /\ q # Idle /\ q \in Running /\ q.pc = "put" /\ Sound(q) /\ f \in Names(q) /\ f \in used
      /\ q.files \subseteq Files /\ q.left \subseteq Files
  BY AtStep DEF PutOne, Names
<1>3. pc \in Pcs /\ pc \in {"put", "record"} /\ fs \in SUBSET Files /\ ls \in SUBSET Files
  BY <1>2 DEF Pcs
<1>4. req' = [req EXCEPT ![c] = next]
  BY <1>1 DEF IInv, Made
<1>5. fs \union ls = Names(q)
  BY DEF Names
<1> HIDE DEF pc, fs, ls
<1>6. /\ next \in Running /\ next.pc = pc /\ next.by = q.by /\ next.of = q.of
      /\ next.files = fs /\ Names(next) = Names(q)
  <2>1. q \in Running /\ pc \in Pcs /\ fs \in SUBSET Files /\ ls \in SUBSET Files
    BY <1>2, <1>3
  <2> HIDE DEF q
  <2>2. /\ next \in Running /\ next.pc = pc /\ next.by = q.by /\ next.of = q.of
        /\ next.files = fs /\ Names(next) = fs \union ls
    BY <2>1, AllMade
  <2> QED
    BY <1>5, <2>2
<1> HIDE DEF next
<1>7. Others(c) /\ req'[c] = next
  BY <1>4, <1>6, RunningIsNotIdle, MovesAlone DEF IInv
<1>8. UNCHANGED <<rows, holders, vehicle, users, members, used, asked, astray>>
  BY DEF PutOne
<1>9. Data'
  BY <1>1, <1>2, <1>8 DEF Data, RowsHaveFiles, IInv
<1>10. Uploading(q) /\ Holding(q) /\ Uploading(next)
  BY <1>2, <1>3, <1>6 DEF Uploading, Holding, Pcs
<1>11. Sound(req[c])'
  <2>1. Names(next) \subseteq used'
    BY <1>2, <1>6, <1>8 DEF Sound
  <2>2. Names(next) \intersect rows' = {} /\ \A g \in Names(next) : g.by = next.by /\ g.kind = next.of
    BY <1>2, <1>6, <1>8, <1>10 DEF Sound
  <2>3. next.by \in users' => next.files \subseteq stored'
    BY <1>1, <1>2, <1>6, <1>8 DEF Sound, fs
  <2> QED
    BY <1>3, <1>6, <1>7, <2>1, <2>2, <2>3 DEF Sound
<1>12. OthersMay(c)
  BY <1>1, <1>2, <1>7, <1>8, <1>10 DEF OthersMay
<1>13. Takes(c)
  BY <1>2, <1>6, <1>7, <1>10 DEF Takes
<1> QED
  BY <1>9, <1>11, <1>12, <1>13, StepKeeps

(* Tidying up holds what was being uploaded. *)
LEMMA TidySound ==
    ASSUME IInv, NEW c \in Clients, req[c] \in Running, Uploading(req[c]), To(c, "tidy"),
           used' = used, rows' = rows
    PROVE  Others(c) /\ Takes(c) /\ Sound(req[c])'
<1> DEFINE q == req[c]
           p == req'[c]
<1>1. "tidy" \in Pcs
  BY DEF Pcs
<1>2. /\ Others(c) /\ p \in Running /\ p.pc = "tidy" /\ p.by = q.by /\ p.of = q.of
      /\ Names(p) = Names(q)
  BY <1>1, PcMoves
<1>3. q # Idle /\ Sound(q) /\ Holding(q)
  BY RunningIsNotIdle DEF IInv, Uploading, Holding, Pcs
<1>4. Takes(c)
  BY <1>2, <1>3 DEF Takes
<1>5. Names(p) \subseteq used' /\ Names(p) \intersect rows' = {}
      /\ \A f \in Names(p) : f.by = p.by /\ f.kind = p.of
  BY <1>2, <1>3 DEF Sound
<1>6. Sound(req[c])'
  BY <1>2, <1>5 DEF Sound
<1> QED
  BY <1>2, <1>4, <1>6

LEMMA PutRefusedKeeps ==
    ASSUME IInv, NEW c \in Clients, PutRefused(c)
    PROVE  IInv'
<1>1. PICK kept \in {{}} \union {{f} : f \in req[c].left} :
        stored' = stored \union kept /\ astray' = astray \union kept
  BY DEF PutRefused
<1>2. /\ req[c] \in Running /\ req[c].pc = "put" /\ kept \subseteq used /\ kept \subseteq Files
      /\ req[c] # Idle /\ kept \subseteq Names(req[c]) /\ Uploading(req[c])
  <2>1. /\ req[c] \in Running /\ req[c].pc = "put" /\ Names(req[c]) \subseteq used
        /\ req[c].left \subseteq Files /\ req[c] # Idle
    BY AtStep DEF PutRefused
  <2> QED
    BY <2>1 DEF Names, Uploading
<1>3. UNCHANGED <<rows, holders, vehicle, users, members, used, asked>> /\ To(c, "tidy")
  BY DEF PutRefused
<1>4. Others(c) /\ Takes(c) /\ Sound(req[c])'
  BY <1>2, <1>3, TidySound DEF Uploading
<1>5. Data'
  BY <1>1, <1>2, <1>3 DEF Data, RowsHaveFiles, IInv
<1>6. OthersMay(c)
  BY <1>1, <1>2, <1>3, <1>4 DEF OthersMay
<1> QED
  BY <1>4, <1>5, <1>6, StepKeeps

LEMMA RecordRefusedKeeps ==
    ASSUME IInv, NEW c \in Clients, RecordRefused(c)
    PROVE  IInv'
<1>1. req[c] \in Running /\ req[c].pc = "record"
  BY AtStep DEF RecordRefused
<1>2. UNCHANGED <<data, history>> /\ To(c, "tidy")
  BY DEF RecordRefused
<1>3. Others(c) /\ Takes(c) /\ Sound(req[c])'
  BY <1>1, <1>2, TidySound DEF Uploading, data
<1>4. Data'
  BY <1>2 DEF data, history, Data, RowsHaveFiles, IInv
<1>5. OthersMay(c)
  BY <1>2, <1>3 DEF OthersMay, data, history
<1> QED
  BY <1>3, <1>4, <1>5, StepKeeps

LEMMA RecordKeeps ==
    ASSUME IInv, NEW c \in Clients, Record(c)
    PROVE  IInv'
<1> DEFINE q == req[c]
<1>1. q # Idle /\ q \in Running /\ q.pc = "record" /\ Sound(q) /\ Names(q) \subseteq used
  BY AtStep DEF Record
<1>2. /\ q.of \in holders /\ q.by \in users /\ rows' = rows \union q.files
      /\ UNCHANGED <<stored, holders, vehicle, users, members, used, asked, astray>>
  BY DEF Record, Recordable
<1>3. Others(c) /\ req'[c] = Idle
  BY ReqCommitsIdle DEF Record
<1>4. Uploading(q) /\ q.files \subseteq Names(q)
  BY <1>1 DEF Uploading, Names
<1>5. /\ q.files \subseteq stored
      /\ \A f \in q.files : f.by = q.by /\ f.kind = q.of
  BY <1>1, <1>2, <1>4 DEF Sound
<1>6. Data'
  BY <1>1, <1>2, <1>4, <1>5 DEF Data, RowsHaveFiles, IInv
<1>7. OthersMay(c)
  BY <1>1, <1>2, <1>3, <1>4, <1>5 DEF OthersMay
<1>8. Takes(c) /\ Sound(req[c])'
  BY <1>3 DEF Takes, Sound
<1> QED
  BY <1>6, <1>7, <1>8, StepKeeps

-----------------------------------------------------------------------------
(* Removing from storage what has no row, best effort. *)
LEMMA RemovesKeeps ==
    ASSUME IInv, NEW c \in Clients, NEW next \in Requests, Removes(c, next),
           req[c] \in Running, Holding(req[c]) \/ req[c].pc = "sweep",
           req[c].files \intersect rows = {},
           next # Idle => /\ next.pc = "list" /\ next.by \notin users /\ Names(next) \subseteq used
    PROVE  IInv'
<1> DEFINE q == req[c]
<1>1. PICK kept \in SUBSET q.files :
        stored' = stored \ (q.files \ kept) /\ astray' = astray \union kept
  BY DEF Removes, Doomed
<1>2. UNCHANGED <<rows, holders, vehicle, users, members, used, asked>>
  BY DEF Removes
<1>3. Others(c) /\ req'[c] = next
  BY MovesAlone DEF Removes, IInv
<1>4. q # Idle /\ Sound(q) /\ q.files \subseteq Files /\ q.files \subseteq Names(q)
  BY RunningIsNotIdle, RequestFields DEF IInv, Names
<1>5. Data'
  BY <1>1, <1>2, <1>4 DEF Data, RowsHaveFiles, IInv
<1>6. \A f \in q.files : Holding(q) \/ f.by \notin users
  BY <1>4 DEF Sound, Under
<1>7. OthersMay(c)
  BY <1>1, <1>2, <1>3, <1>4, <1>6 DEF OthersMay
<1>8. Takes(c)
  BY <1>3 DEF Takes, Uploading, Holding, Pcs
<1>9. Sound(req[c])'
  BY <1>2, <1>3 DEF Sound, Uploading
<1> QED
  BY <1>5, <1>7, <1>8, <1>9, StepKeeps

LEMMA RemovesIdleKeeps ==
    ASSUME IInv, NEW c \in Clients, Removes(c, Idle), NEW pc \in {"tidy", "remove", "sweep"}, At(c, pc)
    PROVE  IInv'
<1>1. req[c] \in Running /\ req[c].pc = pc /\ Sound(req[c]) /\ req[c] # Idle
  BY AtStep
<1>2. req[c].files \intersect rows = {}
  BY <1>1 DEF Sound, Uploading, Names
<1>3. Holding(req[c]) \/ req[c].pc = "sweep"
  BY <1>1 DEF Holding, Pcs
<1>4. Idle \in Requests
  BY DEF Requests
<1> QED
  BY <1>1, <1>2, <1>3, <1>4, RemovesKeeps

LEMMA ClearKeeps ==
    ASSUME IInv, NEW c \in Clients, Clear(c)
    PROVE  IInv'
<1> DEFINE q == req[c]
           none == {}
           next == Turned(q, "list", none)
<1>1. q # Idle /\ q \in Running /\ q.pc = "clear" /\ Sound(q) /\ Names(q) \subseteq used
  BY AtStep DEF Clear
<1>2. "list" \in Pcs /\ none \in SUBSET Files
  BY DEF Pcs
<1>3. next \in Running /\ next.pc = "list" /\ next.by = q.by /\ Names(next) = q.left
  <2>1. q \in Running
    BY <1>1
  <2> HIDE DEF q, none
  <2>2. next \in Running /\ next.pc = "list" /\ next.by = q.by /\ Names(next) = none \union q.left
    BY <1>2, <2>1, FilesMade
  <2> QED
    BY <2>2 DEF none
<1>4. Removes(c, next)
  BY DEF Clear, Turned
<1> HIDE DEF next
<1>5. q.by \notin users /\ q.files \intersect rows = {} /\ Holding(q)
  BY <1>1 DEF Sound, Holding, Pcs
<1>6. Names(next) \subseteq used
  BY <1>1, <1>3 DEF Names
<1> QED
  BY <1>1, <1>3, <1>4, <1>5, <1>6, RunningIsNotIdle, RemovesKeeps

-----------------------------------------------------------------------------
LEMMA DetachKeeps ==
    ASSUME IInv, NEW c \in Clients, NEW u \in Users, Detach(c, u)
    PROVE  IInv'
<1>1. PICK f \in rows : Begin(c, Request("object", u, f.kind, {f})) /\ asked' = asked \union {f}
  BY DEF Detach
<1> DEFINE next == Request("object", u, f.kind, {f})
<1>2. f \in Files /\ f \in used /\ f.kind \in Kinds /\ "object" \in Pcs
  BY FileKinds DEF IInv, Data, Pcs
<1>3. next \in Running /\ next.pc = "object" /\ next.files = {f} /\ Names(next) = {f}
  BY <1>2, RequestMade
<1> HIDE DEF next
<1>4. Others(c) /\ req'[c] = next
  BY <1>1, <1>3, ReqBegins DEF next
<1>5. UNCHANGED <<data, astray>>
  BY DEF Detach
<1>6. Data'
  BY <1>1, <1>2, <1>5 DEF Data, RowsHaveFiles, IInv, data
<1>7. Sound(req[c])'
  BY <1>1, <1>2, <1>3, <1>4, <1>5 DEF Sound, Uploading, data
<1>8. OthersMay(c)
  BY <1>1, <1>4, <1>5 DEF OthersMay, data
<1>9. Takes(c)
  BY <1>3, <1>4 DEF Takes, Uploading
<1> QED
  BY <1>6, <1>7, <1>8, <1>9, StepKeeps

LEMMA DetachObjectKeeps ==
    ASSUME IInv, NEW c \in Clients, DetachObject(c)
    PROVE  IInv'
<1> DEFINE q == req[c]
<1>1. /\ q # Idle /\ q \in Running /\ q.pc = "object" /\ Sound(q) /\ Names(q) \subseteq used
  BY AtStep DEF DetachObject
<1>2. q.files \subseteq asked /\ q.files \subseteq Names(q) /\ Holding(q)
  BY <1>1 DEF Sound, Names, Holding, Pcs
<1>3. UNCHANGED <<rows, holders, vehicle, users, members, used, history>>
      /\ (stored' = stored \ q.files \/ stored' = stored)
  BY DEF DetachObject
<1>4. Data'
  BY <1>2, <1>3 DEF Data, RowsHaveFiles, IInv, history
<1>5. CASE Ends(c)
  <2>1. Others(c) /\ req'[c] = Idle
    BY <1>5, ReqEnds
  <2>2. OthersMay(c) /\ Takes(c) /\ Sound(req[c])'
    BY <1>1, <1>2, <1>3, <2>1 DEF OthersMay, Takes, Sound, history
  <2> QED
    BY <1>4, <2>2, StepKeeps
<1>6. CASE To(c, "row")
  <2>1. "row" \in Pcs
    BY DEF Pcs
  <2>2. /\ Others(c) /\ req'[c].pc = "row" /\ req'[c].files = q.files
        /\ Names(req'[c]) = Names(q)
    BY <1>1, <1>6, <2>1, PcMoves
  <2>3. OthersMay(c)
    BY <1>1, <1>2, <1>3, <2>2 DEF OthersMay, history
  <2>4. Takes(c)
    BY <1>1, <1>2, <2>2 DEF Takes, Uploading
  <2>5. stored' = stored \ q.files
    <3>1. ~Ends(c)
      BY <1>6, <2>2, ReqEnds DEF Idle
    <3> QED
      BY <3>1 DEF DetachObject
  <2>6. Sound(req[c])'
    BY <1>1, <1>3, <2>2, <2>5 DEF Sound, Uploading
  <2> QED
    BY <1>4, <2>3, <2>4, <2>6, StepKeeps
<1> QED
  BY <1>5, <1>6 DEF DetachObject

(* Rows go, and with them the request. *)
LEMMA RowsGo ==
    ASSUME IInv, NEW c \in Clients, rows' \subseteq rows,
           IF rows' = rows THEN Ends(c) ELSE Commits(c, Idle),
           UNCHANGED <<stored, holders, vehicle, users, members, used, history>>
    PROVE  IInv'
<1>1. Others(c) /\ req'[c] = Idle
  BY ReqEnds, ReqCommitsIdle
<1>2. Data'
  BY DEF Data, RowsHaveFiles, IInv, history
<1> QED
  BY <1>1, <1>2, EndKeeps DEF history

LEMMA ReconcileKeeps ==
    ASSUME IInv, NEW c \in Clients, NEW u \in Users, Reconcile(c, u)
    PROVE  IInv'
<1> DEFINE empty == Request("check", u, "rows", {})
           next == [empty EXCEPT !.left = Reconcilable(u)]
<1>1. Reconcilable(u) \subseteq rows /\ rows \subseteq used /\ used \subseteq Files
  BY DEF Reconcilable, OfKinds, IInv, Data
<1>2. "check" \in Pcs
  BY DEF Pcs
<1>3. empty \in Running /\ empty.pc = "check" /\ empty.files = {}
  BY <1>2, RequestMade
<1>4. Begin(c, next) /\ UNCHANGED <<data, history>>
  BY DEF Reconcile
<1> HIDE DEF empty
<1>5. /\ next \in Running /\ next.pc = "check" /\ next.files = {} /\ next.left = Reconcilable(u)
  BY <1>1, <1>3, LeftMade
<1> HIDE DEF next
<1>6. Others(c) /\ req'[c] = next
  BY <1>4, <1>5, ReqBegins
<1>7. Names(next) \subseteq used
  BY <1>1, <1>5 DEF Names
<1>8. Data'
  BY <1>4 DEF Data, RowsHaveFiles, IInv, data, history
<1>9. Sound(req[c])'
  BY <1>4, <1>5, <1>6, <1>7 DEF Sound, Uploading, data
<1>10. OthersMay(c)
  BY <1>4, <1>6 DEF OthersMay, data, history
<1>11. Takes(c)
  BY <1>1, <1>5, <1>6 DEF Takes, Uploading, Names
<1> QED
  BY <1>8, <1>9, <1>10, <1>11, StepKeeps

LEMMA CheckKeeps ==
    ASSUME IInv, NEW c \in Clients, Check(c)
    PROVE  IInv'
<1> DEFINE q == req[c]
<1>1. PICK f \in q.left :
        req' = [req EXCEPT ![c].files = IF Missing(f) THEN @ \union {f} ELSE @,
                           ![c].left = @ \ {f},
                           ![c].pc = IF req[c].left = {f} THEN "purge" ELSE "check"]
  BY DEF Check
<1> DEFINE pc == IF q.left = {f} THEN "purge" ELSE "check"
           fs == IF Missing(f) THEN q.files \union {f} ELSE q.files
           ls == q.left \ {f}
           next == Made(q, pc, fs, ls)
<1>2. /\ q # Idle /\ q \in Running /\ q.pc = "check" /\ Sound(q) /\ Names(q) \subseteq used
      /\ q.files \subseteq Files /\ q.left \subseteq Files
  BY AtStep DEF Check
<1>3. pc \in Pcs /\ pc \in {"check", "purge"} /\ fs \in SUBSET Files /\ ls \in SUBSET Files
  BY <1>2 DEF Pcs
<1>4. req' = [req EXCEPT ![c] = next]
  BY <1>1 DEF IInv, Made
<1>5. fs \union ls \subseteq used /\ fs \intersect stored = {}
  BY <1>2 DEF Names, Missing, Sound
<1> HIDE DEF pc, fs, ls
<1>6. next \in Running /\ next.pc = pc /\ next.files = fs /\ Names(next) = fs \union ls
  <2>1. q \in Running /\ pc \in Pcs /\ fs \in SUBSET Files /\ ls \in SUBSET Files
    BY <1>2, <1>3
  <2> HIDE DEF q
  <2> QED
    BY <2>1, AllMade
<1> HIDE DEF next
<1>7. Others(c) /\ req'[c] = next
  BY <1>4, <1>6, RunningIsNotIdle, MovesAlone DEF IInv
<1>8. UNCHANGED <<data, history>>
  BY DEF Check
<1>9. Data'
  BY <1>8 DEF Data, RowsHaveFiles, IInv, data, history
<1>10. Sound(req[c])'
  BY <1>3, <1>5, <1>6, <1>7, <1>8 DEF Sound, Uploading, data
<1>11. OthersMay(c)
  BY <1>7, <1>8 DEF OthersMay, data, history
<1>12. Takes(c)
  <2>1. fs \union ls \subseteq Names(q) /\ ~Uploading(next) /\ Holding(q)
    BY <1>2, <1>3, <1>6 DEF fs, ls, Names, Uploading, Holding, Pcs
  <2> QED
    BY <1>2, <1>6, <1>7, <2>1 DEF Takes
<1> QED
  BY <1>9, <1>10, <1>11, <1>12, StepKeeps

LEMMA RowStepsKeep ==
    ASSUME IInv, NEW c \in Clients, DetachRow(c) \/ Purge(c)
    PROVE  IInv'
<1>1. CASE DetachRow(c)
  BY <1>1, RowsGo DEF DetachRow
<1>2. CASE Purge(c)
  BY <1>2, RowsGo DEF Purge
<1> QED
  BY <1>1, <1>2

-----------------------------------------------------------------------------
(* A request that begins with rows' files in hand. *)
LEMMA ListsKeep ==
    ASSUME IInv, NEW c \in Clients, NEW pc \in {"delete", "close"}, NEW u \in Users,
           NEW of \in Kinds \union {"rows", "vehicle", "account"}, NEW fs \in SUBSET rows,
           Begin(c, Request(pc, u, of, fs)), UNCHANGED <<data, history>>,
           pc = "delete" => \A f \in fs : f.kind \in Falls(of),
           pc = "close" /\ u # Owner => fs = {}
    PROVE  IInv'
<1> DEFINE next == Request(pc, u, of, fs)
<1>1. pc \in Pcs /\ fs \in SUBSET Files /\ fs \subseteq used
  BY DEF Pcs, IInv, Data
<1>2. /\ next \in Running /\ next.pc = pc /\ next.by = u /\ next.of = of
      /\ next.files = fs /\ Names(next) = fs
  BY <1>1, RequestMade
<1> HIDE DEF next
<1>3. Others(c) /\ req'[c] = next
  BY <1>2, ReqBegins DEF next
<1>4. Data'
  BY DEF Data, RowsHaveFiles, IInv, data, history
<1>5. Names(next) \subseteq used'
  BY <1>1, <1>2 DEF data
<1>6. Sound(req[c])'
  BY <1>2, <1>3, <1>5 DEF Sound, Uploading
<1>7. OthersMay(c)
  BY <1>3 DEF OthersMay, data, history
<1>8. Takes(c)
  BY <1>2, <1>3 DEF Takes, Uploading
<1> QED
  BY <1>4, <1>6, <1>7, <1>8, StepKeeps

LEMMA DeleteKeeps ==
    ASSUME IInv, NEW c \in Clients, NEW u \in Users, NEW k \in Kinds, Delete(c, u, k)
    PROVE  IInv'
<1>1. OfKinds(HolderLists(k)) \in SUBSET rows
  BY DEF OfKinds
<1>2. \A f \in OfKinds(HolderLists(k)) : f.kind \in Falls(k)
  BY DEF OfKinds, HolderLists, Falls
<1>3. Begin(c, Request("delete", u, k, OfKinds(HolderLists(k)))) /\ UNCHANGED <<data, history>>
  BY DEF Delete
<1> QED
  BY <1>1, <1>2, <1>3, ListsKeep

LEMMA DeleteVehicleKeeps ==
    ASSUME IInv, NEW c \in Clients, DeleteVehicle(c)
    PROVE  IInv'
<1>1. OfKinds(Listed) \in SUBSET rows /\ Owner \in Users
  BY DEF OfKinds, Users
<1>2. Falls("vehicle") = Kinds
  BY DEF Falls, Kinds
<1>3. \A f \in OfKinds(Listed) : f.kind \in Falls("vehicle")
  BY <1>2, FileKinds DEF OfKinds, IInv, Data
<1>4. Begin(c, Request("delete", Owner, "vehicle", OfKinds(Listed))) /\ UNCHANGED <<data, history>>
  BY DEF DeleteVehicle
<1> QED
  BY <1>1, <1>3, <1>4, ListsKeep

LEMMA PlanKeeps ==
    ASSUME IInv, NEW c \in Clients, NEW u \in Users, Plan(c, u)
    PROVE  IInv'
<1> DEFINE fs == IF u = Owner THEN OfKinds(AccountLists) ELSE {}
<1>1. fs \in SUBSET rows /\ (u # Owner => fs = {})
  BY DEF OfKinds
<1>2. Begin(c, Request("close", u, "account", fs)) /\ UNCHANGED <<data, history>>
  BY DEF Plan
<1> HIDE DEF fs
<1> QED
  BY <1>1, <1>2, ListsKeep

(* What falls is in the list's kinds, and what is left of the holders is   *)
(* what the other rows need.                                               *)
LEMMA FallsTogether ==
    ASSUME NEW of \in Kinds \union {"rows", "vehicle", "account"}
    PROVE  /\ "insurance" \in Falls(of) => "claim" \in Falls(of)
           /\ of = "vehicle" => Falls(of) = Kinds
BY DEF Falls, Kinds

LEMMA DeleteCommitKeeps ==
    ASSUME IInv, NEW c \in Clients, DeleteCommit(c)
    PROVE  IInv'
<1> DEFINE q == req[c]
           falls == Falls(q.of)
           next == [q EXCEPT !.pc = "remove"]
<1>1. /\ q # Idle /\ q \in Running /\ q.pc = "delete" /\ Sound(q) /\ Names(q) \subseteq used
      /\ q.of \in Kinds \union {"rows", "vehicle", "account"}
  BY AtStep DEF DeleteCommit
<1>2. /\ holders' = holders \ falls /\ rows' = rows \ OfKinds(falls)
      /\ vehicle' = (vehicle /\ q.of # "vehicle")
      /\ members' = IF q.of = "vehicle" THEN {} ELSE members
      /\ Commits(c, next) /\ UNCHANGED <<stored, users, used, asked>>
      /\ Strays(c, OfKinds(falls))
  BY DEF DeleteCommit
<1>3. "remove" \in Pcs
  BY DEF Pcs
<1>4. next \in Running /\ next.pc = "remove" /\ next.files = q.files /\ Names(next) = Names(q)
  <2>1. q \in Running
    BY <1>1
  <2> HIDE DEF q
  <2> QED
    BY <1>3, <2>1, PcMade
<1> HIDE DEF next
<1>5. Others(c) /\ req'[c] = next
  BY <1>2, <1>4, RunningIsNotIdle, MovesCommitting DEF IInv
<1>6. q.files \intersect rows' = {}
  BY <1>1, <1>2 DEF Sound, OfKinds
<1>7. /\ "insurance" \in falls => "claim" \in falls
      /\ q.of = "vehicle" => falls = Kinds
  BY <1>1, FallsTogether
<1> HIDE DEF falls
<1>8. Data'
  <2>1. astray' \subseteq Files
    BY <1>2 DEF Strays, OfKinds, IInv, Data
  <2>2. ~vehicle' => holders' = {} /\ members' = {}
    BY <1>2, <1>7 DEF IInv, Data
  <2>3. \A f \in rows' : f.kind \in holders'
    BY <1>2 DEF OfKinds, IInv, Data
  <2>4. "claim" \in holders' => "insurance" \in holders'
    BY <1>2, <1>7 DEF IInv, Data
  <2>5. vehicle' \in BOOLEAN /\ members' \subseteq users' /\ RowsHaveFiles'
    BY <1>2 DEF IInv, Data, RowsHaveFiles
  <2> QED
    BY <1>2, <2>1, <2>2, <2>3, <2>4, <2>5 DEF IInv, Data
<1>9. Sound(req[c])'
  BY <1>1, <1>2, <1>4, <1>5, <1>6 DEF Sound, Uploading
<1>10. OthersMay(c)
  BY <1>2, <1>5 DEF OthersMay
<1>11. Takes(c)
  BY <1>1, <1>4, <1>5 DEF Takes, Uploading, Holding, Pcs
<1> QED
  BY <1>8, <1>9, <1>10, <1>11, StepKeeps

LEMMA CloseKeeps ==
    ASSUME IInv, NEW c \in Clients, Close(c)
    PROVE  IInv'
<1> DEFINE q == req[c]
           next == [q EXCEPT !.pc = "clear"]
<1>1. q # Idle /\ q \in Running /\ q.pc = "close" /\ Sound(q) /\ Names(q) \subseteq used
  BY AtStep DEF Close
<1>2. /\ users' = users \ {q.by} /\ Commits(c, next) /\ UNCHANGED <<stored, used, asked>>
      /\ \/ /\ vehicle' = FALSE /\ rows' = {} /\ holders' = {} /\ members' = {}
            /\ Strays(c, rows)
         \/ /\ q.by # Owner /\ members' = members \ {q.by}
            /\ UNCHANGED <<vehicle, rows, holders, astray>>
  BY DEF Close
<1>3. "clear" \in Pcs
  BY DEF Pcs
<1>4. /\ next \in Running /\ next.pc = "clear" /\ next.by = q.by
      /\ next.files = q.files /\ Names(next) = Names(q)
  <2>1. q \in Running
    BY <1>1
  <2> HIDE DEF q
  <2> QED
    BY <1>3, <2>1, PcMade
<1> HIDE DEF next
<1>5. Others(c) /\ req'[c] = next
  BY <1>2, <1>4, RunningIsNotIdle, MovesCommitting DEF IInv
<1>6. q.files \intersect rows' = {}
  BY <1>1, <1>2 DEF Sound
<1>7. Data'
  <2>1. CASE vehicle' = FALSE /\ rows' = {} /\ holders' = {} /\ members' = {} /\ Strays(c, rows)
    <3>1. astray' \subseteq Files
      BY <2>1 DEF Strays, IInv, Data
    <3> QED
      BY <1>2, <2>1, <3>1 DEF IInv, Data, RowsHaveFiles
  <2>2. CASE members' = members \ {q.by} /\ UNCHANGED <<vehicle, rows, holders, astray>>
    BY <1>2, <2>2 DEF IInv, Data, RowsHaveFiles
  <2> QED
    BY <1>2, <2>1, <2>2
<1>8. Sound(req[c])'
  BY <1>1, <1>2, <1>4, <1>5, <1>6 DEF Sound, Uploading
<1>9. OthersMay(c)
  BY <1>2, <1>5 DEF OthersMay
<1>10. Takes(c)
  BY <1>1, <1>4, <1>5 DEF Takes, Uploading, Holding, Pcs
<1> QED
  BY <1>7, <1>8, <1>9, <1>10, StepKeeps

-----------------------------------------------------------------------------
LEMMA ListKeeps ==
    ASSUME IInv, NEW c \in Clients, List(c)
    PROVE  IInv'
<1> DEFINE q == req[c]
           fs == stored \intersect Under(q.by)
           next == Turned(q, "match", fs)
<1>1. /\ q # Idle /\ q \in Running /\ q.pc = "list" /\ Sound(q) /\ Names(q) \subseteq used
  BY AtStep DEF List
<1>2. fs \in SUBSET Files /\ fs \subseteq used /\ fs \subseteq Under(q.by) /\ "match" \in Pcs
  BY DEF Pcs, IInv, Data, Under
<1>3. req' = [req EXCEPT ![c] = next]
  BY DEF List, Turned, IInv
<1> HIDE DEF fs
<1>4. /\ next \in Running /\ next.pc = "match" /\ next.by = q.by /\ next.files = fs
      /\ Names(next) = fs \union q.left
  <2>1. q \in Running
    BY <1>1
  <2> HIDE DEF q
  <2> QED
    BY <1>2, <2>1, FilesMade
<1> HIDE DEF next
<1>5. Others(c) /\ req'[c] = next
  BY <1>3, <1>4, RunningIsNotIdle, MovesAlone DEF IInv
<1>6. astray' = astray \ Under(q.by) /\ UNCHANGED <<data, asked>>
  BY DEF List
<1>7. Data'
  BY <1>6 DEF Data, RowsHaveFiles, IInv, data
<1>8. q.by \notin users /\ Names(next) \subseteq used
  BY <1>1, <1>2, <1>4 DEF Sound, Names
<1>9. Sound(req[c])'
  BY <1>2, <1>4, <1>5, <1>6, <1>8 DEF Sound, Uploading, Under, data
<1>10. OthersMay(c)
  BY <1>5, <1>6 DEF OthersMay, data
<1>11. Takes(c)
  BY <1>4, <1>5 DEF Takes, Uploading, Holding, Pcs
<1> QED
  BY <1>7, <1>9, <1>10, <1>11, StepKeeps

LEMMA MatchKeeps ==
    ASSUME IInv, NEW c \in Clients, Match(c)
    PROVE  IInv'
<1> DEFINE q == req[c]
           fs == q.files \ rows
           next == Turned(q, "sweep", fs)
<1>1. /\ q # Idle /\ q \in Running /\ q.pc = "match" /\ Sound(q) /\ Names(q) \subseteq used
      /\ q.files \subseteq Files
  BY AtStep DEF Match
<1>2. /\ fs \in SUBSET Files /\ fs \subseteq q.files /\ fs \intersect rows = {} /\ "sweep" \in Pcs
  BY <1>1 DEF Pcs
<1>3. req' = [req EXCEPT ![c] = next]
  BY DEF Match, Turned, Unreferenced, IInv
<1> HIDE DEF fs
<1>4. /\ next \in Running /\ next.pc = "sweep" /\ next.by = q.by /\ next.files = fs
      /\ Names(next) = fs \union q.left
  <2>1. q \in Running
    BY <1>1
  <2> HIDE DEF q
  <2> QED
    BY <1>2, <2>1, FilesMade
<1> HIDE DEF next
<1>5. Others(c) /\ req'[c] = next
  BY <1>3, <1>4, RunningIsNotIdle, MovesAlone DEF IInv
<1>6. UNCHANGED <<data, history>>
  BY DEF Match
<1>7. Data'
  BY <1>6 DEF Data, RowsHaveFiles, IInv, data, history
<1>8. q.by \notin users /\ fs \subseteq Under(q.by) /\ Names(next) \subseteq used
  BY <1>1, <1>2, <1>4 DEF Sound, Names
<1>9. Sound(req[c])'
  BY <1>2, <1>4, <1>5, <1>6, <1>8 DEF Sound, Uploading, Under, data
<1>10. OthersMay(c)
  BY <1>5, <1>6 DEF OthersMay, data, history
<1>11. Takes(c)
  BY <1>4, <1>5 DEF Takes, Uploading, Holding, Pcs
<1> QED
  BY <1>7, <1>9, <1>10, <1>11, StepKeeps

(* Requests that end without having written. *)
LEMMA EndingsKeep ==
    ASSUME IInv, NEW c \in Clients, DeleteMissing(c) \/ CloseMissing(c) \/ Crash(c)
    PROVE  IInv'
<1>1. Others(c) /\ req'[c] = Idle
  BY ReqEnds DEF DeleteMissing, CloseMissing, Crash
<1>2. UNCHANGED <<data, asked>>
  BY DEF DeleteMissing, CloseMissing, Crash, history
<1>3. astray' \subseteq Files
  <2>1. CASE Crash(c)
    <3>1. Pending(c) \subseteq Files
      <4>1. req[c] \in Requests /\ req[c] # Idle
        BY <2>1 DEF Crash, IInv
      <4> QED
        BY <4>1, RequestFields DEF Pending, Under
    <3> QED
      BY <2>1, <3>1 DEF Crash, IInv, Data
  <2>2. CASE DeleteMissing(c) \/ CloseMissing(c)
    BY <2>2 DEF DeleteMissing, CloseMissing, history, IInv, Data
  <2> QED
    BY <2>1, <2>2
<1>4. Data'
  BY <1>2, <1>3 DEF Data, RowsHaveFiles, IInv, data
<1> QED
  BY <1>1, <1>2, <1>4, EndKeeps DEF data

LEMMA MembersKeep ==
    ASSUME IInv, NEW g \in Guests, Join(g) \/ Leave(g)
    PROVE  IInv'
<1>1. /\ req' = [c \in Clients |-> Disturbed(req[c])]
      /\ UNCHANGED <<stored, rows, holders, vehicle, users, used, history>>
      /\ members' \subseteq users /\ (~vehicle => members' = {})
  BY DEF Join, Leave, IInv, Data
<1>2. req' \in [Clients -> Requests] /\ \A c \in Clients : Alike(req[c], req'[c])
  BY <1>1, DisturbedAlike DEF IInv
<1>3. Data'
  BY <1>1 DEF Data, RowsHaveFiles, IInv, history
<1>4. ASSUME NEW c \in Clients PROVE Sound(req[c])'
  BY <1>1, <1>2 DEF Sound, Alike, Names, Uploading, Under, IInv, history
<1>5. ASSUME NEW c \in Clients, NEW d \in Clients, c # d PROVE Apart(req[c], req[d])'
  BY <1>2, <1>5 DEF Apart, Alike, Names, Uploading, Holding, IInv
<1> QED
  BY <1>2, <1>3, <1>4, <1>5 DEF IInv

-----------------------------------------------------------------------------
LEMMA InitHolds == Init => IInv
<1> SUFFICES ASSUME Init PROVE IInv
  OBVIOUS
<1>1. req \in [Clients -> Requests] /\ \A c \in Clients : req[c] = Idle
  BY DEF Init, Requests
<1>2. Data
  BY FileKinds DEF Init, Data, RowsHaveFiles, Kinds
<1> QED
  BY <1>1, <1>2 DEF IInv, Sound, Apart

LEMMA StutterKeeps == ASSUME IInv, UNCHANGED vars PROVE IInv'
BY DEF IInv, Data, RowsHaveFiles, Sound, Apart, Names, Uploading, Holding, Under, vars

LEMMA NextKeeps == ASSUME IInv, Next PROVE IInv'
<1>1. ASSUME NEW c \in Clients, UploadStep(c) PROVE IInv'
  BY <1>1, UploadKeeps, PutOneKeeps, PutRefusedKeeps, RecordKeeps, RecordRefusedKeeps,
     RemovesIdleKeeps DEF UploadStep, CleanUp
<1>2. ASSUME NEW c \in Clients, RowStep(c) PROVE IInv'
  BY <1>2, DetachKeeps, DetachObjectKeeps, ReconcileKeeps, CheckKeeps, RowStepsKeep DEF RowStep
<1>3. ASSUME NEW c \in Clients, DeleteStep(c) PROVE IInv'
  BY <1>3, DeleteKeeps, DeleteVehicleKeeps, DeleteCommitKeeps, EndingsKeep, RemovesIdleKeeps
  DEF DeleteStep, Remove
<1>4. ASSUME NEW c \in Clients, AccountStep(c) PROVE IInv'
  BY <1>4, PlanKeeps, CloseKeeps, EndingsKeep, ClearKeeps, ListKeeps, MatchKeeps, RemovesIdleKeeps
  DEF AccountStep, Sweep
<1>5. ASSUME NEW c \in Clients, Crash(c) PROVE IInv'
  BY <1>5, EndingsKeep
<1> QED
  BY <1>1, <1>2, <1>3, <1>4, <1>5, MembersKeep DEF Next

(* The invariant above holds of every behaviour. *)
THEOREM Invariance == Spec => []IInv
<1>1. IInv /\ [Next]_vars => IInv'
  BY NextKeeps, StutterKeeps
<1> QED
  BY InitHolds, <1>1, PTL DEF Spec

(* The tables stay consistent: every row's holder is there, every member   *)
(* has an account, and requests hold only names that were given out        *)
(* (attachments.service.ts, account-deletion.service.ts).                  *)
THEOREM TypeCorrect == Spec => []TypeOK
<1>1. IInv => TypeOK
  BY DEF IInv, Data, TypeOK, Sound, Names
<1> QED
  BY <1>1, Invariance, PTL

(* No row loses its file to another request: whatever uploads, deletions,  *)
(* cleanups and an account's sweep overlap, are refused or die halfway,    *)
(* only a file someone asked to remove is gone while its row is there.     *)
THEOREM RowsKeepTheirFiles == Spec => []RowsHaveFiles
<1>1. IInv => RowsHaveFiles
  BY DEF IInv, Data
<1> QED
  BY <1>1, Invariance, PTL

(* Others' steps leave a request alone or only disturb it. *)
LEMMA OthersGoOn ==
    ASSUME IInv, NEW c \in Clients, NEW d \in Clients \ {c},
           UploadStep(d) \/ RowStep(d) \/ DeleteStep(d) \/ AccountStep(d) \/ Crash(d)
    PROVE  req'[c] = req[c] \/ req'[c] = Disturbed(req[c])
<1>1. ASSUME NEW next, Commits(d, next) PROVE req'[c] = Disturbed(req[c])
  BY <1>1 DEF Commits
<1>2. ASSUME NEW next, req' = [req EXCEPT ![d] = next] PROVE req'[c] = req[c]
  BY <1>2 DEF IInv
<1>3. CASE UploadStep(d)
  <2>1. CASE \E u \in Users, k \in Kinds : Upload(d, u, k)
    BY <1>2, <2>1 DEF Upload, Begin
  <2>2. CASE PutOne(d)
    BY <2>2 DEF PutOne, IInv
  <2>3. CASE PutRefused(d) \/ RecordRefused(d)
    BY <1>2, <2>3 DEF PutRefused, RecordRefused, To
  <2>4. CASE Record(d)
    BY <1>1, <2>4 DEF Record
  <2>5. CASE CleanUp(d)
    BY <1>2, <2>5 DEF CleanUp, Removes
  <2> QED
    BY <1>3, <2>1, <2>2, <2>3, <2>4, <2>5 DEF UploadStep
<1>4. CASE RowStep(d)
  <2>1. CASE \E u \in Users : Detach(d, u) \/ Reconcile(d, u)
    BY <1>2, <2>1 DEF Detach, Reconcile, Begin
  <2>2. CASE DetachObject(d)
    BY <1>2, <2>2 DEF DetachObject, To, Ends
  <2>3. CASE DetachRow(d) \/ Purge(d)
    BY <1>1, <1>2, <2>3 DEF DetachRow, Purge, Ends
  <2>4. CASE Check(d)
    BY <2>4 DEF Check, IInv
  <2> QED
    BY <1>4, <2>1, <2>2, <2>3, <2>4 DEF RowStep
<1>5. CASE DeleteStep(d)
  <2>1. CASE (\E u \in Users, k \in Kinds : Delete(d, u, k)) \/ DeleteVehicle(d)
    BY <1>2, <2>1 DEF Delete, DeleteVehicle, Begin
  <2>2. CASE DeleteCommit(d)
    BY <1>1, <2>2 DEF DeleteCommit
  <2>3. CASE DeleteMissing(d) \/ Remove(d)
    BY <1>2, <2>3 DEF DeleteMissing, Remove, Removes, Ends
  <2> QED
    BY <1>5, <2>1, <2>2, <2>3 DEF DeleteStep
<1>6. CASE AccountStep(d)
  <2>1. CASE \E u \in Users : Plan(d, u)
    BY <1>2, <2>1 DEF Plan, Begin
  <2>2. CASE Close(d)
    BY <1>1, <2>2 DEF Close
  <2>3. CASE CloseMissing(d) \/ Clear(d) \/ Sweep(d)
    BY <1>2, <2>3 DEF CloseMissing, Clear, Sweep, Removes, Ends
  <2>4. CASE List(d) \/ Match(d)
    BY <2>4 DEF List, Match, IInv
  <2> QED
    BY <1>6, <2>1, <2>2, <2>3, <2>4 DEF AccountStep
<1>7. CASE Crash(d)
  BY <1>2, <1>7 DEF Crash, Ends
<1> QED
  BY <1>3, <1>4, <1>5, <1>6, <1>7

(* Reconciling takes no row whose file is there, however long ago it was   *)
(* looked for: a file once missing is not put back                         *)
(* (attachments.service.ts).                                               *)
THEOREM ReconcilingSpares == Spec => ReconcileSpares
<1> DEFINE Spares(c) == At(c, "purge") /\ rows' # rows /\ req'[c] = Idle
                          => (rows \ rows') \intersect stored = {}
<1>1. ASSUME IInv, [Next]_vars, NEW c \in Clients PROVE Spares(c)
  <2> SUFFICES ASSUME At(c, "purge"), rows' # rows, req'[c] = Idle
               PROVE  (rows \ rows') \intersect stored = {}
    OBVIOUS
  <2>1. req[c].pc = "purge" /\ req[c] # Idle /\ Sound(req[c])
    BY <1>1, AtStep
  <2>2. req[c].files \intersect stored = {}
    BY <2>1 DEF Sound
  <2>3. Next
    BY <1>1 DEF vars
  <2>4. ASSUME NEW g \in Guests, Join(g) \/ Leave(g) PROVE FALSE
    BY <2>4 DEF Join, Leave
  <2>5. Disturbed(req[c]) # Idle
    BY <1>1, <2>1, DisturbedAlike DEF Alike, IInv
  <2>6. UploadStep(c) \/ RowStep(c) \/ DeleteStep(c) \/ AccountStep(c) \/ Crash(c)
    BY <1>1, <2>1, <2>3, <2>4, <2>5, OthersGoOn DEF Next
  <2>7. Purge(c) \/ UNCHANGED rows
    BY <2>1, <2>6 DEF UploadStep, RowStep, DeleteStep, AccountStep, Crash,
       Upload, PutOne, PutRefused, Record, RecordRefused, CleanUp, Detach, Reconcile, DetachObject,
       DetachRow, Check, Delete, DeleteVehicle, DeleteCommit, DeleteMissing, Remove, Removes, Plan,
       Close, CloseMissing, Clear, List, Match, Sweep, Begin, At, data
  <2> QED
    BY <2>2, <2>7 DEF Purge
<1>2. IInv /\ [Next]_vars => [\A c \in Clients : Spares(c)]_vars
  BY <1>1
<1> QED
  BY <1>2, Invariance, PTL DEF Spec, ReconcileSpares

-----------------------------------------------------------------------------
(* Beyond the rows' own safety: what a deletion listed is still all that   *)
(* will fall, unless another commit came between; and every stored file    *)
(* without a row is accounted for.                                         *)
Complete(q) == q # Idle /\ q.alone =>
    /\ q.pc = "delete" => \A f \in OfKinds(Falls(q.of)) : f \in q.files \/ f.kind \in Gaps(q.of)
    /\ q.pc = "close" /\ q.by = Owner =>
         \A f \in rows : f \in q.files \/ f.kind \in Gaps(q.of)

Accounted == \A f \in stored \ rows : f \in astray \/ \E c \in Clients : f \in Pending(c)

FInv == IInv /\ Accounted /\ \A c \in Clients : Complete(req[c])

Step(c) == UploadStep(c) \/ RowStep(c) \/ DeleteStep(c) \/ AccountStep(c) \/ Crash(c)

LEMMA DisturbedIsNotAlone ==
    ASSUME NEW q \in Requests, q # Idle
    PROVE  Disturbed(q) # Idle /\ Disturbed(q).alone = FALSE
BY DEF Requests, Running, Disturbed, Idle

(* Rows only become more when everyone is disturbed. *)
LEMMA RowsShrink ==
    ASSUME IInv, NEW d \in Clients, Step(d)
    PROVE  \/ rows' \subseteq rows
           \/ \A c \in Clients \ {d} : req'[c] = Disturbed(req[c])
<1>1. CASE Record(d)
  BY <1>1 DEF Record, Commits
<1>2. CASE ~Record(d)
  BY <1>2 DEF Step, UploadStep, RowStep, DeleteStep, AccountStep, Crash,
     Upload, PutOne, PutRefused, RecordRefused, CleanUp, Detach, Reconcile, DetachObject,
     DetachRow, Check, Purge, Delete, DeleteVehicle, DeleteCommit, DeleteMissing, Remove, Removes,
     Plan, Close, CloseMissing, Clear, List, Match, Sweep, data
<1> QED
  BY <1>1, <1>2

LEMMA CompleteStays ==
    ASSUME FInv, NEW d \in Clients, Step(d), NEW c \in Clients \ {d}
    PROVE  Complete(req[c])'
<1> DEFINE q == req[c]
           p == req'[c]
<1>1. p = q \/ p = Disturbed(q)
  BY OthersGoOn DEF FInv, Step
<1>2. q \in Requests /\ Complete(q)
  BY DEF FInv, IInv
<1>3. CASE q = Idle
  BY <1>1, <1>3 DEF Complete, Disturbed
<1>4. CASE q # Idle /\ p = Disturbed(q)
  BY <1>2, <1>4, DisturbedIsNotAlone DEF Complete
<1>5. CASE q # Idle /\ p = q /\ p # Disturbed(q)
  <2>1. rows' \subseteq rows
    BY <1>5, RowsShrink DEF FInv
  <2> QED
    BY <1>2, <1>5, <2>1 DEF Complete, OfKinds
<1> QED
  BY <1>1, <1>3, <1>4, <1>5

LEMMA ListsAreComplete ==
    ASSUME NEW k \in Kinds
    PROVE  /\ Falls(k) \subseteq HolderLists(k) \union Gaps(k)
           /\ Falls("vehicle") \subseteq Listed \union Gaps("vehicle")
           /\ Kinds \subseteq AccountLists \union Gaps("account")
BY DEF Falls, HolderLists, Gaps, Listed, AccountLists, Kinds, Private

(* The requests that list do so completely. *)
LEMMA Listing ==
    ASSUME IInv, NEW c \in Clients, Step(c), req'[c] # Idle, req'[c].pc \in {"delete", "close"}
    PROVE  \/ \E u \in Users, k \in Kinds : Delete(c, u, k)
           \/ DeleteVehicle(c)
           \/ \E u \in Users : Plan(c, u)
<1>1. ASSUME NEW pc, pc \in Pcs \ {"delete", "close"}, req[c] \in Running, To(c, pc) PROVE FALSE
  BY <1>1, PcMoves
<1>2. ~Ends(c) /\ ~Commits(c, Idle)
  BY ReqEnds, ReqCommitsIdle
<1>3. ASSUME NEW next \in Requests, next = Idle \/ next.pc \in Pcs \ {"delete", "close"},
             req' = [req EXCEPT ![c] = next] \/ Commits(c, next)
      PROVE  FALSE
  BY <1>3, MovesAlone, MovesCommitting DEF IInv
<1>4. ASSUME NEW pc, pc \in Pcs, At(c, pc)
      PROVE  req[c] \in Running /\ req[c] \in Requests /\ req[c].pc = pc
  BY <1>4, AtStep, RunningIsNotIdle DEF Pcs
<1>5. ~UploadStep(c)
  <2>1. ASSUME NEW u \in Users, NEW k \in Kinds, Upload(c, u, k) PROVE FALSE
    BY <2>1 DEF Upload, Begin, Request, IInv
  <2>2. ~PutOne(c)
    <3> SUFFICES ASSUME PutOne(c) PROVE FALSE
      OBVIOUS
    <3>1. req[c] \in Running
      BY <1>4 DEF PutOne, Pcs
    <3> QED
      BY <3>1 DEF PutOne, IInv, Running
  <2>3. ~PutRefused(c) /\ ~RecordRefused(c)
    BY <1>1, <1>4 DEF PutRefused, RecordRefused, Pcs
  <2>4. ~Record(c)
    BY <1>2 DEF Record
  <2>5. ~CleanUp(c)
    BY <1>2 DEF CleanUp, Removes, Ends
  <2> QED
    BY <2>1, <2>2, <2>3, <2>4, <2>5 DEF UploadStep
<1>6. ~RowStep(c)
  <2>1. ASSUME NEW u \in Users, Detach(c, u) \/ Reconcile(c, u) PROVE FALSE
    BY <2>1 DEF Detach, Reconcile, Begin, Request, IInv
  <2>2. ~DetachObject(c)
    BY <1>1, <1>2, <1>4 DEF DetachObject, Pcs
  <2>3. ~DetachRow(c) /\ ~Purge(c)
    BY <1>2 DEF DetachRow, Purge
  <2>4. ~Check(c)
    <3> SUFFICES ASSUME Check(c) PROVE FALSE
      OBVIOUS
    <3>1. req[c] \in Running
      BY <1>4 DEF Check, Pcs
    <3> QED
      BY <3>1 DEF Check, IInv, Running
  <2> QED
    BY <2>1, <2>2, <2>3, <2>4 DEF RowStep
<1>7. ~DeleteCommit(c) /\ ~DeleteMissing(c) /\ ~Remove(c)
  <2>1. ~DeleteCommit(c)
    <3> SUFFICES ASSUME DeleteCommit(c) PROVE FALSE
      OBVIOUS
    <3>1. req[c] \in Running
      BY <1>4 DEF DeleteCommit, Pcs
    <3> QED
      BY <3>1 DEF DeleteCommit, Commits, Running
  <2> QED
    BY <1>2, <2>1 DEF DeleteMissing, Remove, Removes, Ends
<1>8. ~Close(c) /\ ~CloseMissing(c) /\ ~Clear(c) /\ ~List(c) /\ ~Match(c) /\ ~Sweep(c)
  <2>1. ~Close(c)
    <3> SUFFICES ASSUME Close(c) PROVE FALSE
      OBVIOUS
    <3>1. req[c] \in Running
      BY <1>4 DEF Close, Pcs
    <3> QED
      BY <3>1 DEF Close, Commits, Running
  <2>2. ~Clear(c) /\ ~List(c) /\ ~Match(c)
    <3> SUFFICES ASSUME Clear(c) \/ List(c) \/ Match(c) PROVE FALSE
      OBVIOUS
    <3>1. req[c] \in Running
      BY <1>4 DEF Clear, List, Match, Pcs
    <3> QED
      BY <3>1 DEF Clear, List, Match, Removes, IInv, Running
  <2> QED
    BY <1>2, <2>1, <2>2 DEF CloseMissing, Sweep, Removes, Ends
<1>9. ~Crash(c)
  BY <1>2 DEF Crash
<1> QED
  BY <1>5, <1>6, <1>7, <1>8, <1>9 DEF Step, DeleteStep, AccountStep

LEMMA CompleteMade ==
    ASSUME FInv, NEW c \in Clients, Step(c)
    PROVE  Complete(req[c])'
<1> SUFFICES ASSUME req'[c] # Idle, req'[c].pc \in {"delete", "close"}
             PROVE  Complete(req[c])'
  BY DEF Complete
<1>1. CASE \E u \in Users, k \in Kinds : Delete(c, u, k)
  <2>1. PICK u \in Users, k \in Kinds : Delete(c, u, k)
    BY <1>1
  <2>2. /\ req'[c].pc = "delete" /\ req'[c].of = k /\ req'[c].files = OfKinds(HolderLists(k))
        /\ rows' = rows
    BY <2>1 DEF Delete, Begin, Request, FInv, IInv, data
  <2> QED
    BY <2>2, ListsAreComplete DEF Complete, OfKinds
<1>2. CASE DeleteVehicle(c)
  <2>1. /\ req'[c].pc = "delete" /\ req'[c].of = "vehicle" /\ req'[c].files = OfKinds(Listed)
        /\ rows' = rows
    BY <1>2 DEF DeleteVehicle, Begin, Request, FInv, IInv, data
  <2>2. "claim" \in Kinds
    BY DEF Kinds
  <2> QED
    BY <2>1, <2>2, ListsAreComplete DEF Complete, OfKinds
<1>3. CASE \E u \in Users : Plan(c, u)
  <2>1. PICK u \in Users : Plan(c, u)
    BY <1>3
  <2>2. /\ req'[c].pc = "close" /\ req'[c].by = u /\ req'[c].of = "account"
        /\ u = Owner => req'[c].files = OfKinds(AccountLists)
        /\ rows' = rows
    BY <2>1 DEF Plan, Begin, Request, FInv, IInv, data
  <2>3. \A f \in rows : f.kind \in Kinds
    BY FileKinds DEF FInv, IInv, Data
  <2> QED
    BY <2>2, <2>3, ListsAreComplete DEF Complete, OfKinds
<1> QED
  BY <1>1, <1>2, <1>3, Listing DEF FInv

(* Nothing becomes unaccounted for that was, if the step's own request     *)
(* accounts for what it had in hand.                                       *)
Settles(c) == \A f \in stored' \ rows' :
    \/ f \in astray' \/ f \in Pending(c)'
    \/ f \in stored \ rows /\ f \notin Pending(c) /\ (f \in astray => f \in astray')

LEMMA PendingOf ==
    ASSUME NEW c \in Clients
    PROVE  /\ req[c].pc \in {"put", "record", "tidy", "remove", "sweep", "match"} =>
                Pending(c) = req[c].files
           /\ req[c].pc = "clear" => Pending(c) = req[c].files \union Under(req[c].by)
           /\ req[c].pc = "list" => Pending(c) = Under(req[c].by)
           /\ req[c].pc \notin {"put", "record", "tidy", "remove", "sweep", "match", "clear", "list"} =>
                Pending(c) = {}
BY DEF Pending

LEMMA PendingAfter ==
    ASSUME NEW c \in Clients
    PROVE  /\ req'[c].pc \in {"put", "record", "tidy", "remove", "sweep", "match"} =>
                Pending(c)' = req'[c].files
           /\ req'[c].pc = "clear" => Pending(c)' = req'[c].files \union Under(req'[c].by)
           /\ req'[c].pc = "list" => Pending(c)' = Under(req'[c].by)
           /\ req'[c].pc \notin {"put", "record", "tidy", "remove", "sweep", "match", "clear", "list"} =>
                Pending(c)' = {}
BY DEF Pending, Under

LEMMA OthersPending ==
    ASSUME IInv, NEW d \in Clients, Step(d), NEW c \in Clients \ {d}
    PROVE  Pending(c)' = Pending(c)
<1>1. req'[c] = req[c] \/ req'[c] = Disturbed(req[c])
  BY OthersGoOn DEF Step
<1>2. req[c] \in Requests
  BY DEF IInv
<1>3. Alike(req[c], req'[c])
  BY <1>1, <1>2, DisturbedAlike DEF Alike
<1>4. CASE req[c] = Idle
  <2>1. req'[c] = Idle
    BY <1>3, <1>4 DEF Alike
  <2>2. req[c].pc = "idle" /\ req'[c].pc = "idle"
    BY <1>4, <2>1 DEF Idle
  <2> QED
    BY <2>2, PendingOf, PendingAfter
<1>5. CASE req[c] # Idle
  <2>1. req'[c].pc = req[c].pc /\ req'[c].by = req[c].by /\ req'[c].files = req[c].files
    BY <1>3, <1>5 DEF Alike
  <2> QED
    BY <2>1 DEF Pending, Under
<1> QED
  BY <1>4, <1>5

LEMMA AccountedKept ==
    ASSUME FInv, NEW d \in Clients, Step(d), Settles(d)
    PROVE  Accounted'
<1> SUFFICES ASSUME NEW f \in stored' \ rows', f \notin astray'
             PROVE  \E c \in Clients : f \in Pending(c)'
  BY DEF Accounted
<1>1. CASE f \in Pending(d)'
  BY <1>1
<1>2. CASE f \in stored \ rows /\ f \notin Pending(d) /\ f \notin astray
  <2>1. PICK c \in Clients : f \in Pending(c)
    BY <1>2 DEF FInv, Accounted
  <2> QED
    BY <1>2, <2>1, OthersPending DEF FInv
<1> QED
  BY <1>1, <1>2 DEF Settles

LEMMA QuietSettles ==
    ASSUME NEW c \in Clients, stored' \ rows' \subseteq stored \ rows, astray \subseteq astray',
           Pending(c) \subseteq Pending(c)' \union astray'
    PROVE  Settles(c)
BY DEF Settles

LEMMA NothingPending ==
    ASSUME NEW c \in Clients,
           req[c] = Idle \/ req[c].pc \in {"object", "row", "check", "purge", "delete", "close"}
    PROVE  Pending(c) = {}
<1>1. req[c].pc \in {"idle", "object", "row", "check", "purge", "delete", "close"}
  BY DEF Idle
<1> QED
  BY <1>1, PendingOf

LEMMA BeginningsSettle ==
    ASSUME NEW c \in Clients, req[c] = Idle, UNCHANGED <<stored, rows, astray>>
    PROVE  Settles(c)
BY NothingPending, QuietSettles

LEMMA UploadStepsSettle ==
    ASSUME FInv, NEW c \in Clients, UploadStep(c)
    PROVE  Settles(c)
<1> DEFINE q == req[c]
<1>1. ASSUME NEW u \in Users, NEW k \in Kinds, Upload(c, u, k) PROVE Settles(c)
  BY <1>1, BeginningsSettle DEF Upload, Begin
<1>2. CASE PutOne(c)
  <2>1. q \in Running /\ q.pc = "put"
    BY <1>2, AtStep DEF PutOne, FInv
  <2>2. PICK f \in q.left :
          /\ stored' = stored \union {f}
          /\ req' = [req EXCEPT ![c].files = @ \union {f}, ![c].left = @ \ {f},
                                ![c].pc = IF req[c].left = {f} THEN "record" ELSE "put"]
    BY <1>2 DEF PutOne
  <2>3. req'[c].pc \in {"put", "record"} /\ req'[c].files = q.files \union {f}
    BY <2>1, <2>2 DEF FInv, IInv, Running
  <2>4. Pending(c)' = q.files \union {f} /\ Pending(c) = q.files
    BY <2>1, <2>3, PendingOf, PendingAfter
  <2>5. rows' = rows /\ astray' = astray
    BY <1>2 DEF PutOne
  <2> QED
    BY <2>2, <2>4, <2>5 DEF Settles
<1>3. CASE PutRefused(c)
  <2>1. q \in Running /\ q.pc = "put" /\ "tidy" \in Pcs
    BY <1>3, AtStep DEF PutRefused, FInv, Pcs
  <2>2. req'[c].pc = "tidy" /\ req'[c].files = q.files
    BY <1>3, <2>1, PcMoves DEF PutRefused, FInv
  <2>3. Pending(c)' = Pending(c)
    BY <2>1, <2>2, PendingOf, PendingAfter
  <2> QED
    BY <1>3, <2>3 DEF PutRefused, Settles
<1>4. CASE Record(c)
  <2>1. q.pc = "record"
    BY <1>4 DEF Record, At
  <2>2. Pending(c) = q.files
    BY <2>1, PendingOf
  <2> QED
    BY <1>4, <2>2 DEF Record, Settles
<1>5. CASE RecordRefused(c)
  <2>1. q \in Running /\ q.pc = "record" /\ "tidy" \in Pcs
    BY <1>5, AtStep DEF RecordRefused, FInv, Pcs
  <2>2. req'[c].pc = "tidy" /\ req'[c].files = q.files
    BY <1>5, <2>1, PcMoves DEF RecordRefused, FInv
  <2>3. Pending(c)' = Pending(c)
    BY <2>1, <2>2, PendingOf, PendingAfter
  <2> QED
    BY <1>5, <2>3, QuietSettles DEF RecordRefused, data, history
<1>6. CASE CleanUp(c)
  <2>1. Pending(c) = q.files
    BY <1>6, PendingOf DEF CleanUp, At
  <2> QED
    BY <1>6, <2>1 DEF CleanUp, Removes, Doomed, Settles
<1> QED
  BY <1>1, <1>2, <1>3, <1>4, <1>5, <1>6 DEF UploadStep

LEMMA RowStepsSettle ==
    ASSUME FInv, NEW c \in Clients, RowStep(c)
    PROVE  Settles(c)
<1>1. ASSUME NEW u \in Users, Detach(c, u) \/ Reconcile(c, u) PROVE Settles(c)
  BY <1>1, BeginningsSettle DEF Detach, Reconcile, Begin, data, history
<1>2. CASE DetachObject(c) \/ Check(c)
  <2>1. Pending(c) = {}
    BY <1>2, NothingPending DEF DetachObject, Check, At
  <2>2. stored' \ rows' \subseteq stored \ rows /\ astray' = astray
    BY <1>2 DEF DetachObject, Check, data, history
  <2> QED
    BY <2>1, <2>2, QuietSettles
<1>3. CASE DetachRow(c) \/ Purge(c)
  <2>1. req[c].pc \in {"row", "purge"}
    BY <1>3 DEF DetachRow, Purge, At
  <2>2. Sound(req[c]) /\ req[c] # Idle
    BY <2>1 DEF FInv, IInv, Idle
  <2>3. Pending(c) = {} /\ req[c].files \intersect stored = {}
    BY <2>1, <2>2, NothingPending DEF Sound
  <2>4. stored' \ rows' \subseteq stored \ rows /\ astray' = astray
    BY <1>3, <2>3 DEF DetachRow, Purge, history
  <2> QED
    BY <2>3, <2>4, QuietSettles
<1> QED
  BY <1>1, <1>2, <1>3 DEF RowStep

LEMMA DeleteStepsSettle ==
    ASSUME FInv, NEW c \in Clients, DeleteStep(c)
    PROVE  Settles(c)
<1> DEFINE q == req[c]
<1>1. CASE (\E u \in Users, k \in Kinds : Delete(c, u, k)) \/ DeleteVehicle(c)
  BY <1>1, BeginningsSettle DEF Delete, DeleteVehicle, Begin, data, history
<1>2. CASE DeleteCommit(c)
  <2>1. q \in Running /\ q # Idle /\ q.pc = "delete"
    BY <1>2, AtStep DEF DeleteCommit, FInv
  <2>2. /\ rows' = rows \ OfKinds(Falls(q.of)) /\ stored' = stored
        /\ Strays(c, OfKinds(Falls(q.of)))
    BY <1>2 DEF DeleteCommit
  <2>3. req'[c].pc = "remove" /\ req'[c].files = q.files
    BY <1>2, <2>1 DEF DeleteCommit, Commits, Running
  <2>4. Pending(c)' = q.files /\ Pending(c) = {}
    BY <2>1, <2>3, NothingPending, PendingAfter
  <2>5. \A f \in OfKinds(Falls(q.of)) : f \in q.files \/ f \in astray'
    BY <2>1, <2>2 DEF Strays, FInv, Complete
  <2>6. astray \subseteq astray'
    BY <2>2 DEF Strays
  <2> QED
    BY <2>2, <2>4, <2>5, <2>6 DEF Settles
<1>3. CASE DeleteMissing(c)
  BY <1>3, NothingPending, QuietSettles DEF DeleteMissing, At, data, history
<1>4. CASE Remove(c)
  <2>1. Pending(c) = q.files
    BY <1>4, PendingOf DEF Remove, At
  <2> QED
    BY <1>4, <2>1 DEF Remove, Removes, Doomed, Settles
<1> QED
  BY <1>1, <1>2, <1>3, <1>4 DEF DeleteStep

LEMMA AccountStepsSettle ==
    ASSUME FInv, NEW c \in Clients, AccountStep(c)
    PROVE  Settles(c)
<1> DEFINE q == req[c]
<1>1. CASE \E u \in Users : Plan(c, u)
  BY <1>1, BeginningsSettle DEF Plan, Begin, data, history
<1>2. CASE Close(c)
  <2>1. q \in Running /\ q # Idle /\ q.pc = "close"
    BY <1>2, AtStep DEF Close, FInv
  <2>2. req'[c].pc = "clear" /\ req'[c].files = q.files /\ req'[c].by = q.by
    BY <1>2, <2>1 DEF Close, Commits, Running
  <2>3. q.files \subseteq Pending(c)' /\ Pending(c) = {}
    BY <2>1, <2>2, NothingPending, PendingAfter
  <2>4. CASE q.by = Owner
    <3>1. rows' = {} /\ Strays(c, rows) /\ stored' = stored
      BY <1>2, <2>4 DEF Close
    <3>2. \A f \in rows : f \in q.files \/ f \in astray'
      BY <2>1, <2>4, <3>1 DEF Strays, FInv, Complete
    <3>3. astray \subseteq astray'
      BY <3>1 DEF Strays
    <3> QED
      BY <2>3, <3>1, <3>2, <3>3 DEF Settles
  <2>5. CASE q.by # Owner
    BY <1>2, <2>3, <2>5, QuietSettles DEF Close
  <2> QED
    BY <2>4, <2>5
<1>3. CASE CloseMissing(c)
  BY <1>3, NothingPending, QuietSettles DEF CloseMissing, At, data, history
<1>4. CASE Clear(c)
  <2>1. q \in Running /\ q.pc = "clear"
    BY <1>4, AtStep DEF Clear, FInv
  <2>2. req'[c].pc = "list" /\ req'[c].by = q.by
    BY <1>4, <2>1 DEF Clear, Removes, FInv, IInv, Running
  <2>3. Pending(c) = q.files \union Under(q.by) /\ Pending(c)' = Under(q.by)
    BY <2>1, <2>2, PendingOf, PendingAfter DEF Under
  <2> QED
    BY <1>4, <2>3 DEF Clear, Removes, Doomed, Settles
<1>5. CASE List(c)
  <2>1. q \in Running /\ q.pc = "list"
    BY <1>5, AtStep DEF List, FInv
  <2>2. req'[c].pc = "match" /\ req'[c].files = stored \intersect Under(q.by)
    BY <1>5, <2>1 DEF List, FInv, IInv, Running
  <2>3. Pending(c) = Under(q.by) /\ Pending(c)' = stored \intersect Under(q.by)
    BY <2>1, <2>2, PendingOf, PendingAfter
  <2>4. astray' = astray \ Under(q.by) /\ stored' = stored /\ rows' = rows
    BY <1>5 DEF List, data
  <2> QED
    BY <2>3, <2>4 DEF Settles
<1>6. CASE Match(c)
  <2>1. q \in Running /\ q.pc = "match"
    BY <1>6, AtStep DEF Match, FInv
  <2>2. req'[c].pc = "sweep" /\ req'[c].files = q.files \ rows
    BY <1>6, <2>1 DEF Match, Unreferenced, FInv, IInv, Running
  <2>3. Pending(c) = q.files /\ Pending(c)' = q.files \ rows
    BY <2>1, <2>2, PendingOf, PendingAfter
  <2> QED
    BY <1>6, <2>3 DEF Match, Settles, data, history
<1>7. CASE Sweep(c)
  <2>1. Pending(c) = q.files
    BY <1>7, PendingOf DEF Sweep, At
  <2> QED
    BY <1>7, <2>1 DEF Sweep, Removes, Doomed, Settles
<1> QED
  BY <1>1, <1>2, <1>3, <1>4, <1>5, <1>6, <1>7 DEF AccountStep

LEMMA StepsSettle ==
    ASSUME FInv, NEW c \in Clients, Step(c)
    PROVE  Settles(c)
<1>1. CASE Crash(c)
  BY <1>1 DEF Crash, Settles, data
<1> QED
  BY <1>1, UploadStepsSettle, RowStepsSettle, DeleteStepsSettle, AccountStepsSettle DEF Step

(* Members' coming and going disturbs everyone and moves no file. *)
LEMMA MembersKeepAll ==
    ASSUME FInv, NEW g \in Guests, Join(g) \/ Leave(g)
    PROVE  Accounted' /\ \A c \in Clients : Complete(req[c])'
<1>1. /\ req' = [c \in Clients |-> Disturbed(req[c])]
      /\ UNCHANGED <<stored, rows, history>>
  BY DEF Join, Leave
<1>2. ASSUME NEW c \in Clients PROVE Complete(req[c])' /\ Pending(c)' = Pending(c)
  <2>1. req[c] \in Requests /\ req'[c] = Disturbed(req[c])
    BY <1>1 DEF FInv, IInv
  <2>2. CASE req[c] = Idle
    BY <2>1, <2>2 DEF Disturbed, Complete, Pending, Idle
  <2>3. CASE req[c] # Idle
    <3>1. /\ req'[c].pc = req[c].pc /\ req'[c].by = req[c].by /\ req'[c].files = req[c].files
          /\ req'[c].alone = FALSE
      BY <2>1, <2>3, DisturbedAlike, DisturbedIsNotAlone DEF Alike
    <3> QED
      BY <3>1 DEF Complete, Pending, Under
  <2> QED
    BY <2>2, <2>3
<1>3. Accounted'
  BY <1>1, <1>2 DEF Accounted, FInv, history
<1> QED
  BY <1>2, <1>3

LEMMA FullInvariance == Spec => []FInv
<1>1. Init => FInv
  BY InitHolds DEF Init, FInv, Accounted, Complete
<1>2. ASSUME FInv, Next, IInv' PROVE FInv'
  <2>1. ASSUME NEW d \in Clients, Step(d) PROVE FInv'
    <3>1. Accounted'
      BY <1>2, <2>1, StepsSettle, AccountedKept
    <3>2. \A c \in Clients : Complete(req[c])'
      BY <1>2, <2>1, CompleteStays, CompleteMade
    <3> QED
      BY <1>2, <3>1, <3>2 DEF FInv
  <2>2. ASSUME NEW g \in Guests, Join(g) \/ Leave(g) PROVE FInv'
    BY <1>2, <2>2, MembersKeepAll DEF FInv
  <2> QED
    BY <1>2, <2>1, <2>2 DEF Next, Step
<1>3. ASSUME FInv, UNCHANGED vars, IInv' PROVE FInv'
  BY <1>3 DEF FInv, Accounted, Complete, Pending, OfKinds, Under, vars
<1>4. FInv /\ [Next]_vars => FInv'
  BY <1>2, <1>3, NextKeeps, StutterKeeps DEF FInv
<1> QED
  BY <1>1, <1>4, PTL DEF Spec

(* No stored file is forgotten: without a row it is on its way in or out,  *)
(* or is among those a crash, a refusal, a race or a known gap left        *)
(* behind; and the sweep of a closed account looks for those too           *)
(* (attachments.service.ts, account-deletion.service.ts).                  *)
THEOREM FilesAccountedFor == Spec => []NoneForgotten
<1>1. FInv => NoneForgotten
  BY DEF FInv, Accounted, NoneForgotten
<1> QED
  BY <1>1, FullInvariance, PTL

=============================================================================
