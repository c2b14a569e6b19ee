-------------------------- MODULE WebSessionProofs --------------------------
(***************************************************************************)
(* The browser's session for any number of tabs, accounts, sign-ins and    *)
(* tokens.  The inductive invariant IInv follows the sessions the browser  *)
(* holds and the answers on their way to it: each is of a sign-in the      *)
(* server knows, under its account's name (Known), and no tab holds a      *)
(* token yet whose answer is still to be heard (NewTokens).  Calm adds     *)
(* what is so until requests cross, which is what ends a session wrongly   *)
(* or brings one back.                                                     *)
(***************************************************************************)
EXTENDS WebSession, TLAPS

Typed ==
    /\ server \in [Sids -> ServerRow \union {None}]
    /\ kept \in Session \union {None}
    /\ status \in [Tabs -> {"closed", "loading", "authenticated", "anonymous"}]
    /\ session \in [Tabs -> Session \union {None}] /\ opened \in [Tabs -> Session \union {None}]
    /\ armed \in [Tabs -> BOOLEAN] /\ call \in [Tabs -> APICall \union {None}]
    /\ flight \in [Tabs -> [Kinds -> Refresh \union {None}]]
    /\ revokes \subseteq Tokens /\ dead \subseteq Tokens /\ lost \in 0..MaxLost /\ crossed \in BOOLEAN

(* TypeOK's part about one tab. *)
InOrder(t) ==
    /\ status[t] \in {"closed", "anonymous"} <=> session[t] = None
    /\ status[t] = "authenticated" => armed[t] \/ Out(t, "timer")
    /\ status[t] = "loading" => Out(t, "boot") \/ call[t] # None
    /\ Out(t, "call") <=> call[t] # None /\ call[t].waiting

(* A refresh without a token is rejected; one with a token answers for it. *)
Asked(t) == \A k \in Kinds : Out(t, k) =>
    /\ flight[t][k].token = None => flight[t][k].answer = Rejected
    /\ flight[t][k].token # None => flight[t][k].token.n < MaxN
    /\ flight[t][k].answer \in Session => flight[t][k].answer.sid = flight[t][k].token.sid

(* What a tab does while closed, and while it restores its session. *)
Restores(t) ==
    /\ status[t] = "closed" => ~armed[t] /\ call[t] = None /\ \A k \in Kinds : ~Out(t, k)
    /\ status[t] = "loading" =>
         /\ ~armed[t] /\ ~Out(t, "timer") /\ opened[t] = session[t]
         /\ call[t] # None => call[t].why = "boot" /\ ~call[t].again
    /\ Out(t, "boot") => status[t] = "loading" /\ call[t] = None
    /\ Restoring(t) =>
        /\ opened[t] # None /\ call[t].used # None /\ call[t].used.sid = opened[t].sid
        /\ ~call[t].again => status[t] = "loading"
        /\ call[t].waiting =>
             /\ ~call[t].again /\ flight[t]["call"].token # None
             /\ flight[t]["call"].token.sid = opened[t].sid

Here(t) == InOrder(t) /\ Asked(t) /\ Restores(t)

Known(s) == s # None =>
    Issued(s.sid) /\ s.user = server[s.sid].account /\ s.n <= server[s.sid].n
IssuedToken(k) == k # None => Issued(k.sid)
Answers(t, k) == Out(t, k) /\ flight[t][k].answer \in Session

KnownAll ==
    /\ Known(kept)
    /\ \A t \in Tabs : Known(session[t]) /\ Known(opened[t])
    /\ \A t \in Tabs : call[t] # None => IssuedToken(call[t].used)
    /\ \A t \in Tabs, k \in Kinds : Out(t, k) => IssuedToken(flight[t][k].token)
    /\ \A t \in Tabs, k \in Kinds : Answers(t, k) => Known(flight[t][k].answer)

SameToken(r, s) == r # None /\ r.sid = s.sid /\ r.n = s.n
NewTokens == \A t \in Tabs, k \in Kinds : Answers(t, k) =>
    /\ ~SameToken(kept, flight[t][k].answer)
    /\ \A u \in Tabs : /\ ~SameToken(session[u], flight[t][k].answer)
                       /\ ~SameToken(opened[u], flight[t][k].answer)
    /\ \A u \in Tabs, j \in Kinds :
         Answers(u, j) /\ SameToken(flight[u][j].answer, flight[t][k].answer) => u = t /\ j = k

Books == KnownAll /\ NewTokens

IInv == Typed /\ Books /\ \A t \in Tabs : Here(t)

-----------------------------------------------------------------------------
LEMMA IInvTypeOK == IInv => TypeOK
BY DEF IInv, Typed, Here, InOrder, Books, KnownAll, Known, TypeOK

LEMMA IInvShows == IInv => ShowsItsOwnUser
BY DEF IInv, Books, KnownAll, Known, ShowsItsOwnUser

LEMMA InitIInv == Init => IInv
<1> SUFFICES ASSUME Init PROVE IInv
  OBVIOUS
<1>1. Typed
  <2>1. lost \in 0..MaxLost
    BY WebSessionAssumption DEF Init
  <2>2. flight \in [Tabs -> [Kinds -> Refresh \union {None}]]
    BY DEF Init
  <2>3. armed \in [Tabs -> BOOLEAN] /\ crossed \in BOOLEAN
    BY DEF Init
  <2> QED
    BY <2>1, <2>2, <2>3 DEF Init, Typed
<1>2. \A t \in Tabs, k \in Kinds : ~Out(t, k)
  BY DEF Init, Out
<1>3. Books
  BY <1>2 DEF Init, Books, KnownAll, Known, NewTokens, Answers
<1>4. \A t \in Tabs : Here(t)
  BY <1>2 DEF Init, Here, InOrder, Asked, Restores, Restoring, Kinds
<1> QED
  BY <1>1, <1>3, <1>4 DEF IInv

LEMMA SessionRow ==
    ASSUME NEW s \in Session
    PROVE  /\ s # None /\ s \notin {Rejected, Unreachable}
           /\ s.sid \in Sids /\ s.n \in 1..MaxN /\ s.user \in Accounts
           /\ TokenOf(s) \in Tokens /\ TokenOf(s) # None
           /\ TokenOf(s).sid = s.sid /\ TokenOf(s).n = s.n
BY WebSessionMarkers DEF Session, TokenOf, Tokens

(* A tab that a step leaves alone. *)
Same(u) ==
    /\ status'[u] = status[u] /\ session'[u] = session[u] /\ opened'[u] = opened[u]
    /\ armed'[u] = armed[u] /\ call'[u] = call[u] /\ flight'[u] = flight[u]

LEMMA SameHere ==
    ASSUME NEW u \in Tabs, Here(u), Same(u)
    PROVE  Here(u)'
BY DEF Here, Same, InOrder, Asked, Restores, Restoring, Out

(* The server keeps what it has issued. *)
ServerKeeps == \A sid \in Sids : Issued(sid) =>
    Issued(sid)' /\ server'[sid].account = server[sid].account /\ server'[sid].n >= server[sid].n

LEMMA KnownStays ==
    ASSUME Typed, Typed', ServerKeeps
    PROVE  /\ \A s \in Session \union {None} : Known(s) => Known(s)'
           /\ \A k \in Tokens \union {None} : IssuedToken(k) => IssuedToken(k)'
<1>1. ASSUME NEW s \in Session, Known(s) PROVE Known(s)'
  <2>1. s.sid \in Sids /\ s.n \in Nat /\ s # None
    BY WebSessionMarkers DEF Session
  <2>2. Issued(s.sid) /\ server[s.sid] \in ServerRow /\ server'[s.sid] \in ServerRow
    BY <1>1, <2>1 DEF Known, Typed, Issued, ServerKeeps
  <2>3. server[s.sid].n \in Nat /\ server'[s.sid].n \in Nat
    BY <2>2, WebSessionAssumption DEF ServerRow
  <2> QED
    BY <1>1, <2>1, <2>2, <2>3 DEF Known, ServerKeeps
<1>2. ASSUME NEW k \in Tokens, IssuedToken(k) PROVE IssuedToken(k)'
  BY <1>2, WebSessionMarkers DEF Tokens, IssuedToken, ServerKeeps
<1>3. Known(None)' /\ IssuedToken(None)'
  BY DEF Known, IssuedToken
<1> QED
  BY <1>1, <1>2, <1>3

LEMMA FlightTypes ==
    ASSUME Typed, NEW t \in Tabs, NEW k \in Kinds, Out(t, k)
    PROVE  /\ flight[t][k] \in Refresh
           /\ flight[t][k].token \in Tokens \union {None}
           /\ flight[t][k].answer \in Session \union {None, Rejected, Unreachable}
BY DEF Typed, Out, Refresh

(* What the tab t comes to hold, and what becomes of its requests: of what *)
(* it had, of what is stored, of the answer it hears, or of a new sign-in. *)
Granted(s) ==
    /\ s # None /\ ~Issued(s.sid) /\ server'[s.sid] # None
    /\ s.user = server'[s.sid].account /\ s.n <= server'[s.sid].n

Keeps(s, t, k) ==
    \/ s \in {None, kept, session[t], opened[t]}
    \/ Answers(t, k) /\ ~Answers(t, k)' /\ s = flight[t][k].answer
    \/ Granted(s)

LEMMA BooksKeep ==
    ASSUME IInv, Typed', ServerKeeps, NEW t \in Tabs, NEW k \in Kinds,
           \A u \in Tabs \ {t} : Same(u),
           kept' = kept \/ Keeps(kept', t, k), Keeps(session'[t], t, k), Keeps(opened'[t], t, k),
           \A j \in Kinds : Out(t, j)' =>
               /\ IssuedToken(flight'[t][j].token)
               /\ flight'[t][j].answer \in Session =>
                    Answers(t, j) /\ flight'[t][j].answer = flight[t][j].answer,
           call'[t] # None => IssuedToken(call'[t].used)
    PROVE  Books'
<1>1. Typed /\ KnownAll /\ NewTokens
  BY DEF IInv, Books
<1>2. \A u \in Tabs, j \in Kinds : Answers(u, j)' =>
        Answers(u, j) /\ flight'[u][j].answer = flight[u][j].answer
  BY DEF Same, Answers, Out
<1>3. ASSUME NEW s, Keeps(s, t, k), s = None \/ Issued(s.sid)
      PROVE  s \in Session \union {None} /\ Known(s)
  BY <1>1, <1>3 DEF Keeps, Granted, KnownAll, Known, Typed, Answers
<1>4. ASSUME NEW s, Keeps(s, t, k) PROVE Known(s)'
  <2>1. CASE s = None \/ Issued(s.sid)
    BY <1>1, <1>3, <1>4, <2>1, KnownStays
  <2>2. CASE s # None /\ ~Issued(s.sid)
    <3>1. \A r \in {kept, session[t], opened[t]} : Known(r)
      BY <1>1 DEF KnownAll
    <3>2. Answers(t, k) => Known(flight[t][k].answer) /\ flight[t][k].answer # None
      BY <1>1, SessionRow DEF KnownAll, Answers
    <3> QED
      BY <1>4, <2>2, <3>1, <3>2 DEF Keeps, Granted, Known, Issued
  <2> QED
    BY <2>1, <2>2
<1>5. KnownAll'
  <2>1. Known(kept)'
    <3>1. CASE kept' = kept
      BY <1>1, <3>1, KnownStays DEF KnownAll, Typed
    <3>2. CASE Keeps(kept', t, k)
      <4>1. \A s : s = kept' => Known(s)'
        BY <1>4, <3>2
      <4> QED
        BY <4>1 DEF Known
    <3> QED
      BY <3>1, <3>2
  <2>2. \A u \in Tabs : Known(session[u])' /\ Known(opened[u])'
    BY <1>1, <1>4, KnownStays DEF KnownAll, Typed, Same
  <2>3. \A j \in Kinds : Out(t, j)' => IssuedToken(flight[t][j].token)'
    <3> SUFFICES ASSUME NEW j \in Kinds, Out(t, j)' PROVE IssuedToken(flight[t][j].token)'
      OBVIOUS
    <3>1. flight'[t][j].token \in Tokens \union {None}
      BY DEF Typed, Out, Refresh
    <3> QED
      BY <1>1, <3>1, KnownStays
  <2>4. \A u \in Tabs \ {t}, j \in Kinds : Out(u, j)' => IssuedToken(flight[u][j].token)'
    <3> SUFFICES ASSUME NEW u \in Tabs \ {t}, NEW j \in Kinds, Out(u, j)'
                 PROVE  IssuedToken(flight[u][j].token)'
      OBVIOUS
    <3>1. Out(u, j) /\ flight'[u][j] = flight[u][j]
      BY DEF Same, Out
    <3> QED
      BY <1>1, <3>1, FlightTypes, KnownStays DEF KnownAll
  <2>5. \A u \in Tabs : call'[u] # None => IssuedToken(call[u].used)'
    <3> SUFFICES ASSUME NEW u \in Tabs, call'[u] # None PROVE IssuedToken(call[u].used)'
      OBVIOUS
    <3>1. call'[u].used \in Tokens \union {None}
      BY DEF Typed, APICall
    <3>2. IssuedToken(call'[u].used)
      BY <1>1 DEF Same, KnownAll
    <3> QED
      BY <1>1, <3>1, <3>2, KnownStays
  <2>6. \A u \in Tabs, j \in Kinds : Answers(u, j)' => Known(flight[u][j].answer)'
    BY <1>1, <1>2, KnownStays DEF KnownAll, Answers
  <2> QED
    BY <2>1, <2>2, <2>3, <2>4, <2>5, <2>6 DEF KnownAll
<1>6. ASSUME NEW s, Keeps(s, t, k), NEW u \in Tabs, NEW j \in Kinds, Answers(u, j)'
      PROVE  ~SameToken(s, flight[u][j].answer)'
  <2>1. Answers(u, j) /\ flight'[u][j].answer = flight[u][j].answer
    BY <1>2, <1>6
  <2>2. CASE s \in {None, kept, session[t], opened[t]}
    BY <1>1, <2>1, <2>2 DEF NewTokens, SameToken
  <2>3. CASE Answers(t, k) /\ ~Answers(t, k)' /\ s = flight[t][k].answer
    BY <1>1, <1>6, <2>1, <2>3 DEF NewTokens, SameToken
  <2>4. CASE s # None /\ ~Issued(s.sid)
    <3>1. Known(flight[u][j].answer) /\ flight[u][j].answer # None
      BY <1>1, <2>1, SessionRow DEF KnownAll, Answers
    <3> QED
      BY <2>1, <2>4, <3>1 DEF SameToken, Known
  <2> QED
    BY <1>6, <2>2, <2>3, <2>4 DEF Keeps, Granted
<1>7. NewTokens'
  <2> SUFFICES ASSUME NEW u \in Tabs, NEW j \in Kinds, Answers(u, j)'
               PROVE  /\ ~SameToken(kept, flight[u][j].answer)'
                      /\ \A v \in Tabs : /\ ~SameToken(session[v], flight[u][j].answer)'
                                         /\ ~SameToken(opened[v], flight[u][j].answer)'
                      /\ \A v \in Tabs, i \in Kinds :
                           Answers(v, i)' /\ SameToken(flight[v][i].answer, flight[u][j].answer)'
                             => v = u /\ i = j
    BY DEF NewTokens
  <2>1. Answers(u, j) /\ flight'[u][j].answer = flight[u][j].answer
    BY <1>2
  <2>2. ~SameToken(kept, flight[u][j].answer)'
    BY <1>1, <1>6, <2>1 DEF NewTokens, SameToken
  <2>3. \A v \in Tabs : /\ ~SameToken(session[v], flight[u][j].answer)'
                        /\ ~SameToken(opened[v], flight[u][j].answer)'
    BY <1>1, <1>6, <2>1 DEF NewTokens, SameToken, Same
  <2>4. \A v \in Tabs, i \in Kinds :
          Answers(v, i)' /\ SameToken(flight[v][i].answer, flight[u][j].answer)' => v = u /\ i = j
    BY <1>1, <1>2, <2>1 DEF NewTokens, SameToken
  <2> QED
    BY <2>2, <2>3, <2>4
<1> QED
  BY <1>5, <1>7 DEF Books

-----------------------------------------------------------------------------
(* The steps of one tab. *)

LEMMA Closes ==
    ASSUME IInv, NEW t \in Tabs, \A u \in Tabs \ {t} : Same(u), Typed', Books', Here(t)'
    PROVE  IInv'
BY SameHere DEF IInv

LEMMA Parts ==
    ASSUME IInv, NEW t \in Tabs
    PROVE  /\ Typed /\ Here(t) /\ InOrder(t) /\ Asked(t) /\ Restores(t) /\ KnownAll /\ NewTokens
           /\ session[t] \in Session \union {None} /\ opened[t] \in Session \union {None}
           /\ call[t] \in APICall \union {None} /\ armed[t] \in BOOLEAN
BY DEF IInv, Here, Books, Typed

LEMMA TokenRow ==
    ASSUME NEW s \in Session \union {None}
    PROVE  /\ TokenOf(s) \in Tokens \union {None}
           /\ TokenOf(s) = None <=> s = None
BY SessionRow DEF TokenOf

LEMMA PersistDoes ==
    ASSUME Typed, NEW t \in Tabs, NEW s \in Session, Persist(t, s)
    PROVE  /\ kept' = s /\ session'[t] = s /\ status'[t] = "authenticated"
           /\ armed'[t] <=> armed[t] \/ status[t] # "authenticated" \/ TokenOf(session[t]) # TokenOf(s)
           /\ kept' \in Session \union {None}
           /\ session' \in [Tabs -> Session \union {None}] /\ armed' \in [Tabs -> BOOLEAN]
           /\ status' \in [Tabs -> {"closed", "loading", "authenticated", "anonymous"}]
           /\ \A u \in Tabs \ {t} :
                session'[u] = session[u] /\ status'[u] = status[u] /\ armed'[u] = armed[u]
<1>1. armed' = [armed EXCEPT ![t] =
                  armed[t] \/ status[t] # "authenticated" \/ TokenOf(session[t]) # TokenOf(s)]
  BY DEF Persist
<1>2. (armed[t] \/ status[t] # "authenticated" \/ TokenOf(session[t]) # TokenOf(s)) \in BOOLEAN
  BY DEF Typed
<1>3. armed' \in [Tabs -> BOOLEAN] /\ \A u \in Tabs \ {t} : armed'[u] = armed[u]
  BY <1>1, <1>2 DEF Typed
<1>4. armed'[t] <=> armed[t] \/ status[t] # "authenticated" \/ TokenOf(session[t]) # TokenOf(s)
  BY <1>1 DEF Typed
<1> QED
  BY <1>3, <1>4 DEF Persist, Typed

LEMMA ClearDoes ==
    ASSUME Typed, NEW t \in Tabs, ClearSession(t)
    PROVE  /\ kept' = None /\ session'[t] = None /\ status'[t] = "anonymous" /\ armed'[t] = FALSE
           /\ kept' \in Session \union {None}
           /\ session' \in [Tabs -> Session \union {None}] /\ armed' \in [Tabs -> BOOLEAN]
           /\ status' \in [Tabs -> {"closed", "loading", "authenticated", "anonymous"}]
           /\ \A u \in Tabs \ {t} :
                session'[u] = session[u] /\ status'[u] = status[u] /\ armed'[u] = armed[u]
BY DEF ClearSession, ClearStored, Typed

LEMMA HearsDoes ==
    ASSUME Typed, NEW t \in Tabs, NEW k \in Kinds, Hears(t, k)
    PROVE  /\ flight' \in [Tabs -> [Kinds -> Refresh \union {None}]]
           /\ flight'[t][k] = None /\ \A j \in Kinds \ {k} : flight'[t][j] = flight[t][j]
           /\ \A u \in Tabs \ {t} : flight'[u] = flight[u]
BY DEF Hears, Typed

LEMMA CallEndsDoes ==
    ASSUME Typed, NEW t \in Tabs, CallEnds(t)
    PROVE  /\ call' \in [Tabs -> APICall \union {None}] /\ opened' \in [Tabs -> Session \union {None}]
           /\ call'[t] = None /\ opened'[t] = None
           /\ \A u \in Tabs \ {t} : call'[u] = call[u] /\ opened'[u] = opened[u]
BY DEF CallEnds, Typed

LEMMA FlightIs ==
    ASSUME Typed, NEW t \in Tabs, MayAsk(t)
    PROVE  /\ Flight(t) \in Refresh /\ Flight(t) # None
           /\ Flight(t).token = TokenOf(session[t])
           /\ Flight(t).answer \in {None, Rejected}
           /\ Flight(t).token = None => Flight(t).answer = Rejected
           /\ Flight(t).token # None => Flight(t).token.n < MaxN /\ session[t] # None
<1>1. session[t] \in Session \union {None}
  BY DEF Typed
<1>2. /\ Flight(t) \in Refresh /\ Flight(t).token = TokenOf(session[t])
      /\ Flight(t).answer = IF session[t] = None THEN Rejected ELSE None
  BY <1>1, TokenRow DEF Flight, Refresh
<1>3. Flight(t) # None
  BY <1>2, WebSessionMarkers
<1> QED
  BY <1>1, <1>2, <1>3, TokenRow, SessionRow DEF MayAsk

LEMMA AskDoes ==
    ASSUME Typed, NEW t \in Tabs, NEW k \in Kinds, Ask(t, k)
    PROVE  /\ ~Out(t, k) /\ flight' \in [Tabs -> [Kinds -> Refresh \union {None}]]
           /\ flight'[t][k] = Flight(t) /\ \A j \in Kinds \ {k} : flight'[t][j] = flight[t][j]
           /\ \A u \in Tabs \ {t} : flight'[u] = flight[u]
           /\ crossed' \in BOOLEAN
BY FlightIs DEF Ask, Typed, Crosses

LEMMA ServerStays ==
    ASSUME Typed, server' = server
    PROVE  ServerKeeps
<1> SUFFICES ASSUME NEW sid \in Sids, Issued(sid)
             PROVE  Issued(sid)' /\ server'[sid].account = server[sid].account
                    /\ server'[sid].n >= server[sid].n
  BY DEF ServerKeeps
<1>1. server[sid] \in ServerRow
  BY DEF Typed, Issued
<1>2. server[sid].n \in Int
  BY <1>1, WebSessionAssumption DEF ServerRow
<1> QED
  BY <1>2 DEF Issued

LEMMA TimerAskKeeps ==
    ASSUME IInv, NEW t \in Tabs, TimerAsk(t)
    PROVE  IInv'
<1>1. /\ Typed /\ InOrder(t) /\ Asked(t) /\ Restores(t) /\ KnownAll
      /\ Ask(t, "timer") /\ armed[t]
      /\ UNCHANGED <<server, kept, status, session, opened, call, revokes, dead, lost>>
      /\ armed' = [armed EXCEPT ![t] = FALSE] /\ "timer" \in Kinds
  BY Parts DEF TimerAsk, Kinds
<1>2. Typed' /\ \A u \in Tabs \ {t} : Same(u)
  BY <1>1, AskDoes DEF Typed, Same
<1>3. armed'[t] = FALSE
  BY <1>1 DEF Typed
<1>4. /\ \A k \in Kinds \ {"timer"} : Out(t, k)' <=> Out(t, k)
      /\ Out(t, "timer")' /\ MayAsk(t)
  <2>1. MayAsk(t)
    BY <1>1 DEF Ask
  <2>2. flight'[t]["timer"] = Flight(t) /\ \A k \in Kinds \ {"timer"} : flight'[t][k] = flight[t][k]
    BY <1>1, AskDoes
  <2> QED
    BY <1>1, <2>1, <2>2, FlightIs DEF Out
<1>5. Here(t)'
  <2>1. InOrder(t)'
    BY <1>1, <1>4, AskDoes DEF InOrder, Kinds
  <2>2. Asked(t)'
    BY <1>1, <1>4, AskDoes, FlightIs, WebSessionMarkers DEF Asked
  <2>3. Restores(t)'
    BY <1>1, <1>3, <1>4, AskDoes DEF Restores, Restoring, Kinds
  <2> QED
    BY <2>1, <2>2, <2>3 DEF Here
<1>6. Books'
  <2>1. Keeps(session'[t], t, "timer") /\ Keeps(opened'[t], t, "timer")
    BY <1>1 DEF Keeps
  <2>2. ASSUME NEW j \in Kinds, Out(t, j)'
        PROVE  /\ IssuedToken(flight'[t][j].token)
               /\ flight'[t][j].answer \in Session =>
                    Answers(t, j) /\ flight'[t][j].answer = flight[t][j].answer
    <3>1. CASE j = "timer"
      <4>1. IssuedToken(TokenOf(session[t]))
        BY <1>1, SessionRow DEF KnownAll, Known, IssuedToken, TokenOf, Typed
      <4> QED
        BY <1>1, <1>4, <3>1, <4>1, AskDoes, FlightIs, WebSessionMarkers
    <3>2. CASE j # "timer"
      BY <1>1, <1>4, <2>2, <3>2, AskDoes DEF KnownAll, Answers
    <3> QED
      BY <3>1, <3>2
  <2>3. call'[t] # None => IssuedToken(call'[t].used)
    BY <1>1 DEF KnownAll
  <2> QED
    BY <1>1, <1>2, <2>1, <2>2, <2>3, BooksKeep, ServerStays
<1> QED
  BY <1>2, <1>5, <1>6, Closes

LEMMA TimerHearsKeeps ==
    ASSUME IInv, NEW t \in Tabs, TimerHears(t)
    PROVE  IInv'
<1>1. /\ Typed /\ InOrder(t) /\ Asked(t) /\ Restores(t) /\ KnownAll /\ NewTokens
      /\ Answered(t, "timer") /\ Hears(t, "timer") /\ "timer" \in Kinds
      /\ UNCHANGED <<server, opened, call, revokes, dead, lost, crossed>>
  BY Parts DEF TimerHears, Kinds
<1> DEFINE a == flight[t]["timer"].answer
<1>2. CASE Refreshed(t, "timer") /\ Persist(t, Answer(t, "timer"))
  <2>1. a \in Session /\ Answers(t, "timer") /\ Persist(t, a)
    BY <1>1, <1>2, FlightTypes DEF Refreshed, Answered, Answer, Fresh, Answers
  <2>2. TokenOf(session[t]) # TokenOf(a)
    <3>1. session[t] \in Session \union {None} /\ ~SameToken(session[t], a)
      BY <1>1, <2>1 DEF NewTokens, Typed
    <3>2. CASE session[t] = None
      BY <2>1, <3>2, SessionRow, TokenRow
    <3>3. CASE session[t] \in Session
      BY <2>1, <3>1, <3>3, SessionRow DEF SameToken
    <3> QED
      BY <3>1, <3>2, <3>3
  <2>3. Typed' /\ \A u \in Tabs \ {t} : Same(u)
    BY <1>1, <2>1, PersistDoes, HearsDoes DEF Typed, Same
  <2>4. session'[t] = a /\ kept' = a /\ status'[t] = "authenticated" /\ armed'[t]
    BY <1>1, <2>1, <2>2, PersistDoes
  <2>5. /\ ~Out(t, "timer")' /\ \A j \in Kinds \ {"timer"} : flight'[t][j] = flight[t][j]
    BY <1>1, HearsDoes DEF Out
  <2>6. status[t] # "loading" /\ status[t] # "closed"
    BY <1>1 DEF Restores, Answered
  <2>7. Here(t)'
    <3>1. InOrder(t)'
      BY <1>1, <2>1, <2>4, <2>5, SessionRow DEF InOrder, Out, Kinds
    <3>2. Asked(t)'
      BY <1>1, <2>5 DEF Asked, Out
    <3>3. Restores(t)'
      BY <1>1, <2>4, <2>5, <2>6 DEF Restores, Restoring, Out, Kinds
    <3> QED
      BY <3>1, <3>2, <3>3 DEF Here
  <2>8. Books'
    <3>1. Keeps(session'[t], t, "timer") /\ Keeps(opened'[t], t, "timer") /\ Keeps(kept', t, "timer")
      BY <1>1, <2>1, <2>4, <2>5 DEF Keeps, Answers
    <3>2. \A j \in Kinds : Out(t, j)' =>
               /\ IssuedToken(flight'[t][j].token)
               /\ flight'[t][j].answer \in Session =>
                    Answers(t, j) /\ flight'[t][j].answer = flight[t][j].answer
      BY <1>1, <2>5 DEF Out, KnownAll, Answers
    <3>3. call'[t] # None => IssuedToken(call'[t].used)
      BY <1>1 DEF KnownAll
    <3> QED
      BY <1>1, <2>3, <3>1, <3>2, <3>3, BooksKeep, ServerStays
  <2> QED
    BY <2>3, <2>7, <2>8, Closes
<1>3. CASE \/ Says(t, "timer", Rejected) /\ ClearSession(t)
           \/ /\ Says(t, "timer", Unreachable)
              /\ armed' = [armed EXCEPT ![t] = Retry(t)] /\ UNCHANGED <<kept, session, status>>
  <2>1. Typed' /\ \A u \in Tabs \ {t} : Same(u)
    BY <1>1, <1>3, ClearDoes, HearsDoes DEF Typed, Same, Retry
  <2>2. /\ \/ session'[t] = None /\ kept' = None /\ status'[t] = "anonymous"
           \/ UNCHANGED <<kept, session, status>> /\ armed'[t]
    BY <1>1, <1>3, ClearDoes DEF Typed, Retry
  <2>3. /\ ~Out(t, "timer")' /\ \A j \in Kinds \ {"timer"} : flight'[t][j] = flight[t][j]
    BY <1>1, HearsDoes DEF Out
  <2>4. status[t] # "loading" /\ status[t] # "closed"
    BY <1>1 DEF Restores, Answered
  <2>5. Here(t)'
    <3>1. InOrder(t)'
      BY <1>1, <2>2, <2>3, <2>4 DEF InOrder, Out, Kinds
    <3>2. Asked(t)'
      BY <1>1, <2>3 DEF Asked, Out
    <3>3. Restores(t)'
      BY <1>1, <2>2, <2>3, <2>4 DEF Restores, Restoring, Out, Kinds
    <3> QED
      BY <3>1, <3>2, <3>3 DEF Here
  <2>6. Books'
    <3>1. Keeps(session'[t], t, "timer") /\ Keeps(opened'[t], t, "timer") /\ Keeps(kept', t, "timer")
      BY <1>1, <2>2 DEF Keeps
    <3>2. \A j \in Kinds : Out(t, j)' =>
               /\ IssuedToken(flight'[t][j].token)
               /\ flight'[t][j].answer \in Session =>
                    Answers(t, j) /\ flight'[t][j].answer = flight[t][j].answer
      BY <1>1, <2>3 DEF Out, KnownAll, Answers
    <3>3. call'[t] # None => IssuedToken(call'[t].used)
      BY <1>1 DEF KnownAll
    <3> QED
      BY <1>1, <2>1, <3>1, <3>2, <3>3, BooksKeep, ServerStays
  <2> QED
    BY <2>1, <2>5, <2>6, Closes
<1> QED
  BY <1>2, <1>3 DEF TimerHears

(* A step that asks for nothing: the books stay right. *)
LEMMA BooksQuiet ==
    ASSUME IInv, Typed', server' = server, NEW t \in Tabs, NEW k \in Kinds,
           \A u \in Tabs \ {t} : Same(u),
           kept' = kept \/ Keeps(kept', t, k), Keeps(session'[t], t, k), Keeps(opened'[t], t, k),
           \A j \in Kinds : flight'[t][j] \in {None, flight[t][j]},
           call'[t] # None => IssuedToken(call'[t].used)
    PROVE  Books'
<1>1. Typed /\ KnownAll
  BY Parts
<1>2. \A j \in Kinds : Out(t, j)' =>
           /\ IssuedToken(flight'[t][j].token)
           /\ flight'[t][j].answer \in Session =>
                Answers(t, j) /\ flight'[t][j].answer = flight[t][j].answer
  BY <1>1 DEF Out, KnownAll, Answers
<1> QED
  BY <1>1, <1>2, BooksKeep, ServerStays

LEMMA RequestIs ==
    ASSUME NEW s \in Session \union {None}, NEW why \in {"user", "page", "boot"}
    PROVE  /\ Request(why, s) \in APICall
           /\ Request(why, s).why = why /\ Request(why, s).used = TokenOf(s)
           /\ ~Request(why, s).waiting /\ ~Request(why, s).again
<1>1. (IF s = None THEN None ELSE s.user) \in Accounts \union {None}
  BY SessionRow
<1> QED
  BY <1>1, TokenRow DEF Request, APICall

LEMMA CallKeeps ==
    ASSUME IInv, NEW t \in Tabs, Call(t)
    PROVE  IInv'
<1> DEFINE q == Request(IF session[t] = None THEN "page" ELSE "user", session[t])
<1>1. /\ Typed /\ InOrder(t) /\ Asked(t) /\ Restores(t) /\ KnownAll
      /\ session[t] \in Session \union {None}
      /\ call[t] = None /\ status[t] \in {"authenticated", "anonymous"}
      /\ call' = [call EXCEPT ![t] = q]
      /\ UNCHANGED <<server, kept, status, session, opened, armed, flight, revokes, dead, lost, crossed>>
  BY Parts DEF Call
<1>2. /\ q \in APICall /\ q.why # "boot" /\ ~q.waiting /\ q.used = TokenOf(session[t])
  BY <1>1, RequestIs
<1> HIDE DEF q
<1>3. Typed' /\ call'[t] = q /\ \A u \in Tabs \ {t} : Same(u)
  BY <1>1, <1>2 DEF Typed, Same
<1>4. Here(t)'
  BY <1>1, <1>2, <1>3, WebSessionMarkers DEF Here, InOrder, Asked, Restores, Restoring, Out
<1>5. IssuedToken(q.used)
  BY <1>1, <1>2, SessionRow DEF KnownAll, Known, IssuedToken, TokenOf
<1>6. Books'
  BY <1>1, <1>3, <1>5, BooksQuiet DEF Keeps, Kinds
<1> QED
  BY <1>3, <1>4, <1>6, Closes

(* An API request ends, and the tab with it or without it. *)
LEMMA EndKeeps ==
    ASSUME IInv, NEW t \in Tabs, CallEnds(t), call[t] # None,
           \/ ~call[t].waiting /\ flight' = flight
           \/ Hears(t, "call"),
           \/ Untouched /\ call[t].why # "boot"
           \/ ClearSession(t)
           \/ \E s \in {session[t], opened[t]} : s # None /\ Persist(t, s),
           crossed' \in BOOLEAN, UNCHANGED <<server, revokes, dead, lost>>
    PROVE  IInv'
<1>1. /\ Typed /\ InOrder(t) /\ Asked(t) /\ Restores(t) /\ KnownAll /\ "call" \in Kinds
      /\ session[t] \in Session \union {None} /\ opened[t] \in Session \union {None}
  BY Parts DEF Kinds
<1>2. /\ call'[t] = None /\ opened'[t] = None
      /\ call' \in [Tabs -> APICall \union {None}] /\ opened' \in [Tabs -> Session \union {None}]
      /\ \A u \in Tabs \ {t} : call'[u] = call[u] /\ opened'[u] = opened[u]
  BY <1>1, CallEndsDoes
<1>3. /\ flight' \in [Tabs -> [Kinds -> Refresh \union {None}]]
      /\ ~Out(t, "call")' /\ \A j \in Kinds \ {"call"} : flight'[t][j] = flight[t][j]
      /\ flight'[t]["call"] \in {None, flight[t]["call"]}
      /\ \A u \in Tabs \ {t} : flight'[u] = flight[u]
  <2>1. CASE ~call[t].waiting /\ flight' = flight
    BY <1>1, <2>1 DEF Typed, InOrder, Out
  <2>2. CASE Hears(t, "call")
    BY <1>1, <2>2, HearsDoes DEF Out
  <2> QED
    BY <2>1, <2>2
<1> DEFINE After ==
      /\ \/ UNCHANGED <<kept, session, status, armed>> /\ status[t] # "loading"
         \/ kept' = None /\ session'[t] = None /\ status'[t] = "anonymous"
         \/ /\ kept' = session'[t] /\ session'[t] \in {session[t], opened[t]} /\ session'[t] # None
            /\ status'[t] = "authenticated"
            /\ armed'[t] \/ (status[t] = "authenticated" /\ armed'[t] = armed[t])
      /\ kept' \in Session \union {None} /\ session' \in [Tabs -> Session \union {None}]
      /\ armed' \in [Tabs -> BOOLEAN]
      /\ status' \in [Tabs -> {"closed", "loading", "authenticated", "anonymous"}]
      /\ \A u \in Tabs \ {t} : session'[u] = session[u] /\ status'[u] = status[u] /\ armed'[u] = armed[u]
<1>4. After
  <2>1. CASE Untouched /\ call[t].why # "boot"
    BY <1>1, <2>1 DEF Untouched, Typed, Restores
  <2>2. CASE ClearSession(t)
    BY <1>1, <2>2, ClearDoes
  <2>3. ASSUME NEW s \in {session[t], opened[t]}, s # None, Persist(t, s)
        PROVE After
    <3>1. s \in Session
      BY <1>1, <2>3
    <3>2. armed'[t] \/ (status[t] = "authenticated" /\ armed'[t] = armed[t])
      BY <1>1, <2>3, <3>1, PersistDoes DEF Typed
    <3> QED
      BY <1>1, <2>3, <3>1, <3>2, PersistDoes
  <2> QED
    BY <2>1, <2>2, <2>3
<1>5. Typed' /\ \A u \in Tabs \ {t} : Same(u)
  BY <1>1, <1>2, <1>3, <1>4 DEF Typed, Same
<1>6. status[t] # "closed" /\ ~Out(t, "boot")
  BY <1>1 DEF Restores
<1>7. Here(t)'
  <2>1. InOrder(t)'
    BY <1>1, <1>2, <1>3, <1>4 DEF InOrder, Out, Kinds
  <2>2. Asked(t)'
    BY <1>1, <1>3 DEF Asked, Out
  <2>3. Restores(t)'
    BY <1>1, <1>2, <1>3, <1>4, <1>6 DEF Restores, Restoring, Out, Kinds
  <2> QED
    BY <2>1, <2>2, <2>3 DEF Here
<1>8. Books'
  <2>1. Keeps(session'[t], t, "call") /\ Keeps(opened'[t], t, "call") /\ (kept' = kept \/ Keeps(kept', t, "call"))
    BY <1>2, <1>4 DEF Keeps
  <2>2. \A j \in Kinds : flight'[t][j] \in {None, flight[t][j]}
    BY <1>3
  <2> QED
    BY <1>1, <1>2, <1>5, <2>1, <2>2, BooksQuiet
<1> QED
  BY <1>5, <1>7, <1>8, Closes

(* A restore puts back the session its tab was opened with, as it was:     *)
(* the account the server names is the one the session is kept under.      *)
LEMMA OpenedIs ==
    ASSUME IInv, NEW t \in Tabs, Restoring(t)
    PROVE  /\ opened[t] \in Session
           /\ [opened[t] EXCEPT !.user = server[call[t].used.sid].account] = opened[t]
           /\ [opened[t] EXCEPT !.user = opened[t].user] = opened[t]
<1>1. Restores(t) /\ KnownAll /\ opened[t] \in Session \union {None}
  BY Parts
<1>2. opened[t] \in Session /\ call[t].used.sid = opened[t].sid
  BY <1>1 DEF Restores
<1>3. server[call[t].used.sid].account = opened[t].user
  BY <1>1, <1>2, SessionRow DEF KnownAll, Known
<1> QED
  BY <1>2, <1>3 DEF Session

LEMMA CallSettlesKeeps ==
    ASSUME IInv, NEW t \in Tabs, CallServed(t) \/ CallTurnedAwayAgain(t) \/ CallFails(t)
    PROVE  IInv'
<1>1. Typed /\ crossed \in BOOLEAN /\ session[t] \in Session \union {None}
  BY Parts DEF Typed
<1>2. CASE CallServed(t)
  <2> DEFINE user == server[call[t].used.sid].account
  <2>1. /\ call[t] # None /\ ~call[t].waiting /\ flight' = flight /\ CallEnds(t)
        /\ UNCHANGED <<server, revokes, dead, lost>>
        /\ \/ call[t].why = "boot" /\ PersistOpened(t, user)
           \/ /\ call[t].why = "user" /\ SameAccount(t, user)
              /\ Persist(t, [session[t] EXCEPT !.user = user]) /\ UNCHANGED crossed
           \/ call[t].why # "boot" /\ Untouched /\ UNCHANGED crossed
    BY <1>2 DEF CallServed, Sent
  <2>2. CASE call[t].why = "boot" /\ PersistOpened(t, user)
    <3>1. opened[t] \in Session /\ Persist(t, opened[t]) /\ crossed' \in BOOLEAN
      BY <1>1, <2>1, <2>2, OpenedIs DEF PersistOpened, Crosses, Restoring
    <3> QED
      BY <2>1, <3>1, EndKeeps, SessionRow
  <2>3. CASE /\ call[t].why = "user" /\ SameAccount(t, user)
             /\ Persist(t, [session[t] EXCEPT !.user = user]) /\ UNCHANGED crossed
    <3>1. session[t] \in Session /\ session[t].user = user
      BY <1>1, <2>3 DEF SameAccount
    <3>2. [session[t] EXCEPT !.user = user] = session[t]
      BY <3>1 DEF Session
    <3> QED
      BY <1>1, <2>1, <2>3, <3>1, <3>2, EndKeeps, SessionRow
  <2>4. CASE call[t].why # "boot" /\ Untouched /\ UNCHANGED crossed
    BY <1>1, <2>1, <2>4, EndKeeps
  <2> QED
    BY <2>1, <2>2, <2>3, <2>4
<1>3. CASE CallTurnedAwayAgain(t)
  <2>1. /\ call[t] # None /\ ~call[t].waiting /\ flight' = flight /\ Unauthorized(t)
        /\ crossed' \in BOOLEAN /\ UNCHANGED <<server, revokes, dead, lost>>
    BY <1>1, <1>3 DEF CallTurnedAwayAgain, Turned, Sent, Crosses
  <2> QED
    BY <2>1, EndKeeps DEF Unauthorized
<1>4. CASE CallFails(t)
  <2>1. /\ call[t] # None /\ ~call[t].waiting /\ flight' = flight /\ OpensAnyway(t)
        /\ UNCHANGED <<server, revokes, dead, lost>>
    BY <1>4 DEF CallFails, Sent
  <2>2. CASE call[t].why = "boot"
    <3>1. opened[t] \in Session /\ Persist(t, opened[t]) /\ crossed' \in BOOLEAN
      BY <1>1, <2>1, <2>2, OpenedIs DEF OpensAnyway, PersistOpened, Crosses, Restoring
    <3> QED
      BY <2>1, <3>1, EndKeeps, SessionRow DEF OpensAnyway
  <2>3. CASE call[t].why # "boot"
    BY <1>1, <2>1, <2>3, EndKeeps DEF OpensAnyway
  <2> QED
    BY <2>2, <2>3
<1> QED
  BY <1>2, <1>3, <1>4

LEMMA CallTurnedAwayKeeps ==
    ASSUME IInv, NEW t \in Tabs, CallTurnedAway(t)
    PROVE  IInv'
<1>1. /\ Typed /\ InOrder(t) /\ Asked(t) /\ Restores(t) /\ KnownAll /\ "call" \in Kinds
      /\ call[t] \in APICall /\ ~call[t].waiting /\ ~call[t].again /\ Ask(t, "call") /\ MayAsk(t)
      /\ call' = [call EXCEPT ![t].waiting = TRUE]
      /\ UNCHANGED <<server, kept, status, session, opened, armed, revokes, dead, lost>>
  BY Parts DEF CallTurnedAway, Turned, Sent, Kinds, Ask
<1>2. /\ call' \in [Tabs -> APICall \union {None}] /\ \A u \in Tabs \ {t} : call'[u] = call[u]
      /\ call'[t] \in APICall /\ call'[t].waiting /\ ~call'[t].again
      /\ call'[t].why = call[t].why /\ call'[t].used = call[t].used
  BY <1>1 DEF Typed, APICall
<1>3. Typed' /\ \A u \in Tabs \ {t} : Same(u)
  BY <1>1, <1>2, AskDoes DEF Typed, Same
<1>4. /\ \A k \in Kinds \ {"call"} : flight'[t][k] = flight[t][k]
      /\ Out(t, "call")' /\ flight'[t]["call"] = Flight(t)
  BY <1>1, AskDoes, FlightIs DEF Out
<1>5. call'[t] # None /\ call[t] # None
  BY <1>1, <1>2, WebSessionMarkers
<1>6. Here(t)'
  <2>1. InOrder(t)'
    BY <1>1, <1>2, <1>4, <1>5 DEF InOrder, Out, Kinds
  <2>2. Asked(t)'
    BY <1>1, <1>4, FlightIs, WebSessionMarkers DEF Asked, Out
  <2>3. Restoring(t) => opened[t] = session[t] /\ opened[t] \in Session
    BY <1>1, Parts DEF Restores
  <2>4. Restoring(t) => /\ flight'[t]["call"].token # None
                        /\ flight'[t]["call"].token.sid = opened[t].sid
    BY <1>1, <1>4, <2>3, FlightIs, SessionRow
  <2>5. Restores(t)'
    BY <1>1, <1>2, <1>4, <1>5, <2>4 DEF Restores, Restoring, Out, Kinds
  <2> QED
    BY <2>1, <2>2, <2>5 DEF Here
<1>7. Books'
  <2>1. Keeps(session'[t], t, "call") /\ Keeps(opened'[t], t, "call")
    BY <1>1 DEF Keeps
  <2>2. ASSUME NEW j \in Kinds, Out(t, j)'
        PROVE  /\ IssuedToken(flight'[t][j].token)
               /\ flight'[t][j].answer \in Session =>
                    Answers(t, j) /\ flight'[t][j].answer = flight[t][j].answer
    <3>1. CASE j = "call"
      <4>1. IssuedToken(TokenOf(session[t]))
        BY <1>1, SessionRow DEF KnownAll, Known, IssuedToken, TokenOf, Typed
      <4> QED
        BY <1>1, <1>4, <3>1, <4>1, FlightIs, WebSessionMarkers
    <3>2. CASE j # "call"
      BY <1>1, <1>4, <2>2, <3>2 DEF KnownAll, Answers, Out
    <3> QED
      BY <3>1, <3>2
  <2>3. call'[t] # None => IssuedToken(call'[t].used)
    BY <1>1, <1>2, <1>5 DEF KnownAll
  <2> QED
    BY <1>1, <1>3, <2>1, <2>2, <2>3, BooksKeep, ServerStays
<1> QED
  BY <1>3, <1>6, <1>7, Closes

(* An answer that is heard, and persisted. *)
LEMMA HeardDoes ==
    ASSUME IInv, NEW t \in Tabs, NEW k \in Kinds, Refreshed(t, k), Hears(t, k),
           Persist(t, Answer(t, k))
    PROVE  /\ flight[t][k].answer \in Session /\ Answers(t, k) /\ ~Answers(t, k)'
           /\ kept' = flight[t][k].answer /\ session'[t] = flight[t][k].answer
           /\ status'[t] = "authenticated"
           /\ armed'[t]
           /\ kept' \in Session \union {None}
           /\ session' \in [Tabs -> Session \union {None}] /\ armed' \in [Tabs -> BOOLEAN]
           /\ status' \in [Tabs -> {"closed", "loading", "authenticated", "anonymous"}]
           /\ \A u \in Tabs \ {t} :
                session'[u] = session[u] /\ status'[u] = status[u] /\ armed'[u] = armed[u]
<1> DEFINE a == flight[t][k].answer
<1>1. Typed /\ NewTokens /\ session[t] \in Session \union {None}
  BY Parts
<1>2. a \in Session /\ Answers(t, k) /\ Persist(t, a)
  BY <1>1, FlightTypes DEF Refreshed, Answered, Answer, Fresh, Answers
<1>3. ~Answers(t, k)'
  BY <1>1, HearsDoes DEF Answers, Out
<1>4. TokenOf(session[t]) # TokenOf(a)
  <2>1. ~SameToken(session[t], a)
    BY <1>1, <1>2 DEF NewTokens
  <2>2. CASE session[t] = None
    BY <1>2, <2>2, SessionRow, TokenRow
  <2>3. CASE session[t] \in Session
    BY <1>2, <2>1, <2>3, SessionRow DEF SameToken
  <2> QED
    BY <1>1, <2>2, <2>3
<1> HIDE DEF a
<1>5. armed'[t]
  BY <1>1, <1>2, <1>4, PersistDoes
<1> QED
  BY <1>1, <1>2, <1>3, <1>5, PersistDoes DEF a

LEMMA CallHearsKeeps ==
    ASSUME IInv, NEW t \in Tabs, CallHears(t)
    PROVE  IInv'
<1>1. /\ Typed /\ InOrder(t) /\ Asked(t) /\ Restores(t) /\ KnownAll /\ "call" \in Kinds
      /\ call[t] \in APICall /\ call[t] # None /\ call[t].waiting /\ Hears(t, "call")
      /\ UNCHANGED <<server, revokes, dead, lost>> /\ crossed \in BOOLEAN
  BY Parts DEF CallHears, Kinds, Typed
<1>2. CASE /\ Refreshed(t, "call") /\ Persist(t, Answer(t, "call"))
           /\ call' = [call EXCEPT ![t] = [@ EXCEPT !.used = TokenOf(Answer(t, "call")),
                                                    !.waiting = FALSE, !.again = TRUE]]
           /\ UNCHANGED <<opened, crossed>>
  <2> DEFINE a == flight[t]["call"].answer
  <2>1. /\ a \in Session /\ Answers(t, "call") /\ ~Answers(t, "call")'
        /\ kept' = a /\ session'[t] = a /\ status'[t] = "authenticated" /\ armed'[t]
    BY <1>1, <1>2, HeardDoes
  <2>2. TokenOf(a) \in Tokens /\ TokenOf(a).sid = a.sid /\ TokenOf(a) # None /\ a # None
    BY <2>1, SessionRow
  <2>3. call' = [call EXCEPT ![t] = [call[t] EXCEPT !.used = TokenOf(a), !.waiting = FALSE, !.again = TRUE]]
    BY <1>1, <1>2 DEF Answer, Fresh, Typed
  <2> HIDE DEF a
  <2>4. /\ call' \in [Tabs -> APICall \union {None}] /\ \A u \in Tabs \ {t} : call'[u] = call[u]
        /\ call'[t] \in APICall /\ ~call'[t].waiting /\ call'[t].again
        /\ call'[t].why = call[t].why /\ call'[t].used = TokenOf(a)
    BY <1>1, <2>2, <2>3 DEF Typed, APICall
  <2>5. Typed' /\ \A u \in Tabs \ {t} : Same(u)
    BY <1>1, <1>2, <2>4, HeardDoes, HearsDoes DEF Typed, Same
  <2>6. /\ ~Out(t, "call")' /\ \A j \in Kinds \ {"call"} : flight'[t][j] = flight[t][j]
        /\ flight'[t]["call"] = None
    BY <1>1, HearsDoes DEF Out
  <2>7. call'[t] # None
    BY <2>4, WebSessionMarkers
  <2>8. ~Out(t, "boot")
    BY <1>1 DEF Restores
  <2>9. Here(t)'
    <3>1. InOrder(t)'
      BY <2>1, <2>2, <2>4, <2>6 DEF InOrder
    <3>2. Asked(t)'
      BY <1>1, <2>6 DEF Asked, Out
    <3>3. Restoring(t) => a.sid = opened[t].sid
      <4>1. Answers(t, "call") => a.sid = flight[t]["call"].token.sid
        BY <1>1 DEF Asked, Answers, a
      <4> QED
        BY <1>1, <2>1, <4>1 DEF Restores
    <3>4. Restores(t)'
      BY <1>1, <1>2, <2>1, <2>2, <2>4, <2>6, <2>7, <2>8, <3>3 DEF Restores, Restoring, Out, Kinds
    <3> QED
      BY <3>1, <3>2, <3>4 DEF Here
  <2>10. Books'
    <3>1. Keeps(session'[t], t, "call") /\ Keeps(opened'[t], t, "call") /\ Keeps(kept', t, "call")
      BY <1>2, <2>1 DEF Keeps, a
    <3>2. \A j \in Kinds : flight'[t][j] \in {None, flight[t][j]}
      BY <2>6
    <3>3. IssuedToken(call'[t].used)
      BY <1>1, <2>1, <2>2, <2>4 DEF KnownAll, Known, IssuedToken, a
    <3> QED
      BY <1>1, <2>5, <3>1, <3>2, <3>3, BooksQuiet
  <2> QED
    BY <2>5, <2>9, <2>10, Closes
<1>3. CASE Unauthorized(t) /\ UNCHANGED crossed
  BY <1>1, <1>3, EndKeeps DEF Unauthorized
<1>4. CASE OpensAnyway(t)
  <2>1. CASE call[t].why = "boot"
    <3>1. opened[t] \in Session /\ Persist(t, opened[t]) /\ crossed' \in BOOLEAN /\ CallEnds(t)
      BY <1>1, <1>4, <2>1, OpenedIs DEF OpensAnyway, PersistOpened, Crosses, Restoring
    <3> QED
      BY <1>1, <3>1, EndKeeps, SessionRow
  <2>2. CASE call[t].why # "boot"
    BY <1>1, <1>4, <2>2, EndKeeps DEF OpensAnyway
  <2> QED
    BY <2>1, <2>2
<1> QED
  BY <1>2, <1>3, <1>4 DEF CallHears

LEMMA BootHearsKeeps ==
    ASSUME IInv, NEW t \in Tabs, BootHears(t)
    PROVE  IInv'
<1>1. /\ Typed /\ InOrder(t) /\ Asked(t) /\ Restores(t) /\ KnownAll /\ "boot" \in Kinds
      /\ Out(t, "boot") /\ Hears(t, "boot") /\ opened' = [opened EXCEPT ![t] = None]
      /\ UNCHANGED <<server, call, revokes, dead, lost, crossed>>
      /\ status[t] = "loading" /\ call[t] = None /\ opened[t] = session[t]
      /\ session[t] \in Session
  BY Parts DEF BootHears, Answered, Kinds, Restores, InOrder
<1>2. /\ \/ kept' = None /\ session'[t] = None /\ status'[t] = "anonymous"
         \/ /\ kept' = session'[t] /\ session'[t] # None /\ status'[t] = "authenticated" /\ armed'[t]
            /\ \/ session'[t] = session[t]
               \/ /\ session'[t] = flight[t]["boot"].answer
                  /\ Answers(t, "boot") /\ ~Answers(t, "boot")'
      /\ kept' \in Session \union {None} /\ session' \in [Tabs -> Session \union {None}]
      /\ armed' \in [Tabs -> BOOLEAN]
      /\ status' \in [Tabs -> {"closed", "loading", "authenticated", "anonymous"}]
      /\ \A u \in Tabs \ {t} : session'[u] = session[u] /\ status'[u] = status[u] /\ armed'[u] = armed[u]
  <2>1. CASE Refreshed(t, "boot") /\ Persist(t, Answer(t, "boot"))
    BY <1>1, <2>1, HeardDoes, SessionRow
  <2>2. CASE ClearSession(t)
    BY <1>1, <2>2, ClearDoes
  <2>3. CASE Persist(t, opened[t])
    BY <1>1, <2>3, PersistDoes, SessionRow
  <2> QED
    BY <2>1, <2>2, <2>3 DEF BootHears
<1>3. /\ flight' \in [Tabs -> [Kinds -> Refresh \union {None}]]
      /\ flight'[t]["boot"] = None /\ \A j \in Kinds \ {"boot"} : flight'[t][j] = flight[t][j]
      /\ \A u \in Tabs \ {t} : flight'[u] = flight[u]
  BY <1>1, HearsDoes
<1>4. Typed' /\ opened'[t] = None /\ \A u \in Tabs \ {t} : Same(u)
  BY <1>1, <1>2, <1>3 DEF Typed, Same
<1>5. Here(t)'
  BY <1>1, <1>2, <1>3, <1>4 DEF Here, InOrder, Asked, Restores, Restoring, Out, Kinds
<1>6. Books'
  <2>1. Keeps(session'[t], t, "boot") /\ Keeps(opened'[t], t, "boot") /\ Keeps(kept', t, "boot")
    BY <1>2, <1>4 DEF Keeps
  <2> QED
    BY <1>1, <1>3, <1>4, <2>1, BooksQuiet
<1> QED
  BY <1>4, <1>5, <1>6, Closes

LEMMA CloseKeeps ==
    ASSUME IInv, NEW t \in Tabs, Close(t)
    PROVE  IInv'
<1>1. /\ Typed /\ KnownAll /\ crossed \in BOOLEAN /\ CallEnds(t)
      /\ UNCHANGED <<server, kept, revokes, dead, lost>>
  BY Parts DEF Close, Typed
<1>2. /\ status'[t] = "closed" /\ session'[t] = None /\ armed'[t] = FALSE
      /\ \A k \in Kinds : flight'[t][k] = None
      /\ call'[t] = None /\ opened'[t] = None
  BY <1>1, CallEndsDoes DEF Close, Typed
<1>3. Typed' /\ \A u \in Tabs \ {t} : Same(u)
  BY <1>1, CallEndsDoes DEF Close, Crosses, Typed, Same
<1>4. Here(t)'
  BY <1>2 DEF Here, InOrder, Asked, Restores, Restoring, Out, Kinds
<1>5. Books'
  <2>1. Keeps(session'[t], t, "boot") /\ Keeps(opened'[t], t, "boot") /\ "boot" \in Kinds
    BY <1>2 DEF Keeps, Kinds
  <2> QED
    BY <1>1, <1>2, <1>3, <2>1, BooksQuiet
<1> QED
  BY <1>3, <1>4, <1>5, Closes

LEMMA LogoutKeeps ==
    ASSUME IInv, NEW t \in Tabs, Logout(t)
    PROVE  IInv'
<1>1. /\ Typed /\ InOrder(t) /\ Asked(t) /\ Restores(t) /\ KnownAll /\ crossed \in BOOLEAN
      /\ ClearSession(t) /\ status[t] = "authenticated" /\ session[t] \in Session
      /\ UNCHANGED <<server, opened, call, flight, dead, lost>>
  BY Parts DEF Logout, Typed, InOrder
<1>2. kept' = None /\ session'[t] = None /\ status'[t] = "anonymous" /\ armed'[t] = FALSE
  BY <1>1, ClearDoes
<1>3. revokes' \subseteq Tokens
  BY <1>1, SessionRow DEF Logout, Typed
<1>4. Typed' /\ \A u \in Tabs \ {t} : Same(u)
  BY <1>1, <1>3, ClearDoes DEF Logout, Crosses, Typed, Same
<1>5. Here(t)'
  BY <1>1, <1>2 DEF Here, InOrder, Asked, Restores, Restoring, Out, Kinds
<1>6. Books'
  <2>1. /\ Keeps(session'[t], t, "boot") /\ Keeps(opened'[t], t, "boot") /\ Keeps(kept', t, "boot")
        /\ "boot" \in Kinds
    BY <1>1, <1>2 DEF Keeps, Kinds
  <2>2. \A j \in Kinds : flight'[t][j] \in {None, flight[t][j]}
    BY <1>1
  <2>3. call'[t] # None => IssuedToken(call'[t].used)
    BY <1>1 DEF KnownAll
  <2> QED
    BY <1>1, <1>4, <2>1, <2>2, <2>3, BooksQuiet
<1> QED
  BY <1>4, <1>5, <1>6, Closes

LEMMA OpenKeeps ==
    ASSUME IInv, NEW t \in Tabs, Open(t)
    PROVE  IInv'
<1>1. /\ Typed /\ InOrder(t) /\ Asked(t) /\ Restores(t) /\ KnownAll /\ crossed \in BOOLEAN
      /\ kept \in Session \union {None} /\ "boot" \in Kinds
      /\ UNCHANGED <<server, kept, armed, revokes, dead, lost>>
  BY Parts DEF Open, Typed, Kinds
<1>2. ~armed[t] /\ call[t] = None /\ (\A k \in Kinds : ~Out(t, k) /\ flight[t][k] = None)
  BY <1>1 DEF Open, Restores, Out
<1>3. /\ session'[t] = kept /\ opened'[t] = kept
      /\ status'[t] = IF kept = None THEN "anonymous" ELSE "loading"
      /\ session' \in [Tabs -> Session \union {None}] /\ opened' \in [Tabs -> Session \union {None}]
      /\ status' \in [Tabs -> {"closed", "loading", "authenticated", "anonymous"}]
      /\ crossed' \in BOOLEAN
      /\ \A u \in Tabs \ {t} : session'[u] = session[u] /\ opened'[u] = opened[u] /\ status'[u] = status[u]
  BY <1>1 DEF Open, Typed, Crosses
<1>4. Keeps(session'[t], t, "boot") /\ Keeps(opened'[t], t, "boot")
  BY <1>3 DEF Keeps
<1>5. CASE kept = None /\ UNCHANGED <<call, flight>>
  <2>1. Typed' /\ \A u \in Tabs \ {t} : Same(u)
    BY <1>1, <1>3, <1>5 DEF Typed, Same
  <2>2. Here(t)'
    BY <1>1, <1>2, <1>3, <1>5 DEF Here, InOrder, Asked, Restores, Restoring, Out, Kinds
  <2>3. Books'
    BY <1>1, <1>2, <1>4, <1>5, <2>1, BooksQuiet
  <2> QED
    BY <2>1, <2>2, <2>3, Closes
<1>6. CASE kept # None /\ call' = [call EXCEPT ![t] = Request("boot", kept)] /\ UNCHANGED flight
  <2> DEFINE q == Request("boot", kept)
  <2>1. /\ q \in APICall /\ q # None /\ q.why = "boot" /\ ~q.waiting /\ ~q.again
        /\ q.used = TokenOf(kept)
    BY <1>1, <1>6, RequestIs, WebSessionMarkers
  <2>2. kept \in Session /\ q.used # None /\ q.used.sid = kept.sid /\ IssuedToken(q.used)
    BY <1>1, <1>6, <2>1, SessionRow DEF KnownAll, Known, IssuedToken
  <2> HIDE DEF q
  <2>3. Typed' /\ call'[t] = q /\ \A u \in Tabs \ {t} : Same(u)
    BY <1>1, <1>3, <1>6, <2>1 DEF Typed, Same, q
  <2>4. Here(t)'
    BY <1>1, <1>2, <1>3, <1>6, <2>1, <2>2, <2>3 DEF Here, InOrder, Asked, Restores, Restoring, Out, Kinds
  <2>5. Books'
    BY <1>1, <1>2, <1>4, <1>6, <2>2, <2>3, BooksQuiet
  <2> QED
    BY <2>3, <2>4, <2>5, Closes
<1>7. CASE /\ kept # None /\ kept.n < MaxN
           /\ flight' = [flight EXCEPT ![t]["boot"] = [token |-> TokenOf(kept), answer |-> None]]
           /\ UNCHANGED call
  <2> DEFINE f == [token |-> TokenOf(kept), answer |-> None]
  <2>1. /\ kept \in Session /\ f \in Refresh /\ f # None /\ f.answer = None /\ f.token # None
        /\ f.token.n < MaxN /\ IssuedToken(f.token)
    BY <1>1, <1>7, SessionRow, WebSessionMarkers DEF Refresh, KnownAll, Known, IssuedToken
  <2> HIDE DEF f
  <2>2. /\ flight' \in [Tabs -> [Kinds -> Refresh \union {None}]]
        /\ flight'[t]["boot"] = f /\ \A k \in Kinds \ {"boot"} : flight'[t][k] = flight[t][k]
        /\ \A u \in Tabs \ {t} : flight'[u] = flight[u]
    BY <1>1, <1>7, <2>1 DEF Typed, f
  <2>3. Typed' /\ \A u \in Tabs \ {t} : Same(u)
    BY <1>1, <1>3, <1>7, <2>2 DEF Typed, Same
  <2>4. Here(t)'
    <3>1. InOrder(t)'
      BY <1>1, <1>2, <1>3, <1>7, <2>1, <2>2 DEF InOrder, Out, Kinds
    <3>2. Asked(t)'
      BY <1>2, <2>1, <2>2, WebSessionMarkers DEF Asked, Out
    <3>3. Restores(t)'
      BY <1>1, <1>2, <1>3, <1>7, <2>2 DEF Restores, Restoring, Out, Kinds
    <3> QED
      BY <3>1, <3>2, <3>3 DEF Here
  <2>5. Books'
    <3>1. \A j \in Kinds : Out(t, j)' =>
               /\ IssuedToken(flight'[t][j].token)
               /\ flight'[t][j].answer \in Session =>
                    Answers(t, j) /\ flight'[t][j].answer = flight[t][j].answer
      BY <1>2, <2>1, <2>2, WebSessionMarkers DEF Out
    <3>2. call'[t] = None
      BY <1>2, <1>7
    <3> QED
      BY <1>1, <1>4, <2>3, <3>1, <3>2, BooksKeep, ServerStays
  <2> QED
    BY <2>3, <2>4, <2>5, Closes
<1> QED
  BY <1>5, <1>6, <1>7 DEF Open, Boot

LEMMA LoginKeeps ==
    ASSUME IInv, NEW t \in Tabs, NEW account \in Accounts, Login(t, account)
    PROVE  IInv'
<1>1. /\ Typed /\ InOrder(t) /\ Asked(t) /\ Restores(t) /\ KnownAll /\ crossed \in BOOLEAN
      /\ status[t] = "anonymous" /\ UNCHANGED <<opened, call, flight, revokes, dead, lost>>
      /\ crossed' \in BOOLEAN
  BY Parts DEF Login, Typed, Crosses
<1>2. PICK sid \in Sids :
        /\ ~Issued(sid)
        /\ server' = [server EXCEPT ![sid] = [account |-> account, n |-> 1, live |-> TRUE]]
        /\ Persist(t, [sid |-> sid, n |-> 1, user |-> account])
  BY DEF Login
<1> DEFINE s == [sid |-> sid, n |-> 1, user |-> account]
           row == [account |-> account, n |-> 1, live |-> TRUE]
<1>3. s \in Session /\ s # None /\ s.sid = sid /\ row \in ServerRow /\ row # None
  <2>1. 1 \in 1..MaxN
    BY WebSessionAssumption
  <2>2. s \in Session /\ row \in ServerRow
    BY <2>1 DEF Session, ServerRow
  <2> QED
    BY <2>2, WebSessionMarkers
<1>4. /\ server' \in [Sids -> ServerRow \union {None}] /\ server'[sid] = row
      /\ \A i \in Sids \ {sid} : server'[i] = server[i]
  BY <1>1, <1>2, <1>3 DEF Typed
<1>5. Granted(s)
  <2>1. s.user = row.account /\ s.n <= row.n
    OBVIOUS
  <2> QED
    BY <1>2, <1>3, <1>4, <2>1 DEF Granted
<1>6. ServerKeeps
  <2> SUFFICES ASSUME NEW i \in Sids, Issued(i)
               PROVE  Issued(i)' /\ server'[i].account = server[i].account /\ server'[i].n >= server[i].n
    BY DEF ServerKeeps
  <2>1. server'[i] = server[i] /\ server[i] \in ServerRow
    BY <1>1, <1>2, <1>4 DEF Typed, Issued
  <2>2. server[i].n \in Int
    BY <2>1, WebSessionAssumption DEF ServerRow
  <2> QED
    BY <2>1, <2>2 DEF Issued
<1> HIDE DEF s, row
<1>7. /\ kept' = s /\ session'[t] = s /\ status'[t] = "authenticated" /\ armed'[t]
      /\ Typed' /\ \A u \in Tabs \ {t} : Same(u)
  <2>1. Persist(t, s)
    BY <1>2 DEF s
  <2> QED
    BY <1>1, <1>3, <1>4, <2>1, PersistDoes DEF Typed, Same
<1>8. Here(t)'
  BY <1>1, <1>3, <1>7 DEF Here, InOrder, Asked, Restores, Restoring, Out, Kinds
<1>9. Books'
  <2>1. /\ Keeps(s, t, "boot") /\ Keeps(opened'[t], t, "boot") /\ "boot" \in Kinds
    BY <1>1, <1>2, <1>3, <1>5 DEF Keeps, Kinds
  <2>2. \A j \in Kinds : Out(t, j)' =>
             /\ IssuedToken(flight'[t][j].token)
             /\ flight'[t][j].answer \in Session =>
                  Answers(t, j) /\ flight'[t][j].answer = flight[t][j].answer
    BY <1>1 DEF Out, KnownAll, Answers
  <2>3. call'[t] # None => IssuedToken(call'[t].used)
    BY <1>1 DEF KnownAll
  <2> QED
    BY <1>6, <1>7, <2>1, <2>2, <2>3, BooksKeep
<1> QED
  BY <1>7, <1>8, <1>9, Closes

-----------------------------------------------------------------------------
(* The steps of the network and the server. *)

LEMMA RefusedKeeps ==
    ASSUME IInv, NEW t \in Tabs, NEW k \in Kinds, NEW answer \in {Rejected, Unreachable},
           Out(t, k), answer = Unreachable => flight[t][k].token # None,
           flight' = [flight EXCEPT ![t][k].answer = answer],
           lost' \in 0..MaxLost, crossed' \in BOOLEAN,
           UNCHANGED <<server, kept, tab, revokes, dead>>
    PROVE  IInv'
<1>1. /\ Typed /\ Here(t) /\ InOrder(t) /\ Asked(t) /\ Restores(t) /\ KnownAll
      /\ flight[t][k] \in Refresh /\ UNCHANGED <<status, session, opened, armed, call>>
  BY Parts, FlightTypes DEF tab
<1>2. flight'[t][k] \in Refresh /\ flight'[t][k].token = flight[t][k].token
      /\ flight'[t][k].answer = answer /\ flight'[t][k] # None
  BY <1>1, WebSessionMarkers DEF Refresh, Typed
<1>3. /\ flight' \in [Tabs -> [Kinds -> Refresh \union {None}]]
      /\ \A j \in Kinds \ {k} : flight'[t][j] = flight[t][j]
      /\ \A u \in Tabs \ {t} : flight'[u] = flight[u]
  BY <1>1, <1>2 DEF Typed
<1>4. Typed' /\ \A u \in Tabs \ {t} : Same(u)
  BY <1>1, <1>3 DEF Typed, Same
<1>5. \A j \in Kinds : (Out(t, j)' <=> Out(t, j)) /\ flight'[t][j].token = flight[t][j].token
  BY <1>2, <1>3 DEF Out
<1>6. answer \notin Session
  BY WebSessionMarkers
<1>7. Here(t)'
  <2>1. InOrder(t)'
    BY <1>1, <1>5 DEF InOrder, Kinds
  <2>2. Asked(t)'
    BY <1>1, <1>2, <1>3, <1>5, <1>6 DEF Asked
  <2>3. Restores(t)'
    BY <1>1, <1>5 DEF Restores, Restoring, Kinds
  <2> QED
    BY <2>1, <2>2, <2>3 DEF Here
<1>8. Books'
  <2>1. \A j \in Kinds : Out(t, j)' =>
             /\ IssuedToken(flight'[t][j].token)
             /\ flight'[t][j].answer \in Session =>
                  Answers(t, j) /\ flight'[t][j].answer = flight[t][j].answer
    BY <1>1, <1>2, <1>3, <1>5, <1>6 DEF KnownAll, Answers
  <2>2. call'[t] # None => IssuedToken(call'[t].used)
    BY <1>1 DEF KnownAll
  <2>3. Keeps(session'[t], t, k) /\ Keeps(opened'[t], t, k)
    BY <1>1 DEF Keeps
  <2> QED
    BY <1>1, <1>4, <2>1, <2>2, <2>3, BooksKeep, ServerStays
<1> QED
  BY <1>4, <1>7, <1>8, Closes

(* The server's rows change, and nothing the browser has. *)
LEMMA ServerMoves ==
    ASSUME IInv, ServerKeeps, server' \in [Sids -> ServerRow \union {None}],
           revokes' \subseteq Tokens, dead' \subseteq Tokens,
           UNCHANGED <<kept, tab, flight, lost, crossed>>
    PROVE  IInv'
<1>1. Typed /\ KnownAll /\ NewTokens /\ UNCHANGED <<status, session, opened, armed, call>>
  BY DEF IInv, Books, tab
<1>2. Typed'
  BY <1>1 DEF Typed
<1>3. \A t \in Tabs : Same(t)
  BY <1>1 DEF Same
<1>4. \A t \in Tabs, k \in Kinds : Answers(t, k)' <=> Answers(t, k)
  BY DEF Answers, Out
<1>5. KnownAll'
  <2>1. /\ \A t \in Tabs : call[t] # None => call[t].used \in Tokens \union {None}
        /\ \A t \in Tabs, k \in Kinds : Out(t, k) => flight[t][k].token \in Tokens \union {None}
    BY <1>1, FlightTypes DEF Typed, APICall
  <2>2. Known(kept)' /\ \A t \in Tabs : Known(session[t])' /\ Known(opened[t])'
    BY <1>1, <1>2, KnownStays DEF KnownAll, Typed
  <2>3. \A t \in Tabs : call[t] # None => IssuedToken(call[t].used)'
    BY <1>1, <1>2, <2>1, KnownStays DEF KnownAll
  <2>4. \A t \in Tabs, k \in Kinds : Out(t, k) => IssuedToken(flight[t][k].token)'
    BY <1>1, <1>2, <2>1, KnownStays DEF KnownAll
  <2>5. \A t \in Tabs, k \in Kinds : Answers(t, k) => Known(flight[t][k].answer)'
    BY <1>1, <1>2, KnownStays DEF KnownAll, Answers
  <2> QED
    BY <1>1, <1>4, <2>2, <2>3, <2>4, <2>5 DEF KnownAll, Out
<1>6. NewTokens'
  BY <1>1, <1>4 DEF NewTokens, SameToken
<1> QED
  BY <1>2, <1>3, <1>5, <1>6, SameHere DEF IInv, Books

LEMMA EndsKeeps ==
    ASSUME Typed, NEW sid \in Sids, Issued(sid)
    PROVE  LET ended == [server EXCEPT ![sid].live = FALSE]
           IN /\ ended \in [Sids -> ServerRow \union {None}]
              /\ server' = ended => ServerKeeps
<1> DEFINE ended == [server EXCEPT ![sid].live = FALSE]
<1>1. server[sid] \in ServerRow
  BY DEF Typed, Issued
<1>2. /\ ended[sid] \in ServerRow /\ ended[sid].account = server[sid].account
      /\ ended[sid].n = server[sid].n
  BY <1>1 DEF ServerRow, Typed
<1>3. ended \in [Sids -> ServerRow \union {None}] /\ \A i \in Sids \ {sid} : ended[i] = server[i]
  BY <1>2 DEF Typed
<1> HIDE DEF ended
<1>4. ASSUME server' = ended, NEW i \in Sids, Issued(i)
      PROVE  Issued(i)' /\ server'[i].account = server[i].account /\ server'[i].n >= server[i].n
  <2>1. server[i] \in ServerRow
    BY <1>4 DEF Typed, Issued
  <2>2. server[i].n \in Int
    BY <2>1, WebSessionAssumption DEF ServerRow
  <2> QED
    BY <1>2, <1>3, <1>4, <2>2, WebSessionMarkers DEF Issued
<1> QED
  BY <1>3, <1>4 DEF ServerKeeps, ended

LEMMA ServeKeeps ==
    ASSUME IInv, NEW t \in Tabs, NEW k \in Kinds, Serve(t, k)
    PROVE  IInv'
<1> DEFINE token == flight[t][k].token
           row == server[token.sid]
           next == [sid |-> token.sid, n |-> token.n + 1, user |-> row.account]
<1>1. /\ Typed /\ Here(t) /\ InOrder(t) /\ Asked(t) /\ Restores(t) /\ KnownAll /\ NewTokens
      /\ flight[t][k] \in Refresh /\ UNCHANGED <<status, session, opened, armed, call>>
      /\ Out(t, k) /\ flight[t][k].answer = None /\ UNCHANGED <<kept, tab, revokes, dead, lost>>
  BY Parts, FlightTypes DEF Serve, tab
<1>2. token # None
  BY <1>1, WebSessionMarkers DEF Asked
<1>3. token \in Tokens /\ token.sid \in Sids /\ token.n \in 1..MaxN /\ token.n < MaxN /\ Issued(token.sid)
  BY <1>1, <1>2 DEF Refresh, Tokens, Asked, KnownAll, IssuedToken
<1>4. CASE ~Current(token)
  <2>1. flight' = [flight EXCEPT ![t][k].answer = Rejected] /\ UNCHANGED <<server, crossed>>
    BY <1>4 DEF Serve
  <2> QED
    BY <1>1, <2>1, RefusedKeeps, WebSessionMarkers DEF Typed
<1>5. CASE Current(token)
  <2>1. /\ server' = [server EXCEPT ![token.sid].n = token.n + 1]
        /\ flight' = [flight EXCEPT ![t][k].answer = next]
        /\ crossed' \in BOOLEAN
    BY <1>1, <1>5 DEF Serve, Crosses, Typed
  <2>2. row \in ServerRow /\ row.n = token.n /\ row.account \in Accounts /\ token.n + 1 \in 1..MaxN
    BY <1>1, <1>3, <1>5, WebSessionAssumption DEF Typed, Issued, Current, ServerRow
  <2>3. next \in Session /\ next.sid = token.sid /\ next.n = token.n + 1 /\ next.user = row.account
    BY <1>3, <2>2 DEF Session
  <2> HIDE DEF next
  <2>4. /\ flight'[t][k] \in Refresh /\ flight'[t][k].token = token /\ flight'[t][k] # None
        /\ flight'[t][k].answer = next
    BY <1>1, <2>1, <2>3, WebSessionMarkers DEF Refresh, Typed
  <2>5. /\ flight' \in [Tabs -> [Kinds -> Refresh \union {None}]]
        /\ \A j \in Kinds \ {k} : flight'[t][j] = flight[t][j]
        /\ \A u \in Tabs \ {t} : flight'[u] = flight[u]
    BY <1>1, <2>1, <2>4 DEF Typed
  <2>6. /\ server'[token.sid] \in ServerRow /\ server'[token.sid].n = token.n + 1
        /\ server'[token.sid].account = row.account
    BY <1>1, <1>3, <2>1, <2>2 DEF Typed, ServerRow
  <2>7. /\ server' \in [Sids -> ServerRow \union {None}]
        /\ \A i \in Sids \ {token.sid} : server'[i] = server[i]
    BY <1>1, <1>3, <2>1, <2>6 DEF Typed
  <2> HIDE DEF token, row
  <2>8. ServerKeeps
    <3> SUFFICES ASSUME NEW i \in Sids, Issued(i)
                 PROVE  Issued(i)' /\ server'[i].account = server[i].account /\ server'[i].n >= server[i].n
      BY DEF ServerKeeps
    <3>1. server[i] \in ServerRow
      BY <1>1 DEF Typed, Issued
    <3>2. server[i].n \in Int
      BY <3>1, WebSessionAssumption DEF ServerRow
    <3>3. CASE i = token.sid
      BY <1>3, <2>2, <2>6, <3>3, WebSessionMarkers DEF Issued, row
    <3>4. CASE i # token.sid
      BY <2>7, <3>2, <3>4 DEF Issued
    <3> QED
      BY <3>3, <3>4
  <2>9. Typed' /\ \A u \in Tabs \ {t} : Same(u)
    BY <1>1, <2>1, <2>5, <2>7 DEF Typed, Same
  <2>10. \A j \in Kinds : (Out(t, j)' <=> Out(t, j)) /\ flight'[t][j].token = flight[t][j].token
    BY <1>1, <2>4, <2>5 DEF Out, token
  <2>11. Here(t)'
    <3>1. InOrder(t)'
      BY <1>1, <2>10 DEF InOrder, Kinds
    <3>2. Asked(t)'
      BY <1>1, <1>2, <2>3, <2>4, <2>5, <2>10 DEF Asked, token
    <3>3. Restores(t)'
      BY <1>1, <2>10 DEF Restores, Restoring, Kinds
    <3> QED
      BY <3>1, <3>2, <3>3 DEF Here
  <2>12. \A u \in Tabs, j \in Kinds : Answers(u, j)' =>
           \/ u = t /\ j = k /\ flight'[u][j].answer = next
           \/ /\ ~(u = t /\ j = k) /\ Answers(u, j)
              /\ flight'[u][j].answer = flight[u][j].answer
    BY <2>4, <2>5 DEF Answers, Out
  <2>13. \A s : s = next => Known(s)'
    BY <1>3, <2>3, <2>6, WebSessionMarkers DEF Known, Issued
  <2>14. KnownAll'
    <3>1. /\ \A u \in Tabs : call[u] # None => call[u].used \in Tokens \union {None}
          /\ \A u \in Tabs, j \in Kinds : Out(u, j) => flight[u][j].token \in Tokens \union {None}
      BY <1>1, FlightTypes DEF Typed, APICall
    <3>2. Known(kept)' /\ \A u \in Tabs : Known(session[u])' /\ Known(opened[u])'
      BY <1>1, <2>8, <2>9, KnownStays DEF KnownAll, Typed
    <3>3. \A u \in Tabs : call[u] # None => IssuedToken(call[u].used)'
      BY <1>1, <2>8, <2>9, <3>1, KnownStays DEF KnownAll
    <3>4. \A u \in Tabs, j \in Kinds : Out(u, j)' =>
            Out(u, j) /\ flight'[u][j].token = flight[u][j].token
      BY <2>5, <2>10 DEF Out
    <3>5. \A u \in Tabs, j \in Kinds : Out(u, j)' => IssuedToken(flight[u][j].token)'
      BY <1>1, <2>8, <2>9, <3>1, <3>4, KnownStays DEF KnownAll
    <3>6. \A u \in Tabs, j \in Kinds : Answers(u, j)' => Known(flight[u][j].answer)'
      <4> SUFFICES ASSUME NEW u \in Tabs, NEW j \in Kinds, Answers(u, j)'
                   PROVE  Known(flight[u][j].answer)'
        OBVIOUS
      <4>1. CASE flight'[u][j].answer = next
        BY <2>13, <4>1 DEF Known
      <4>2. CASE Answers(u, j) /\ flight'[u][j].answer = flight[u][j].answer
        BY <1>1, <2>8, <2>9, <4>2, KnownStays DEF KnownAll, Answers, Known
      <4> QED
        BY <2>12, <4>1, <4>2
    <3> QED
      BY <1>1, <3>2, <3>3, <3>5, <3>6 DEF KnownAll
  <2>15. \A s \in Session : Known(s) => ~SameToken(s, next) /\ ~SameToken(next, s)
    <3> SUFFICES ASSUME NEW s \in Session, Known(s), s.sid = next.sid, s.n = next.n PROVE FALSE
      BY DEF SameToken
    <3>1. s.n <= row.n
      BY <2>3, SessionRow DEF Known, row
    <3> QED
      BY <1>3, <2>2, <2>3, <3>1
  <2>16. \A s \in Session \union {None} : Known(s) => ~SameToken(s, next)
    BY <2>15 DEF SameToken
  <2>17. NewTokens'
    <3> SUFFICES ASSUME NEW u \in Tabs, NEW j \in Kinds, Answers(u, j)'
                 PROVE  /\ ~SameToken(kept, flight[u][j].answer)'
                        /\ \A v \in Tabs : /\ ~SameToken(session[v], flight[u][j].answer)'
                                           /\ ~SameToken(opened[v], flight[u][j].answer)'
                        /\ \A v \in Tabs, i \in Kinds :
                             Answers(v, i)' /\ SameToken(flight[v][i].answer, flight[u][j].answer)'
                               => v = u /\ i = j
      BY DEF NewTokens
    <3>1. CASE u = t /\ j = k
      <4>1. flight'[u][j].answer = next
        BY <2>4, <3>1
      <4>2. ~SameToken(kept, next)
        BY <1>1, <2>16 DEF KnownAll, Typed
      <4>3. \A v \in Tabs : ~SameToken(session[v], next) /\ ~SameToken(opened[v], next)
        BY <1>1, <2>16 DEF KnownAll, Typed
      <4>4. \A v \in Tabs, i \in Kinds :
              Answers(v, i)' /\ SameToken(flight'[v][i].answer, next) => v = u /\ i = j
        BY <1>1, <2>12, <2>15, <3>1 DEF KnownAll, Answers
      <4> QED
        BY <1>1, <4>1, <4>2, <4>3, <4>4 DEF SameToken
    <3>2. CASE ~(u = t /\ j = k)
      <4>1. Answers(u, j) /\ flight'[u][j].answer = flight[u][j].answer
        BY <2>12, <3>2
      <4>2. ~SameToken(next, flight[u][j].answer)
        BY <1>1, <2>15, <4>1 DEF KnownAll, Answers
      <4>3. \A v \in Tabs, i \in Kinds :
              Answers(v, i)' /\ SameToken(flight'[v][i].answer, flight[u][j].answer) => v = u /\ i = j
        BY <1>1, <2>12, <4>1, <4>2 DEF NewTokens
      <4> QED
        BY <1>1, <4>1, <4>3 DEF NewTokens, SameToken
    <3> QED
      BY <3>1, <3>2
  <2> QED
    BY <2>9, <2>11, <2>14, <2>17, Closes DEF Books
<1> QED
  BY <1>4, <1>5

LEMMA NetworkKeeps ==
    ASSUME IInv,
           \/ \E t \in Tabs, k \in Kinds : Lose(t, k)
           \/ \E k \in Tokens : RevokeArrives(k) \/ Expire(k)
           \/ \E sid \in Sids : RevokeElsewhere(sid)
    PROVE  IInv'
<1>1. Typed /\ crossed \in BOOLEAN
  BY DEF IInv, Typed
<1>2. ASSUME NEW t \in Tabs, NEW k \in Kinds, Lose(t, k) PROVE IInv'
  <2>1. lost' \in 0..MaxLost /\ crossed' \in BOOLEAN
    BY <1>1, <1>2, WebSessionAssumption DEF Lose, Crosses, Typed
  <2> QED
    BY <1>2, <2>1, RefusedKeeps DEF Lose
<1>3. ASSUME NEW k \in Tokens, RevokeArrives(k) PROVE IInv'
  <2>1. k.sid \in Sids /\ revokes' \subseteq Tokens
    BY <1>1, <1>3 DEF RevokeArrives, Tokens, Typed
  <2>2. CASE Current(k)
    BY <1>1, <1>3, <2>1, <2>2, EndsKeeps, ServerMoves DEF RevokeArrives, Current, Live, Typed
  <2>3. CASE ~Current(k)
    BY <1>1, <1>3, <2>1, <2>3, ServerStays, ServerMoves DEF RevokeArrives, Typed
  <2> QED
    BY <2>2, <2>3
<1>4. ASSUME NEW sid \in Sids, RevokeElsewhere(sid) PROVE IInv'
  BY <1>1, <1>4, EndsKeeps, ServerMoves DEF RevokeElsewhere, Live, Typed
<1>5. ASSUME NEW k \in Tokens, Expire(k) PROVE IInv'
  BY <1>1, <1>5, ServerStays, ServerMoves DEF Expire, Typed
<1> QED
  BY <1>2, <1>3, <1>4, <1>5

LEMMA NextIInv == IInv /\ [Next]_vars => IInv'
<1> SUFFICES ASSUME IInv, [Next]_vars PROVE IInv'
  OBVIOUS
<1>1. ASSUME NEW t \in Tabs, TabStep(t) PROVE IInv'
  BY <1>1, TimerAskKeeps, TimerHearsKeeps, CallKeeps, CallSettlesKeeps, CallTurnedAwayKeeps,
     CallHearsKeeps, BootHearsKeeps, OpenKeeps, CloseKeeps, LoginKeeps, LogoutKeeps
     DEF TabStep, Settles, HearsOne
<1>2. ASSUME UNCHANGED vars PROVE IInv'
  <2>1. Typed
    BY DEF IInv
  <2> QED
    BY <1>2, <2>1, ServerStays, ServerMoves DEF vars, Typed
<1> QED
  BY <1>1, <1>2, ServeKeeps, NetworkKeeps DEF Next

(* Types; besides, a signed-in tab always has its timer set or that        *)
(* timer's answer to come, and a tab that loads has something out that     *)
(* will end it.                                                            *)
THEOREM TypeCorrect == Spec => []TypeOK
BY InitIInv, NextIInv, IInvTypeOK, PTL DEF Spec

(* No tab ever shows one account's name on another's session, whatever     *)
(* answers arrive after a sign-out or another sign-in.                     *)
THEOREM RightUserShown == Spec => []ShowsItsOwnUser
BY InitIInv, NextIInv, IInvShows, PTL DEF Spec

-----------------------------------------------------------------------------
(* As long as no requests have crossed: a session has one refresh out, by  *)
(* the tab that holds it; what is held is the newest token, or the answer  *)
(* that brings it is there; a refusal is the end of the session; and none  *)
(* holds a session whose sign-out is on its way.                           *)
Alone == \A t, u \in Tabs, k, j \in Kinds :
    /\ Out(t, k) /\ flight[t][k].token # None
    /\ Out(u, j) /\ flight[u][j].token # None
    /\ flight[t][k].token.sid = flight[u][j].token.sid
    => t = u /\ k = j
ItsOwn == \A t \in Tabs, k \in Kinds : Out(t, k) => flight[t][k].token = TokenOf(session[t])
UpToDate == \A t \in Tabs : session[t] # None /\ Live(session[t].sid) =>
    session[t].n = server[session[t].sid].n \/ \E k \in Kinds : Answers(t, k)
KeptUpToDate == kept # None /\ Live(kept.sid) =>
    \/ kept.n = server[kept.sid].n
    \/ \E t \in Tabs, k \in Kinds : Answers(t, k) /\ flight[t][k].token.sid = kept.sid
Newest == \A t \in Tabs, k \in Kinds : Answers(t, k) /\ Live(flight[t][k].answer.sid) =>
    flight[t][k].answer.n = server[flight[t][k].answer.sid].n
Refused == \A t \in Tabs, k \in Kinds :
    Out(t, k) /\ flight[t][k].token # None /\ flight[t][k].answer = Rejected =>
        ~Live(flight[t][k].token.sid)
NotHeld(sid) == (kept # None => kept.sid # sid) /\ \A t \in Tabs : session[t] # None => session[t].sid # sid
SignedOut == \A k \in revokes : Issued(k.sid) /\ NotHeld(k.sid)

InStep == Alone /\ ItsOwn /\ UpToDate /\ KeptUpToDate /\ Newest /\ Refused /\ SignedOut
Calm == IInv /\ (crossed \/ InStep)

LEMMA AnswerIsOwn ==
    ASSUME IInv, ItsOwn, NEW t \in Tabs, NEW k \in Kinds, Answers(t, k)
    PROVE  /\ session[t] # None /\ flight[t][k].token # None
           /\ flight[t][k].token = TokenOf(session[t])
           /\ flight[t][k].token.sid = session[t].sid
           /\ flight[t][k].answer.sid = session[t].sid
<1>1. Asked(t) /\ session[t] \in Session \union {None}
  BY Parts
<1>2. Out(t, k) /\ flight[t][k].answer \in Session
  BY DEF Answers
<1>3. flight[t][k].token # None
  BY <1>1, <1>2, WebSessionMarkers DEF Asked
<1>4. flight[t][k].token = TokenOf(session[t])
  BY <1>2 DEF ItsOwn
<1>5. session[t] \in Session
  BY <1>1, <1>3, <1>4, TokenRow
<1> QED
  BY <1>1, <1>2, <1>3, <1>4, <1>5, SessionRow DEF Asked

(* What becomes of the tab's session and the stored one when nothing new   *)
(* is asked or signed in.                                                  *)
Carries(t) ==
    \/ session'[t] = session[t] /\ kept' = kept
    \/ session'[t] = None /\ kept' \in {None, kept} /\ \A j \in Kinds : Out(t, j)' => flight[t][j].token = None
    \/ /\ session[t] # None /\ SameToken(session'[t], session[t]) /\ kept' = session'[t]
    \/ /\ kept' = session'[t]
       /\ \E k \in Kinds : Answers(t, k) /\ ~Out(t, k)' /\ session'[t] = flight[t][k].answer

(* The session is live after the step. *)
Stands(sid) == server'[sid] # None /\ server'[sid].live

LEMMA CarryInStep ==
    ASSUME IInv, IInv', InStep, NEW t \in Tabs, Carries(t),
           \A sid \in Sids : /\ Issued(sid) => server'[sid] # None
                             /\ Stands(sid) => Live(sid) /\ server'[sid].n = server[sid].n,
           \A u \in Tabs \ {t} : session'[u] = session[u],
           \A u \in Tabs, j \in Kinds : Out(u, j)' => Out(u, j) /\ flight'[u][j] = flight[u][j],
           \A u \in Tabs, j \in Kinds : Answers(u, j) =>
               Answers(u, j)' \/ (u = t /\ kept' = session'[t] /\ session'[t] = flight[u][j].answer),
           \A k \in revokes' : k \in revokes \/ (Issued(k.sid)' /\ NotHeld(k.sid)')
    PROVE  InStep'
<1>1. /\ Alone /\ ItsOwn /\ UpToDate /\ KeptUpToDate /\ Newest /\ Refused /\ SignedOut
      /\ Typed /\ Typed'
  BY DEF InStep, IInv
<1>2. \A u \in Tabs, j \in Kinds : Answers(u, j)' => Answers(u, j) /\ flight'[u][j] = flight[u][j]
  BY DEF Answers
<1>3. Alone'
  BY <1>1 DEF Alone
<1>4. ItsOwn'
  <2> SUFFICES ASSUME NEW u \in Tabs, NEW j \in Kinds, Out(u, j)'
               PROVE  flight'[u][j].token = TokenOf(session'[u])
    BY DEF ItsOwn, TokenOf
  <2>1. Out(u, j) /\ flight'[u][j] = flight[u][j] /\ flight[u][j].token = TokenOf(session[u])
    BY <1>1 DEF ItsOwn
  <2>2. CASE u # t
    BY <2>1, <2>2
  <2>3. CASE u = t /\ session'[t] = session[t]
    BY <2>1, <2>3
  <2>4. CASE u = t /\ session'[t] = None /\ flight[t][j].token = None
    BY <2>1, <2>4 DEF TokenOf
  <2>5. CASE u = t /\ session[t] # None /\ SameToken(session'[t], session[t])
    BY <2>1, <2>5 DEF TokenOf, SameToken
  <2>6. ASSUME NEW k \in Kinds, Answers(t, k), ~Out(t, k)', u = t PROVE FALSE
    BY <1>1, <2>1, <2>6, AnswerIsOwn DEF Alone, Answers
  <2> QED
    BY <2>1, <2>2, <2>3, <2>4, <2>5, <2>6 DEF Carries
<1>5. ASSUME NEW k \in Kinds, Answers(t, k), session'[t] = flight[t][k].answer, Stands(session'[t].sid)
      PROVE  session'[t].n = server'[session'[t].sid].n
  <2>1. session'[t] \in Session /\ session'[t].sid \in Sids
    BY <1>5, SessionRow DEF Answers
  <2> QED
    BY <1>1, <1>5, <2>1 DEF Newest
<1>6. UpToDate'
  <2> SUFFICES ASSUME NEW u \in Tabs, session'[u] # None, Stands(session'[u].sid)
               PROVE  session'[u].n = server'[session'[u].sid].n \/ \E k \in Kinds : Answers(u, k)'
    BY DEF UpToDate, Live, Issued, Stands
  <2>1. session'[u] \in Session /\ session'[u].sid \in Sids
    BY <1>1, SessionRow DEF Typed
  <2>2. Live(session'[u].sid) /\ server'[session'[u].sid].n = server[session'[u].sid].n
    BY <2>1
  <2>3. CASE session[u] # None /\ SameToken(session'[u], session[u])
    <3>1. session[u].n = server[session[u].sid].n \/ \E k \in Kinds : Answers(u, k)
      BY <1>1, <2>2, <2>3 DEF UpToDate, SameToken
    <3> QED
      BY <1>5, <2>2, <2>3, <3>1 DEF SameToken
  <2>4. CASE u = t /\ \E k \in Kinds : Answers(t, k) /\ session'[t] = flight[t][k].answer
    BY <1>5, <2>4
  <2> QED
    BY <2>3, <2>4 DEF Carries, SameToken
<1>7. KeptUpToDate'
  <2> SUFFICES ASSUME kept' # None, Stands(kept'.sid)
               PROVE  \/ kept'.n = server'[kept'.sid].n
                      \/ \E u \in Tabs, k \in Kinds : Answers(u, k)' /\ flight'[u][k].token.sid = kept'.sid
    BY DEF KeptUpToDate, Live, Issued, Stands
  <2>1. kept' \in Session /\ kept'.sid \in Sids
    BY <1>1, SessionRow DEF Typed
  <2>2. CASE kept' = kept
    <3>1. Live(kept.sid) /\ server'[kept.sid].n = server[kept.sid].n
      BY <2>1, <2>2
    <3>2. CASE kept.n = server[kept.sid].n
      BY <2>2, <3>1, <3>2
    <3>3. ASSUME NEW u \in Tabs, NEW k \in Kinds, Answers(u, k), flight[u][k].token.sid = kept.sid
          PROVE  \/ kept'.n = server'[kept'.sid].n
                 \/ Answers(u, k)' /\ flight'[u][k].token.sid = kept'.sid
      BY <1>2, <1>5, <2>2, <3>3
    <3> QED
      BY <1>1, <2>2, <3>1, <3>2, <3>3 DEF KeptUpToDate
  <2>3. CASE kept' = session'[t]
    <3>1. session'[t].n = server'[session'[t].sid].n \/ \E k \in Kinds : Answers(t, k)'
      BY <1>6, <2>3 DEF UpToDate, Live, Issued, Stands
    <3>2. ASSUME NEW k \in Kinds, Answers(t, k)' PROVE flight'[t][k].token.sid = kept'.sid
      <4>1. flight'[t][k].token = TokenOf(session'[t])
        BY <1>4, <3>2 DEF ItsOwn, Answers, TokenOf
      <4> QED
        BY <2>1, <2>3, <4>1, SessionRow
    <3> QED
      BY <2>3, <3>1, <3>2
  <2> QED
    BY <2>2, <2>3 DEF Carries
<1>8. Newest'
  <2> SUFFICES ASSUME NEW u \in Tabs, NEW k \in Kinds, Answers(u, k)', Stands(flight'[u][k].answer.sid)
               PROVE  flight'[u][k].answer.n = server'[flight'[u][k].answer.sid].n
    BY DEF Newest, Live, Issued, Stands
  <2>1. flight'[u][k].answer \in Session /\ flight'[u][k].answer.sid \in Sids
    BY SessionRow DEF Answers
  <2> QED
    BY <1>1, <1>2, <2>1 DEF Newest
<1>9. Refused'
  <2> SUFFICES ASSUME NEW u \in Tabs, NEW k \in Kinds, Out(u, k)', flight'[u][k].token # None,
                      flight'[u][k].answer = Rejected, Stands(flight'[u][k].token.sid)
               PROVE  FALSE
    BY DEF Refused, Live, Issued, Stands
  <2>1. flight[u][k].token \in Tokens /\ Out(u, k) /\ flight'[u][k] = flight[u][k]
    BY <1>1, FlightTypes
  <2>2. flight[u][k].token.sid \in Sids
    BY <2>1 DEF Tokens
  <2> QED
    BY <1>1, <2>1, <2>2 DEF Refused
<1>10. SignedOut'
  <2> SUFFICES ASSUME NEW k \in revokes', k \in revokes PROVE Issued(k.sid)' /\ NotHeld(k.sid)'
    BY DEF SignedOut
  <2>1. k.sid \in Sids /\ Issued(k.sid) /\ NotHeld(k.sid)
    BY <1>1 DEF Typed, Tokens, SignedOut
  <2>2. session'[t] # None => session'[t].sid # k.sid
    <3>1. ASSUME NEW j \in Kinds, Answers(t, j), session'[t] = flight[t][j].answer
          PROVE  session'[t].sid # k.sid
      BY <1>1, <2>1, <3>1, AnswerIsOwn DEF NotHeld
    <3> QED
      BY <2>1, <3>1 DEF Carries, NotHeld, SameToken
  <2>3. kept' # None => kept'.sid # k.sid
    BY <2>1, <2>2 DEF Carries, NotHeld
  <2> QED
    BY <2>1, <2>2, <2>3 DEF NotHeld, Issued
<1> QED
  BY <1>3, <1>4, <1>6, <1>7, <1>8, <1>9, <1>10 DEF InStep

(* The tab puts back the token it holds. *)
PutsBack(t) == \E s \in Session : Persist(t, s) /\ session[t] # None /\ SameToken(s, session[t])

LEMMA ServerSame ==
    ASSUME server' = server
    PROVE  \A sid \in Sids : /\ Issued(sid) => server'[sid] # None
                             /\ Stands(sid) => Live(sid) /\ server'[sid].n = server[sid].n
BY DEF Issued, Stands, Live

LEMMA HeardInStep ==
    ASSUME IInv, IInv', InStep, NEW t \in Tabs, NEW k \in Kinds, UNCHANGED <<server, revokes>>,
           Answered(t, k), Hears(t, k),
           \/ Refreshed(t, k) /\ Persist(t, Answer(t, k))
           \/ Says(t, k, Rejected) /\ ClearSession(t)
           \/ flight[t][k].answer \notin Session /\ (UNCHANGED <<kept, session>> \/ PutsBack(t))
    PROVE  InStep'
<1>1. /\ Typed /\ Asked(t) /\ Alone /\ ItsOwn /\ Out(t, k)
  BY Parts DEF InStep, Answered
<1>2. /\ flight'[t][k] = None /\ \A j \in Kinds \ {k} : flight'[t][j] = flight[t][j]
      /\ \A u \in Tabs \ {t} : flight'[u] = flight[u]
  BY <1>1, HearsDoes
<1>3. Carries(t) /\ \A u \in Tabs \ {t} : session'[u] = session[u]
  <2>1. CASE Refreshed(t, k) /\ Persist(t, Answer(t, k))
    <3>1. flight[t][k].answer \in Session /\ Answers(t, k) /\ Persist(t, flight[t][k].answer)
      BY <1>1, <2>1, FlightTypes DEF Refreshed, Answered, Answer, Fresh, Answers
    <3>2. kept' = session'[t] /\ session'[t] = flight[t][k].answer /\ ~Out(t, k)'
      BY <1>1, <1>2, <3>1, PersistDoes DEF Out
    <3> QED
      BY <1>1, <3>1, <3>2, PersistDoes DEF Carries
  <2>2. CASE Says(t, k, Rejected) /\ ClearSession(t)
    <3>1. session'[t] = None /\ kept' = None /\ \A u \in Tabs \ {t} : session'[u] = session[u]
      BY <1>1, <2>2, ClearDoes
    <3>2. ASSUME NEW j \in Kinds, Out(t, j)' PROVE flight[t][j].token = None
      <4>1. j # k /\ Out(t, j)
        BY <1>2, <3>2 DEF Out
      <4>2. flight[t][j].token = TokenOf(session[t]) /\ flight[t][k].token = TokenOf(session[t])
        BY <1>1, <4>1 DEF ItsOwn
      <4> QED
        BY <1>1, <4>1, <4>2 DEF Alone
    <3> QED
      BY <3>1, <3>2 DEF Carries
  <2>3. CASE UNCHANGED <<kept, session>>
    BY <2>3 DEF Carries
  <2>4. CASE PutsBack(t)
    BY <1>1, <2>4, PersistDoes DEF PutsBack, Carries
  <2> QED
    BY <2>1, <2>2, <2>3, <2>4
<1>4. \A u \in Tabs, j \in Kinds : Out(u, j)' => Out(u, j) /\ flight'[u][j] = flight[u][j]
  BY <1>2 DEF Out
<1>5. \A u \in Tabs, j \in Kinds : Answers(u, j) =>
        Answers(u, j)' \/ (u = t /\ kept' = session'[t] /\ session'[t] = flight[u][j].answer)
  <2>1. \A u \in Tabs, j \in Kinds : Answers(u, j) => Answers(u, j)' \/ (u = t /\ j = k)
    BY <1>2 DEF Answers, Out
  <2>2. Answers(t, k) => Refreshed(t, k) /\ Persist(t, flight[t][k].answer)
    BY SessionRow DEF Answers, Says, Answer, Fresh
  <2>3. Answers(t, k) => kept' = flight[t][k].answer /\ session'[t] = flight[t][k].answer
    BY <1>1, <2>2, PersistDoes DEF Answers
  <2> QED
    BY <2>1, <2>3
<1>6. \A r \in revokes' : r \in revokes
  OBVIOUS
<1> QED
  BY <1>3, <1>4, <1>5, <1>6, CarryInStep, ServerSame

LEMMA QuietInStep ==
    ASSUME IInv, IInv', InStep, NEW t \in Tabs, UNCHANGED <<server, flight, revokes>>,
           \/ UNCHANGED <<kept, session>>
           \/ PutsBack(t)
           \/ ClearSession(t) /\ \A j \in Kinds : ~Out(t, j)
    PROVE  InStep'
<1>1. Typed
  BY Parts
<1>2. Carries(t) /\ \A u \in Tabs \ {t} : session'[u] = session[u]
  BY <1>1, PersistDoes, ClearDoes DEF PutsBack, Carries, Out
<1>3. \A u \in Tabs, j \in Kinds : (Out(u, j)' <=> Out(u, j)) /\ (Answers(u, j)' <=> Answers(u, j))
  BY DEF Out, Answers
<1>4. \A r \in revokes' : r \in revokes
  OBVIOUS
<1> QED
  BY <1>2, <1>3, <1>4, CarryInStep, ServerSame

(* Without a crossing, what a restore or a "who am I" puts back is what    *)
(* the tab holds.                                                          *)
LEMMA OpensWithItsOwn ==
    ASSUME IInv, NEW t \in Tabs, NEW user \in {opened[t].user, server[call[t].used.sid].account},
           Restoring(t), PersistOpened(t, user), ~crossed'
    PROVE  PutsBack(t)
<1>1. session[t] \in Session \union {None} /\ opened[t] \in Session
  BY Parts, OpenedIs
<1>2. Persist(t, opened[t]) /\ TokenOf(opened[t]) = TokenOf(session[t])
  BY OpenedIs DEF PersistOpened, Crosses
<1>3. session[t] \in Session
  BY <1>1, <1>2, SessionRow DEF TokenOf
<1>4. SameToken(opened[t], session[t]) /\ session[t] # None
  BY <1>1, <1>2, <1>3, SessionRow DEF SameToken
<1> QED
  BY <1>1, <1>2, <1>4 DEF PutsBack

LEMMA HearsInStep ==
    ASSUME IInv, IInv', InStep, NEW t \in Tabs, HearsOne(t), ~crossed'
    PROVE  InStep'
<1>1. {"timer", "call", "boot"} \subseteq Kinds /\ Unreachable \notin Session /\ Rejected \notin Session
  BY WebSessionMarkers DEF Kinds
<1>2. CASE TimerHears(t)
  BY <1>1, <1>2, HeardInStep DEF TimerHears, Says
<1>3. CASE CallHears(t)
  <2>1. /\ Answered(t, "call") /\ Hears(t, "call") /\ UNCHANGED <<server, revokes>> /\ call[t] # None
        /\ \/ Refreshed(t, "call") /\ Persist(t, Answer(t, "call"))
           \/ Says(t, "call", Rejected) /\ Unauthorized(t)
           \/ Says(t, "call", Unreachable) /\ OpensAnyway(t)
    BY <1>3 DEF CallHears
  <2>2. CASE Says(t, "call", Rejected) /\ Unauthorized(t)
    BY <1>1, <2>1, <2>2, HeardInStep DEF Unauthorized, Untouched, Says
  <2>3. CASE Says(t, "call", Unreachable) /\ OpensAnyway(t)
    <3>1. CASE call[t].why = "boot"
      BY <1>1, <2>1, <2>3, <3>1, OpensWithItsOwn, HeardInStep DEF OpensAnyway, Restoring, Says
    <3>2. CASE call[t].why # "boot"
      BY <1>1, <2>1, <2>3, <3>2, HeardInStep DEF OpensAnyway, Untouched, Says
    <3> QED
      BY <3>1, <3>2
  <2> QED
    BY <1>1, <2>1, <2>2, <2>3, HeardInStep
<1>4. CASE BootHears(t)
  <2>1. /\ Answered(t, "boot") /\ Hears(t, "boot") /\ UNCHANGED <<server, revokes>>
        /\ \/ Refreshed(t, "boot") /\ Persist(t, Answer(t, "boot"))
           \/ Says(t, "boot", Rejected) /\ ClearSession(t)
           \/ Says(t, "boot", Unreachable) /\ Persist(t, opened[t])
    BY <1>4 DEF BootHears
  <2>2. CASE Says(t, "boot", Unreachable) /\ Persist(t, opened[t])
    <3>1. opened[t] = session[t] /\ session[t] \in Session
      BY <1>1, <2>1, Parts DEF Answered, Restores, InOrder
    <3>2. PutsBack(t)
      BY <2>2, <3>1, SessionRow DEF PutsBack, SameToken
    <3> QED
      BY <1>1, <2>1, <2>2, <3>2, HeardInStep DEF Says
  <2> QED
    BY <1>1, <2>1, <2>2, HeardInStep
<1> QED
  BY <1>2, <1>3, <1>4 DEF HearsOne

LEMMA SettlesInStep ==
    ASSUME IInv, IInv', InStep, NEW t \in Tabs,
           CallServed(t) \/ CallTurnedAwayAgain(t) \/ CallFails(t), ~crossed'
    PROVE  InStep'
<1>1. session[t] \in Session \union {None}
  BY Parts
<1>2. CASE CallServed(t)
  <2> DEFINE user == server[call[t].used.sid].account
  <2>1. /\ call[t] # None /\ UNCHANGED <<server, flight, revokes>>
        /\ \/ call[t].why = "boot" /\ PersistOpened(t, user)
           \/ SameAccount(t, user) /\ Persist(t, [session[t] EXCEPT !.user = user])
           \/ Untouched
    BY <1>2 DEF CallServed, Sent
  <2>2. CASE call[t].why = "boot" /\ PersistOpened(t, user)
    BY <2>1, <2>2, OpensWithItsOwn, QuietInStep DEF Restoring
  <2>3. CASE SameAccount(t, user) /\ Persist(t, [session[t] EXCEPT !.user = user])
    <3>1. session[t] \in Session /\ session[t].user = user
      BY <1>1, <2>3 DEF SameAccount
    <3>2. [session[t] EXCEPT !.user = user] = session[t]
      BY <3>1 DEF Session
    <3>3. PutsBack(t)
      BY <2>3, <3>1, <3>2, SessionRow DEF PutsBack, SameToken
    <3> QED
      BY <2>1, <3>3, QuietInStep
  <2> QED
    BY <2>1, <2>2, <2>3, QuietInStep DEF Untouched
<1>3. CASE CallTurnedAwayAgain(t)
  BY <1>3, QuietInStep DEF CallTurnedAwayAgain, Unauthorized, Untouched, Crosses
<1>4. CASE CallFails(t)
  BY <1>4, OpensWithItsOwn, QuietInStep DEF CallFails, Sent, OpensAnyway, Untouched, Restoring
<1> QED
  BY <1>2, <1>3, <1>4

LEMMA AskInStep ==
    ASSUME IInv, IInv', InStep, NEW t \in Tabs, NEW k \in Kinds, Ask(t, k), ~crossed',
           UNCHANGED <<server, kept, session, revokes>>
    PROVE  InStep'
<1>1. /\ Typed /\ Typed' /\ Alone /\ ItsOwn /\ UpToDate /\ KeptUpToDate /\ Newest /\ Refused /\ SignedOut
      /\ session[t] \in Session \union {None} /\ ~Out(t, k) /\ MayAsk(t) /\ ~OutFor(session[t])
  BY Parts DEF InStep, IInv, Ask, Crosses
<1>2. /\ flight'[t][k] = Flight(t) /\ \A j \in Kinds \ {k} : flight'[t][j] = flight[t][j]
      /\ \A u \in Tabs \ {t} : flight'[u] = flight[u]
  BY <1>1, AskDoes
<1>3. \A u \in Tabs, j \in Kinds :
        IF u = t /\ j = k THEN Out(u, j)' /\ flight'[u][j] = Flight(t)
                          ELSE (Out(u, j)' <=> Out(u, j)) /\ flight'[u][j] = flight[u][j]
  BY <1>1, <1>2, FlightIs DEF Out
<1>4. Flight(t).token = TokenOf(session[t]) /\ Flight(t).answer \notin Session
      /\ (Flight(t).token # None => Flight(t).answer = None)
  BY <1>1, FlightIs, TokenRow, WebSessionMarkers DEF Flight
<1>5. \A u \in Tabs, j \in Kinds : Answers(u, j)' <=> Answers(u, j)
  BY <1>1, <1>3, <1>4 DEF Answers
<1>6. Alone'
  <2>1. ASSUME NEW u \in Tabs, NEW j \in Kinds, Out(u, j), flight[u][j].token # None, Flight(t).token # None
        PROVE  flight[u][j].token.sid # Flight(t).token.sid
    <3>1. session[t] # None /\ Flight(t).token.sid = session[t].sid
      BY <1>1, <1>4, <2>1, SessionRow, TokenRow
    <3> QED
      BY <1>1, <2>1, <3>1 DEF OutFor
  <2> QED
    BY <1>1, <1>3, <2>1 DEF Alone
<1>7. ItsOwn'
  BY <1>1, <1>3, <1>4 DEF ItsOwn, TokenOf
<1>8. UpToDate' /\ KeptUpToDate'
  <2>1. \A u \in Tabs, j \in Kinds : Answers(u, j) => flight'[u][j] = flight[u][j]
    BY <1>1, <1>3 DEF Answers
  <2> QED
    BY <1>1, <1>5, <2>1 DEF UpToDate, KeptUpToDate, Live, Issued
<1>9. Newest'
  BY <1>1, <1>3, <1>5 DEF Newest, Live, Issued, Answers
<1>10. Refused'
  <2> SUFFICES ASSUME NEW u \in Tabs, NEW j \in Kinds, Out(u, j)', flight'[u][j].token # None,
                      flight'[u][j].answer = Rejected
               PROVE  ~Stands(flight'[u][j].token.sid)
    BY DEF Refused, Live, Issued, Stands
  <2>1. ~(u = t /\ j = k)
    BY <1>3, <1>4, WebSessionMarkers
  <2> QED
    BY <1>1, <1>3, <2>1 DEF Refused, Live, Issued, Stands
<1>11. SignedOut'
  BY <1>1 DEF SignedOut, NotHeld, Issued
<1> QED
  BY <1>6, <1>7, <1>8, <1>9, <1>10, <1>11 DEF InStep

LEMMA OpenInStep ==
    ASSUME IInv, IInv', InStep, NEW t \in Tabs, Open(t), ~crossed'
    PROVE  InStep'
<1>1. /\ Typed /\ Typed' /\ Alone /\ ItsOwn /\ UpToDate /\ KeptUpToDate /\ Newest /\ Refused /\ SignedOut
      /\ status[t] = "closed" /\ session[t] = None /\ \A k \in Kinds : ~Out(t, k)
      /\ kept \in Session \union {None} /\ ~OutFor(kept) /\ "boot" \in Kinds
      /\ UNCHANGED <<server, kept, revokes>>
      /\ session' = [session EXCEPT ![t] = kept]
      /\ IF kept = None THEN UNCHANGED <<call, flight>> ELSE Boot(t)
  BY Parts DEF InStep, IInv, Typed, Open, Crosses, Restores, InOrder, Kinds
<1>2. session'[t] = kept /\ \A u \in Tabs \ {t} : session'[u] = session[u]
  BY <1>1 DEF Typed
<1>3. CASE kept = None
  <2>1. session' = session /\ flight' = flight
    BY <1>1, <1>2, <1>3 DEF Typed
  <2> QED
    BY <1>1, <2>1, QuietInStep
<1>4. CASE kept # None
  <2> DEFINE f == [token |-> TokenOf(kept), answer |-> None]
  <2>1. kept \in Session /\ f # None /\ f.token = TokenOf(kept) /\ f.token # None
        /\ f.token.sid = kept.sid /\ f.answer \notin Session \union {Rejected}
    <3>1. kept \in Session
      BY <1>1, <1>4
    <3>2. f \in Refresh
      BY <3>1, SessionRow DEF Refresh
    <3> QED
      BY <3>1, <3>2, SessionRow, WebSessionMarkers
  <2>2. flight' = flight \/ flight' = [flight EXCEPT ![t]["boot"] = f]
    BY <1>1, <1>4 DEF Boot
  <2> HIDE DEF f
  <2>3. \A u \in Tabs, j \in Kinds : Out(u, j)' =>
          \/ u = t /\ j = "boot" /\ flight'[u][j] = f
          \/ u # t /\ Out(u, j) /\ flight'[u][j] = flight[u][j]
    BY <1>1, <2>1, <2>2 DEF Out, Typed
  <2>4. \A u \in Tabs, j \in Kinds : Answers(u, j)' <=> Answers(u, j)
    BY <1>1, <2>1, <2>2 DEF Answers, Out, Typed
  <2>5. \A u \in Tabs, j \in Kinds : Answers(u, j) => flight'[u][j] = flight[u][j]
    BY <2>1, <2>3, <2>4 DEF Answers
  <2>6. \A u \in Tabs, j \in Kinds : Out(u, j) /\ flight[u][j].token # None => flight[u][j].token.sid # kept.sid
    BY <1>1, <1>4 DEF OutFor
  <2>7. Alone'
    BY <1>1, <2>1, <2>3, <2>6 DEF Alone
  <2>8. ItsOwn'
    BY <1>1, <1>2, <2>1, <2>3 DEF ItsOwn, TokenOf
  <2>9. KeptUpToDate'
    BY <1>1, <2>4, <2>5 DEF KeptUpToDate, Live, Issued
  <2>10. UpToDate'
    <3>1. Live(kept.sid) => kept.n = server[kept.sid].n
      BY <1>1, <1>4, <2>6, AnswerIsOwn DEF KeptUpToDate, Answers
    <3> QED
      BY <1>1, <1>2, <2>4, <3>1 DEF UpToDate, Live, Issued
  <2>11. Newest'
    BY <1>1, <2>4, <2>5 DEF Newest, Live, Issued
  <2>12. Refused'
    <3> SUFFICES ASSUME NEW u \in Tabs, NEW j \in Kinds, Out(u, j)', flight'[u][j].token # None,
                        flight'[u][j].answer = Rejected
                 PROVE  ~Stands(flight'[u][j].token.sid)
      BY DEF Refused, Live, Issued, Stands
    <3> QED
      BY <1>1, <2>1, <2>3 DEF Refused, Live, Issued, Stands
  <2>13. SignedOut'
    BY <1>1, <1>2, <1>4 DEF SignedOut, NotHeld, Issued
  <2> QED
    BY <2>7, <2>8, <2>9, <2>10, <2>11, <2>12, <2>13 DEF InStep
<1> QED
  BY <1>3, <1>4

LEMMA LeaveInStep ==
    ASSUME IInv, IInv', InStep, NEW t \in Tabs, Close(t) \/ Logout(t), ~crossed'
    PROVE  InStep'
<1>1. /\ Typed /\ Typed' /\ KnownAll /\ InOrder(t) /\ session[t] \in Session \union {None}
      /\ \A k \in Kinds : ~Out(t, k)
  BY Parts DEF IInv, Close, Logout, Crosses, SomeOut
<1>2. \A u \in Tabs, j \in Kinds :
        (Out(u, j)' <=> Out(u, j)) /\ (Out(u, j) => flight'[u][j] = flight[u][j])
  BY <1>1 DEF Close, Logout, Out, Typed
<1>3. \A u \in Tabs, j \in Kinds : Answers(u, j)' <=> Answers(u, j)
  BY <1>2 DEF Answers
<1>4. server' = server
  BY DEF Close, Logout
<1>5. CASE Close(t)
  <2>1. session'[t] = None /\ kept' = kept /\ \A u \in Tabs \ {t} : session'[u] = session[u]
    BY <1>1, <1>5 DEF Close, Typed
  <2>2. Carries(t)
    BY <1>1, <1>2, <2>1 DEF Carries
  <2>3. \A r \in revokes' : r \in revokes
    BY <1>5 DEF Close
  <2> QED
    BY <1>2, <1>3, <1>4, <2>1, <2>2, <2>3, CarryInStep, ServerSame
<1>6. CASE Logout(t)
  <2>1. /\ session'[t] = None /\ kept' = None /\ \A u \in Tabs \ {t} : session'[u] = session[u]
        /\ status[t] = "authenticated" /\ revokes' = revokes \union {TokenOf(session[t])}
        /\ ~HeldElsewhere(t, session[t].sid)
    BY <1>1, <1>6, ClearDoes DEF Logout, Crosses
  <2>2. Carries(t)
    BY <1>1, <1>2, <2>1 DEF Carries
  <2>3. session[t] \in Session /\ TokenOf(session[t]).sid = session[t].sid
    BY <1>1, <2>1, SessionRow DEF InOrder
  <2>4. \A r \in revokes' : r \in revokes \/ (Issued(r.sid)' /\ NotHeld(r.sid)')
    <3>1. server'[session[t].sid] # None
      BY <1>1, <1>4, <2>3, SessionRow DEF KnownAll, Known, Issued
    <3>2. \A u \in Tabs : session'[u] # None => session'[u].sid # session[t].sid
      BY <2>1 DEF HeldElsewhere
    <3> QED
      BY <2>1, <2>3, <3>1, <3>2 DEF NotHeld, Issued
  <2> QED
    BY <1>2, <1>3, <1>4, <2>1, <2>2, <2>4, CarryInStep, ServerSame
<1> QED
  BY <1>5, <1>6

LEMMA LoginInStep ==
    ASSUME IInv, IInv', InStep, NEW t \in Tabs, NEW a \in Accounts, Login(t, a), ~crossed'
    PROVE  InStep'
<1>1. /\ Typed /\ Typed' /\ KnownAll
      /\ Alone /\ ItsOwn /\ UpToDate /\ KeptUpToDate /\ Newest /\ Refused /\ SignedOut
      /\ \A k \in Kinds : ~Out(t, k)
      /\ UNCHANGED <<flight, revokes>>
  BY Parts DEF InStep, IInv, Login, Crosses, SomeOut
<1>2. PICK sid \in Sids :
        /\ ~Issued(sid)
        /\ server' = [server EXCEPT ![sid] = [account |-> a, n |-> 1, live |-> TRUE]]
        /\ Persist(t, [sid |-> sid, n |-> 1, user |-> a])
  BY DEF Login
<1> DEFINE s == [sid |-> sid, n |-> 1, user |-> a]
<1>3. s \in Session
  BY WebSessionAssumption DEF Session
<1>4. server'[sid].n = 1 /\ \A i \in Sids \ {sid} : server'[i] = server[i]
  BY <1>1, <1>2 DEF Typed
<1>5. s.sid = sid /\ s.n = 1 /\ kept' = s /\ session'[t] = s
      /\ \A u \in Tabs \ {t} : session'[u] = session[u]
  BY <1>1, <1>2, <1>3, PersistDoes
<1> HIDE DEF s
<1>6. \A u \in Tabs, j \in Kinds :
        /\ Out(u, j)' <=> Out(u, j)
        /\ Answers(u, j)' <=> Answers(u, j)
        /\ Out(u, j) => u # t
  BY <1>1 DEF Out, Answers
<1>7. \A i \in Sids : Issued(i) => i # sid /\ server'[i] = server[i] /\ server'[i] # None
  BY <1>2, <1>4 DEF Issued
<1>8. Alone' /\ ItsOwn'
  BY <1>1, <1>5, <1>6 DEF Alone, ItsOwn, TokenOf
<1>9. UpToDate'
  <2> SUFFICES ASSUME NEW u \in Tabs, session'[u] # None, Stands(session'[u].sid)
               PROVE  session'[u].n = server'[session'[u].sid].n \/ \E k \in Kinds : Answers(u, k)'
    BY DEF UpToDate, Live, Issued, Stands
  <2>1. CASE u = t
    BY <1>4, <1>5, <2>1
  <2>2. CASE u # t
    <3>1. session'[u] = session[u] /\ session[u] \in Session
      BY <1>1, <1>5, <2>2 DEF Typed
    <3>2. Issued(session[u].sid) /\ session[u].sid \in Sids
      BY <1>1, <3>1, SessionRow DEF KnownAll, Known
    <3>3. server'[session[u].sid] = server[session[u].sid] /\ Live(session[u].sid)
      BY <1>7, <3>1, <3>2 DEF Stands, Live
    <3> QED
      BY <1>1, <1>6, <3>1, <3>3 DEF UpToDate
  <2> QED
    BY <2>1, <2>2
<1>10. KeptUpToDate'
  BY <1>4, <1>5 DEF KeptUpToDate
<1>11. Newest'
  <2> SUFFICES ASSUME NEW u \in Tabs, NEW k \in Kinds, Answers(u, k)', Stands(flight'[u][k].answer.sid)
               PROVE  flight'[u][k].answer.n = server'[flight'[u][k].answer.sid].n
    BY DEF Newest, Live, Issued, Stands
  <2>1. Answers(u, k) /\ flight[u][k].answer \in Session /\ flight'[u][k] = flight[u][k]
    BY <1>1, <1>6 DEF Answers
  <2>2. flight[u][k].answer.sid \in Sids /\ Issued(flight[u][k].answer.sid)
    BY <1>1, <2>1, SessionRow DEF KnownAll, Known
  <2> QED
    BY <1>1, <1>7, <2>1, <2>2 DEF Newest, Stands, Live
<1>12. Refused'
  <2> SUFFICES ASSUME NEW u \in Tabs, NEW j \in Kinds, Out(u, j)', flight'[u][j].token # None,
                      flight'[u][j].answer = Rejected, Stands(flight'[u][j].token.sid)
               PROVE  FALSE
    BY DEF Refused, Live, Issued, Stands
  <2>1. Out(u, j) /\ flight'[u][j] = flight[u][j] /\ flight[u][j].token \in Tokens
    BY <1>1, <1>6, FlightTypes
  <2>2. flight[u][j].token.sid \in Sids /\ Issued(flight[u][j].token.sid)
    BY <1>1, <2>1 DEF Tokens, KnownAll, IssuedToken
  <2> QED
    BY <1>1, <1>7, <2>1, <2>2 DEF Refused, Stands, Live
<1>13. SignedOut'
  <2>1. \A r \in revokes : r.sid \in Sids /\ Issued(r.sid)
    BY <1>1 DEF SignedOut, Typed, Tokens
  <2> QED
    BY <1>1, <1>5, <1>7, <2>1 DEF SignedOut, NotHeld, Issued
<1> QED
  BY <1>8, <1>9, <1>10, <1>11, <1>12, <1>13 DEF InStep

LEMMA UnansweredInStep ==
    ASSUME IInv, IInv', InStep, NEW t \in Tabs, NEW k \in Kinds, NEW answer \in {Rejected, Unreachable},
           Out(t, k), flight[t][k].answer = None,
           flight' = [flight EXCEPT ![t][k].answer = answer],
           answer = Rejected => ~Live(flight[t][k].token.sid),
           UNCHANGED <<server, kept, session, revokes>>
    PROVE  InStep'
<1>1. /\ Typed /\ Typed' /\ Alone /\ ItsOwn /\ UpToDate /\ KeptUpToDate /\ Newest /\ Refused /\ SignedOut
      /\ flight[t][k] \in Refresh
  BY FlightTypes DEF InStep, IInv
<1>2. /\ flight'[t][k].token = flight[t][k].token /\ flight'[t][k].answer = answer
      /\ \A u \in Tabs, j \in Kinds : ~(u = t /\ j = k) => flight'[u][j] = flight[u][j]
  BY <1>1 DEF Typed, Refresh
<1>3. \A u \in Tabs, j \in Kinds :
        Out(u, j)' => Out(u, j) /\ flight'[u][j].token = flight[u][j].token
  BY <1>2 DEF Out
<1>4. answer \notin Session /\ None \notin Session /\ Rejected # Unreachable
  BY WebSessionMarkers
<1>5. \A u \in Tabs, j \in Kinds : Answers(u, j)' <=> Answers(u, j)
  <2>1. ~Answers(t, k) /\ ~Answers(t, k)'
    BY <1>2, <1>4 DEF Answers
  <2>2. \A u \in Tabs, j \in Kinds : ~(u = t /\ j = k) => (Answers(u, j)' <=> Answers(u, j))
    BY <1>2 DEF Answers, Out
  <2> QED
    BY <2>1, <2>2
<1>6. \A u \in Tabs, j \in Kinds : Answers(u, j) => flight'[u][j] = flight[u][j]
  BY <1>2, <1>4 DEF Answers
<1>7. Alone' /\ ItsOwn'
  BY <1>1, <1>3 DEF Alone, ItsOwn, TokenOf
<1>8. UpToDate' /\ KeptUpToDate' /\ Newest'
  <2>1. UpToDate'
    BY <1>1, <1>5 DEF UpToDate, Live, Issued
  <2>2. KeptUpToDate'
    BY <1>1, <1>5, <1>6 DEF KeptUpToDate, Live, Issued
  <2>3. Newest'
    <3> SUFFICES ASSUME NEW u \in Tabs, NEW j \in Kinds, Answers(u, j)', Stands(flight'[u][j].answer.sid)
                 PROVE  flight'[u][j].answer.n = server'[flight'[u][j].answer.sid].n
      BY DEF Newest, Live, Issued, Stands
    <3>1. Answers(u, j) /\ flight'[u][j] = flight[u][j]
      BY <1>5, <1>6
    <3> QED
      BY <1>1, <3>1 DEF Newest, Live, Issued, Stands
  <2> QED
    BY <2>1, <2>2, <2>3
<1>9. Refused'
  <2> SUFFICES ASSUME NEW u \in Tabs, NEW j \in Kinds, Out(u, j)', flight'[u][j].token # None,
                      flight'[u][j].answer = Rejected
               PROVE  ~Live(flight'[u][j].token.sid)
    BY DEF Refused, Live, Issued
  <2> QED
    BY <1>1, <1>2, <1>3, <1>4 DEF Refused
<1>10. SignedOut'
  BY <1>1 DEF SignedOut, NotHeld, Issued
<1> QED
  BY <1>7, <1>8, <1>9, <1>10 DEF InStep

(* Who is refused without a crossing held the newest token there was. *)
LEMMA RefusalIsFinal ==
    ASSUME IInv, InStep, NEW t \in Tabs, NEW k \in Kinds,
           Out(t, k), flight[t][k].answer = None, ~Current(flight[t][k].token)
    PROVE  ~Live(flight[t][k].token.sid)
<1> DEFINE token == flight[t][k].token
<1>1. /\ Alone /\ ItsOwn /\ UpToDate /\ Asked(t) /\ session[t] \in Session \union {None}
  BY Parts DEF InStep
<1>2. token # None /\ token = TokenOf(session[t])
  BY <1>1, WebSessionMarkers DEF Asked, ItsOwn
<1>3. session[t] \in Session /\ token.sid = session[t].sid /\ token.n = session[t].n
  BY <1>1, <1>2, SessionRow, TokenRow
<1>4. ASSUME NEW j \in Kinds, Answers(t, j) PROVE FALSE
  <2>1. j = k
    BY <1>1, <1>2, <1>4, AnswerIsOwn DEF Alone, Answers
  <2> QED
    BY <1>4, <2>1, WebSessionMarkers DEF Answers
<1>5. Live(token.sid) => token.n = server[token.sid].n
  BY <1>1, <1>3, <1>4, SessionRow DEF UpToDate
<1> QED
  BY <1>5 DEF Current

LEMMA ServeInStep ==
    ASSUME IInv, IInv', InStep, NEW t \in Tabs, NEW k \in Kinds, Serve(t, k), ~crossed'
    PROVE  InStep'
<1> DEFINE token == flight[t][k].token
           next == [sid |-> token.sid, n |-> token.n + 1, user |-> server[token.sid].account]
<1>1. /\ Typed /\ Typed' /\ Asked(t) /\ KnownAll
      /\ Alone /\ ItsOwn /\ UpToDate /\ KeptUpToDate /\ Newest /\ Refused /\ SignedOut
      /\ flight[t][k] \in Refresh /\ session[t] \in Session \union {None}
      /\ Out(t, k) /\ flight[t][k].answer = None /\ UNCHANGED <<kept, session, revokes>>
  BY Parts, FlightTypes DEF InStep, IInv, Serve, tab
<1>2. token # None /\ token \in Tokens /\ token.sid \in Sids /\ token = TokenOf(session[t])
      /\ Issued(token.sid)
  BY <1>1, WebSessionMarkers DEF Asked, ItsOwn, Refresh, Tokens, KnownAll, IssuedToken
<1>3. session[t] \in Session /\ session[t].sid = token.sid
  BY <1>1, <1>2, SessionRow, TokenRow
<1>4. CASE ~Current(token)
  BY <1>1, <1>4, RefusalIsFinal, UnansweredInStep DEF Serve
<1>5. CASE Current(token)
  <2>1. /\ server' = [server EXCEPT ![token.sid].n = token.n + 1]
        /\ flight' = [flight EXCEPT ![t][k].answer = next]
        /\ ~HeldElsewhere(t, token.sid)
    BY <1>5 DEF Serve, Crosses
  <2>2. next \in Session /\ next.sid = token.sid /\ next.n = token.n + 1
    <3>1. token.n < MaxN /\ token.n \in 1..MaxN /\ server[token.sid] \in ServerRow
      BY <1>1, <1>2 DEF Asked, Tokens, Typed, Issued
    <3>2. token.n + 1 \in 1..MaxN /\ server[token.sid].account \in Accounts
      BY <3>1, WebSessionAssumption DEF ServerRow
    <3> QED
      BY <1>2, <3>2 DEF Session
  <2> HIDE DEF next
  <2>3. flight'[t][k].token = token /\ flight'[t][k].answer = next /\ flight'[t][k] # None
    <3>1. flight'[t][k] = [flight[t][k] EXCEPT !.answer = next]
      BY <1>1, <2>1 DEF Typed
    <3>2. flight'[t][k] \in Refresh
      BY <1>1, <2>2, <3>1 DEF Refresh
    <3> QED
      BY <1>1, <3>1, <3>2, WebSessionMarkers DEF Refresh
  <2>4. \A u \in Tabs, j \in Kinds : ~(u = t /\ j = k) => flight'[u][j] = flight[u][j]
    BY <1>1, <2>1 DEF Typed
  <2>5. /\ \A i \in Sids : Stands(i) <=> Live(i)
        /\ server'[token.sid].n = token.n + 1 /\ \A i \in Sids \ {token.sid} : server'[i] = server[i]
        /\ \A i \in Sids : server[i] # None => server'[i] # None
    <3>1. server[token.sid] \in ServerRow /\ server'[token.sid] = [server[token.sid] EXCEPT !.n = token.n + 1]
      BY <1>1, <1>2, <2>1 DEF Typed, Issued
    <3>2. server'[token.sid] # None
      BY <1>2, <1>1, <2>2, <3>1, WebSessionMarkers DEF ServerRow, Session
    <3> QED
      BY <1>1, <1>2, <2>1, <3>1, <3>2 DEF Stands, Live, Issued, ServerRow, Typed
  <2>6. \A u \in Tabs, j \in Kinds : (Out(u, j)' <=> Out(u, j)) /\ flight'[u][j].token = flight[u][j].token
    BY <1>1, <2>3, <2>4 DEF Out
  <2>7. Answers(t, k)' /\ \A u \in Tabs, j \in Kinds :
          ~(u = t /\ j = k) => (Answers(u, j)' <=> Answers(u, j))
    BY <2>2, <2>3, <2>4 DEF Answers, Out
  <2>8. Alone' /\ ItsOwn'
    BY <1>1, <2>6 DEF Alone, ItsOwn, TokenOf
  <2>9. \A u \in Tabs : session[u] # None /\ session[u].sid = token.sid => u = t
    BY <2>1 DEF HeldElsewhere
  <2>10. UpToDate'
    <3> SUFFICES ASSUME NEW u \in Tabs, session[u] # None, Stands(session[u].sid), u # t
                 PROVE  session[u].n = server'[session[u].sid].n \/ \E j \in Kinds : Answers(u, j)'
      BY <1>1, <2>7 DEF UpToDate, Live, Issued, Stands
    <3>1. session[u] \in Session /\ session[u].sid \in Sids \ {token.sid}
      BY <1>1, <2>9, SessionRow DEF Typed
    <3>2. Live(session[u].sid) /\ server'[session[u].sid] = server[session[u].sid]
      BY <2>5, <3>1
    <3> QED
      BY <1>1, <2>7, <3>2 DEF UpToDate
  <2>11. KeptUpToDate'
    <3> SUFFICES ASSUME kept # None, Stands(kept.sid), kept.sid # token.sid
                 PROVE  \/ kept.n = server'[kept.sid].n
                        \/ \E u \in Tabs, j \in Kinds : Answers(u, j)' /\ flight'[u][j].token.sid = kept.sid
      BY <1>1, <2>3, <2>7 DEF KeptUpToDate, Live, Issued, Stands
    <3>1. kept.sid \in Sids \ {token.sid}
      BY <1>1, SessionRow DEF Typed
    <3>2. Live(kept.sid) /\ server'[kept.sid] = server[kept.sid]
      BY <2>5, <3>1
    <3> QED
      BY <1>1, <2>4, <2>7, <3>2 DEF KeptUpToDate
  <2>12. Newest'
    <3> SUFFICES ASSUME NEW u \in Tabs, NEW j \in Kinds, Answers(u, j)', Stands(flight'[u][j].answer.sid)
                 PROVE  flight'[u][j].answer.n = server'[flight'[u][j].answer.sid].n
      BY DEF Newest, Live, Issued, Stands
    <3>1. CASE u = t /\ j = k
      BY <2>2, <2>3, <2>5, <3>1
    <3>2. CASE ~(u = t /\ j = k)
      <4>1. Answers(u, j) /\ flight'[u][j] = flight[u][j]
        BY <2>4, <2>7, <3>2
      <4>2. flight[u][j].answer.sid \in Sids /\ flight[u][j].answer.sid = session[u].sid /\ session[u] # None
        BY <1>1, <4>1, AnswerIsOwn, SessionRow DEF Answers
      <4>3. flight[u][j].answer.sid # token.sid
        <5>1. flight[u][j].token # None /\ flight[u][j].token.sid = flight[u][j].answer.sid /\ Out(u, j)
          BY <1>1, <4>1, AnswerIsOwn DEF Answers
        <5> QED
          BY <1>1, <1>2, <3>2, <5>1 DEF Alone
      <4>4. Live(flight[u][j].answer.sid)
            /\ server'[flight[u][j].answer.sid] = server[flight[u][j].answer.sid]
        BY <2>5, <4>1, <4>2, <4>3
      <4> QED
        BY <1>1, <4>1, <4>4 DEF Newest
    <3> QED
      BY <3>1, <3>2
  <2>13. Refused'
    <3> SUFFICES ASSUME NEW u \in Tabs, NEW j \in Kinds, Out(u, j)', flight'[u][j].token # None,
                        flight'[u][j].answer = Rejected, Stands(flight'[u][j].token.sid)
                 PROVE  FALSE
      BY DEF Refused, Live, Issued, Stands
    <3>1. ~(u = t /\ j = k)
      BY <2>2, <2>3, WebSessionMarkers
    <3>2. Out(u, j) /\ flight'[u][j] = flight[u][j] /\ flight[u][j].token \in Tokens
      BY <1>1, <2>4, <2>6, <3>1, FlightTypes
    <3>3. flight[u][j].token.sid \in Sids
      BY <3>2 DEF Tokens
    <3> QED
      BY <1>1, <2>5, <3>2, <3>3 DEF Refused
  <2>14. SignedOut'
    <3>1. \A r \in revokes : r.sid \in Sids
      BY <1>1 DEF Typed, Tokens
    <3> QED
      BY <1>1, <2>5, <3>1 DEF SignedOut, NotHeld, Issued
  <2> QED
    BY <2>8, <2>10, <2>11, <2>12, <2>13, <2>14 DEF InStep
<1> QED
  BY <1>4, <1>5

LEMMA LoseInStep ==
    ASSUME IInv, IInv', InStep, NEW t \in Tabs, NEW k \in Kinds, Lose(t, k), ~crossed'
    PROVE  InStep'
BY UnansweredInStep, WebSessionMarkers DEF Lose, Crosses, tab

(* Fewer sessions are live, or tokens run out. *)
LEMMA EndsInStep ==
    ASSUME IInv, IInv', InStep,
           \/ \E k \in Tokens : RevokeArrives(k) \/ Expire(k)
           \/ \E sid \in Sids : RevokeElsewhere(sid)
    PROVE  InStep'
<1>1. Typed /\ Alone /\ ItsOwn /\ UpToDate /\ KeptUpToDate /\ Newest /\ Refused /\ SignedOut
      /\ Typed'
  BY DEF InStep, IInv
<1>2. UNCHANGED <<kept, session, flight>> /\ \A r \in revokes' : r \in revokes
  BY DEF RevokeArrives, Expire, RevokeElsewhere, tab
<1>3. \A i \in Sids : /\ Issued(i) => server'[i] # None
                      /\ Stands(i) => Live(i) /\ server'[i].n = server[i].n
  <2>1. ASSUME NEW sid \in Sids, Live(sid), server' = [server EXCEPT ![sid].live = FALSE],
               NEW i \in Sids, Issued(i)
        PROVE  server'[i] # None /\ (Stands(i) => Live(i) /\ server'[i].n = server[i].n)
    <3>1. server[i] \in ServerRow
      BY <1>1, <2>1 DEF Typed, Issued
    <3>2. CASE i = sid
      <4>1. server'[i] = [server[i] EXCEPT !.live = FALSE]
        BY <1>1, <2>1, <3>2 DEF Typed
      <4>2. server'[i] \in ServerRow /\ ~server'[i].live
        BY <3>1, <4>1 DEF ServerRow
      <4> QED
        BY <4>2, WebSessionMarkers DEF Stands
    <3>3. CASE i # sid
      BY <1>1, <2>1, <3>3 DEF Typed, Stands, Live, Issued
    <3> QED
      BY <3>2, <3>3
  <2>2. ASSUME NEW sid \in Sids, Live(sid), server' = [server EXCEPT ![sid].live = FALSE],
               NEW i \in Sids, ~Issued(i)
        PROVE  ~Stands(i)
    BY <1>1, <2>2 DEF Typed, Issued, Stands, Live
  <2>3. \/ server' = server
        \/ \E sid \in Sids : Live(sid) /\ server' = [server EXCEPT ![sid].live = FALSE]
    BY DEF RevokeArrives, Expire, RevokeElsewhere, Current, Tokens
  <2> QED
    BY <2>1, <2>2, <2>3, ServerSame
<1>4. \A u \in Tabs, j \in Kinds : (Out(u, j)' <=> Out(u, j)) /\ (Answers(u, j)' <=> Answers(u, j))
  BY <1>2 DEF Out, Answers
<1>5. CASE Tabs # {}
  <2>1. PICK t \in Tabs : Carries(t)
    BY <1>2, <1>5 DEF Carries
  <2> QED
    BY <1>2, <1>3, <1>4, <2>1, CarryInStep
<1>6. CASE Tabs = {}
  <2>1. KeptUpToDate'
    BY <1>1, <1>2, <1>3, <1>6, SessionRow DEF KeptUpToDate, Typed, Stands, Live, Issued
  <2>2. SignedOut'
    BY <1>1, <1>2, <1>3, <1>6 DEF SignedOut, NotHeld, Issued, Typed, Tokens
  <2> QED
    BY <1>6, <2>1, <2>2 DEF InStep, Alone, ItsOwn, UpToDate, Newest, Refused
<1> QED
  BY <1>5, <1>6

LEMMA CrossedStays == [Next]_vars /\ ~crossed' => ~crossed
<1> SUFFICES ASSUME [Next]_vars, ~crossed' PROVE ~crossed
  OBVIOUS
<1>1. ASSUME NEW t \in Tabs, TabStep(t) PROVE ~crossed
  <2>1. CASE Settles(t)
    BY <2>1 DEF Settles, CallServed, CallTurnedAway, CallTurnedAwayAgain, CallFails, OpensAnyway,
                PersistOpened, Ask, Crosses
  <2>2. CASE HearsOne(t)
    BY <2>2 DEF HearsOne, TimerHears, CallHears, BootHears, OpensAnyway, PersistOpened, Crosses
  <2> QED
    BY <1>1, <2>1, <2>2 DEF TabStep, Open, Close, Logout, TimerAsk, Call, Login, Ask, Crosses
<1>2. ASSUME NEW t \in Tabs, NEW k \in Kinds, Serve(t, k) \/ Lose(t, k) PROVE ~crossed
  BY <1>2 DEF Serve, Lose, Crosses
<1>3. CASE UNCHANGED vars
  BY <1>3 DEF vars
<1> QED
  BY <1>1, <1>2, <1>3 DEF Next, RevokeArrives, Expire, RevokeElsewhere

LEMMA InitCalm == Init => Calm
<1> SUFFICES ASSUME Init PROVE InStep
  BY InitIInv DEF Calm
<1>1. \A t \in Tabs, k \in Kinds : ~Out(t, k)
  BY DEF Init, Out
<1> QED
  BY <1>1 DEF Init, InStep, Alone, ItsOwn, UpToDate, KeptUpToDate, Newest, Refused, SignedOut, Answers

LEMMA NextCalm == Calm /\ [Next]_vars => Calm'
<1> SUFFICES ASSUME Calm, [Next]_vars, ~crossed' PROVE InStep'
  BY NextIInv DEF Calm
<1>1. IInv /\ IInv' /\ InStep
  BY NextIInv, CrossedStays DEF Calm
<1>2. ASSUME NEW t \in Tabs, TabStep(t) PROVE InStep'
  <2>1. CASE TimerAsk(t)
    BY <1>1, <2>1, AskInStep DEF TimerAsk, Kinds
  <2>2. CASE Call(t)
    BY <1>1, <2>2, QuietInStep DEF Call
  <2>3. CASE CallTurnedAway(t)
    BY <1>1, <2>3, AskInStep DEF CallTurnedAway, Kinds
  <2> QED
    BY <1>1, <1>2, <2>1, <2>2, <2>3, OpenInStep, LeaveInStep, LoginInStep, SettlesInStep, HearsInStep
       DEF TabStep, Settles
<1>3. CASE UNCHANGED vars
  <2>1. InStep' <=> InStep
    BY <1>3 DEF vars, tab, InStep, Alone, ItsOwn, UpToDate, KeptUpToDate, Newest, Refused, SignedOut,
                Answers, Out, Live, Issued, NotHeld, TokenOf
  <2> QED
    BY <1>1, <2>1
<1> QED
  BY <1>1, <1>2, <1>3, ServeInStep, LoseInStep, EndsInStep DEF Next

-----------------------------------------------------------------------------
(* What a step of one tab leaves alone. *)
LEMMA OthersStay ==
    ASSUME IInv, NEW u \in Tabs, TabStep(u), NEW t \in Tabs \ {u}
    PROVE  session'[t] = session[t] /\ status'[t] = status[t]
<1>1. Typed
  BY DEF IInv
<1>2. \A s : Persist(u, s) => session'[t] = session[t] /\ status'[t] = status[t]
  BY <1>1 DEF Persist, Typed
<1>3. ClearSession(u) \/ Untouched => session'[t] = session[t] /\ status'[t] = status[t]
  BY <1>1 DEF ClearSession, Untouched, Typed
<1>4. CASE Settles(u)
  BY <1>2, <1>3, <1>4 DEF Settles, CallServed, CallTurnedAway, CallTurnedAwayAgain, CallFails,
                          OpensAnyway, PersistOpened, Unauthorized
<1>5. CASE HearsOne(u)
  BY <1>2, <1>3, <1>5 DEF HearsOne, TimerHears, CallHears, BootHears,
                          OpensAnyway, PersistOpened, Unauthorized
<1> QED
  BY <1>1, <1>2, <1>3, <1>4, <1>5 DEF TabStep, Open, Close, Logout, TimerAsk, Call, Login, Typed

(* A refusal that reaches a tab with a session is the end of that session. *)
LEMMA EndsByServer ==
    ASSUME Calm, [Next]_vars, NEW t \in Tabs, session[t] # None, session'[t] = None,
           status'[t] = "anonymous", ~Logout(t), ~crossed
    PROVE  ~Live(session[t].sid) \/ CallTurnedAwayAgain(t)
<1>1. /\ IInv /\ Typed /\ InOrder(t) /\ ItsOwn /\ Refused /\ session[t] \in Session
  BY Parts DEF Calm, InStep
<1>2. ASSUME NEW s, Persist(t, s) PROVE FALSE
  <2>1. status'[t] = "authenticated"
    BY <1>1, <1>2 DEF Persist, Typed
  <2> QED
    BY <2>1
<1>3. ASSUME NEW k \in Kinds, Out(t, k), flight[t][k].answer = Rejected
      PROVE  ~Live(session[t].sid)
  <2>1. flight[t][k].token = TokenOf(session[t])
    BY <1>1, <1>3 DEF ItsOwn
  <2> QED
    BY <1>1, <1>3, <2>1, SessionRow DEF Refused
<1>4. {"timer", "call", "boot"} \subseteq Kinds
  BY DEF Kinds
<1>5. CASE HearsOne(t)
  BY <1>2, <1>3, <1>4, <1>5 DEF HearsOne, TimerHears, CallHears, BootHears, Says,
                                OpensAnyway, PersistOpened, Unauthorized, Untouched
<1>6. CASE CallServed(t) \/ CallFails(t)
  BY <1>2, <1>6 DEF CallServed, CallFails, OpensAnyway, PersistOpened, Untouched
<1>7. CASE TimerAsk(t) \/ Call(t) \/ CallTurnedAway(t) \/ UNCHANGED vars
  BY <1>7 DEF TimerAsk, Call, CallTurnedAway, vars, tab
<1>8. CASE Open(t) \/ Close(t)
  BY <1>1, <1>8 DEF Open, Close, InOrder, Typed
<1>9. ASSUME NEW a \in Accounts, Login(t, a) PROVE FALSE
  BY <1>2, <1>9 DEF Login
<1>10. ASSUME NEW u \in Tabs, TabStep(u), u # t PROVE FALSE
  BY <1>1, <1>10, OthersStay
<1>11. ~(session' = session)
  OBVIOUS
<1>12. CASE \E u \in Tabs : TabStep(u)
  BY <1>5, <1>6, <1>7, <1>8, <1>9, <1>10, <1>12 DEF TabStep, Settles
<1> QED
  BY <1>7, <1>11, <1>12 DEF Next, Serve, Lose, RevokeArrives, Expire, RevokeElsewhere, tab

(* Only the server saying no ends a session: while no requests cross, a    *)
(* session a tab drops without a sign-out is one that is over, or one the  *)
(* server refused a request of twice.                                      *)
THEOREM ServerHasTheLastWord == Spec => OnlyTheServerEnds
<1>1. Calm /\ [Next]_vars => [\A t \in Tabs :
        /\ session[t] # None /\ session'[t] = None /\ status'[t] = "anonymous"
        /\ ~Logout(t) /\ ~crossed
        => ~Live(session[t].sid) \/ CallTurnedAwayAgain(t)]_vars
  BY EndsByServer
<1> QED
  BY <1>1, InitCalm, NextCalm, PTL DEF Spec, OnlyTheServerEnds

(* A sign-out on its way is forgotten only by the server hearing of it. *)
LEMMA RevokesStay ==
    ASSUME [Next]_vars, session' # session
    PROVE  revokes \subseteq revokes'
<1>1. ASSUME NEW t \in Tabs, TabStep(t) PROVE revokes \subseteq revokes'
  BY <1>1 DEF TabStep, Open, Close, Logout, TimerAsk, Call, Login, Settles, HearsOne,
              CallServed, CallTurnedAway, CallTurnedAwayAgain, CallFails, TimerHears, CallHears, BootHears
<1> QED
  BY <1>1 DEF Next, Serve, Lose, RevokeArrives, Expire, RevokeElsewhere, vars, tab

(* Signed out is signed out: while no requests cross, no tab takes up a    *)
(* token whose sign-out is still on its way to the server.                 *)
THEOREM SignedOutForGood == Spec => SignOutSticks
<1>1. Calm /\ Calm' /\ [Next]_vars => [\A t \in Tabs :
        session[t] = None /\ session'[t] # None /\ ~crossed' => TokenOf(session'[t]) \notin revokes]_vars
  <2> SUFFICES ASSUME Calm, Calm', [Next]_vars, NEW t \in Tabs,
                      session[t] = None, session'[t] # None, ~crossed', TokenOf(session'[t]) \in revokes
               PROVE  FALSE
    OBVIOUS
  <2>1. SignedOut' /\ session'[t] \in Session
    BY DEF Calm, InStep, IInv, Typed
  <2>2. TokenOf(session'[t]).sid = session'[t].sid
    BY <2>1, SessionRow
  <2>3. TokenOf(session'[t]) \in revokes'
    BY RevokesStay
  <2> QED
    BY <2>1, <2>2, <2>3 DEF SignedOut, NotHeld
<1> QED
  BY <1>1, InitCalm, NextCalm, PTL DEF Spec, SignOutSticks

-----------------------------------------------------------------------------
(* The server keeps the promise of SessionTokens: what the browser is      *)
(* proved safe against is what the API is proved to do (AuthSessions).     *)
TokenAt(sid, n) == [sid |-> sid, n |-> n]

(* One row written: what becomes of the tokens and of the one that works.  *)
LEMMA OneRowWritten ==
    ASSUME Typed, NEW sid \in Sids, NEW row \in ServerRow, server' = [server EXCEPT ![sid] = row]
    PROVE  /\ {i \in Sids : Issued(i)'} = {i \in Sids : Issued(i)} \union {sid}
           /\ \A i \in Sids \ {sid} : workingToken'[i] = workingToken[i]
           /\ workingToken'[sid] = IF row.live THEN TokenAt(sid, row.n) ELSE None
           /\ DOMAIN workingToken = Sids /\ DOMAIN workingToken' = Sids
           /\ \A k \in Tokens : k \in ServerTokens' <=>
                IF k.sid = sid THEN k.n <= row.n ELSE k \in ServerTokens
<1>1. row # None /\ server'[sid] = row /\ \A i \in Sids \ {sid} : server'[i] = server[i]
  BY WebSessionMarkers DEF Typed
<1>2. Issued(sid)' /\ \A i \in Sids \ {sid} : Issued(i)' <=> Issued(i)
  BY <1>1 DEF Issued
<1>3. (Live(sid)' <=> row.live) /\ \A i \in Sids \ {sid} : Live(i)' <=> Live(i)
  BY <1>1, <1>2 DEF Live
<1>4. \A i \in Sids \ {sid} : workingToken'[i] = workingToken[i]
  BY <1>1, <1>3 DEF workingToken
<1>5. workingToken'[sid] = IF row.live THEN TokenAt(sid, row.n) ELSE None
  BY <1>1, <1>3 DEF workingToken, TokenAt
<1>6. ASSUME NEW k \in Tokens
      PROVE  k \in ServerTokens' <=> IF k.sid = sid THEN k.n <= row.n ELSE k \in ServerTokens
  <2>1. k.sid \in Sids
    BY DEF Tokens
  <2> QED
    BY <1>1, <1>2, <2>1 DEF ServerTokens
<1> QED
  BY <1>2, <1>4, <1>5, <1>6 DEF workingToken

LEMMA PromiseBegins ==
    ASSUME Typed, NEW sid \in Sids, ~Issued(sid), NEW account \in Accounts,
           server' = [server EXCEPT ![sid] = [account |-> account, n |-> 1, live |-> TRUE]]
    PROVE  Promise!Next
<1> DEFINE row == [account |-> account, n |-> 1, live |-> TRUE]
           first == TokenAt(sid, 1)
<1>0. 1 \in 1..MaxN
  BY WebSessionAssumption
<1>1. row \in ServerRow /\ first \in Tokens /\ first.sid = sid /\ first.n = 1
  BY <1>0 DEF ServerRow, Tokens, TokenAt
<1>2. /\ {i \in Sids : Issued(i)'} = {i \in Sids : Issued(i)} \union {sid}
      /\ \A i \in Sids \ {sid} : workingToken'[i] = workingToken[i]
      /\ workingToken'[sid] = first
      /\ DOMAIN workingToken = Sids /\ DOMAIN workingToken' = Sids
      /\ \A k \in Tokens : k \in ServerTokens' <=>
           IF k.sid = sid THEN k.n <= 1 ELSE k \in ServerTokens
  BY <1>1, OneRowWritten
<1>3. \A k \in ServerTokens : k \in Tokens /\ k.sid # sid
  BY DEF ServerTokens
<1>4. \A k \in Tokens : k.sid = sid /\ k.n <= 1 => k = first
  BY WebSessionAssumption DEF Tokens, TokenAt
<1>5. ServerTokens' \subseteq Tokens
  BY DEF ServerTokens
<1>6. ServerTokens' = ServerTokens \union {first}
  BY <1>1, <1>2, <1>3, <1>4, <1>5
<1>7. workingToken' = [workingToken EXCEPT ![sid] = first]
  BY <1>2 DEF workingToken
<1>8. Promise!Start(sid, first)
  BY <1>1, <1>2, <1>3, <1>6, <1>7 DEF Promise!Start, Promise!Issue
<1> QED
  BY <1>1, <1>8 DEF Promise!Next

LEMMA PromiseRefreshes ==
    ASSUME IInv, NEW t \in Tabs, NEW k \in Kinds, Serve(t, k), server' # server
    PROVE  Promise!Next
<1> DEFINE token == flight[t][k].token
           sid == token.sid
           row == [server[sid] EXCEPT !.n = token.n + 1]
           fresh == TokenAt(sid, token.n + 1)
<1>1. /\ Typed /\ Asked(t) /\ KnownAll /\ flight[t][k] \in Refresh
      /\ Out(t, k) /\ flight[t][k].answer = None
  BY Parts, FlightTypes DEF Serve
<1>2. token # None
  BY <1>1, WebSessionMarkers DEF Asked
<1>3. token \in Tokens /\ sid \in Sids /\ token.n \in 1..MaxN /\ token.n < MaxN
  BY <1>1, <1>2 DEF Refresh, Tokens, Asked
<1>4. Current(token) /\ server' = [server EXCEPT ![sid].n = token.n + 1]
  BY DEF Serve
<1>5. token.n + 1 \in 1..MaxN
  BY <1>3, WebSessionAssumption
<1>6. server[sid] \in ServerRow /\ server[sid].live /\ server[sid].n = token.n /\ Issued(sid)
  BY <1>1, <1>3, <1>4 DEF Typed, Current, Live, Issued
<1>7. row \in ServerRow /\ row.live /\ row.n = token.n + 1
  BY <1>5, <1>6 DEF ServerRow
<1>8. fresh \in Tokens /\ fresh.sid = sid /\ fresh.n = token.n + 1
  BY <1>3, <1>5 DEF Tokens, TokenAt
<1>9. server' = [server EXCEPT ![sid] = row]
  BY <1>4
<1> HIDE DEF row
<1>10. /\ {i \in Sids : Issued(i)'} = {i \in Sids : Issued(i)}
       /\ \A i \in Sids \ {sid} : workingToken'[i] = workingToken[i]
       /\ workingToken'[sid] = fresh
       /\ DOMAIN workingToken = Sids /\ DOMAIN workingToken' = Sids
       /\ \A j \in Tokens : j \in ServerTokens' <=>
            IF j.sid = sid THEN j.n <= token.n + 1 ELSE j \in ServerTokens
  <2>1. /\ {i \in Sids : Issued(i)'} = {i \in Sids : Issued(i)} \union {sid}
        /\ \A i \in Sids \ {sid} : workingToken'[i] = workingToken[i]
        /\ workingToken'[sid] = IF row.live THEN TokenAt(sid, row.n) ELSE None
        /\ DOMAIN workingToken = Sids /\ DOMAIN workingToken' = Sids
        /\ \A j \in Tokens : j \in ServerTokens' <=>
             IF j.sid = sid THEN j.n <= row.n ELSE j \in ServerTokens
    <3>1. PICK i \in Sids : i = sid
      BY <1>3
    <3>2. row \in ServerRow /\ server' = [server EXCEPT ![i] = row]
      BY <1>7, <1>9, <3>1
    <3> HIDE DEF sid
    <3> QED
      BY <1>1, <3>1, <3>2, OneRowWritten
  <2>2. workingToken'[sid] = fresh
    BY <1>7, <2>1
  <2>3. sid \in {i \in Sids : Issued(i)}
    BY <1>3, <1>6
  <2> QED
    BY <1>7, <2>1, <2>2, <2>3
<1>11. \A j \in Tokens : j.sid = sid => (j \in ServerTokens <=> j.n <= token.n)
  BY <1>6 DEF ServerTokens
<1>12. \A j \in Tokens : j.sid = sid /\ j.n <= token.n + 1 => j.n <= token.n \/ j = fresh
  BY <1>3 DEF Tokens, TokenAt
<1>13. ServerTokens \subseteq Tokens /\ ServerTokens' \subseteq Tokens
  BY DEF ServerTokens
<1>14. \A j \in Tokens : j \in ServerTokens' <=> j \in ServerTokens \/ j = fresh
  <2> SUFFICES ASSUME NEW j \in Tokens, j.sid = sid
               PROVE  j \in ServerTokens' <=> j \in ServerTokens \/ j = fresh
    BY <1>8, <1>10
  <2>1. j.n \in Int
    BY WebSessionAssumption DEF Tokens
  <2>2. j.n <= token.n => j.n <= token.n + 1
    BY <1>3, <2>1
  <2>3. j = fresh => j.n <= token.n + 1
    BY <1>3, <1>8
  <2> QED
    BY <1>10, <1>11, <1>12, <2>2, <2>3
<1>15. ServerTokens' = ServerTokens \union {fresh}
  BY <1>8, <1>13, <1>14
<1>16. fresh \notin ServerTokens
  BY <1>3, <1>8, <1>11
<1>17. workingToken' = [workingToken EXCEPT ![sid] = fresh]
  BY <1>3, <1>10 DEF workingToken
<1>18. workingToken[sid] # None
  <2>1. workingToken[sid] = token
    BY <1>3, <1>6 DEF workingToken, Live, Tokens
  <2> QED
    BY <1>2, <2>1
<1>19. Promise!Refresh(sid, fresh)
  BY <1>10, <1>15, <1>16, <1>17, <1>18 DEF Promise!Refresh, Promise!Issue
<1> QED
  BY <1>3, <1>8, <1>19 DEF Promise!Next

LEMMA PromiseEnds ==
    ASSUME Typed, NEW sid \in Sids, Live(sid), server' = [server EXCEPT ![sid].live = FALSE]
    PROVE  Promise!Next
<1> DEFINE row == [server[sid] EXCEPT !.live = FALSE]
<1>1. server[sid] \in ServerRow /\ Issued(sid)
  BY DEF Typed, Live, Issued
<1>2. row \in ServerRow /\ ~row.live /\ row.n = server[sid].n
  BY <1>1 DEF ServerRow
<1>3. server' = [server EXCEPT ![sid] = row]
  OBVIOUS
<1> HIDE DEF row
<1>4. /\ {i \in Sids : Issued(i)'} = {i \in Sids : Issued(i)}
      /\ \A i \in Sids \ {sid} : workingToken'[i] = workingToken[i]
      /\ workingToken'[sid] = None
      /\ DOMAIN workingToken = Sids /\ DOMAIN workingToken' = Sids
      /\ \A j \in Tokens : j \in ServerTokens' <=>
           IF j.sid = sid THEN j.n <= row.n ELSE j \in ServerTokens
  BY <1>1, <1>2, <1>3, OneRowWritten
<1>5. \A j \in Tokens : j.sid = sid => (j \in ServerTokens <=> j.n <= row.n)
  BY <1>1, <1>2 DEF ServerTokens
<1>6. ServerTokens' = ServerTokens
  <2>1. ServerTokens \subseteq Tokens /\ ServerTokens' \subseteq Tokens
    BY DEF ServerTokens
  <2> QED
    BY <1>4, <1>5, <2>1
<1>7. workingToken' = [i \in Sids |-> IF i \in {sid} THEN None ELSE workingToken[i]]
  BY <1>4 DEF workingToken
<1>8. Promise!End({sid})
  BY <1>4, <1>6, <1>7 DEF Promise!End
<1> QED
  BY <1>8 DEF Promise!Next

LEMMA PromiseNext ==
    ASSUME IInv, [Next]_vars
    PROVE  Promise!Next \/ server' = server
<1>0. Typed
  BY DEF IInv
<1>1. ASSUME NEW t \in Tabs, TabStep(t) PROVE Promise!Next \/ server' = server
  <2>1. ASSUME NEW a \in Accounts, Login(t, a) PROVE Promise!Next
    BY <1>0, <2>1, PromiseBegins DEF Login
  <2>2. CASE ~\E a \in Accounts : Login(t, a)
    BY <1>1, <2>2 DEF TabStep, Open, Close, Logout, TimerAsk, Call, Settles, HearsOne,
       CallServed, CallTurnedAway, CallTurnedAwayAgain, CallFails, TimerHears, CallHears, BootHears
  <2> QED
    BY <2>1, <2>2
<1>2. ASSUME NEW t \in Tabs, NEW k \in Kinds, Serve(t, k) \/ Lose(t, k)
      PROVE  Promise!Next \/ server' = server
  BY <1>2, PromiseRefreshes DEF Lose
<1>3. ASSUME NEW k \in Tokens, RevokeArrives(k) PROVE Promise!Next \/ server' = server
  <2>1. k.sid \in Sids
    BY DEF Tokens
  <2> QED
    BY <1>0, <1>3, <2>1, PromiseEnds DEF RevokeArrives, Current
<1>4. ASSUME NEW sid \in Sids, RevokeElsewhere(sid) PROVE Promise!Next
  BY <1>0, <1>4, PromiseEnds DEF RevokeElsewhere
<1> QED
  BY <1>1, <1>2, <1>3, <1>4 DEF Next, Expire, vars

(* Every session and token the browser meets comes of a sign-in and of     *)
(* refreshes of the token that worked: the server of this module is one    *)
(* that AuthSessions may be.                                               *)
THEOREM ServerIsAsPromised == Spec => ServerKeepsPromise
<1>1. Init => Promise!Init
  <2> SUFFICES ASSUME Init PROVE Promise!Init
    OBVIOUS
  <2>1. \A sid \in Sids : ~Issued(sid)
    BY DEF Init, Issued
  <2>2. ServerTokens = {}
    BY <2>1 DEF ServerTokens, Tokens
  <2>3. workingToken = [sid \in Sids |-> None]
    BY <2>1 DEF workingToken, Live
  <2> QED
    BY <2>1, <2>2, <2>3 DEF Promise!Init
<1>2. IInv /\ [Next]_vars =>
        [Promise!Next]_<<{sid \in Sids : Issued(sid)}, ServerTokens, workingToken>>
  <2> SUFFICES ASSUME server' = server
               PROVE  UNCHANGED <<{sid \in Sids : Issued(sid)}, ServerTokens, workingToken>>
    BY PromiseNext
  <2> QED
    BY DEF ServerTokens, workingToken, Issued, Live
<1> QED
  BY <1>1, <1>2, InitIInv, NextIInv, PTL DEF Spec, ServerKeepsPromise, Promise!Spec

=============================================================================
