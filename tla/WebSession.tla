------------------------------ MODULE WebSession ------------------------------
(***************************************************************************)
(* The session a browser keeps (apps/web: auth-provider.tsx, api-client.ts,*)
(* auth-session-storage.ts).  The tabs share one stored copy and each has  *)
(* one of its own.  A tab asks for a fresh session when it opens, before   *)
(* its access token runs out, and after a request is refused; the server   *)
(* rotates the refresh token each time and refuses the one before.         *)
(*                                                                         *)
(* Any request may be slow, unserved, or served with its answer lost, and  *)
(* things happen in the tab meanwhile.  A token is [sid, n]: the n-th of a *)
(* session, its access and refresh token together.  Refresh tokens do not  *)
(* run out here; the browser's clock may be wrong about access tokens.     *)
(* Requests of one tab that wait for one refresh are one call.             *)
(* Bounds: sign-ins (MaxSessions), tokens of a session (MaxN), requests    *)
(* not answered (MaxLost), access tokens that run out (MaxDead); of each   *)
(* kind one refresh out per tab.                                           *)
(***************************************************************************)
EXTENDS Integers, FiniteSets

CONSTANTS Tabs, Accounts, MaxSessions, MaxN, MaxLost, MaxDead,
          None, Rejected, Unreachable       \* RefreshOutcome, but for the response

ASSUME WebSessionAssumption ==
    MaxSessions \in Nat \ {0} /\ MaxN \in Nat \ {0} /\ MaxLost \in Nat /\ MaxDead \in Nat

Sids == 1..MaxSessions
Kinds == {"boot", "timer", "call"}          \* who asks for a refresh

VARIABLES
    server,     \* sid -> its account, its current token, and whether it is live
    kept,       \* the session in local storage
    status,     \* tab -> closed, loading, authenticated or anonymous
    session,    \* tab -> sessionRef
    opened,     \* tab -> the session it was opened with, while it is restored
    armed,      \* tab -> the expiry timer is set
    call,       \* tab -> its API request
    flight,     \* tab -> kind -> the refresh it has out
    revokes,    \* sign-outs on their way to the server
    dead,       \* access tokens that have run out
    lost,       \* requests not answered
    crossed     \* history: requests have crossed (see Crosses)

tab == <<status, session, opened, armed, call>>
vars == <<server, kept, tab, flight, revokes, dead, lost, crossed>>

Tokens == [sid : Sids, n : 1..MaxN]
Session == [sid : Sids, n : 1..MaxN, user : Accounts]
ServerRow == [account : Accounts, n : 1..MaxN, live : BOOLEAN]
Refresh == [token : Tokens \union {None}, answer : Session \union {None, Rejected, Unreachable}]
APICall == [why : {"user", "page", "boot"}, used : Tokens \union {None}, again : BOOLEAN,
            waiting : BOOLEAN, user : Accounts \union {None}]

ASSUME WebSessionMarkers ==
    /\ None # Rejected /\ None # Unreachable /\ Rejected # Unreachable
    /\ \A m \in {None, Rejected, Unreachable} : m \notin Session /\ m \notin Tokens
    /\ None \notin ServerRow /\ None \notin Refresh /\ None \notin APICall

TokenOf(s) == IF s = None THEN None ELSE [sid |-> s.sid, n |-> s.n]
Issued(sid) == server[sid] # None
Live(sid) == Issued(sid) /\ server[sid].live
CurrentThoughEnded(k) == Issued(k.sid) /\ server[k.sid].n = k.n  \* mutant: the token alone
Current(k) == Live(k.sid) /\ server[k.sid].n = k.n
Out(t, k) == flight[t][k] # None

(* Requests cross when two refreshes of a session are out; when one is out *)
(* (or a restore) while its tab signs in or out, or is refused a request   *)
(* twice, or another tab opens; when an answer is never heard; when a tab  *)
(* rotates or signs out what another holds; or when a restore puts back    *)
(* the session its tab was opened with over a fresher one.                 *)
Crosses(p) == crossed' = (crossed \/ p)

-----------------------------------------------------------------------------
(* What the provider does to the tab and to the stored copy.               *)
Persist(t, s) ==
    /\ kept' = s
    /\ session' = [session EXCEPT ![t] = s]
    /\ status' = [status EXCEPT ![t] = "authenticated"]
    /\ armed' = [armed EXCEPT ![t] =
                   @ \/ status[t] # "authenticated" \/ TokenOf(session[t]) # TokenOf(s)]

ClearStoredNone == kept' = kept             \* mutant
ClearStored == kept' = None

ClearSession(t) ==
    /\ ClearStored
    /\ session' = [session EXCEPT ![t] = None]
    /\ status' = [status EXCEPT ![t] = "anonymous"]
    /\ armed' = [armed EXCEPT ![t] = FALSE]

Untouched == UNCHANGED <<kept, session, status, armed>>

FreshOld(answer, s) == IF s = None THEN answer ELSE [answer EXCEPT !.n = s.n]   \* mutant
Fresh(answer, s) == answer

CallEnds(t) == call' = [call EXCEPT ![t] = None] /\ opened' = [opened EXCEPT ![t] = None]

-----------------------------------------------------------------------------
(* requestSessionRefresh: the token the tab holds now; without one it is   *)
(* rejected there and then.                                                *)
Flight(t) == [token |-> TokenOf(session[t]), answer |-> IF session[t] = None THEN Rejected ELSE None]
HeldElsewhere(t, sid) == \E u \in Tabs \ {t} : session[u] # None /\ session[u].sid = sid
MayAsk(t) == session[t] # None => session[t].n < MaxN
OutFor(s) == \E u \in Tabs, k \in Kinds :
    /\ s # None /\ Out(u, k) /\ flight[u][k].token # None
    /\ flight[u][k].token.sid = s.sid

Ask(t, k) ==
    /\ ~Out(t, k) /\ MayAsk(t)
    /\ flight' = [flight EXCEPT ![t][k] = Flight(t)]
    /\ Crosses(OutFor(session[t]))

(* The server verifies and rotates (AuthSessions), or refuses.             *)
Serve(t, k) ==
    /\ Out(t, k) /\ flight[t][k].answer = None
    /\ LET token == flight[t][k].token
           next == [sid |-> token.sid, n |-> token.n + 1, user |-> server[token.sid].account]
       IN IF Current(token)
          THEN /\ server' = [server EXCEPT ![token.sid].n = token.n + 1]
               /\ flight' = [flight EXCEPT ![t][k].answer = next]
               /\ Crosses(HeldElsewhere(t, token.sid))
          ELSE /\ flight' = [flight EXCEPT ![t][k].answer = Rejected]
               /\ UNCHANGED <<server, crossed>>
    /\ UNCHANGED <<kept, tab, revokes, dead, lost>>

(* No answer arrives: before the server saw the request, or after. *)
Lose(t, k) ==
    /\ Out(t, k) /\ flight[t][k].token # None /\ flight[t][k].answer # Unreachable /\ lost < MaxLost
    /\ lost' = lost + 1
    /\ Crosses(flight[t][k].answer # None)
    /\ flight' = [flight EXCEPT ![t][k].answer = Unreachable]
    /\ UNCHANGED <<server, kept, tab, revokes, dead>>

Answered(t, k) == Out(t, k) /\ flight[t][k].answer # None
Hears(t, k) == flight' = [flight EXCEPT ![t][k] = None]
Refreshed(t, k) == Answered(t, k) /\ flight[t][k].answer \notin {Rejected, Unreachable}
Says(t, k, a) == Out(t, k) /\ flight[t][k].answer = a
Answer(t, k) == Fresh(flight[t][k].answer, session[t])

-----------------------------------------------------------------------------
(* refreshBeforeExpiry; out of reach, it is tried again thirty seconds on, *)
(* signed in or not.                                                       *)
TimerAsk(t) ==
    /\ armed[t] /\ Ask(t, "timer")
    /\ armed' = [armed EXCEPT ![t] = FALSE]
    /\ UNCHANGED <<server, kept, status, session, opened, call, revokes, dead, lost>>

RetryNone(t) == FALSE                       \* mutant
Retry(t) == TRUE

TimerHears(t) ==
    /\ Answered(t, "timer") /\ Hears(t, "timer")
    /\ \/ Refreshed(t, "timer") /\ Persist(t, Answer(t, "timer"))
       \/ Says(t, "timer", Rejected) /\ ClearSession(t)
       \/ /\ Says(t, "timer", Unreachable)
          /\ armed' = [armed EXCEPT ![t] = Retry(t)]
          /\ UNCHANGED <<kept, session, status>>
    /\ UNCHANGED <<server, opened, call, revokes, dead, lost, crossed>>

-----------------------------------------------------------------------------
(* A request of the API client: refreshUser's, which does all a page's     *)
(* does and more, a page's when nobody is signed in, or the one that       *)
(* restores the session.                                                   *)
Request(why, s) == [why |-> why, used |-> TokenOf(s), again |-> FALSE, waiting |-> FALSE,
                    user |-> IF s = None THEN None ELSE s.user]

Call(t) ==
    /\ call[t] = None /\ status[t] \in {"authenticated", "anonymous"}
    /\ call' = [call EXCEPT ![t] = Request(IF session[t] = None THEN "page" ELSE "user", session[t])]
    /\ UNCHANGED <<server, kept, status, session, opened, armed, flight, revokes, dead, lost, crossed>>

Sent(t) == call[t] # None /\ ~call[t].waiting

(* refreshUser: signed out, or into another account, meanwhile? *)
SameAccountAny(t, user) == session[t] # None        \* mutant
SameAccount(t, user) ==
    session[t] # None /\ session[t].user = call[t].user /\ user = call[t].user

PersistOpened(t, user) ==
    /\ Persist(t, [opened[t] EXCEPT !.user = user])
    /\ Crosses(TokenOf(opened[t]) # TokenOf(session[t]))

CallServed(t) ==
    /\ Sent(t) /\ call[t].used # None /\ call[t].used \notin dead /\ CallEnds(t)
    /\ LET user == server[call[t].used.sid].account
       IN CASE call[t].why = "boot" -> PersistOpened(t, user)
            [] call[t].why = "user" /\ SameAccount(t, user) ->
                 Persist(t, [session[t] EXCEPT !.user = user]) /\ UNCHANGED crossed
            [] OTHER -> Untouched /\ UNCHANGED crossed
    /\ UNCHANGED <<server, flight, revokes, dead, lost>>

Turned(t) == Sent(t) /\ (call[t].used = None \/ call[t].used \in dead)

CallTurnedAway(t) ==
    /\ Turned(t) /\ ~call[t].again /\ Ask(t, "call")
    /\ call' = [call EXCEPT ![t].waiting = TRUE]
    /\ UNCHANGED <<server, kept, status, session, opened, armed, revokes, dead, lost>>

(* onUnauthorized, and what a restore makes of it. *)
Unauthorized(t) ==
    /\ CallEnds(t)
    /\ IF session[t] # None \/ call[t].why = "boot" THEN ClearSession(t) ELSE Untouched

CallTurnedAwayAgain(t) ==
    /\ Turned(t) /\ call[t].again /\ Unauthorized(t)
    /\ Crosses(\E k \in Kinds : Out(t, k))
    /\ UNCHANGED <<server, flight, revokes, dead, lost>>

(* No answer, or an error that is no refusal: a restore opens with the     *)
(* session as it was stored.                                               *)
OpensAnywayNone(t) == CallEnds(t) /\ Untouched /\ UNCHANGED crossed   \* mutant
OpensAnyway(t) ==
    /\ CallEnds(t)
    /\ IF call[t].why = "boot" THEN PersistOpened(t, opened[t].user)
       ELSE Untouched /\ UNCHANGED crossed

CallFails(t) ==
    /\ Sent(t) /\ OpensAnyway(t)
    /\ UNCHANGED <<server, flight, revokes, dead, lost>>

CallHears(t) ==
    /\ call[t] # None /\ call[t].waiting /\ Answered(t, "call") /\ Hears(t, "call")
    /\ \/ /\ Refreshed(t, "call") /\ Persist(t, Answer(t, "call"))
          /\ call' = [call EXCEPT ![t] = [@ EXCEPT !.used = TokenOf(Answer(t, "call")),
                                                   !.waiting = FALSE, !.again = TRUE]]
          /\ UNCHANGED <<opened, crossed>>
       \/ Says(t, "call", Rejected) /\ Unauthorized(t) /\ UNCHANGED crossed
       \/ Says(t, "call", Unreachable) /\ OpensAnyway(t)
    /\ UNCHANGED <<server, revokes, dead, lost>>

-----------------------------------------------------------------------------
(* A tab opens with what is stored; when its access token looks usable it  *)
(* asks who it is, and for a fresh session otherwise.                      *)
Boot(t) ==
    \/ /\ call' = [call EXCEPT ![t] = Request("boot", kept)]
       /\ UNCHANGED flight
    \/ /\ kept.n < MaxN
       /\ flight' = [flight EXCEPT ![t]["boot"] = [token |-> TokenOf(kept), answer |-> None]]
       /\ UNCHANGED call

Open(t) ==
    /\ status[t] = "closed"
    /\ session' = [session EXCEPT ![t] = kept]
    /\ opened' = [opened EXCEPT ![t] = kept]
    /\ status' = [status EXCEPT ![t] = IF kept = None THEN "anonymous" ELSE "loading"]
    /\ IF kept = None THEN UNCHANGED <<call, flight>> ELSE Boot(t)
    /\ Crosses(OutFor(kept))
    /\ UNCHANGED <<server, kept, armed, revokes, dead, lost>>

BootHears(t) ==
    /\ Answered(t, "boot") /\ Hears(t, "boot") /\ opened' = [opened EXCEPT ![t] = None]
    /\ \/ Refreshed(t, "boot") /\ Persist(t, Answer(t, "boot"))
       \/ Says(t, "boot", Rejected) /\ ClearSession(t)
       \/ Says(t, "boot", Unreachable) /\ Persist(t, opened[t])
    /\ UNCHANGED <<server, call, revokes, dead, lost, crossed>>

Restoring(t) == call[t] # None /\ call[t].why = "boot"
SomeOut(t) == Restoring(t) \/ \E k \in Kinds : Out(t, k)

Close(t) ==
    /\ status[t] # "closed"
    /\ status' = [status EXCEPT ![t] = "closed"]
    /\ session' = [session EXCEPT ![t] = None]
    /\ armed' = [armed EXCEPT ![t] = FALSE] /\ CallEnds(t)
    /\ flight' = [flight EXCEPT ![t] = [k \in Kinds |-> None]]
    /\ Crosses(SomeOut(t))
    /\ UNCHANGED <<server, kept, revokes, dead, lost>>

-----------------------------------------------------------------------------
(* setSession: signing in. *)
Login(t, a) ==
    /\ status[t] = "anonymous"
    /\ \E sid \in Sids :
        /\ ~Issued(sid) /\ \A s \in Sids : s < sid => Issued(s)
        /\ server' = [server EXCEPT ![sid] = [account |-> a, n |-> 1, live |-> TRUE]]
        /\ Persist(t, [sid |-> sid, n |-> 1, user |-> a])
    /\ Crosses(SomeOut(t))
    /\ UNCHANGED <<opened, call, flight, revokes, dead, lost>>

(* logout: the server is told, and not waited for. *)
Logout(t) ==
    /\ status[t] = "authenticated"
    /\ revokes' = revokes \union {TokenOf(session[t])}
    /\ ClearSession(t)
    /\ Crosses(SomeOut(t) \/ HeldElsewhere(t, session[t].sid))
    /\ UNCHANGED <<server, opened, call, flight, dead, lost>>

RevokeArrives(k) ==
    /\ k \in revokes /\ revokes' = revokes \ {k}
    /\ server' = IF Current(k) THEN [server EXCEPT ![k.sid].live = FALSE] ELSE server
    /\ UNCHANGED <<kept, tab, flight, dead, lost, crossed>>

(* The session is ended on another device, or an access token runs out     *)
(* (that of a token nobody holds makes no difference).                     *)
Held(k) == \E t \in Tabs : k \in {TokenOf(session[t]), TokenOf(kept)} \union
    IF call[t] = None THEN {} ELSE {call[t].used}

RevokeElsewhere(sid) ==
    /\ Live(sid) /\ server' = [server EXCEPT ![sid].live = FALSE]
    /\ UNCHANGED <<kept, tab, flight, revokes, dead, lost, crossed>>

Expire(k) ==
    /\ Held(k) /\ k \notin dead /\ Cardinality(dead) < MaxDead
    /\ dead' = dead \union {k}
    /\ UNCHANGED <<server, kept, tab, flight, revokes, lost, crossed>>

-----------------------------------------------------------------------------
Init ==
    /\ server = [sid \in Sids |-> None] /\ kept = None
    /\ status = [t \in Tabs |-> "closed"]
    /\ session = [t \in Tabs |-> None] /\ opened = [t \in Tabs |-> None]
    /\ armed = [t \in Tabs |-> FALSE] /\ call = [t \in Tabs |-> None]
    /\ flight = [t \in Tabs |-> [k \in Kinds |-> None]]
    /\ revokes = {} /\ dead = {} /\ lost = 0 /\ crossed = FALSE

Settles(t) == CallServed(t) \/ CallTurnedAway(t) \/ CallTurnedAwayAgain(t) \/ CallFails(t)
HearsOne(t) == TimerHears(t) \/ CallHears(t) \/ BootHears(t)

TabStep(t) ==
    \/ Open(t) \/ Close(t) \/ Logout(t) \/ TimerAsk(t) \/ Call(t) \/ Settles(t) \/ HearsOne(t)
    \/ \E a \in Accounts : Login(t, a)

Next ==
    \/ \E t \in Tabs : TabStep(t)
    \/ \E t \in Tabs, k \in Kinds : Serve(t, k) \/ Lose(t, k)
    \/ \E k \in Tokens : RevokeArrives(k) \/ Expire(k)
    \/ \E sid \in Sids : RevokeElsewhere(sid)

Spec == Init /\ [][Next]_vars

(* Timers fire, a request is answered or fails in the end, and the answer  *)
(* is handled.                                                             *)
Fairness ==
    \A t \in Tabs :
        /\ WF_vars(TimerAsk(t)) /\ WF_vars(Settles(t))
        /\ WF_vars(TimerHears(t)) /\ WF_vars(CallHears(t)) /\ WF_vars(BootHears(t))
        /\ \A k \in Kinds : WF_vars(Serve(t, k) \/ Lose(t, k))

FairSpec == Spec /\ Fairness

-----------------------------------------------------------------------------
(* A signed-in tab has a session and either a timer set or its answer due. *)
TypeOK ==
    /\ server \in [Sids -> ServerRow \union {None}]
    /\ kept \in Session \union {None}
    /\ status \in [Tabs -> {"closed", "loading", "authenticated", "anonymous"}]
    /\ session \in [Tabs -> Session \union {None}] /\ opened \in [Tabs -> Session \union {None}]
    /\ armed \in [Tabs -> BOOLEAN] /\ call \in [Tabs -> APICall \union {None}]
    /\ flight \in [Tabs -> [Kinds -> Refresh \union {None}]]
    /\ revokes \subseteq Tokens /\ dead \subseteq Tokens /\ lost \in 0..MaxLost /\ crossed \in BOOLEAN
    /\ \A t \in Tabs :
        /\ status[t] \in {"closed", "anonymous"} <=> session[t] = None
        /\ status[t] = "authenticated" => armed[t] \/ Out(t, "timer")
        /\ status[t] = "loading" => Out(t, "boot") \/ call[t] # None
        /\ Out(t, "call") <=> call[t] # None /\ call[t].waiting
    /\ \A t \in Tabs : session[t] # None => session[t].n <= server[session[t].sid].n

(* The server here keeps the promise of SessionTokens, the one that the    *)
(* rows of AuthSessions keep: every session and token a tab may hold comes *)
(* of a sign-in and of refreshes, each of the token that worked.           *)
ServerTokens == {k \in Tokens : Issued(k.sid) /\ k.n <= server[k.sid].n}
workingToken == [sid \in Sids |-> IF Live(sid) THEN [sid |-> sid, n |-> server[sid].n] ELSE None]

Promise == INSTANCE SessionTokens WITH
    Ids <- Sids, NoToken <- None,
    begun <- {sid \in Sids : Issued(sid)}, given <- ServerTokens, working <- workingToken

ServerKeepsPromise == Promise!Spec

(* No tab shows one account's name on another's session, however sign-ins  *)
(* and the answers to "who am I" and to refreshes cross.                   *)
ShowsItsOwnUser ==
    \A s \in {kept} \union {session[t] : t \in Tabs} :
        s # None => s.user = server[s.sid].account

(* "Only the server saying no ends a session": unless requests crossed, a  *)
(* session a tab drops without a sign-out is one the server had ended, or  *)
(* refused a request for twice.                                            *)
OnlyTheServerEnds == [][\A t \in Tabs :
    /\ session[t] # None /\ session'[t] = None /\ status'[t] = "anonymous"
    /\ ~Logout(t) /\ ~crossed
    => ~Live(session[t].sid) \/ CallTurnedAwayAgain(t)]_vars

(* Signed out is signed out: unless requests crossed, no tab takes up a    *)
(* token whose sign-out is on its way to the server.                       *)
SignOutSticks == [][\A t \in Tabs :
    session[t] = None /\ session'[t] # None /\ ~crossed' => TokenOf(session'[t]) \notin revokes]_vars

(* Opening the app gets past its loading screen, whatever goes unanswered. *)
LoadingEnds == \A t \in Tabs : status[t] = "loading" ~> status[t] # "loading"

(* A tab does not stay signed in with a token that has run out: it is      *)
(* refreshed, signed out or closed (the last token the bounds allow apart).*)
Lapsed(t) == status[t] = "authenticated" /\ TokenOf(session[t]) \in dead /\ MayAsk(t)
StaysFresh == \A t \in Tabs : Lapsed(t) ~> ~Lapsed(t)

=============================================================================
