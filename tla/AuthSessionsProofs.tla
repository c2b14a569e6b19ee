------------------------ MODULE AuthSessionsProofs ------------------------
(***************************************************************************)
(* AuthSessions for any number of sessions, tokens and passwords.          *)
(*                                                                         *)
(* However many slots, with and without failures: its types, and that a    *)
(* session once ended never lives again.  The second needs the first for   *)
(* one thing only: sessions are numbered within SessionIds, so the row     *)
(* StartSession writes is a new one.                                       *)
(*                                                                         *)
(* When requests do not overlap (there is one slot at most) and do not     *)
(* fail halfway: what it promises besides.  There the inductive invariant  *)
(* is SerialInv.                                                           *)
(***************************************************************************)
EXTENDS AuthSessions, TLAPS

LEMMA Numbers ==
    ASSUME NEW n \in Nat, NEW i \in 0..n, i < n
    PROVE  i + 1 \in 0..n /\ i + 1 \in 1..n
OBVIOUS

LEMMA InitType == Init => TypeOK
BY AuthConstants DEF Init, TypeOK, Account, Session, Link, Request, Idle, NoSession,
   Passwords, SessionIds

(* Steps that only move a request on, or start or end it. *)
LEMMA BeginType ==
    ASSUME TypeOK, NEW s \in Slots, NEW op, NEW pc, NEW sid, NEW arg, NEW pw,
           [op |-> op, pc |-> pc, sid |-> sid, arg |-> arg, pw |-> pw] \in Request,
           op = "login" => pw # 0,
           Begin(s, op, pc, sid, arg, pw)
    PROVE  req' \in [Slots -> Request] /\ \A r \in Slots : req'[r].op = "login" => req'[r].pw # 0
BY DEF TypeOK, Begin

LEMMA GoType ==
    ASSUME TypeOK, NEW s \in Slots, NEW pc,
           pc \in {"start", "link", "create", "confirm", "write", "revoke", "count", "session"},
           Go(s, pc)
    PROVE  req' \in [Slots -> Request] /\ \A r \in Slots : req'[r].op = "login" => req'[r].pw # 0
<1>1. req[s] \in Request
  BY DEF TypeOK
<1>2. [req[s] EXCEPT !.pc = pc] \in Request
  BY <1>1 DEF Request
<1>3. req' = [req EXCEPT ![s] = [req[s] EXCEPT !.pc = pc]]
  BY DEF Go
<1>4. \A r \in Slots : req'[r].op = req[r].op /\ req'[r].pw = req[r].pw
  BY <1>1, <1>3 DEF TypeOK, Request
<1> QED
  BY <1>2, <1>3, <1>4 DEF TypeOK

LEMMA ReplyType ==
    ASSUME TypeOK, NEW s \in Slots, Reply(s)
    PROVE  req' \in [Slots -> Request] /\ \A r \in Slots : req'[r].op = "login" => req'[r].pw # 0
<1>1. Idle \in Request /\ Idle.op # "login"
  BY AuthConstants DEF Idle, Request, Passwords
<1> QED
  BY <1>1 DEF TypeOK, Reply

(* The operators that write sessions, tokens and passwords. *)
LEMMA RevokeType ==
    ASSUME TypeOK, NEW k, RevokeAllBut(k)
    PROVE  sessions' \in [SessionIds -> Session]
<1>1. NoSession \in Session
  BY AuthConstants DEF NoSession, Session, Passwords
<1> QED
  BY <1>1 DEF TypeOK, RevokeAllBut

LEMMA StartType ==
    ASSUME TypeOK, NEW pw \in Passwords, StartSession(pw)
    PROVE  /\ sessions' \in [SessionIds -> Session]
           /\ issued' \in [session : 0..MaxSessions, token : 0..MaxTokens, password : Passwords]
<1>1. issued.session + 1 \in 0..MaxSessions /\ issued.token + 1 \in 0..MaxTokens
  BY AuthConstants, Numbers DEF TypeOK, StartSession
<1>2. [token |-> issued.token + 1, pw |-> pw] \in Session
  BY <1>1 DEF Session
<1> QED
  BY <1>1, <1>2 DEF TypeOK, StartSession

LEMMA RotateType ==
    ASSUME TypeOK, NEW k, RotateSession(k)
    PROVE  /\ sessions' \in [SessionIds -> Session]
           /\ issued' \in [session : 0..MaxSessions, token : 0..MaxTokens, password : Passwords]
<1>1. CASE ~Rotatable(k)
  BY <1>1 DEF TypeOK, RotateSession
<1>2. CASE Rotatable(k)
  <2>1. issued.token + 1 \in 0..MaxTokens
    BY <1>2, AuthConstants, Numbers DEF TypeOK, RotateSession
  <2>2. k \in SessionIds /\ sessions[k] \in Session
    BY <1>2 DEF Rotatable, Live, TypeOK
  <2>3. [sessions[k] EXCEPT !.token = issued.token + 1] \in Session
    BY <2>1, <2>2 DEF Session
  <2> QED
    BY <1>2, <2>1, <2>2, <2>3 DEF TypeOK, RotateSession
<1> QED
  BY <1>1, <1>2

LEMMA NewPasswordType ==
    ASSUME TypeOK, NewPassword
    PROVE  /\ account' \in Account
           /\ issued.password + 1 \in Passwords
           /\ issued' \in [session : 0..MaxSessions, token : 0..MaxTokens, password : Passwords]
<1>1. issued.password + 1 \in Passwords
  BY AuthConstants, Numbers DEF TypeOK, NewPassword, Passwords
<1> QED
  BY <1>1 DEF TypeOK, NewPassword, Account

(* One step per action.  Every case reduces to one of the lemmas above for *)
(* each variable the action writes; the others are unchanged.              *)
LEMMA NextType == TypeOK /\ [Next]_vars => TypeOK'
<1> SUFFICES ASSUME TypeOK, [Next]_vars
             PROVE  TypeOK'
  OBVIOUS
<1> DEFINE ReqOK == req' \in [Slots -> Request]
                    /\ \A r \in Slots : req'[r].op = "login" => req'[r].pw # 0
<1>0. /\ 0 \in Passwords /\ 0 \in 0..MaxSessions /\ 0 \in 0..MaxTokens
      /\ issued.password \in Passwords /\ account.password \in Passwords
      /\ SessionIds \subseteq 0..MaxSessions
  BY AuthConstants DEF TypeOK, Passwords, SessionIds, Account
<1>a. \A s \in Slots : /\ req[s] \in Request
                      /\ req[s].sid \in 0..MaxSessions /\ req[s].pw \in Passwords
  BY DEF TypeOK, Request
<1>b. \A k \in SessionIds : sessions[k].token \in 0..MaxTokens
  BY DEF TypeOK, Session
<1>c. \A k \in 0..issued.session : k \in 0..MaxSessions
  BY AuthConstants DEF TypeOK
<1>1. ASSUME NEW s \in Slots, SignIn(s) PROVE TypeOK'
  <2>1. CASE RegisterCreate(s)
    <3>1. issued.password + 1 \in Passwords /\ account' \in Account
          /\ issued' \in [session : 0..MaxSessions, token : 0..MaxTokens, password : Passwords]
      BY <2>1, NewPasswordType DEF RegisterCreate
    <3>2. [op |-> "register", pc |-> "issue", sid |-> 0, arg |-> 0,
           pw |-> issued.password + 1] \in Request
      BY <1>0, <3>1 DEF Request
    <3>3. ReqOK
      BY <2>1, <3>2, BeginType DEF RegisterCreate
    <3> QED
      BY <2>1, <3>1, <3>3 DEF RegisterCreate, TypeOK
  <2>2. CASE IssueVerification(s)
    <3>1. ReqOK
      BY <2>2, GoType, ReplyType DEF IssueVerification
    <3> QED
      BY <2>2, <3>1 DEF IssueVerification, TypeOK, Link
  <2>3. CASE SessionStart(s)
    <3>1. ReqOK
      BY <2>3, ReplyType DEF SessionStart
    <3>2. /\ sessions' \in [SessionIds -> Session]
          /\ issued' \in [session : 0..MaxSessions, token : 0..MaxTokens, password : Passwords]
      BY <1>a, <2>3, StartType DEF SessionStart
    <3> QED
      BY <2>3, <3>1, <3>2 DEF SessionStart, TypeOK
  <2>4. ASSUME NEW p \in Passwords, LoginRead(s, p) PROVE TypeOK'
    <3>1. [op |-> "login", pc |-> "start", sid |-> 0, arg |-> 0, pw |-> p] \in Request
      BY <1>0, <1>a, <2>4 DEF Request, LoginRead, Matches
    <3>2. ReqOK
      BY <2>4, <3>1, BeginType DEF LoginRead, Matches
    <3> QED
      BY <2>4, <3>2 DEF LoginRead, TypeOK, rows
  <2>5. CASE OAuthRead(s)
    <3>1. [op |-> "oauth", pc |-> IF account.linked THEN "start" ELSE "find", sid |-> 0, arg |-> 0, pw |-> account.password] \in Request
      BY <1>0, <1>a, <2>5 DEF Request, OAuthRead
    <3>2. ReqOK
      BY <2>5, <3>1, BeginType DEF OAuthRead
    <3> QED
      BY <2>5, <3>2 DEF OAuthRead, TypeOK, rows
  <2>6. CASE OAuthFind(s)
    <3>1. ReqOK
      BY <2>6, GoType DEF OAuthFind
    <3> QED
      BY <2>6, <3>1 DEF OAuthFind, TypeOK, rows
  <2>7. CASE OAuthLink(s)
    <3>1. ReqOK
      BY <2>7, GoType, ReplyType DEF OAuthLink
    <3>2. account' \in Account
      BY <2>7 DEF OAuthLink, TypeOK, Account
    <3> QED
      BY <2>7, <3>1, <3>2 DEF OAuthLink, TypeOK
  <2>8. CASE OAuthCreate(s)
    <3>1. ReqOK
      BY <2>8, GoType, ReplyType DEF OAuthCreate
    <3>2. account' \in Account
      <4>1. [exists |-> TRUE, password |-> 0, verified |-> TRUE, linked |-> TRUE] \in Account
        BY <1>0 DEF Account
      <4>2. account' \in {account, [exists |-> TRUE, password |-> 0, verified |-> TRUE,
                                    linked |-> TRUE]}
        BY <2>8 DEF OAuthCreate
      <4> QED
        BY <4>1, <4>2 DEF TypeOK
    <3>3. UNCHANGED <<sessions, resetLink, verifyLink, issued, hist>>
      BY <2>8 DEF OAuthCreate
    <3> QED
      BY <3>1, <3>2, <3>3 DEF TypeOK
  <2>9. CASE OAuthConfirm(s)
    <3>1. ReqOK
      BY <2>9, GoType DEF OAuthConfirm
    <3>2. account' \in Account
      BY <2>9 DEF OAuthConfirm, TypeOK, Account
    <3> QED
      BY <2>9, <3>1, <3>2 DEF OAuthConfirm, TypeOK
  <2> QED
    BY <1>1, <2>1, <2>2, <2>3, <2>4, <2>5, <2>6, <2>7, <2>8, <2>9 DEF SignIn
<1>2. ASSUME NEW s \in Slots, UseSession(s) PROVE TypeOK'
  <2>1. ASSUME NEW k \in SessionIds, RefreshRead(s, k) PROVE TypeOK'
    <3>1. [op |-> "refresh", pc |-> "rotate", sid |-> k, arg |-> sessions[k].token, pw |-> 0] \in Request
      BY <1>0, <1>a, <2>1, <1>b DEF Request, RefreshRead
    <3>2. ReqOK
      BY <2>1, <3>1, BeginType DEF RefreshRead
    <3> QED
      BY <2>1, <3>2, <1>b DEF RefreshRead, TypeOK, rows
  <2>2. ASSUME NEW k \in SessionIds, SignOutRead(s, k) PROVE TypeOK'
    <3>1. [op |-> "signOut", pc |-> "delete", sid |-> k, arg |-> 0, pw |-> 0] \in Request
      BY <1>0, <1>a, <2>2 DEF Request, SignOutRead
    <3>2. ReqOK
      BY <2>2, <3>1, BeginType DEF SignOutRead
    <3> QED
      BY <2>2, <3>2 DEF SignOutRead, TypeOK, rows
  <2>3. CASE RefreshRotate(s)
    <3>1. ReqOK
      BY <2>3, ReplyType DEF RefreshRotate
    <3>2. /\ sessions' \in [SessionIds -> Session]
          /\ issued' \in [session : 0..MaxSessions, token : 0..MaxTokens, password : Passwords]
      BY <2>3, RotateType DEF RefreshRotate
    <3> QED
      BY <2>3, <3>1, <3>2 DEF RefreshRotate, TypeOK
  <2>4. CASE SignOutDelete(s)
    <3>1. ReqOK
      BY <2>4, ReplyType DEF SignOutDelete
    <3>2. sessions' \in [SessionIds -> Session]
      BY <1>0, <2>4 DEF SignOutDelete, TypeOK, Session, NoSession
    <3> QED
      BY <2>4, <3>1, <3>2 DEF SignOutDelete, TypeOK
  <2> QED
    BY <1>2, <2>1, <2>2, <2>3, <2>4 DEF UseSession
<1>3. ASSUME NEW s \in Slots, UseLink(s) PROVE TypeOK'
  <2>1. CASE ResetRead(s)
    <3>1. [op |-> "reset", pc |-> "clear", sid |-> 0, arg |-> 0, pw |-> 0] \in Request
      BY <1>0, <1>a, <2>1 DEF Request, ResetRead
    <3>2. ReqOK
      BY <2>1, <3>1, BeginType DEF ResetRead
    <3> QED
      BY <2>1, <3>2 DEF ResetRead, TypeOK, rows
  <2>2. CASE ResetClear(s)
    <3>1. ReqOK
      BY <2>2, GoType DEF ResetClear
    <3> QED
      BY <2>2, <3>1 DEF ResetClear, TypeOK, Link
  <2>3. CASE ResetWrite(s)
    <3>1. ReqOK
      BY <2>3, GoType DEF ResetWrite
    <3>2. /\ account' \in Account /\ issued.password + 1 \in Passwords
          /\ issued' \in [session : 0..MaxSessions, token : 0..MaxTokens, password : Passwords]
      BY <2>3, NewPasswordType DEF ResetWrite
    <3>3. hist' \in [resetPw : Passwords, verifications : Nat]
      BY <2>3, <3>2 DEF ResetWrite, TypeOK
    <3> QED
      BY <2>3, <3>1, <3>2, <3>3 DEF ResetWrite, TypeOK
  <2>4. CASE ResetRevoke(s)
    <3>1. ReqOK
      BY <2>4, ReplyType DEF ResetRevoke
    <3>2. sessions' \in [SessionIds -> Session]
      BY <2>4, RevokeType DEF ResetRevoke
    <3> QED
      BY <2>4, <3>1, <3>2 DEF ResetRevoke, TypeOK
  <2>5. CASE VerifyRead(s)
    <3>1. [op |-> "verify", pc |-> "clear", sid |-> 0, arg |-> 0, pw |-> 0] \in Request
      BY <1>0, <1>a, <2>5 DEF Request, VerifyRead
    <3>2. ReqOK
      BY <2>5, <3>1, BeginType DEF VerifyRead
    <3> QED
      BY <2>5, <3>2 DEF VerifyRead, TypeOK, rows
  <2>6. CASE VerifyClear(s)
    <3>1. ReqOK
      BY <2>6, GoType DEF VerifyClear
    <3>2. account' \in Account
      BY <2>6 DEF VerifyClear, TypeOK, Account
    <3> QED
      BY <2>6, <3>1, <3>2 DEF VerifyClear, TypeOK, Link
  <2>7. CASE VerifyCount(s)
    <3>1. ReqOK
      BY <2>7, ReplyType DEF VerifyCount
    <3> QED
      BY <2>7, <3>1 DEF VerifyCount, TypeOK
  <2>8. CASE ResendRead(s)
    <3>1. [op |-> "resend", pc |-> "issue", sid |-> 0, arg |-> 0, pw |-> 0] \in Request
      BY <1>0, <1>a, <2>8 DEF Request, ResendRead
    <3>2. ReqOK
      BY <2>8, <3>1, BeginType DEF ResendRead
    <3> QED
      BY <2>8, <3>2 DEF ResendRead, TypeOK, rows
  <2> QED
    BY <1>3, <2>1, <2>2, <2>3, <2>4, <2>5, <2>6, <2>7, <2>8 DEF UseLink
<1>4. ASSUME NEW s \in Slots, Change(s) PROVE TypeOK'
  <2>1. ASSUME NEW p \in Passwords, NEW k \in 0..issued.session, ChangeRead(s, p, k)
        PROVE  TypeOK'
    <3>1. [op |-> "change", pc |-> "write", sid |-> k, arg |-> 0, pw |-> IF account.password = 0 THEN 0 ELSE p] \in Request
      BY <1>0, <1>a, <2>1, <1>c DEF Request, ChangeRead
    <3>2. ReqOK
      BY <2>1, <3>1, BeginType DEF ChangeRead
    <3> QED
      BY <2>1, <3>2, <1>c DEF ChangeRead, TypeOK, rows
  <2>2. CASE ChangeWrite(s)
    <3>1. /\ account' \in Account /\ issued.password + 1 \in Passwords
          /\ issued' \in [session : 0..MaxSessions, token : 0..MaxTokens, password : Passwords]
      BY <2>2, NewPasswordType DEF ChangeWrite
    <3>2. [req[s] EXCEPT !.pc = "revoke", !.pw = issued.password + 1] \in Request
      BY <1>a, <3>1 DEF Request
    <3>3. req[s].op = "change"
      BY <2>2 DEF ChangeWrite, At
    <3>4. req' = [req EXCEPT ![s] = [req[s] EXCEPT !.pc = "revoke", !.pw = issued.password + 1]]
      BY <2>2 DEF ChangeWrite
    <3>5. ReqOK
      <4>1. [req[s] EXCEPT !.pc = "revoke", !.pw = issued.password + 1].op = "change"
        BY <1>a, <3>3 DEF Request
      <4> QED
        BY <3>2, <3>4, <4>1 DEF TypeOK
    <3> QED
      BY <2>2, <3>1, <3>5 DEF ChangeWrite, TypeOK
  <2>3. CASE ChangeRevoke(s)
    <3>1. ReqOK
      BY <2>3, GoType DEF ChangeRevoke
    <3>2. sessions' \in [SessionIds -> Session]
      BY <2>3, RevokeType DEF ChangeRevoke
    <3> QED
      BY <2>3, <3>1, <3>2 DEF ChangeRevoke, TypeOK
  <2>4. CASE ChangeSession(s)
    <3>1. ReqOK
      BY <2>4, ReplyType DEF ChangeSession
    <3>2. /\ sessions' \in [SessionIds -> Session]
          /\ issued' \in [session : 0..MaxSessions, token : 0..MaxTokens, password : Passwords]
      BY <1>a, <2>4, StartType, RotateType DEF ChangeSession
    <3> QED
      BY <2>4, <3>1, <3>2 DEF ChangeSession, TypeOK
  <2> QED
    BY <1>4, <2>1, <2>2, <2>3, <2>4 DEF Change
<1>5. ASSUME NEW s \in Slots, Fault(s) PROVE TypeOK'
  <2>1. ReqOK
    BY <1>5, ReplyType DEF Fault
  <2> QED
    BY <1>5, <2>1 DEF Fault, rows, TypeOK
<1>6. ASSUME NEW k \in SessionIds, RevokeOthers(k) PROVE TypeOK'
  BY <1>6, RevokeType DEF RevokeOthers, InOneStep, TypeOK
<1>7. CASE ForceLogout
  BY <1>7, RevokeType DEF ForceLogout, InOneStep, TypeOK
<1>8. CASE RequestReset \/ ExpireReset \/ ExpireVerify
  BY <1>8 DEF RequestReset, ExpireReset, ExpireVerify, InOneStep, TypeOK, Link
<1>9. CASE UNCHANGED vars
  BY <1>9 DEF vars, TypeOK
<1> QED
  BY <1>1, <1>2, <1>3, <1>4, <1>5, <1>6, <1>7, <1>8, <1>9 DEF Next

(* Types hold in every reachable state (the Prisma models User and         *)
(* AuthSession, and what a request keeps across its awaits).               *)
THEOREM TypeCorrect == Spec => []TypeOK
BY InitType, NextType, PTL DEF Spec

-----------------------------------------------------------------------------
(* No step brings a session back: the only writes that put a token into a  *)
(* row are StartSession's, into a row past issued.session, and those of    *)
(* RotateSession, which looks for the row as it writes (rotateSession).    *)
LEMMA NoRevival ==
    ASSUME TypeOK, [Next]_vars, NEW k \in 1..issued.session, ~Live(k)
    PROVE  ~Live(k)'
<1>0. k \in SessionIds /\ sessions[k].token = 0 /\ k # issued.session + 1
  BY AuthConstants DEF TypeOK, SessionIds, Live
<1> SUFFICES sessions'[k].token = 0
  BY DEF Live
<1>1. ASSUME NEW pw, StartSession(pw) PROVE sessions'[k].token = 0
  BY <1>0, <1>1 DEF StartSession, TypeOK
<1>2. ASSUME NEW j, RotateSession(j) PROVE sessions'[k].token = 0
  <2>1. CASE ~Rotatable(j)
    BY <1>0, <1>2, <2>1 DEF RotateSession
  <2>2. CASE Rotatable(j)
    <3>1. j # k
      BY <1>0, <2>2 DEF Rotatable, Live
    <3> QED
      BY <1>0, <1>2, <2>2, <3>1 DEF RotateSession, TypeOK
  <2> QED
    BY <2>1, <2>2
<1>3. ASSUME NEW j, RevokeAllBut(j) PROVE sessions'[k].token = 0
  BY <1>0, <1>3 DEF RevokeAllBut, NoSession
<1>4. ASSUME NEW s \in Slots, SignIn(s) PROVE sessions'[k].token = 0
  BY <1>0, <1>1, <1>4 DEF SignIn, RegisterCreate, IssueVerification, LoginRead, OAuthRead,
     OAuthFind, OAuthLink, OAuthCreate, OAuthConfirm, SessionStart, rows
<1>5. ASSUME NEW s \in Slots, UseSession(s) PROVE sessions'[k].token = 0
  <2>1. CASE SignOutDelete(s)
    BY <1>0, <2>1 DEF SignOutDelete, TypeOK, NoSession
  <2> QED
    BY <1>0, <1>2, <1>5, <2>1 DEF UseSession, RefreshRead, RefreshRotate, SignOutRead, rows
<1>6. ASSUME NEW s \in Slots, UseLink(s) PROVE sessions'[k].token = 0
  BY <1>0, <1>3, <1>6 DEF UseLink, ResetRead, ResetClear, ResetWrite, ResetRevoke, VerifyRead,
     VerifyClear, VerifyCount, ResendRead, rows
<1>7. ASSUME NEW s \in Slots, Change(s) PROVE sessions'[k].token = 0
  BY <1>0, <1>1, <1>2, <1>3, <1>7 DEF Change, ChangeRead, ChangeWrite, ChangeRevoke,
     ChangeSession, rows
<1>8. ASSUME NEW s \in Slots, Fault(s) PROVE sessions'[k].token = 0
  BY <1>0, <1>8 DEF Fault, rows
<1>9. CASE (\E j \in SessionIds : RevokeOthers(j)) \/ ForceLogout
  BY <1>3, <1>9 DEF RevokeOthers, ForceLogout
<1>10. CASE RequestReset \/ ExpireReset \/ ExpireVerify \/ UNCHANGED vars
  BY <1>0, <1>10 DEF RequestReset, ExpireReset, ExpireVerify, vars
<1> QED
  BY <1>4, <1>5, <1>6, <1>7, <1>8, <1>9, <1>10 DEF Next

(* A session that has ended never lives again, however refreshes, resets,  *)
(* changes and failures interleave (rotateSession's "Throws when the       *)
(* session is gone").                                                      *)
THEOREM EndedForGood == Spec => SessionsEndForGood
<1>1. TypeOK /\ [Next]_vars => [\A k \in 1..issued.session : ~Live(k) => ~Live(k)']_vars
  BY NoRevival
<1> QED
  BY <1>1, TypeCorrect, PTL DEF Spec, SessionsEndForGood

-----------------------------------------------------------------------------
(* Sessions and tokens keep the promise of SessionTokens.  Each write to   *)
(* either is one of its steps, whatever the request that makes it has read *)
(* and when; every other step leaves both alone.                           *)
LEMMA NewToken ==
    ASSUME TypeOK, issued.token < MaxTokens
    PROVE  /\ issued.token + 1 \in 1..MaxTokens
           /\ issued.token + 1 \notin 1..issued.token
           /\ 1..(issued.token + 1) = (1..issued.token) \union {issued.token + 1}
<1>1. issued.token \in Nat
  BY AuthConstants DEF TypeOK
<1> QED
  BY <1>1, AuthConstants

LEMMA NewSession ==
    ASSUME TypeOK, issued.session < MaxSessions
    PROVE  /\ issued.session + 1 \in SessionIds
           /\ issued.session + 1 \notin 1..issued.session
           /\ 1..(issued.session + 1) = (1..issued.session) \union {issued.session + 1}
<1>1. issued.session \in Nat
  BY AuthConstants DEF TypeOK
<1> QED
  BY <1>1, AuthConstants DEF SessionIds

LEMMA PromiseStarts ==
    ASSUME TypeOK, NEW pw \in Passwords, StartSession(pw)
    PROVE  Promise!Next
<1> DEFINE k == issued.session + 1
           t == issued.token + 1
<1>1. /\ k \in SessionIds /\ k \notin 1..issued.session
      /\ 1..k = (1..issued.session) \union {k}
      /\ t \in 1..MaxTokens /\ t \notin 1..issued.token
      /\ 1..t = (1..issued.token) \union {t}
  BY NewToken, NewSession DEF StartSession
<1>2. issued'.session = k /\ issued'.token = t
  BY DEF StartSession, TypeOK
<1>3. workingToken' = [workingToken EXCEPT ![k] = t]
  BY <1>1 DEF StartSession, TypeOK, workingToken, Session
<1>4. Promise!Start(k, t)
  BY <1>1, <1>2, <1>3 DEF Promise!Start, Promise!Issue
<1> QED
  BY <1>1, <1>4 DEF Promise!Next

LEMMA PromiseRotates ==
    ASSUME TypeOK, NEW k, RotateSession(k)
    PROVE  Promise!Next \/ UNCHANGED <<sessions, issued>>
<1>1. SUFFICES ASSUME Rotatable(k) PROVE Promise!Next
  BY DEF RotateSession
<1> DEFINE t == issued.token + 1
<1>2. k \in SessionIds /\ sessions[k] \in Session /\ sessions[k].token # 0
  BY <1>1 DEF Rotatable, Live, TypeOK
<1>3. /\ issued.token < MaxTokens
      /\ sessions' = [sessions EXCEPT ![k].token = t]
      /\ issued' = [issued EXCEPT !.token = t]
  BY <1>1 DEF RotateSession
<1>4. t \in 1..MaxTokens /\ t \notin 1..issued.token /\ 1..t = (1..issued.token) \union {t}
  BY <1>3, NewToken
<1>5. issued'.session = issued.session /\ issued'.token = t
  BY <1>3 DEF TypeOK
<1>6. workingToken' = [workingToken EXCEPT ![k] = t]
  BY <1>2, <1>3 DEF TypeOK, workingToken, Session
<1>7. workingToken[k] # 0
  BY <1>2 DEF workingToken
<1>8. Promise!Refresh(k, t)
  BY <1>4, <1>5, <1>6, <1>7 DEF Promise!Refresh, Promise!Issue
<1> QED
  BY <1>2, <1>4, <1>8 DEF Promise!Next

LEMMA PromiseEnds ==
    ASSUME TypeOK, NEW gone \in SUBSET SessionIds, UNCHANGED issued,
           sessions' = [j \in SessionIds |-> IF j \in gone THEN NoSession ELSE sessions[j]]
    PROVE  Promise!Next
<1>1. workingToken' = [j \in SessionIds |-> IF j \in gone THEN 0 ELSE workingToken[j]]
  BY DEF workingToken, NoSession
<1>2. Promise!End(gone)
  BY <1>1 DEF Promise!End
<1> QED
  BY <1>2 DEF Promise!Next

LEMMA PromiseRevokes ==
    ASSUME TypeOK, NEW k, RevokeAllBut(k), UNCHANGED issued
    PROVE  Promise!Next
<1> DEFINE gone == SessionIds \ {k}
<1>1. sessions' = [j \in SessionIds |-> IF j \in gone THEN NoSession ELSE sessions[j]]
  BY DEF RevokeAllBut
<1> QED
  BY <1>1, PromiseEnds

(* What leaves the sessions alone may at most set a new password. *)
SessionsAlone ==
    sessions' = sessions /\ issued'.session = issued.session /\ issued'.token = issued.token

LEMMA PromiseNext ==
    ASSUME TypeOK, [Next]_vars
    PROVE  Promise!Next \/ SessionsAlone
<1>0. \A s \in Slots : req[s].pw \in Passwords
  BY DEF TypeOK, Request
<1>1. ASSUME NewPassword PROVE issued'.session = issued.session /\ issued'.token = issued.token
  BY <1>1 DEF NewPassword, TypeOK
<1>2. ASSUME NEW s \in Slots, SignIn(s) PROVE Promise!Next \/ SessionsAlone
  <2>1. CASE SessionStart(s)
    BY <1>0, <2>1, PromiseStarts DEF SessionStart
  <2>2. CASE RegisterCreate(s)
    BY <1>1, <2>2 DEF RegisterCreate, SessionsAlone
  <2> QED
    BY <1>2, <2>1, <2>2 DEF SignIn, IssueVerification, LoginRead, OAuthRead, OAuthFind, OAuthLink,
       OAuthCreate, OAuthConfirm, rows, SessionsAlone
<1>3. ASSUME NEW s \in Slots, UseSession(s) PROVE Promise!Next \/ SessionsAlone
  <2>1. CASE RefreshRotate(s)
    BY <2>1, PromiseRotates DEF RefreshRotate, SessionsAlone
  <2>2. CASE SignOutDelete(s)
    <3> DEFINE gone == {req[s].sid} \intersect SessionIds
    <3>1. sessions' = [j \in SessionIds |-> IF j \in gone THEN NoSession ELSE sessions[j]]
      BY <2>2 DEF SignOutDelete, TypeOK
    <3> QED
      BY <2>2, <3>1, PromiseEnds DEF SignOutDelete
  <2> QED
    BY <1>3, <2>1, <2>2 DEF UseSession, RefreshRead, SignOutRead, rows, SessionsAlone
<1>4. ASSUME NEW s \in Slots, UseLink(s) PROVE Promise!Next \/ SessionsAlone
  <2>1. CASE ResetRevoke(s)
    BY <2>1, PromiseRevokes DEF ResetRevoke
  <2>2. CASE ResetWrite(s)
    BY <1>1, <2>2 DEF ResetWrite, SessionsAlone
  <2> QED
    BY <1>4, <2>1, <2>2 DEF UseLink, ResetRead, ResetClear, VerifyRead, VerifyClear, VerifyCount,
       ResendRead, rows, SessionsAlone
<1>5. ASSUME NEW s \in Slots, Change(s) PROVE Promise!Next \/ SessionsAlone
  <2>1. CASE ChangeSession(s)
    BY <1>0, <2>1, PromiseStarts, PromiseRotates DEF ChangeSession, SessionsAlone
  <2>2. CASE ChangeRevoke(s)
    BY <2>2, PromiseRevokes DEF ChangeRevoke
  <2>3. CASE ChangeWrite(s)
    BY <1>1, <2>3 DEF ChangeWrite, SessionsAlone
  <2> QED
    BY <1>5, <2>1, <2>2, <2>3 DEF Change, ChangeRead, rows, SessionsAlone
<1>6. ASSUME NEW s \in Slots, Fault(s) PROVE SessionsAlone
  BY <1>6 DEF Fault, rows, SessionsAlone
<1>7. CASE (\E j \in SessionIds : RevokeOthers(j)) \/ ForceLogout
  BY <1>7, PromiseRevokes DEF RevokeOthers, ForceLogout
<1>8. CASE RequestReset \/ ExpireReset \/ ExpireVerify \/ UNCHANGED vars
  BY <1>8 DEF RequestReset, ExpireReset, ExpireVerify, vars, SessionsAlone
<1> QED
  BY <1>2, <1>3, <1>4, <1>5, <1>6, <1>7, <1>8 DEF Next

(* However requests overlap and wherever they fail, sessions and refresh   *)
(* tokens keep the promise of SessionTokens: none comes back, none is      *)
(* issued twice, and a token that has been replaced no longer works        *)
(* ("the old token stops working at once").                                *)
THEOREM TokensKeepPromise == Spec => ImplementsTokens
<1>1. Init => Promise!Init
  <2> SUFFICES ASSUME Init PROVE Promise!Init
    OBVIOUS
  <2>1. 1..issued.session = {} /\ 1..issued.token = {}
    BY DEF Init
  <2>2. workingToken = [k \in SessionIds |-> 0]
    BY DEF Init, workingToken, NoSession
  <2> QED
    BY <2>1, <2>2 DEF Promise!Init
<1>2. TypeOK /\ [Next]_vars =>
        [Promise!Next]_<<1..issued.session, 1..issued.token, workingToken>>
  <2> SUFFICES ASSUME TypeOK, [Next]_vars, SessionsAlone
               PROVE  UNCHANGED <<1..issued.session, 1..issued.token, workingToken>>
    BY PromiseNext
  <2> QED
    BY DEF SessionsAlone, workingToken
<1> QED
  BY <1>1, <1>2, TypeCorrect, PTL DEF Spec, ImplementsTokens, Promise!Spec

-----------------------------------------------------------------------------
(* One request at a time. *)

LEMMA SerialInit == Init => SerialInv
<1> SUFFICES ASSUME Init PROVE SerialInv
  OBVIOUS
<1>1. TypeOK
  BY InitType
<1>2. \A k \in SessionIds : ~Live(k)
  BY DEF Init, Live, NoSession
<1> QED
  BY <1>1, <1>2 DEF Init, SerialInv, PasswordsInOrder, HoldsTheCurrent, NothingBeforeAccount,
     CountedOnVerified, VerifiedOnce, ChangeLeavesOne, ResetEndsSessions, At, Idle

(* SerialInv of the one request there is.                                  *)
OldSessionsGone(s) ==
    ~At(s, "reset", "revoke") =>
        \A k \in SessionIds : sessions[k].token # 0 => sessions[k].pw >= hist.resetPw

OneLeft(s) ==
    At(s, "change", "session") => \A k \in SessionIds : sessions[k].token # 0 => k = req[s].sid

CurrentHeld(s) ==
    req[s].op \in {"register", "login", "oauth", "change"} => req[s].pw = account.password

NothingYet(s) ==
    ~account.exists =>
        /\ account.password = 0 /\ hist.resetPw = 0 /\ hist.verifications = 0
        /\ resetLink = "none" /\ verifyLink = "none"
        /\ req[s].op \in {"idle", "oauth", "refresh", "signOut"}

Counted(s) ==
    /\ hist.verifications <= 1
    /\ hist.verifications = 1 \/ At(s, "verify", "count") => account.verified /\ verifyLink # "good"
    /\ hist.verifications = 1 =>
         req[s].op \notin {"resend", "verify"} /\ ~At(s, "register", "issue")

Serial(s) ==
    PasswordsInOrder /\ CurrentHeld(s) /\ NothingYet(s) /\ Counted(s) /\ OneLeft(s) /\ OldSessionsGone(s)

LEMMA SerialFinds ==
    ASSUME NEW s \in Slots, \A r \in Slots : r = s, SerialInv
    PROVE  TypeOK /\ Serial(s)
BY DEF SerialInv, HoldsTheCurrent, NothingBeforeAccount, CountedOnVerified, VerifiedOnce,
   ChangeLeavesOne, ResetEndsSessions, At, Live,
   Serial, CurrentHeld, NothingYet, Counted, OneLeft, OldSessionsGone

LEMMA SerialLeaves ==
    ASSUME NEW s \in Slots, \A r \in Slots : r = s, TypeOK', Serial(s)'
    PROVE  SerialInv'
BY DEF SerialInv, HoldsTheCurrent, NothingBeforeAccount, CountedOnVerified, VerifiedOnce,
   ChangeLeavesOne, ResetEndsSessions, At, Live,
   Serial, CurrentHeld, NothingYet, Counted, OneLeft, OldSessionsGone

(* What a rotation, and a start, leave of each session that lives. *)
LEMMA Rotated ==
    ASSUME TypeOK, NEW j, RotateSession(j), NEW k \in SessionIds, sessions'[k].token # 0
    PROVE  sessions[k].token # 0 /\ sessions'[k].pw = sessions[k].pw
<1>1. CASE Rotatable(j)
  <2>1. sessions' = [sessions EXCEPT ![j] = [sessions[j] EXCEPT !.token = issued.token + 1]]
    BY <1>1 DEF RotateSession
  <2>2. j \in SessionIds /\ sessions[j].token # 0
    BY <1>1 DEF Rotatable, Live
  <2>3. CASE k = j
    BY <2>1, <2>2, <2>3 DEF TypeOK, Session
  <2>4. CASE k # j
    BY <2>1, <2>2, <2>4 DEF TypeOK
  <2> QED
    BY <2>3, <2>4
<1>2. CASE ~Rotatable(j)
  BY <1>2 DEF RotateSession
<1> QED
  BY <1>1, <1>2

LEMMA Started ==
    ASSUME TypeOK, NEW pw, StartSession(pw), NEW k \in SessionIds, sessions'[k].token # 0
    PROVE  \/ sessions[k].token # 0 /\ sessions'[k].pw = sessions[k].pw
           \/ sessions'[k].pw = pw
BY DEF TypeOK, StartSession

LEMMA NoneOrOne ==
    ASSUME NEW n \in Nat, n <= 1, n # 1
    PROVE  n = 0
OBVIOUS

LEMMA SerialStep ==
    ASSUME NEW s \in Slots, TypeOK, Serial(s),
           SignIn(s) \/ UseSession(s) \/ UseLink(s) \/ Change(s)
    PROVE  Serial(s)'
<1> USE AuthConstants
    DEF TypeOK, Serial, PasswordsInOrder, CurrentHeld, NothingYet, Counted, OneLeft,
        OldSessionsGone, At, Request, Account, Session, Link, Idle, NoSession, Passwords,
        SessionIds, rows
<1>1. CASE RegisterCreate(s)
  BY <1>1 DEF RegisterCreate, Begin, NewPassword
<1>2. CASE IssueVerification(s)
  BY <1>2 DEF IssueVerification, Go, Reply
<1>3. CASE SessionStart(s)
  BY <1>3 DEF SessionStart, StartSession, Reply
<1>4. ASSUME NEW p \in Passwords, LoginRead(s, p) PROVE Serial(s)'
  BY <1>4 DEF LoginRead, Matches, Begin
<1>5. CASE OAuthRead(s)
  BY <1>5 DEF OAuthRead, Begin
<1>6. CASE OAuthFind(s)
  BY <1>6 DEF OAuthFind, Go
<1>7. CASE OAuthLink(s)
  <2>1. CASE account.linked
    BY <1>7, <2>1 DEF OAuthLink, Reply
  <2>2. CASE ~account.linked
    <3>1. /\ account'.exists = account.exists /\ account'.password = account.password
          /\ account'.verified = account.verified
      BY <1>7, <2>2 DEF OAuthLink
    <3>2. req'[s] = [req[s] EXCEPT !.pc = "confirm"]
      BY <1>7, <2>2 DEF OAuthLink, Go
    <3> QED
      BY <1>7, <3>1, <3>2 DEF OAuthLink
  <2> QED
    BY <2>1, <2>2
<1>8. CASE OAuthCreate(s)
  BY <1>8 DEF OAuthCreate, Go, Reply
<1>9. CASE OAuthConfirm(s)
  BY <1>9 DEF OAuthConfirm, Go
<1>10. ASSUME NEW k \in SessionIds, RefreshRead(s, k) \/ SignOutRead(s, k) PROVE Serial(s)'
  <2>1. req'[s].op \in {"refresh", "signOut"} /\ req[s].op = "idle"
    BY <1>10 DEF RefreshRead, SignOutRead, Begin
  <2>2. UNCHANGED rows
    BY <1>10 DEF RefreshRead, SignOutRead
  <2> QED
    BY <2>1, <2>2
<1>11. CASE RefreshRotate(s)
  <2>1. req'[s] = Idle /\ req[s].op = "refresh"
    BY <1>11 DEF RefreshRotate, Reply
  <2>2. /\ UNCHANGED <<account, resetLink, verifyLink, hist>>
        /\ issued'.password = issued.password
    BY <1>11 DEF RefreshRotate, RotateSession
  <2>3. \A k \in SessionIds : sessions'[k].token # 0 =>
            sessions[k].token # 0 /\ sessions'[k].pw = sessions[k].pw
    BY <1>11, Rotated DEF RefreshRotate
  <2> QED
    BY <2>1, <2>2, <2>3
<1>12. CASE SignOutDelete(s)
  BY <1>12 DEF SignOutDelete, Reply
<1>13. CASE ResetRead(s) \/ ResetClear(s)
  BY <1>13 DEF ResetRead, ResetClear, Begin, Go
<1>14. CASE ResetWrite(s)
  BY <1>14 DEF ResetWrite, NewPassword, Go
<1>15. CASE ResetRevoke(s)
  BY <1>15 DEF ResetRevoke, RevokeAllBut, Reply
<1>16. CASE VerifyRead(s)
  BY <1>16 DEF VerifyRead, Begin
<1>17. CASE VerifyClear(s)
  <2>1. account' = [account EXCEPT !.verified = TRUE] /\ UNCHANGED <<sessions, resetLink, issued, hist>>
    BY <1>17 DEF VerifyClear
  <2>2. verifyLink' = "none" /\ req'[s] = [req[s] EXCEPT !.pc = "count"] /\ req[s].op = "verify"
    BY <1>17 DEF VerifyClear, Go
  <2> QED
    BY <2>1, <2>2
<1>23. CASE VerifyCount(s)
  <2>1. req[s].op = "verify" /\ account.exists /\ account.verified /\ verifyLink # "good"
    BY <1>23 DEF VerifyCount
  <2>2. hist.verifications = 0
    <3>1. hist.verifications \in Nat /\ hist.verifications <= 1 /\ hist.verifications # 1
      BY <2>1
    <3> QED
      BY <3>1, NoneOrOne
  <2>3. hist'.verifications = 1 /\ hist'.resetPw = hist.resetPw
    BY <1>23, <2>2 DEF VerifyCount
  <2>4. req'[s] = Idle /\ UNCHANGED <<account, sessions, resetLink, verifyLink, issued>>
    BY <1>23 DEF VerifyCount, Reply
  <2> QED
    BY <2>1, <2>3, <2>4
<1>18. CASE ResendRead(s)
  BY <1>18 DEF ResendRead, Resendable, Begin
<1>19. ASSUME NEW p \in Passwords, NEW k \in 0..issued.session, ChangeRead(s, p, k)
       PROVE  Serial(s)'
  BY <1>19 DEF ChangeRead, Proves, Begin
<1>20. CASE ChangeWrite(s)
  BY <1>20 DEF ChangeWrite, NewPassword
<1>21. CASE ChangeRevoke(s)
  BY <1>21 DEF ChangeRevoke, RevokeAllBut, Go
<1>22. CASE ChangeSession(s)
  <2>1. req'[s] = Idle /\ req[s].op = "change" /\ req[s].pc = "session"
    BY <1>22 DEF ChangeSession, Reply
  <2>2. /\ UNCHANGED <<account, resetLink, verifyLink, hist>>
        /\ issued'.password = issued.password
    BY <1>22 DEF ChangeSession, StartSession, RotateSession
  <2>3. \A k \in SessionIds : sessions'[k].token # 0 =>
            \/ sessions[k].token # 0 /\ sessions'[k].pw = sessions[k].pw
            \/ sessions'[k].pw = req[s].pw
    BY <1>22, Started, Rotated DEF ChangeSession
  <2>4. req[s].pw = account.password
    BY <2>1
  <2>5. req[s].pw >= hist.resetPw
    BY <2>4
  <2>6. \A k \in SessionIds : sessions'[k].token # 0 => sessions'[k].pw >= hist'.resetPw
    <3>1. \A k \in SessionIds : sessions[k].token # 0 => sessions[k].pw >= hist.resetPw
      BY <2>1
    <3> QED
      BY <2>2, <2>3, <2>5, <3>1
  <2> QED
    BY <2>1, <2>2, <2>6
<1> QED
  BY <1>1, <1>2, <1>3, <1>4, <1>5, <1>6, <1>7, <1>8, <1>9, <1>10, <1>11, <1>12, <1>13, <1>14,
     <1>15, <1>16, <1>17, <1>18, <1>19, <1>20, <1>21, <1>22, <1>23
     DEF SignIn, UseSession, UseLink, Change

LEMMA SerialNext ==
    ASSUME \A s, t \in Slots : s = t, Faults = FALSE
    PROVE  SerialInv /\ [Next]_vars => SerialInv'
<1> SUFFICES ASSUME SerialInv, [Next]_vars PROVE SerialInv'
  OBVIOUS
<1>0. TypeOK /\ TypeOK'
  BY NextType DEF SerialInv
<1>1. ASSUME NEW s \in Slots, SignIn(s) \/ UseSession(s) \/ UseLink(s) \/ Change(s)
      PROVE  SerialInv'
  <2>1. \A r \in Slots : r = s
    OBVIOUS
  <2>2. Serial(s)
    BY <2>1, SerialFinds
  <2> QED
    BY <1>0, <1>1, <2>1, <2>2, SerialStep, SerialLeaves
<1>2. ~\E s \in Slots : Fault(s)
  BY DEF Fault
<1>3. ASSUME (\E k \in SessionIds : RevokeOthers(k)) \/ ForceLogout PROVE SerialInv'
  <2>1. PICK s \in Slots : req[s] = Idle
    BY <1>3 DEF RevokeOthers, ForceLogout, InOneStep
  <2>2. \A r \in Slots : r = s
    BY <2>1
  <2>3. Serial(s)
    BY <2>2, SerialFinds
  <2>4. UNCHANGED <<account, resetLink, verifyLink, issued, hist, req>>
    BY <1>3 DEF RevokeOthers, ForceLogout, InOneStep
  <2>5. \A k \in SessionIds : sessions'[k].token # 0 => sessions'[k] = sessions[k]
    BY <1>0, <1>3 DEF RevokeOthers, ForceLogout, RevokeAllBut, TypeOK, NoSession
  <2>6. Serial(s)'
    BY <2>1, <2>3, <2>4, <2>5 DEF Serial, PasswordsInOrder, CurrentHeld, NothingYet, Counted,
       OneLeft, OldSessionsGone, At, Idle
  <2> QED
    BY <1>0, <2>2, <2>6, SerialLeaves
<1>4. ASSUME RequestReset \/ ExpireReset \/ ExpireVerify \/ UNCHANGED vars PROVE SerialInv'
  <2>1. UNCHANGED <<account, sessions, issued, hist, req>>
    BY <1>4 DEF RequestReset, ExpireReset, ExpireVerify, InOneStep, vars
  <2>2. /\ verifyLink' \in {verifyLink, "expired"}
        /\ verifyLink = "none" => verifyLink' = "none"
        /\ ~account.exists /\ resetLink = "none" => resetLink' = "none"
    BY <1>4 DEF RequestReset, ExpireReset, ExpireVerify, vars
  <2> QED
    BY <1>0, <2>1, <2>2 DEF SerialInv, PasswordsInOrder, HoldsTheCurrent, NothingBeforeAccount,
       CountedOnVerified, VerifiedOnce, ChangeLeavesOne, ResetEndsSessions, At, Live
<1> QED
  BY <1>1, <1>2, <1>3, <1>4 DEF Next

(* One request at a time, none dying halfway: once a reset has run, no     *)
(* session signed in with an earlier password lives (resetPassword's       *)
(* "every session ends").                                                  *)
THEOREM ResetEndsThemAll ==
    ASSUME \A s, t \in Slots : s = t, Faults = FALSE
    PROVE  Spec => []ResetEndsSessions
<1>1. SerialInv => ResetEndsSessions
  BY DEF SerialInv
<1>2. SerialInv /\ [Next]_vars => SerialInv'
  BY SerialNext
<1> QED
  BY <1>1, <1>2, SerialInit, PTL DEF Spec

(* Likewise an address is verified, and counted, at most once, however     *)
(* often its link is sent, expires and is followed (verifyEmail).          *)
THEOREM CountedOnce ==
    ASSUME \A s, t \in Slots : s = t, Faults = FALSE
    PROVE  Spec => []VerifiedOnce
<1>1. SerialInv => VerifiedOnce
  BY DEF SerialInv, CountedOnVerified
<1>2. SerialInv /\ [Next]_vars => SerialInv'
  BY SerialNext
<1> QED
  BY <1>1, <1>2, SerialInit, PTL DEF Spec

(* Likewise a password is only ever changed by someone who proved the one  *)
(* it replaces (changePassword).                                           *)
THEOREM ProvedBeforeChanged ==
    ASSUME \A s, t \in Slots : s = t, Faults = FALSE
    PROVE  Spec => ChangeProvesCurrent
<1>1. SerialInv => [\A s \in Slots : ChangeWrite(s) => account.password = req[s].pw]_vars
  BY DEF SerialInv, HoldsTheCurrent, ChangeWrite, At
<1>2. SerialInv /\ [Next]_vars => SerialInv'
  BY SerialNext
<1> QED
  BY <1>1, <1>2, SerialInit, PTL DEF Spec, ChangeProvesCurrent

(* Likewise a password change leaves one session at most                   *)
(* (changePassword's keepSessionId).                                       *)
THEOREM ChangeLeavesItsOwn ==
    ASSUME \A s, t \in Slots : s = t, Faults = FALSE
    PROVE  Spec => OnlyItsSessionLeft
<1>1. SerialInv => [\A s \in Slots : ChangeSession(s) =>
          \A j, k \in SessionIds : Live(j)' /\ Live(k)' => j = k]_vars
  <2> SUFFICES ASSUME SerialInv, NEW s \in Slots, ChangeSession(s),
                      NEW j \in SessionIds, NEW k \in SessionIds, Live(j)', Live(k)'
               PROVE  j = k
    OBVIOUS
  <2>1. \A i \in SessionIds : Live(i) => i = req[s].sid
    BY DEF SerialInv, ChangeLeavesOne, ChangeSession
  <2>2. CASE req[s].sid = 0
    <3>1. \A i \in SessionIds : sessions[i].token = 0
      BY <2>1, <2>2 DEF Live, SessionIds
    <3>2. \A i \in SessionIds : i # issued.session + 1 => sessions'[i] = sessions[i]
      BY <2>2 DEF ChangeSession, StartSession, SerialInv, TypeOK
    <3> QED
      BY <3>1, <3>2 DEF Live
  <2>3. CASE req[s].sid # 0
    <3>1. Live(j) /\ Live(k)
      BY <2>3, Rotated DEF ChangeSession, Live, SerialInv
    <3> QED
      BY <2>1, <3>1
  <2> QED
    BY <2>2, <2>3
<1>2. SerialInv /\ [Next]_vars => SerialInv'
  BY SerialNext
<1> QED
  BY <1>1, <1>2, SerialInit, PTL DEF Spec, OnlyItsSessionLeft
=============================================================================
