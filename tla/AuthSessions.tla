---------------------------- MODULE AuthSessions ----------------------------
(***************************************************************************)
(* One account: its password, its sessions, and the links mailed to it     *)
(* (auth/auth.service.ts, auth/token.service.ts, the sign-in half of       *)
(* auth/oauth.service.ts, admin force-logout).  Requests run in slots as   *)
(* in VehicleSharing, but nothing here runs in a transaction: every        *)
(* database call of a request is a step of its own, and a request can fail *)
(* at any of them (Fault) leaving what it has already written.             *)
(*                                                                         *)
(* A password is the number of the write that set it, 0 for none, so a     *)
(* client that knows password p knew the account after its p-th write.  A  *)
(* refresh token is the number of its issue: a JWT with a fresh jti, so    *)
(* none is issued twice.  Of a mailed link only the last one issued is on  *)
(* file, so the state of that one is all there is.                         *)
(* Bounds: MaxSessions, MaxTokens and MaxPasswords ever created.           *)
(***************************************************************************)
EXTENDS Integers

CONSTANTS Slots, MaxSessions, MaxTokens, MaxPasswords,
          Faults    \* whether a request may fail after it has begun

ASSUME AuthConstants ==
    /\ MaxSessions \in Nat /\ MaxTokens \in Nat /\ MaxPasswords \in Nat
    /\ Faults \in BOOLEAN

VARIABLES
    account,        \* [exists, password, verified, linked]: the User row
    sessions,       \* AuthSession rows by id; token 0 is no row
    resetLink,      \* the password-reset token on file
    verifyLink,     \* the email-verification token on file
    issued,         \* how many sessions, tokens and passwords so far
    req,            \* slot -> the request running in it
    hist            \* the last password a reset set; verifications counted

vars == <<account, sessions, resetLink, verifyLink, issued, req, hist>>

SessionIds == 1..MaxSessions
Passwords == 0..MaxPasswords

Account == [exists : BOOLEAN, password : Passwords, verified : BOOLEAN, linked : BOOLEAN]
Session == [token : 0..MaxTokens, pw : Passwords]
Link == {"none", "good", "expired"}
NoSession == [token |-> 0, pw |-> 0]

(* Every request keeps the same three things: the session it names, the    *)
(* refresh token it presented and the password its credentials match.      *)
Request == [op : {"idle", "register", "login", "oauth", "refresh", "reset", "verify",
                  "resend", "signOut", "change"},
            pc : {"idle", "issue", "find", "link", "create", "confirm", "start", "rotate",
                  "clear", "write", "revoke", "count", "delete", "session"},
            sid : 0..MaxSessions, arg : 0..MaxTokens, pw : Passwords]
Idle == [op |-> "idle", pc |-> "idle", sid |-> 0, arg |-> 0, pw |-> 0]

TypeOK ==
    /\ account \in Account
    /\ sessions \in [SessionIds -> Session]
    /\ resetLink \in Link /\ verifyLink \in Link
    /\ issued \in [session : 0..MaxSessions, token : 0..MaxTokens, password : Passwords]
    /\ req \in [Slots -> Request]
    /\ \A s \in Slots : req[s].op = "login" => req[s].pw # 0
    /\ hist \in [resetPw : Passwords, verifications : Nat]

-----------------------------------------------------------------------------
Live(k) == k \in SessionIds /\ sessions[k].token # 0

At(s, op, pc) == req[s].op = op /\ req[s].pc = pc
Go(s, pc) == req' = [req EXCEPT ![s].pc = pc]
Begin(s, op, pc, sid, arg, pw) ==
    /\ req[s] = Idle
    /\ req' = [req EXCEPT ![s] = [op |-> op, pc |-> pc, sid |-> sid, arg |-> arg, pw |-> pw]]
Reply(s) == req' = [req EXCEPT ![s] = Idle]

(* A request that writes once, and reads nothing it could lose, is one step. *)
InOneStep == (\E s \in Slots : req[s] = Idle) /\ UNCHANGED req

rows == <<account, sessions, resetLink, verifyLink, issued, hist>>

(* revokeSessions: every session but the one kept; 0 keeps none. *)
RevokeKept(k) ==                    \* mutant: deletes the one it should keep
    sessions' = [j \in SessionIds |-> IF j # k THEN sessions[j] ELSE NoSession]
RevokeAllBut(k) ==
    sessions' = [j \in SessionIds |-> IF j = k THEN sessions[j] ELSE NoSession]

(* startSession: a new row with a fresh refresh token. *)
StartSession(pw) ==
    /\ issued.session < MaxSessions /\ issued.token < MaxTokens
    /\ sessions' = [sessions EXCEPT ![issued.session + 1] =
                       [token |-> issued.token + 1, pw |-> pw]]
    /\ issued' = [issued EXCEPT !.session = @ + 1, !.token = @ + 1]

(* rotateSession: updateMany by id, so a session that is gone stays gone   *)
(* and the caller gets a 401; whatever token it held is replaced.          *)
RotatableOnceGone(k) == k \in SessionIds        \* mutant: an upsert
Rotatable(k) == Live(k)
RotateSession(k) ==
    \/ /\ Rotatable(k)
       /\ issued.token < MaxTokens
       /\ sessions' = [sessions EXCEPT ![k].token = issued.token + 1]
       /\ issued' = [issued EXCEPT !.token = @ + 1]
    \/ /\ ~Rotatable(k)
       /\ UNCHANGED <<sessions, issued>>

NewPassword ==
    /\ issued.password < MaxPasswords
    /\ account' = [account EXCEPT !.exists = TRUE, !.password = issued.password + 1]
    /\ issued' = [issued EXCEPT !.password = @ + 1]

-----------------------------------------------------------------------------
(* register: the row; the verification link; the first session.            *)

RegisterCreate(s) ==
    /\ ~account.exists
    /\ NewPassword
    /\ Begin(s, "register", "issue", 0, 0, issued.password + 1)
    /\ UNCHANGED <<sessions, resetLink, verifyLink, hist>>

(* issueEmailVerification overwrites the link on file. *)
IssueVerification(s) ==
    /\ At(s, "register", "issue") \/ At(s, "resend", "issue")
    /\ verifyLink' = "good"
    /\ IF req[s].op = "register" THEN Go(s, "start") ELSE Reply(s)
    /\ UNCHANGED <<account, sessions, resetLink, issued, hist>>

(* login: the row is read and the password compared with what was read;    *)
(* the session is started after the audit entry has been written.          *)
MatchesNone(p) == account.password = p          \* mutant: no password is one too
Matches(p) == account.password # 0 /\ account.password = p
LoginRead(s, p) ==
    /\ account.exists
    /\ Matches(p)
    /\ Begin(s, "login", "start", 0, 0, p)
    /\ UNCHANGED rows

(* OAuth loginOrLink, for a provider that reports the address as verified: *)
(* a linked account signs in; an existing one is linked and then marked    *)
(* verified; otherwise one without a password is created.                  *)
OAuthRead(s) ==
    /\ Begin(s, "oauth", IF account.linked THEN "start" ELSE "find", 0, 0, account.password)
    /\ UNCHANGED rows

OAuthFind(s) ==
    /\ At(s, "oauth", "find")
    /\ Go(s, IF account.exists THEN "link" ELSE "create")
    /\ UNCHANGED rows

(* Either insert fails on its unique index when somebody was faster. *)
OAuthLink(s) ==
    /\ At(s, "oauth", "link")
    /\ IF account.linked
       THEN Reply(s) /\ UNCHANGED account
       ELSE Go(s, "confirm") /\ account' = [account EXCEPT !.linked = TRUE]
    /\ UNCHANGED <<sessions, resetLink, verifyLink, issued, hist>>

OAuthCreate(s) ==
    /\ At(s, "oauth", "create")
    /\ IF account.exists
       THEN Reply(s) /\ UNCHANGED account
       ELSE /\ Go(s, "start")
            /\ account' = [exists |-> TRUE, password |-> 0, verified |-> TRUE, linked |-> TRUE]
    /\ UNCHANGED <<sessions, resetLink, verifyLink, issued, hist>>

OAuthConfirm(s) ==
    /\ At(s, "oauth", "confirm")
    /\ Go(s, "start")
    /\ account' = [account EXCEPT !.verified = TRUE]
    /\ UNCHANGED <<sessions, resetLink, verifyLink, issued, hist>>

SessionStart(s) ==
    /\ req[s].op \in {"register", "login", "oauth"} /\ req[s].pc = "start"
    /\ StartSession(req[s].pw)
    /\ Reply(s)
    /\ UNCHANGED <<account, resetLink, verifyLink, hist>>

-----------------------------------------------------------------------------
(* refresh: find the session that holds the token's hash, then rotate it.  *)

RefreshRead(s, k) ==
    /\ Live(k)
    /\ Begin(s, "refresh", "rotate", k, sessions[k].token, 0)
    /\ UNCHANGED rows

RefreshRotate(s) ==
    /\ At(s, "refresh", "rotate")
    /\ RotateSession(req[s].sid)
    /\ Reply(s)
    /\ UNCHANGED <<account, resetLink, verifyLink, hist>>

(* logout finds the session by its refresh token, Settings lists the       *)
(* sessions by id; both then delete by id and tolerate that it is gone.    *)
SignOutRead(s, k) ==
    /\ Live(k)
    /\ Begin(s, "signOut", "delete", k, 0, 0)
    /\ UNCHANGED rows

SignOutDelete(s) ==
    /\ At(s, "signOut", "delete")
    /\ sessions' = [sessions EXCEPT ![req[s].sid] = NoSession]
    /\ Reply(s)
    /\ UNCHANGED <<account, resetLink, verifyLink, issued, hist>>

(* "Sign out other devices", from any access token that names a session:   *)
(* its own session may have ended within the token's lifetime.             *)
RevokeOthers(k) ==
    /\ k \in 1..issued.session
    /\ RevokeAllBut(k)
    /\ InOneStep
    /\ UNCHANGED <<account, resetLink, verifyLink, issued, hist>>

ForceLogout ==
    /\ account.exists
    /\ RevokeAllBut(0)
    /\ InOneStep
    /\ UNCHANGED <<account, resetLink, verifyLink, issued, hist>>

-----------------------------------------------------------------------------
(* The mailed links.  A reset spends its link, writes the new password,    *)
(* then ends every session: three separate writes.                         *)

RequestReset ==
    /\ account.exists
    /\ resetLink' = "good"
    /\ InOneStep
    /\ UNCHANGED <<account, sessions, verifyLink, issued, hist>>

ResetRead(s) ==
    /\ resetLink = "good"
    /\ Begin(s, "reset", "clear", 0, 0, 0)
    /\ UNCHANGED rows

ResetClear(s) ==
    /\ At(s, "reset", "clear")
    /\ resetLink' = "none"
    /\ Go(s, "write")
    /\ UNCHANGED <<account, sessions, verifyLink, issued, hist>>

ResetWrite(s) ==
    /\ At(s, "reset", "write")
    /\ NewPassword
    /\ hist' = [hist EXCEPT !.resetPw = issued.password + 1]
    /\ Go(s, "revoke")
    /\ UNCHANGED <<sessions, resetLink, verifyLink>>

ResetRevoke(s) ==
    /\ At(s, "reset", "revoke")
    /\ RevokeAllBut(0)
    /\ Reply(s)
    /\ UNCHANGED <<account, resetLink, verifyLink, issued, hist>>

VerifyRead(s) ==
    /\ verifyLink = "good"
    /\ Begin(s, "verify", "clear", 0, 0, 0)
    /\ UNCHANGED rows

VerifyClear(s) ==
    /\ At(s, "verify", "clear")
    /\ account' = [account EXCEPT !.verified = TRUE]
    /\ verifyLink' = "none"
    /\ Go(s, "count")
    /\ UNCHANGED <<sessions, resetLink, issued, hist>>

(* The email_verified product event. *)
VerifyCount(s) ==
    /\ At(s, "verify", "count")
    /\ hist' = [hist EXCEPT !.verifications = @ + 1]
    /\ Reply(s)
    /\ UNCHANGED <<account, sessions, resetLink, verifyLink, issued>>

ResendableAlways == account.exists              \* mutant: no look at emailVerified
Resendable == account.exists /\ ~account.verified
ResendRead(s) ==
    /\ Resendable
    /\ Begin(s, "resend", "issue", 0, 0, 0)
    /\ UNCHANGED rows

(* The 30 minutes of a reset link and the 7 days of a verification link. *)
ExpireReset ==
    /\ resetLink = "good"
    /\ resetLink' = "expired"
    /\ UNCHANGED <<account, sessions, verifyLink, issued, req, hist>>

ExpireVerify ==
    /\ verifyLink = "good"
    /\ verifyLink' = "expired"
    /\ UNCHANGED <<account, sessions, resetLink, issued, req, hist>>

-----------------------------------------------------------------------------
(* changePassword by the holder of an access token of session k, dead or   *)
(* alive; k = 0 is a token that names none.  The check of the current      *)
(* password and the write of the new one are two steps.                    *)

ProvesNothing(p) == TRUE            \* mutant: the current password is not asked for
Proves(p) == account.password = 0 \/ account.password = p
ChangeRead(s, p, k) ==
    /\ account.exists
    /\ Proves(p)
    /\ Begin(s, "change", "write", k, 0, IF account.password = 0 THEN 0 ELSE p)
    /\ UNCHANGED rows

ChangeWrite(s) ==
    /\ At(s, "change", "write")
    /\ NewPassword
    /\ req' = [req EXCEPT ![s].pc = "revoke", ![s].pw = issued.password + 1]
    /\ UNCHANGED <<sessions, resetLink, verifyLink, hist>>

ChangeRevoke(s) ==
    /\ At(s, "change", "revoke")
    /\ RevokeAllBut(req[s].sid)
    /\ Go(s, "session")
    /\ UNCHANGED <<account, resetLink, verifyLink, issued, hist>>

ChangeSession(s) ==
    /\ At(s, "change", "session")
    /\ IF req[s].sid = 0 THEN StartSession(req[s].pw) ELSE RotateSession(req[s].sid)
    /\ Reply(s)
    /\ UNCHANGED <<account, resetLink, verifyLink, hist>>

(* A database call fails, or the server stops: what is written stays. *)
Fault(s) ==
    /\ Faults
    /\ req[s] # Idle
    /\ Reply(s)
    /\ UNCHANGED rows

-----------------------------------------------------------------------------
Init ==
    /\ account = [exists |-> FALSE, password |-> 0, verified |-> FALSE, linked |-> FALSE]
    /\ sessions = [k \in SessionIds |-> NoSession]
    /\ resetLink = "none" /\ verifyLink = "none"
    /\ issued = [session |-> 0, token |-> 0, password |-> 0]
    /\ req = [s \in Slots |-> Idle]
    /\ hist = [resetPw |-> 0, verifications |-> 0]

SignIn(s) ==
    \/ RegisterCreate(s) \/ IssueVerification(s) \/ SessionStart(s)
    \/ \E p \in Passwords : LoginRead(s, p)
    \/ OAuthRead(s) \/ OAuthFind(s) \/ OAuthLink(s) \/ OAuthCreate(s) \/ OAuthConfirm(s)

UseSession(s) ==
    \/ \E k \in SessionIds : RefreshRead(s, k) \/ SignOutRead(s, k)
    \/ RefreshRotate(s) \/ SignOutDelete(s)

UseLink(s) ==
    \/ ResetRead(s) \/ ResetClear(s) \/ ResetWrite(s) \/ ResetRevoke(s)
    \/ VerifyRead(s) \/ VerifyClear(s) \/ VerifyCount(s) \/ ResendRead(s)

Change(s) ==
    \/ \E p \in Passwords, k \in 0..issued.session : ChangeRead(s, p, k)
    \/ ChangeWrite(s) \/ ChangeRevoke(s) \/ ChangeSession(s)

Next ==
    \/ \E s \in Slots : SignIn(s) \/ UseSession(s) \/ UseLink(s) \/ Change(s) \/ Fault(s)
    \/ \E k \in SessionIds : RevokeOthers(k)
    \/ ForceLogout \/ RequestReset \/ ExpireReset \/ ExpireVerify

Spec == Init /\ [][Next]_vars

-----------------------------------------------------------------------------
(* A session that has ended never lives again: a refresh or a password     *)
(* change that found it before it was revoked must not bring it back.      *)
SessionsEndForGood ==
    [][\A k \in 1..issued.session : ~Live(k) => ~Live(k)']_vars

(* The sessions and refresh tokens keep the promise of SessionTokens: none *)
(* starts or is issued twice, a refresh gives a living session a new token *)
(* and takes the old one's place ("the old token stops working at once").  *)
workingToken == [k \in SessionIds |-> sessions[k].token]

Promise == INSTANCE SessionTokens WITH
    Ids <- SessionIds, Tokens <- 1..MaxTokens, NoToken <- 0,
    begun <- 1..issued.session, given <- 1..issued.token, working <- workingToken

ImplementsTokens == Promise!Spec

(* After a reset no session lives that was signed in with an earlier       *)
(* password: "every session ends" (resetPassword).                         *)
ResetEndsSessions ==
    (\A s \in Slots : ~At(s, "reset", "revoke")) =>
        \A k \in SessionIds : Live(k) => sessions[k].pw >= hist.resetPw

(* A password change leaves one session at most: the one it was asked from *)
(* or, for a token that names none, the one it starts (changePassword).    *)
OnlyItsSessionLeft ==
    [][\A s \in Slots : ChangeSession(s) =>
          \A j, k \in SessionIds : Live(j)' /\ Live(k)' => j = k]_vars

(* An account's address is verified by link, and counted, once (verifyEmail). *)
VerifiedOnce == hist.verifications <= 1

(* With a password on file, the one a change replaces is the one the       *)
(* caller proved (changePassword).                                         *)
ChangeProvesCurrent ==
    [][\A s \in Slots : ChangeWrite(s) => account.password = req[s].pw]_vars

-----------------------------------------------------------------------------
(* Why these hold of one request at a time.  Passwords are set in order,   *)
(* and a request about to start, keep or replace something on the strength *)
(* of a password holds the present one; before there is an account there   *)
(* is nothing to reset, verify or prove; a verified address has no good    *)
(* link and nobody about to issue one.                                     *)
PasswordsInOrder == hist.resetPw <= account.password /\ account.password <= issued.password

HoldsTheCurrent ==
    \A s \in Slots : req[s].op \in {"register", "login", "oauth", "change"} =>
        req[s].pw = account.password

NothingBeforeAccount ==
    ~account.exists =>
        /\ account.password = 0 /\ hist.resetPw = 0 /\ hist.verifications = 0
        /\ resetLink = "none" /\ verifyLink = "none"
        /\ \A s \in Slots : req[s].op \in {"idle", "oauth", "refresh", "signOut"}

CountedOnVerified ==
    /\ VerifiedOnce
    /\ hist.verifications = 1 \/ (\E s \in Slots : At(s, "verify", "count")) =>
         account.verified /\ verifyLink # "good"
    /\ hist.verifications = 1 => \A s \in Slots :
         req[s].op \notin {"resend", "verify"} /\ ~At(s, "register", "issue")

ChangeLeavesOne ==
    \A s \in Slots : At(s, "change", "session") => \A k \in SessionIds : Live(k) => k = req[s].sid

SerialInv ==
    /\ TypeOK /\ PasswordsInOrder /\ HoldsTheCurrent /\ NothingBeforeAccount
    /\ CountedOnVerified /\ ChangeLeavesOne /\ ResetEndsSessions
=============================================================================
