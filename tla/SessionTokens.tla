---------------------------- MODULE SessionTokens ----------------------------
(***************************************************************************)
(* What the API promises of one account's sessions, with no requests,      *)
(* rows or passwords: a session has one refresh token that works; a        *)
(* refresh puts a new one in its place, so that "the old token stops       *)
(* working at once" (rotateSession); no token is issued twice; a session   *)
(* that is signed out is gone, alone or together with others.              *)
(***************************************************************************)
CONSTANTS Ids, Tokens, NoToken

VARIABLES
    begun,      \* the sessions there have been
    given,      \* the refresh tokens issued
    working     \* session -> the refresh token that works, or NoToken

Init ==
    /\ begun = {}
    /\ given = {}
    /\ working = [k \in Ids |-> NoToken]

Issue(k, t) ==
    /\ t \notin given
    /\ given' = given \union {t}
    /\ working' = [working EXCEPT ![k] = t]

Start(k, t) ==
    /\ k \notin begun
    /\ begun' = begun \union {k}
    /\ Issue(k, t)

Refresh(k, t) ==
    /\ working[k] # NoToken
    /\ Issue(k, t)
    /\ UNCHANGED begun

End(gone) ==
    /\ working' = [k \in Ids |-> IF k \in gone THEN NoToken ELSE working[k]]
    /\ UNCHANGED <<begun, given>>

Next ==
    \/ \E k \in Ids, t \in Tokens : Start(k, t) \/ Refresh(k, t)
    \/ \E gone \in SUBSET Ids : End(gone)

Spec == Init /\ [][Next]_<<begun, given, working>>
=============================================================================
