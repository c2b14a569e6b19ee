----------------------------- MODULE AlertRaise -----------------------------
(***************************************************************************)
(* The daily alert run over one vehicle and the members' inboxes           *)
(* (notifications/maintenance-alert.service.ts, notify.service.ts,         *)
(* notifications.service.ts).  The run takes its checks in a fixed order   *)
(* and tells the recipients of each in turn; every await is a step, and    *)
(* members read and delete notifications between any two of them.          *)
(*                                                                         *)
(* Alerts are numbered in the order the run checks them.  What makes one   *)
(* due (mileage, dates, tread) is the environment's and changes between    *)
(* any two steps; what the run loaded at its start it judges as it was     *)
(* then.  The API is one container and a run takes less than a day, so     *)
(* there is one run at a time.  Days are not counted; what                 *)
(* the cooldown needs is the days since the last raise, capped once they   *)
(* no longer matter.  Delivery to channels never fails a run and keeps no  *)
(* state, so it is left out.                                               *)
(* Bounds: MaxFaults crashes or missed mornings.                           *)
(***************************************************************************)
EXTENDS Integers

CONSTANTS Members,      \* numbered in the order the query returns them
          StableOrder,  \* whether that order is the same every day
          Viewers,
          NAlerts,      \* how many alerts the engine can raise for the vehicle
          EditorOnly,   \* those of EDITOR_ONLY_KINDS
          Prompts,      \* the cold-start questions among them, under a cooldown
          Loaded,       \* those judged from what is read with the vehicle
          Buckets,      \* the parts of a dedup key that move with the odometer
          Cooldown,     \* PROMPT_COOLDOWN_DAYS
          MaxFaults

Alerts == 1..NAlerts

ASSUME AlertConstants ==
    /\ Members \subseteq Nat /\ Viewers \subseteq Members /\ StableOrder \in BOOLEAN
    /\ NAlerts \in Nat /\ EditorOnly \subseteq Alerts /\ Prompts \subseteq EditorOnly
    /\ Loaded \subseteq Alerts
    /\ Cooldown \in Nat /\ MaxFaults \in Nat

VARIABLES
    due,        \* alert -> whether its condition holds of the vehicle
    unread,     \* unread Notification rows: <<member, alert, bucket>>
    raises,     \* <<member, prompt>> -> days since the latest AlertRaise
    ran,        \* whether today's run has started, or been missed
    run,        \* the run: the check it is at, what it has yet to raise
    faults

vars == <<due, unread, raises, ran, run, faults>>

Keys == Members \X Alerts \X Buckets
NoKey == <<>>
Never == Cooldown + 1           \* days since the last raise: long enough ago

TypeOK ==
    /\ due \in [Alerts -> BOOLEAN]
    /\ unread \subseteq Keys
    /\ \A k \in unread : k[2] \in EditorOnly => k[1] \notin Viewers
    /\ raises \in [Members \X Prompts -> 0..Never]
    /\ ran \in BOOLEAN
    /\ run \in [pc : {"idle", "check", "raise", "create", "lookup"}, at : 1..NAlerts + 1,
               seen : SUBSET Loaded, left : SUBSET Keys, key : Keys \union {NoKey}]
    /\ run.pc \in {"create", "lookup"} => run.key \in Keys
    /\ faults \in 0..MaxFaults

-----------------------------------------------------------------------------
RecipientsWithViewers(a) == Members         \* mutant: viewers are asked too
Recipients(a) == IF a \in EditorOnly THEN Members \ Viewers ELSE Members

(* raisedWithinCooldown: whatever the bucket, and whatever has become of   *)
(* the row.  Runs do not start on the second, so the raise of exactly      *)
(* Cooldown mornings ago may or may not be inside the window.              *)
RememberedUnread(k) ==                      \* mutant: asks the inbox, as it used to
    IF \E b \in Buckets : <<k[1], k[2], b>> \in unread THEN raises[k[1], k[2]] ELSE Never
Remembered(k) == raises[k[1], k[2]]
MayPass(k) == k[2] \in Prompts => Remembered(k) >= Cooldown
MayWait(k) == k[2] \in Prompts /\ Remembered(k) <= Cooldown

ToldOne(left) ==                            \* mutant: returns instead of going on
    run' = [run EXCEPT !.pc = "check", !.at = @ + 1, !.left = {}, !.key = NoKey]
(* On to the rest of the recipients, or to the next check. *)
Told(left) ==
    run' = IF left = {}
           THEN [run EXCEPT !.pc = "check", !.at = @ + 1, !.left = {}, !.key = NoKey]
           ELSE [run EXCEPT !.pc = "raise", !.left = left, !.key = NoKey]
IdleRun == [pc |-> "idle", at |-> 1, seen |-> {}, left |-> {}, key |-> NoKey]

StartRun ==
    /\ ~ran /\ run.pc = "idle"
    /\ ran' = TRUE
    /\ run' = [IdleRun EXCEPT !.pc = "check", !.seen = {a \in Loaded : due[a]}]
    /\ UNCHANGED <<due, unread, raises, faults>>

(* One payload, and so one bucket, for every recipient of the alert. *)
Payload(a, b) == {<<u, a, b>> : u \in Recipients(a)}
Verdict(a) == IF a \in Loaded THEN a \in run.seen ELSE due[a]

Check ==
    /\ run.pc = "check"
    /\ IF run.at > NAlerts THEN run' = IdleRun
       ELSE IF Verdict(run.at) /\ Recipients(run.at) # {}
       THEN \E b \in Buckets :
                run' = [run EXCEPT !.pc = "raise", !.left = Payload(run.at, b)]
       ELSE run' = [run EXCEPT !.at = @ + 1]
    /\ UNCHANGED <<due, unread, raises, ran, faults>>

(* raise, up to the write: the dedup key, and the cooldown if there is one. *)
Raise(k) ==
    /\ run.pc = "raise" /\ k \in run.left
    /\ StableOrder => \A l \in run.left : k[1] <= l[1]
    /\ \/ /\ MayPass(k)
          /\ run' = [run EXCEPT !.pc = "create", !.left = @ \ {k}, !.key = k]
       \/ /\ MayWait(k)
          /\ Told(run.left \ {k})
    /\ UNCHANGED <<due, unread, raises, ran, faults>>

(* The insert of the row, with its AlertRaise under a cooldown, in one     *)
(* transaction; the partial unique index refuses a second unread row.      *)
Create ==
    /\ run.pc = "create" /\ run.key \notin unread
    /\ unread' = unread \union {run.key}
    /\ raises' = IF run.key[2] \in Prompts
                 THEN [raises EXCEPT ![<<run.key[1], run.key[2]>>] = 0]
                 ELSE raises
    /\ Told(run.left)
    /\ UNCHANGED <<due, ran, faults>>

Collide ==
    /\ run.pc = "create" /\ run.key \in unread
    /\ run' = [run EXCEPT !.pc = "lookup"]
    /\ UNCHANGED <<due, unread, raises, ran, faults>>

(* After a collision the unread row is looked up.  A member who read it    *)
(* meanwhile leaves nothing to return: the error is thrown on, and the     *)
(* vehicle's checks end for today.                                         *)
FoundNone(k) == FALSE                       \* mutant: every collision is thrown on
Found(k) == k \in unread
Lookup ==
    /\ run.pc = "lookup"
    /\ IF Found(run.key) THEN Told(run.left) ELSE run' = IdleRun
    /\ UNCHANGED <<due, unread, raises, ran, faults>>

-----------------------------------------------------------------------------
(* A member reads, opens or deletes one notification, or reads them all;   *)
(* completing a reminder or renewing a paper reads its own.                *)
Read(k) ==
    /\ k \in unread
    /\ unread' = unread \ {k}
    /\ UNCHANGED <<due, raises, ran, run, faults>>

ReadAll(u) ==
    /\ unread' = {k \in unread : k[1] # u}
    /\ unread' # unread
    /\ UNCHANGED <<due, raises, ran, run, faults>>

(* The vehicle is driven, serviced, inspected; days pass. *)
Change(a) ==
    /\ due' = [due EXCEPT ![a] = ~@]
    /\ UNCHANGED <<unread, raises, ran, run, faults>>

NextMorning ==
    /\ ran /\ run.pc = "idle"
    /\ ran' = FALSE
    /\ raises' = [r \in DOMAIN raises |->
                     IF raises[r] = Never THEN Never ELSE raises[r] + 1]
    /\ UNCHANGED <<due, unread, run, faults>>

(* The container stops, or the database fails a call: the run is over, or  *)
(* the morning is missed.  Nothing resumes it.                             *)
Fault ==
    /\ faults < MaxFaults
    /\ ~ran \/ run.pc # "idle"
    /\ faults' = faults + 1
    /\ ran' = TRUE
    /\ run' = IdleRun
    /\ UNCHANGED <<due, unread, raises>>

-----------------------------------------------------------------------------
Init ==
    /\ due \in [Alerts -> BOOLEAN]
    /\ unread = {}
    /\ raises = [r \in Members \X Prompts |-> Never]
    /\ ran = FALSE
    /\ run = IdleRun
    /\ faults = 0

RunStep ==
    \/ StartRun \/ Check \/ Create \/ Collide \/ Lookup
    \/ \E k \in Keys : Raise(k)

Next ==
    \/ RunStep \/ NextMorning \/ Fault
    \/ \E k \in Keys : Read(k)
    \/ \E u \in Members : ReadAll(u)
    \/ \E a \in Alerts : Change(a)

Spec == Init /\ [][Next]_vars

(* Cron starts a run every morning and every awaited call returns. *)
FairSpec == Spec /\ WF_vars(RunStep) /\ WF_vars(NextMorning)

-----------------------------------------------------------------------------
(* "The same prompt for the same vehicle is not asked twice in 90 days,    *)
(* whether it was read, ignored or deleted", whatever bucket the odometer  *)
(* has moved into (raisePrompt).                                           *)
NotAskedTwice ==
    [][\A u \in Members, p \in Prompts :
          (\E b \in Buckets : <<u, p, b>> \notin unread /\ <<u, p, b>> \in unread')
              => raises[u, p] >= Cooldown]_vars

(* Whom the run has yet to tell of the alert it is at.                     *)
Yet == run.left \union IF run.pc \in {"create", "lookup"} THEN {run.key} ELSE {}

(* Nobody drops off that list but by having the notification unread, or    *)
(* the prompt within its cooldown; unless the run is lost, or ends because *)
(* a row it collided with was read before it could be looked up            *)
(* (raiseToMembers; raise rethrows what is not a dedup hit).               *)
NobodySkipped ==
    [][\A k \in Yet : k \notin Yet' =>
          \/ k \in unread' \/ MayWait(k)
          \/ faults' # faults
          \/ run.pc = "lookup" /\ run.key \notin unread]_vars

(* An alert that stays due reaches everyone it is for, although a collision*)
(* with a row that is read at that moment ends the day's checks for every  *)
(* alert and every member after it (raise rethrows, runDailyChecks): no    *)
(* pattern of reading can keep it from them for ever.                      *)
EveryoneHears ==
    \A a \in Alerts : \A u \in Recipients(a) :
        due[a] ~> (~due[a] \/ \E b \in Buckets : <<u, a, b>> \in unread)
=============================================================================
