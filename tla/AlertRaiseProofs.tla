------------------------- MODULE AlertRaiseProofs -------------------------
(***************************************************************************)
(* For any number of members, alerts and buckets, any cooldown and any     *)
(* pattern of reading and failing: the types of AlertRaise, and that no    *)
(* prompt is asked twice within the cooldown.  The second is not visible   *)
(* in the write itself: Create does not look at the cooldown, so the       *)
(* invariant carries the answer of Raise across the awaits in between.     *)
(***************************************************************************)
EXTENDS AlertRaise, TLAPS

(* The run and its row under way: whom it may still tell, and that the row *)
(* it is about to write has passed the audience and the cooldown.          *)
Theirs(k) == k[2] \in EditorOnly => k[1] \notin Viewers

RunOK ==
    /\ run.pc \in {"raise", "create", "lookup"} => run.at \in Alerts
    /\ \A k \in run.left : Theirs(k)
    /\ run.pc \in {"create", "lookup"} =>
           /\ Theirs(run.key)
           /\ run.key[2] \in Prompts => raises[run.key[1], run.key[2]] >= Cooldown

IInv == TypeOK /\ RunOK

RunType == [pc : {"idle", "check", "raise", "create", "lookup"}, at : 1..NAlerts + 1,
            seen : SUBSET Loaded, left : SUBSET Keys, key : Keys \union {NoKey}]

LEMMA IdleType == IdleRun \in RunType
BY AlertConstants DEF IdleRun, RunType

LEMMA InitInv == Init => IInv
<1> SUFFICES ASSUME Init PROVE IInv
  OBVIOUS
<1>1. run \in RunType /\ run.pc = "idle" /\ run.left = {}
  BY IdleType DEF Init, IdleRun
<1>2. raises \in [Members \X Prompts -> 0..Never]
  BY AlertConstants DEF Init, Never
<1>3. faults \in 0..MaxFaults
  BY AlertConstants DEF Init
<1>4. RunOK
  BY <1>1 DEF RunOK
<1>5. /\ unread = {} /\ ran = FALSE
      /\ due \in [Alerts -> BOOLEAN]
  BY DEF Init
<1> QED
  BY <1>1, <1>2, <1>3, <1>4, <1>5 DEF IInv, TypeOK, RunType

(* Moving on after a member: the run stays well typed, and has no row.     *)
LEMMA ToldOK ==
    ASSUME IInv, run.at \in Alerts, NEW left \in SUBSET run.left, Told(left)
    PROVE  /\ run' \in RunType
           /\ run'.pc \in {"check", "raise"} /\ run'.at \in 1..NAlerts + 1
           /\ run'.pc = "raise" => run'.at \in Alerts
           /\ run'.left \subseteq run.left
<1>1. run.at + 1 \in 1..NAlerts + 1 /\ run.at \in 1..NAlerts + 1
  BY AlertConstants DEF Alerts
<1>2. run \in RunType /\ left \subseteq Keys
  BY DEF IInv, TypeOK, RunType
<1>3. run' \in {[run EXCEPT !.pc = "check", !.at = @ + 1, !.left = {}, !.key = NoKey],
               [run EXCEPT !.pc = "raise", !.left = left, !.key = NoKey]}
  BY DEF Told
<1> QED
  BY <1>1, <1>2, <1>3 DEF RunType

LEMMA NextInv == IInv /\ [Next]_vars => IInv'
<1> SUFFICES ASSUME IInv, [Next]_vars
             PROVE  IInv'
  OBVIOUS
<1> USE DEF IInv
<1>0. run \in RunType
  BY DEF TypeOK, RunType
<1>1. CASE StartRun
  <2>1. run' \in RunType /\ run'.pc = "check" /\ run'.left = {}
    BY <1>1, IdleType DEF StartRun, RunType, IdleRun
  <2> QED
    BY <1>1, <2>1 DEF StartRun, TypeOK, RunOK, RunType
<1>2. CASE Check
  <2>1. CASE run.at > NAlerts
    <3>1. run' = IdleRun
      BY <1>2, <2>1 DEF Check
    <3>2. run' \in RunType /\ run'.pc = "idle" /\ run'.left = {}
      BY <3>1, IdleType DEF IdleRun
    <3> QED
      BY <1>2, <3>2 DEF Check, TypeOK, RunOK, RunType
  <2>2. CASE ~(run.at > NAlerts)
    <3>1. run.at \in Alerts /\ run.at + 1 \in 1..NAlerts + 1
      BY <1>0, <2>2, AlertConstants DEF RunType, Alerts
    <3>2. ASSUME NEW b \in Buckets
          PROVE  Payload(run.at, b) \subseteq Keys /\ \A k \in Payload(run.at, b) : Theirs(k)
      BY <3>1 DEF Payload, Keys, Recipients, Theirs
    <3>3. CASE \E b \in Buckets : run' = [run EXCEPT !.pc = "raise", !.left = Payload(run.at, b)]
      <4>1. PICK b \in Buckets : run' = [run EXCEPT !.pc = "raise", !.left = Payload(run.at, b)]
        BY <3>3
      <4>2. run' \in RunType /\ run'.pc = "raise" /\ run'.at = run.at
            /\ run'.left = Payload(run.at, b)
        BY <1>0, <3>2, <4>1 DEF RunType
      <4>3. RunOK'
        BY <3>1, <3>2, <4>2 DEF RunOK, Theirs
      <4> QED
        BY <1>2, <4>2, <4>3 DEF Check, TypeOK, RunType
    <3>4. CASE run' = [run EXCEPT !.at = @ + 1]
      <4>1. run' \in RunType /\ run'.pc = "check" /\ run'.left = run.left
        BY <1>0, <1>2, <3>1, <3>4 DEF RunType, Check
      <4> QED
        BY <1>2, <4>1 DEF Check, TypeOK, RunOK, RunType, Theirs
    <3> QED
      BY <1>2, <2>2, <3>3, <3>4 DEF Check
  <2> QED
    BY <2>1, <2>2
<1>3. ASSUME NEW k \in Keys, Raise(k) PROVE IInv'
  <2>1. /\ run.pc = "raise" /\ k \in run.left /\ run.at \in Alerts
        /\ Theirs(k) /\ run.left \ {k} \subseteq run.left
        /\ UNCHANGED <<due, unread, raises, ran, faults>>
    BY <1>3 DEF Raise, RunOK
  <2>2. CASE MayPass(k) /\ run' = [run EXCEPT !.pc = "create", !.left = @ \ {k}, !.key = k]
    <3>1. run' \in RunType /\ run'.key = k /\ run'.pc = "create" /\ run'.at = run.at
          /\ run'.left \subseteq run.left
      BY <1>0, <2>2 DEF RunType
    <3>2. k[2] \in Prompts => raises[k[1], k[2]] >= Cooldown
      BY <2>2 DEF MayPass, Remembered
    <3>3. RunOK'
      BY <2>1, <3>1, <3>2 DEF RunOK, Theirs
    <3> QED
      BY <2>1, <3>1, <3>3 DEF TypeOK, RunType
  <2>3. CASE Told(run.left \ {k})
    <3>1. /\ run' \in RunType
          /\ run'.pc \in {"check", "raise"}
          /\ run'.pc = "raise" => run'.at \in Alerts
          /\ run'.left \subseteq run.left
      BY <2>1, <2>3, ToldOK
    <3> QED
      BY <2>1, <3>1 DEF TypeOK, RunOK, RunType, Theirs
  <2> QED
    BY <1>3, <2>2, <2>3 DEF Raise
<1>4. CASE Create
  <2>1. run.at \in Alerts /\ run.key \in Keys /\ Theirs(run.key)
    BY <1>4 DEF Create, RunOK, TypeOK
  <2>2. /\ run' \in RunType
        /\ run'.pc \in {"check", "raise"}
        /\ run'.pc = "raise" => run'.at \in Alerts
        /\ run'.left \subseteq run.left
    BY <1>4, <2>1, ToldOK DEF Create
  <2>3. raises' \in [Members \X Prompts -> 0..Never]
    <3>1. 0 \in 0..Never /\ raises \in [Members \X Prompts -> 0..Never]
      BY AlertConstants DEF TypeOK, Never
    <3>2. raises' \in {raises, [raises EXCEPT ![<<run.key[1], run.key[2]>>] = 0]}
      BY <1>4 DEF Create
    <3> QED
      BY <3>1, <3>2
  <2>4. /\ unread' \subseteq Keys
        /\ \A k \in unread' : k[2] \in EditorOnly => k[1] \notin Viewers
    BY <1>4, <2>1 DEF Create, TypeOK, Theirs
  <2> QED
    BY <1>4, <2>2, <2>3, <2>4 DEF Create, TypeOK, RunOK, RunType, Theirs
<1>5. CASE Collide
  BY <1>0, <1>5 DEF Collide, TypeOK, RunOK, RunType, Theirs
<1>6. CASE Lookup
  <2>1. run.at \in Alerts
    BY <1>6 DEF Lookup, RunOK
  <2>2. CASE Told(run.left)
    <3>1. /\ run' \in RunType
          /\ run'.pc \in {"check", "raise"}
          /\ run'.pc = "raise" => run'.at \in Alerts
          /\ run'.left \subseteq run.left
      BY <2>1, <2>2, ToldOK
    <3> QED
      BY <1>6, <3>1 DEF Lookup, TypeOK, RunOK, RunType, Theirs
  <2>3. CASE run' = IdleRun
    BY <1>6, <2>3, IdleType DEF Lookup, TypeOK, RunOK, RunType, IdleRun, Theirs
  <2> QED
    BY <1>6, <2>2, <2>3 DEF Lookup
<1>7. ASSUME NEW k \in Keys, Read(k) PROVE IInv'
  BY <1>7 DEF Read, TypeOK, RunOK, Theirs
<1>8. ASSUME NEW u \in Members, ReadAll(u) PROVE IInv'
  BY <1>8 DEF ReadAll, TypeOK, RunOK, Theirs
<1>9. ASSUME NEW a \in Alerts, Change(a) PROVE IInv'
  BY <1>9 DEF Change, TypeOK, RunOK, Theirs
<1>10. CASE NextMorning
  <2>1. raises' \in [Members \X Prompts -> 0..Never]
    <3>1. raises \in [Members \X Prompts -> 0..Never]
      BY DEF TypeOK
    <3>2. raises' = [r \in Members \X Prompts |->
                       IF raises[r] = Never THEN Never ELSE raises[r] + 1]
      BY <1>10, <3>1 DEF NextMorning
    <3>3. ASSUME NEW r \in Members \X Prompts
          PROVE  (IF raises[r] = Never THEN Never ELSE raises[r] + 1) \in 0..Never
      BY <3>1, AlertConstants DEF Never
    <3> QED
      BY <3>2, <3>3
  <2> QED
    BY <1>10, <2>1 DEF NextMorning, TypeOK, RunOK, Theirs
<1>11. CASE Fault
  <2>1. faults' \in 0..MaxFaults
    BY <1>11, AlertConstants DEF Fault, TypeOK
  <2> QED
    BY <1>11, <2>1, IdleType DEF Fault, TypeOK, RunOK, RunType, IdleRun, Theirs
<1>12. CASE UNCHANGED vars
  BY <1>12 DEF vars, TypeOK, RunOK, Theirs
<1> QED
  BY <1>1, <1>2, <1>3, <1>4, <1>5, <1>6, <1>7, <1>8, <1>9, <1>10, <1>11, <1>12 DEF Next, RunStep

(* Types, and that no viewer ever holds a notification meant for editors   *)
(* (EDITOR_ONLY_KINDS).                                                    *)
THEOREM TypeCorrect == Spec => []TypeOK
<1>1. IInv => TypeOK
  BY DEF IInv
<1> QED
  BY <1>1, InitInv, NextInv, PTL DEF Spec

(* A new row of a prompt is written by Create alone, at a key that Raise   *)
(* found past its cooldown.                                                *)
LEMMA AskedLate ==
    ASSUME IInv, [Next]_vars, NEW u \in Members, NEW p \in Prompts, NEW b \in Buckets,
           <<u, p, b>> \notin unread, <<u, p, b>> \in unread'
    PROVE  raises[u, p] >= Cooldown
<1>1. unread' \subseteq unread \/ Create
  BY DEF Next, RunStep, StartRun, Check, Raise, Collide, Lookup, NextMorning, Fault, Read,
     ReadAll, Change, vars
<1>2. Create /\ run.key = <<u, p, b>>
  BY <1>1 DEF Create
<1>3. run.key[1] = u /\ run.key[2] = p
  BY <1>2
<1> QED
  BY <1>2, <1>3 DEF IInv, RunOK, Create

(* "The same prompt for the same vehicle is not asked twice in 90 days,    *)
(* whether it was read, ignored or deleted" (raisePrompt).                 *)
THEOREM PromptsKeepTheirDistance == Spec => NotAskedTwice
<1>1. IInv /\ [Next]_vars =>
        [\A u \in Members, p \in Prompts :
          (\E b \in Buckets : <<u, p, b>> \notin unread /\ <<u, p, b>> \in unread')
              => raises[u, p] >= Cooldown]_vars
  BY AskedLate
<1> QED
  BY <1>1, InitInv, NextInv, PTL DEF Spec, NotAskedTwice

-----------------------------------------------------------------------------
(* Between two alerts the run owes nobody anything. *)
NoneLeft == run.pc \in {"idle", "check"} => run.left = {}

LEMMA ToldLeft ==
    ASSUME IInv, NEW left \in SUBSET run.left, Told(left)
    PROVE  Yet' = left /\ run'.left = left /\ run'.pc \in {"check", "raise"}
                       /\ (run'.pc = "check" => left = {})
<1>1. run \in RunType
  BY DEF IInv, TypeOK, RunType
<1>2. CASE left = {}
  <2>1. run' = [run EXCEPT !.pc = "check", !.at = @ + 1, !.left = {}, !.key = NoKey]
    BY <1>2 DEF Told
  <2>2. run'.left = {} /\ run'.pc = "check"
    BY <1>1, <2>1 DEF RunType
  <2> QED
    BY <1>2, <2>2 DEF Yet
<1>3. CASE left # {}
  <2>1. run' = [run EXCEPT !.pc = "raise", !.left = left, !.key = NoKey]
    BY <1>3 DEF Told
  <2>2. run'.left = left /\ run'.pc = "raise"
    BY <1>1, <2>1 DEF RunType
  <2> QED
    BY <2>2 DEF Yet
<1> QED
  BY <1>2, <1>3

LEMMA RunLeaves ==
    ASSUME IInv, NoneLeft, [Next]_vars
    PROVE  /\ NoneLeft'
           /\ \A k \in Yet : k \notin Yet' =>
                \/ k \in unread' \/ MayWait(k)
                \/ faults' # faults
                \/ run.pc = "lookup" /\ run.key \notin unread
<1> DEFINE Passed == \A k \in Yet : k \notin Yet' =>
                \/ k \in unread' \/ MayWait(k)
                \/ faults' # faults
                \/ run.pc = "lookup" /\ run.key \notin unread
<1>0. run \in RunType /\ IdleRun.pc = "idle" /\ IdleRun.left = {} /\ faults \in Nat
  BY AlertConstants DEF IInv, TypeOK, RunType, IdleRun
<1>1. CASE StartRun
  <2>1. run.left = {} /\ run'.pc = "check" /\ run'.left = {} /\ Yet = {}
    BY <1>1 DEF StartRun, IdleRun, NoneLeft, Yet
  <2> QED
    BY <2>1 DEF NoneLeft
<1>2. CASE Check
  <2>1. Yet = {} /\ run.left = {}
    BY <1>2 DEF Check, NoneLeft, Yet
  <2>2. NoneLeft'
    BY <1>0, <1>2, <2>1 DEF Check, NoneLeft, RunType
  <2> QED
    BY <2>1, <2>2
<1>3. ASSUME NEW k \in Keys, Raise(k) PROVE NoneLeft' /\ Passed
  <2>1. run.pc = "raise" /\ k \in run.left /\ Yet = run.left
    BY <1>3 DEF Raise, Yet
  <2>2. CASE run' = [run EXCEPT !.pc = "create", !.left = @ \ {k}, !.key = k]
    <3>1. run'.pc = "create" /\ run'.left = run.left \ {k} /\ run'.key = k
      BY <1>0, <2>2 DEF RunType
    <3> QED
      BY <2>1, <3>1 DEF Yet, NoneLeft
  <2>3. CASE MayWait(k) /\ Told(run.left \ {k})
    <3>1. Yet' = run.left \ {k} /\ NoneLeft'
      BY <2>3, ToldLeft DEF NoneLeft
    <3> QED
      BY <2>1, <2>3, <3>1
  <2> QED
    BY <1>3, <2>2, <2>3 DEF Raise
<1>4. ASSUME run.pc \in {"create", "lookup"}, Told(run.left), run.key \in unread' PROVE NoneLeft' /\ Passed
  <2>1. Yet' = run.left /\ NoneLeft'
    BY <1>4, ToldLeft DEF NoneLeft
  <2> QED
    BY <1>4, <2>1 DEF Yet
<1>5. CASE Create
  BY <1>4, <1>5 DEF Create
<1>6. CASE Collide
  <2>1. run'.pc = "lookup" /\ run'.left = run.left /\ run'.key = run.key
    BY <1>0, <1>6 DEF Collide, RunType
  <2> QED
    BY <1>6, <2>1 DEF Collide, Yet, NoneLeft
<1>7. CASE Lookup
  <2>1. CASE Found(run.key)
    BY <1>4, <1>7, <2>1 DEF Lookup, Found
  <2>2. CASE ~Found(run.key)
    BY <1>0, <1>7, <2>2 DEF Lookup, Found, NoneLeft
  <2> QED
    BY <2>1, <2>2
<1>8. CASE Fault
  BY <1>0, <1>8 DEF Fault, NoneLeft
<1>9. CASE run' = run
  BY <1>9 DEF NoneLeft, Yet
<1> QED
  BY <1>1, <1>2, <1>3, <1>5, <1>6, <1>7, <1>8, <1>9
     DEF Next, RunStep, NextMorning, Read, ReadAll, Change, vars

(* Every recipient of an alert is told, or has an unread notification of   *)
(* it, or is spared by the cooldown; but for a run that is lost, or one    *)
(* that met a row just being read (raiseToMembers, raise).                 *)
THEOREM NobodyDropsOff == Spec => NobodySkipped
<1>1. Init => NoneLeft
  BY DEF Init, IdleRun, NoneLeft
<1>2. IInv /\ NoneLeft /\ [Next]_vars => NoneLeft'
  BY RunLeaves
<1>3. IInv /\ NoneLeft /\ [Next]_vars =>
        [\A k \in Yet : k \notin Yet' =>
          \/ k \in unread' \/ MayWait(k)
          \/ faults' # faults
          \/ run.pc = "lookup" /\ run.key \notin unread]_vars
  BY RunLeaves
<1> QED
  BY <1>1, <1>2, <1>3, InitInv, NextInv, PTL DEF Spec, NobodySkipped
=============================================================================
