----------------------------- MODULE MCRenewals -----------------------------
(***************************************************************************)
(* The clients are interchangeable, and the date of a completed reminder   *)
(* decides nothing any more: states that differ in it alone are one.       *)
(***************************************************************************)
EXTENDS Renewals, TLC

CONSTANTS c1, c2

ClientSymmetry == Permutations(Clients)

Dateless(row) ==
    IF row \in {Unborn, Gone} \/ ~row.done THEN row ELSE [row EXCEPT !.date = NoDate]

(* The first paper ends on day 1 or 4, the second on day 1 or never: an    *)
(* edit of either can change which is the paper of record.                 *)
EndsTried ==
    /\ 1 \in Live => papers[1].end # Never
    /\ 2 \in Live => papers[2].end # 4

View == <<papers, [r \in Reminders |-> Dateless(reminders[r])], req, owed>>

=============================================================================
