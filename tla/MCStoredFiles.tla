---------------------------- MODULE MCStoredFiles ----------------------------
(***************************************************************************)
(* Instances of StoredFiles: who uploads what.                             *)
(***************************************************************************)
EXTENDS StoredFiles, TLC

File(k, u, n) == [kind |-> k, by |-> u, no |-> n]
ClientSymmetry == Permutations(Clients)

(* A batch of two on a paper, and a claim that falls with it. *)
SomeFiles == {File("insurance", g, n) : g \in Guests, n \in {1, 2}} \union {File("claim", Owner, 1)}

(* A receipt and a claim's file, all the owner's. *)
FewFiles == {File("record", Owner, 1), File("claim", Owner, 1)}
=============================================================================
