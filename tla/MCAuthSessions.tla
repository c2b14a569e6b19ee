--------------------------- MODULE MCAuthSessions ---------------------------
(***************************************************************************)
(* AuthSessions for model checking with several requests in flight: the    *)
(* slots they run in are alike.                                            *)
(***************************************************************************)
EXTENDS AuthSessions, TLC

Symmetry == Permutations(Slots)
=============================================================================
