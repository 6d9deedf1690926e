----------------------------- MODULE MCSession -----------------------------
(***************************************************************************)
(* Small instances of Session for TLC: two interchangeable accounts.       *)
(***************************************************************************)
EXTENDS Session, TLC

UserSymmetry == Permutations(Users)
=============================================================================
