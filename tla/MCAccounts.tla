----------------------------- MODULE MCAccounts -----------------------------
(***************************************************************************)
(* Accounts for TLC: users are interchangeable, and so are sessions.  What *)
(* the run checks are invariants and a refinement by single steps, for     *)
(* which symmetry is sound.                                                *)
(***************************************************************************)
EXTENDS Accounts, TLC

Symmetry == Permutations(Users) \union Permutations(Sessions)
=============================================================================
