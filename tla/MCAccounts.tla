----------------------------- MODULE MCAccounts -----------------------------
(***************************************************************************)
(* An instance of Accounts for TLC.                                        *)
(***************************************************************************)
EXTENDS Accounts, TLC

\* The pages of a browser are alike, and no property of the run is temporal.
Symmetry == Permutations(Pages)
=============================================================================
