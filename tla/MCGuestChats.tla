---------------------------- MODULE MCGuestChats ----------------------------
(***************************************************************************)
(* An instance of GuestChats for TLC.                                      *)
(***************************************************************************)
EXTENDS GuestChats, TLC

\* No action tells one tab, user or chat from another.
Symmetry == Permutations(Tabs) \cup Permutations(Users) \cup Permutations(Chats)
=============================================================================
