------------------------------ MODULE MCChatPage ------------------------------
(***************************************************************************)
(* Instances of ChatPage for TLC.                                          *)
(***************************************************************************)
EXTENDS ChatPage, TLC

Symmetry == Permutations(Pages) \cup Permutations(Ids) \cup Permutations(Questions)
===============================================================================
