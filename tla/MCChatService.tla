---------------------------- MODULE MCChatService ----------------------------
(* Instances of ChatService for TLC. *)
EXTENDS ChatService, TLC

Symmetry == Permutations(Requests) \cup Permutations(Keys) \cup Permutations(Users)
=============================================================================
