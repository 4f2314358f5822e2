---------------------------- MODULE MCConversation ----------------------------
(* The instance of Conversation that TLC explores. *)
EXTENDS Conversation

Symmetry == Permutations(Clients) \cup Permutations(Calls)
=============================================================================
