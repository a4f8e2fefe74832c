----------------------- MODULE MCConversationManager -----------------------
(* ConversationManager for TLC.                                            *)
EXTENDS ConversationManager, TLC

Symmetry == Permutations(Clients) \cup Permutations(Requests) \cup Permutations(Sids)
=============================================================================
