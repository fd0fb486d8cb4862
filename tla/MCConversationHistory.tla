------------------------ MODULE MCConversationHistory ------------------------
(* Small instances of ConversationHistory for TLC. *)
EXTENDS ConversationHistory

CONSTANTS w1, w2, acme, umbrella
=============================================================================
