--------------------------- MODULE MCChatBubbles ----------------------------
(***************************************************************************)
(* The chat screen on a small instance: one message, one request.          *)
(***************************************************************************)
EXTENDS ChatBubbles

=============================================================================
