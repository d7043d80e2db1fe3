----------------------------- MODULE MCChatSend -----------------------------
(***************************************************************************)
(* A small instance of ChatSend: three messages for an outbox of two.      *)
(* MCChatLife checks what must happen.                                     *)
(***************************************************************************)
EXTENDS ChatSend, TLC

Symmetry == Permutations(Message) \cup Permutations(Request)

=============================================================================
