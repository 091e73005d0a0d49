---------------------------- MODULE MCChatPage ----------------------------
(* An instance of ChatPage for TLC; the values are in page.cfg. *)
EXTENDS ChatPage
=============================================================================
