---------------------------- MODULE MCChatClient ----------------------------
(***************************************************************************)
(* Values of ChatClient's constants for TLC.                               *)
(***************************************************************************)
EXTENDS ChatClient

CONSTANT j1

OneJob == <<j1>>
=============================================================================
