---------------------------- MODULE MCAssistant ----------------------------
(***************************************************************************)
(* Small instances of AssistantActions: one proposal, up to three          *)
(* decisions, quantities on both sides of the limits (0: none entered).    *)
(***************************************************************************)
EXTENDS AssistantActions
=============================================================================
