-------------------------- MODULE MCLangGraphClient --------------------------
(***************************************************************************)
(* LangGraphClient for TLC; its constants are given in Client.cfg.         *)
(***************************************************************************)
EXTENDS LangGraphClient

=============================================================================
