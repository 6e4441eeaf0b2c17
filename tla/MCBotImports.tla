---------------------------- MODULE MCBotImports -----------------------------
(* Model values for checking BotImports. *)
EXTENDS BotImports, TLC
==============================================================================
