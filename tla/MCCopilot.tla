------------------------------- MODULE MCCopilot -------------------------------
(***************************************************************************)
(* A small instance of Copilot: two turns, one call of a tool.             *)
(***************************************************************************)
EXTENDS Copilot
===============================================================================
