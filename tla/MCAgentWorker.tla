--------------------------- MODULE MCAgentWorker ---------------------------
(***************************************************************************)
(* AgentWorker on small instances: the command ids are numbers, as the     *)
(* order of the CommandId column matters.                                  *)
(***************************************************************************)
EXTENDS AgentWorker
=============================================================================
