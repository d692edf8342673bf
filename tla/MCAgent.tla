------------------------------- MODULE MCAgent -------------------------------
(* One tool; what else an instance needs is a number of the configuration. *)
EXTENDS AgentRun
CONSTANT tool
MCCalls == {tool}
=============================================================================
