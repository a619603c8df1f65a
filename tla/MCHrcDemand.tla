----------------------------- MODULE MCHrcDemand -----------------------------
(* Model checking of HrcDemand: an entry task and its reader. *)
EXTENDS HrcDemand

CONSTANTS e, i

MCPipe == <<e, i>>
MCTasks == {e, i}
=============================================================================
