---------------------------- MODULE MCDashboard ----------------------------
(***************************************************************************)
(* An instance of Dashboard alone, for what its document says of Redis:    *)
(* one reader of one summary, and a connection that breaks once.           *)
(***************************************************************************)
EXTENDS Dashboard

MCQueries == {[period |-> {1}, status |-> "ASIGNADO"]}
=============================================================================
