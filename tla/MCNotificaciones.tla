-------------------------- MODULE MCNotificaciones --------------------------
(***************************************************************************)
(* An instance of Notificaciones alone, for what its document says of it:  *)
(* one contact who wants every reminder and has given a section, one day.  *)
(***************************************************************************)
EXTENDS Notificaciones

MCContactOf == [p1 |-> "u1", s1 |-> "u1"]
MCDtoOf == [p1 |-> [humedo |-> TRUE, seco |-> TRUE, patio |-> TRUE]]
MCSeccionOf == [s1 |-> 1]
=============================================================================
