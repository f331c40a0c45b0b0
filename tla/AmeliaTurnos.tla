---------------------------- MODULE AmeliaTurnos ----------------------------
(***************************************************************************)
(* The licence turns of amelia.service.ts and amelia-turno.service.ts:     *)
(* webhooks of the booking system create and update them, officials change *)
(* their state, and the citizen is told by WhatsApp, again by hand when it *)
(* failed.                                                                 *)
(*                                                                         *)
(* Requests run concurrently, each await is the end of a step.  A request  *)
(* keeps the entity it read; save writes every column of that copy, also   *)
(* those that another request changed since.                               *)
(***************************************************************************)
EXTENDS Integers, Sequences, SequencesExt, FiniteSets

CONSTANTS
  Bookings,      \* ameliaBookingId
  ValidPhone,    \* the bookings whose telefono passes isTelefonoValido
  Hooks, Edits, Retries,  \* the requests: webhook, PATCH estado, reintentar
  BookingOf,     \* of each webhook and edit
  StatusOf,      \* of each webhook: appointment.status, in lower case
  EstadoOf,      \* of each edit: dto.estado
  MaxIntentos,   \* dto.maxIntentos || 3
  MaxFaults,     \* bound: failed inserts, updates, queries and messages
  MaxCrashes     \* bound: ends of the process

Requests == Hooks \cup Edits \cup Retries
Estados  == {"PENDIENTE", "CONFIRMADO", "CANCELADO", "COMPLETADO", "NO_ASISTIO"}

\* mapearEstadoAmelia
MapearEstado(status) ==
  CASE status = "approved"                -> "CONFIRMADO"
    [] status \in {"canceled", "rejected"} -> "CANCELADO"
    [] status = "completed"               -> "COMPLETADO"
    [] status = "no-show"                 -> "NO_ASISTIO"
    [] OTHER                              -> "PENDIENTE"
Wanted(q) == IF q \in Hooks THEN MapearEstado(StatusOf[q]) ELSE EstadoOf[q]

ASSUME AmeliaAssumption ==
  /\ ValidPhone \subseteq Bookings
  /\ Hooks \cap Edits = {} /\ Hooks \cap Retries = {} /\ Edits \cap Retries = {}
  /\ \A q \in Hooks \cup Edits : BookingOf[q] \in Bookings
  /\ \A e \in Edits : EstadoOf[e] \in Estados
  /\ IsFiniteSet(Retries)
  /\ MaxIntentos \in Nat \ {0} /\ MaxFaults \in Nat /\ MaxCrashes \in Nat

VARIABLES
  rows,     \* amelia_turnos: the bookings that have a turn, and their columns
  pc,       \* the step each request waits for
  copies,   \* per request: the entities it holds, by booking
  todo,     \* per request: the bookings it has to deal with
  before,   \* estadoAnterior of each request ("" when there is none)
  told,     \* confirmations that WhatsApp took, by booking
  apologies,\* cancellations that WhatsApp took, by booking
  version,  \* ghost: saves of each row
  stale,    \* ghost: bookings one of whose saves wrote a copy read before another save
  wanted,   \* ghost: the estado of the last webhook or edit that was saved ("" if none)
  turned,   \* ghost: saves of webhooks that changed a turn to CANCELADO
  faults, crashes

ghosts == <<version, stale, wanted, turned>>
vars == <<rows, pc, copies, todo, before, told, apologies, ghosts, faults, crashes>>

Final   == {"new", "ok", "404", "500", "cut"}
Steps   == Final \cup {"insert", "update", "created", "changed", "confirm",
                       "mark", "error", "cancel", "set", "edited"}

Booking(r) == Head(todo[r])
Goto(r, s) == pc' = [pc EXCEPT ![r] = s]
Hold(r, b, row) == copies' = [copies EXCEPT ![r] = [x \in DOMAIN @ \cup {b} |->
                                                     IF x = b THEN row ELSE @[x]]]
Copy(r) == copies[r][Booking(r)]
Quiet(b) == \A r \in Requests : pc[r] \in Final \/ b \notin Range(todo[r])

\* save: every column of the copy r holds of its booking.
Save(r) ==
  LET b == Booking(r) IN
  /\ rows' = [x \in DOMAIN rows \cup {b} |-> IF x = b THEN Copy(r) ELSE rows[x]]
  /\ version' = [version EXCEPT ![b] = @ + 1]
  /\ stale' = IF Copy(r).at = version[b] THEN stale ELSE stale \cup {b}
  /\ Hold(r, b, [Copy(r) EXCEPT !.at = version[b] + 1])

Fault == faults < MaxFaults /\ faults' = faults + 1

\* The request is over for its booking; a retry goes on with the next turn, after 2 seconds.
Leave(r) ==
  IF r \in Retries /\ Len(todo[r]) > 1
    THEN Goto(r, "confirm") /\ todo' = [todo EXCEPT ![r] = Tail(@)]
    ELSE Goto(r, "ok") /\ UNCHANGED todo

----------------------------------------------------------------------------
(* The webhook: upsertFromWebhook, procesarWebhook *)

NewTurno(h) == [estado |-> Wanted(h), enviada |-> FALSE, error |-> FALSE,
                intentos |-> 0, at |-> 0]

\* The turn of the booking is looked for; what was found is changed in memory.
Find(h) ==
  /\ h \in Hooks /\ pc[h] = "new"
  /\ todo' = [todo EXCEPT ![h] = <<BookingOf[h]>>]
  /\ LET b == BookingOf[h] IN
     IF b \in DOMAIN rows
       THEN /\ Goto(h, "update")
            /\ before' = [before EXCEPT ![h] = rows[b].estado]
            /\ Hold(h, b, [rows[b] EXCEPT !.estado = Wanted(h), !.at = version[b]])
       ELSE Goto(h, "insert") /\ Hold(h, b, NewTurno(h)) /\ UNCHANGED before
  /\ UNCHANGED <<rows, told, apologies, ghosts, faults, crashes>>

\* The index on the booking is unique: the loser of a race ends with an error.
Insert(h) ==
  /\ pc[h] = "insert"
  /\ IF Booking(h) \in DOMAIN rows
       THEN Goto(h, "500") /\ UNCHANGED <<rows, copies, version, stale, wanted>>
       ELSE /\ Goto(h, "created") /\ Save(h)
            /\ wanted' = [wanted EXCEPT ![Booking(h)] = Wanted(h)]
  /\ UNCHANGED <<todo, before, told, apologies, turned, faults, crashes>>

Update(h) ==
  /\ pc[h] = "update"
  /\ Save(h)
  /\ Goto(h, IF before[h] = Wanted(h) THEN "ok" ELSE "changed")
  /\ wanted' = [wanted EXCEPT ![Booking(h)] = Wanted(h)]
  /\ LET b == Booking(h) IN
     turned' = [turned EXCEPT ![b] = IF Wanted(h) = "CANCELADO" /\ rows[b].estado # "CANCELADO"
                                       THEN @ + 1 ELSE @]
  /\ UNCHANGED <<todo, before, told, apologies, faults, crashes>>

\* Plausible bug: only a confirmed turn is announced, the others never.
LogCreatedConfirmedOnly(h) ==
  /\ pc[h] = "created"
  /\ IF Wanted(h) = "CONFIRMADO" THEN Goto(h, "confirm") ELSE Goto(h, "ok")
  /\ UNCHANGED <<rows, copies, todo, before, told, apologies, ghosts, faults, crashes>>
\* TURNO_CREADO; the confirmation is sent whatever the estado of the new turn.
LogCreated(h) ==
  /\ pc[h] = "created" /\ Goto(h, "confirm")
  /\ UNCHANGED <<rows, copies, todo, before, told, apologies, ghosts, faults, crashes>>

\* ESTADO_CAMBIADO.
LogChanged(h) ==
  /\ pc[h] = "changed"
  /\ Goto(h, IF Wanted(h) = "CANCELADO" THEN "cancel" ELSE "ok")
  /\ UNCHANGED <<rows, copies, todo, before, told, apologies, ghosts, faults, crashes>>

\* enviarNotificacionCancelacion: nothing is recorded, errors are swallowed.
Cancel(h) ==
  /\ pc[h] = "cancel" /\ Goto(h, "ok")
  /\ \/ /\ apologies' = [apologies EXCEPT ![Booking(h)] = IF Booking(h) \in ValidPhone THEN @ + 1 ELSE @]
        /\ UNCHANGED faults
     \/ Booking(h) \in ValidPhone /\ Fault /\ UNCHANGED apologies
  /\ UNCHANGED <<rows, copies, todo, before, told, ghosts, crashes>>

----------------------------------------------------------------------------
(* enviarNotificacionConfirmacion *)

Marked(row) == [row EXCEPT !.enviada = TRUE, !.intentos = @ + 1]
Failed(row) == [row EXCEPT !.error = TRUE, !.intentos = @ + 1]

\* Plausible bug: the turn is marked before the message leaves, and stays so.
ConfirmMarkedFirst(r) ==
  /\ pc[r] = "confirm"
  /\ Hold(r, Booking(r), Marked(Copy(r))) /\ Goto(r, "mark")
  /\ \/ told' = [told EXCEPT ![Booking(r)] = @ + 1] /\ UNCHANGED faults
     \/ Fault /\ UNCHANGED told
  /\ UNCHANGED <<rows, todo, before, apologies, ghosts, crashes>>
\* The message is taken, or refused, or taken although the answer is an error.
Confirm(r) ==
  /\ pc[r] = "confirm"
  /\ \/ /\ Booking(r) \notin ValidPhone
        /\ Hold(r, Booking(r), Failed(Copy(r))) /\ Goto(r, "error") /\ UNCHANGED <<told, faults>>
     \/ /\ Booking(r) \in ValidPhone
        /\ told' = [told EXCEPT ![Booking(r)] = @ + 1]
        /\ Hold(r, Booking(r), Marked(Copy(r))) /\ Goto(r, "mark") /\ UNCHANGED faults
     \/ /\ Booking(r) \in ValidPhone /\ Fault
        /\ \E taken \in {0, 1} : told' = [told EXCEPT ![Booking(r)] = @ + taken]
        /\ Hold(r, Booking(r), Failed(Copy(r))) /\ Goto(r, "error")
  /\ UNCHANGED <<rows, todo, before, apologies, ghosts, crashes>>

\* marcarNotificacionEnviada; when its save fails the catch counts the attempt again, on a
\* copy that already says enviada.
Mark(r) ==
  /\ pc[r] = "mark"
  /\ \/ Save(r) /\ Leave(r) /\ UNCHANGED <<wanted, turned, faults>>
     \/ /\ Fault /\ Hold(r, Booking(r), Failed(Copy(r))) /\ Goto(r, "error")
        /\ UNCHANGED <<rows, todo, ghosts>>
  /\ UNCHANGED <<before, told, apologies, crashes>>

\* registrarErrorNotificacion; its failure ends the request (see Fail).
RecordError(r) ==
  /\ pc[r] = "error" /\ Save(r) /\ Leave(r)
  /\ UNCHANGED <<before, told, apologies, wanted, turned, faults, crashes>>

----------------------------------------------------------------------------
(* actualizarEstado and reintentarNotificacionesFallidas *)

Read(e) ==
  /\ e \in Edits /\ pc[e] = "new"
  /\ LET b == BookingOf[e] IN
     IF b \in DOMAIN rows
       THEN /\ Goto(e, "set") /\ todo' = [todo EXCEPT ![e] = <<b>>]
            /\ Hold(e, b, [rows[b] EXCEPT !.estado = Wanted(e), !.at = version[b]])
       ELSE Goto(e, "404") /\ UNCHANGED <<todo, copies>>
  /\ UNCHANGED <<rows, before, told, apologies, ghosts, faults, crashes>>

Set(e) ==
  /\ pc[e] = "set" /\ Save(e) /\ Goto(e, "edited")
  /\ wanted' = [wanted EXCEPT ![Booking(e)] = Wanted(e)]
  /\ UNCHANGED <<todo, before, told, apologies, turned, faults, crashes>>

\* ESTADO_ACTUALIZADO.
LogEdited(e) ==
  /\ pc[e] = "edited" /\ Goto(e, "ok")
  /\ UNCHANGED <<rows, copies, todo, before, told, apologies, ghosts, faults, crashes>>

SinNotificar ==
  {b \in DOMAIN rows : /\ ~rows[b].enviada /\ rows[b].intentos < MaxIntentos
                       /\ rows[b].estado # "CANCELADO"}

\* All the turns are read at once, in any order, and sent one by one.
List(r) ==
  /\ r \in Retries /\ pc[r] = "new"
  /\ copies' = [copies EXCEPT ![r] = [b \in SinNotificar |-> [rows[b] EXCEPT !.at = version[b]]]]
  /\ todo' \in {[todo EXCEPT ![r] = s] : s \in SetToSeqs(SinNotificar)}
  /\ Goto(r, IF SinNotificar = {} THEN "ok" ELSE "confirm")
  /\ UNCHANGED <<rows, before, told, apologies, ghosts, faults, crashes>>

----------------------------------------------------------------------------
(* Failures *)

\* A query, an insert or an update fails where nothing catches it: the request ends.
Fail(r) ==
  /\ pc[r] \in {"new", "insert", "update", "created", "changed", "error", "set", "edited"}
  /\ Fault /\ Goto(r, "500")
  /\ UNCHANGED <<rows, copies, todo, before, told, apologies, ghosts, crashes>>

\* The process ends: its requests with it.
Crash ==
  /\ crashes < MaxCrashes /\ crashes' = crashes + 1
  /\ pc' = [r \in Requests |-> IF pc[r] \in Final THEN pc[r] ELSE "cut"]
  /\ UNCHANGED <<rows, copies, todo, before, told, apologies, ghosts, faults>>

----------------------------------------------------------------------------
Init ==
  /\ rows = << >>
  /\ pc = [r \in Requests |-> "new"] /\ copies = [r \in Requests |-> << >>]
  /\ todo = [r \in Requests |-> << >>] /\ before = [r \in Requests |-> ""]
  /\ told = [b \in Bookings |-> 0] /\ apologies = [b \in Bookings |-> 0]
  /\ version = [b \in Bookings |-> 0] /\ stale = {}
  /\ wanted = [b \in Bookings |-> ""] /\ turned = [b \in Bookings |-> 0]
  /\ faults = 0 /\ crashes = 0

ProcesarWebhook(h) == \/ Find(h) \/ Insert(h) \/ Update(h) \/ LogCreated(h)
                      \/ LogChanged(h) \/ Cancel(h)
Confirmacion(r)     == Confirm(r) \/ Mark(r) \/ RecordError(r)
ActualizarEstado(e) == Read(e) \/ Set(e) \/ LogEdited(e)

Serve(r) == ProcesarWebhook(r) \/ Confirmacion(r) \/ ActualizarEstado(r) \/ List(r)
Next == \/ \E r \in Requests : Serve(r) \/ Fail(r)
        \/ Crash
Spec == Init /\ [][Next]_vars

\* The POST of a message has no time limit: that it ends is up to WhatsApp.
AwaitsWhatsApp(r) == pc[r] \in {"confirm", "cancel"} /\ Booking(r) \in ValidPhone

\* A request that was taken goes on, the event loop serves every answer that arrives; of a
\* message that WhatsApp has to answer nothing is assumed.
Fairness == \A r \in Requests : WF_vars(pc[r] # "new" /\ ~AwaitsWhatsApp(r) /\ Serve(r))
FairSpec == Spec /\ Fairness

----------------------------------------------------------------------------
(* Properties *)

RowType == [estado : Estados, enviada : BOOLEAN, error : BOOLEAN, intentos : Nat, at : Nat]

\* Types; a request past its first step has the copy it works on.
TypeOK ==
  /\ DOMAIN rows \subseteq Bookings /\ \A b \in DOMAIN rows : rows[b] \in RowType
  /\ pc \in [Requests -> Steps]
  /\ \A r \in Requests :
       /\ DOMAIN copies[r] \subseteq Bookings
       /\ \A b \in DOMAIN copies[r] : copies[r][b] \in RowType
       /\ todo[r] \in Seq(Bookings) /\ Range(todo[r]) \subseteq DOMAIN copies[r]
  /\ before \in [Requests -> Estados \cup {""}] /\ wanted \in [Bookings -> Estados \cup {""}]
  /\ told \in [Bookings -> Nat] /\ apologies \in [Bookings -> Nat]
  /\ version \in [Bookings -> Nat] /\ stale \subseteq Bookings /\ turned \in [Bookings -> Nat]
  /\ faults \in Nat /\ crashes \in Nat

\* A turn says notificacionEnviada only when WhatsApp took a confirmation of it, whichever
\* requests overlap and whatever fails between the message and the save.
EnviadaWasTold == \A b \in DOMAIN rows : rows[b].enviada => told[b] > 0

\* Only a failure, a restart or a save of a stale copy lets a citizen get two confirmations,
\* or leaves the columns of the turn at odds with the messages: otherwise, once no request
\* works on a booking, one message left at most, and enviada and intentos say which.
MessagesAreRecorded ==
  \A b \in DOMAIN rows \cap ValidPhone :
    Quiet(b) /\ faults = 0 /\ crashes = 0 /\ b \notin stale =>
      /\ told[b] <= 1
      /\ rows[b].intentos = told[b] /\ (rows[b].enviada <=> told[b] = 1)

\* The estado of a turn is the one of the webhook or edit saved last, unless a request saved
\* a copy it read before: nothing else writes estado, the confirmations included.
EstadoIsLastWanted == \A b \in DOMAIN rows : b \notin stale => rows[b].estado = wanted[b]

\* A citizen is told of a cancellation once per change of the turn to CANCELADO: a webhook
\* repeated by the booking system tells nothing, unless it overtook the first one.
ApologiesAreForChanges == \A b \in Bookings : b \notin stale => apologies[b] <= turned[b]

\* However many retries run, a booking gets one confirmation from the webhook that created it
\* and one from each retry: never a stream of messages.
ConfirmationBudget == \A b \in Bookings : told[b] <= 1 + Cardinality(Retries)

\* A turn and the messages about it agree while webhooks, edits and retries overlap, WhatsApp
\* fails and the process stops: the estado is the last one asked for, no message leaves
\* without its change, none is taken for sent that was not, and there is no stream of them
\* (amelia.service.ts and amelia-turno.service.ts, which save whole entities).
TurnosAreTold ==
  /\ TypeOK
  /\ EstadoIsLastWanted /\ EnviadaWasTold /\ MessagesAreRecorded
  /\ ApologiesAreForChanges /\ ConfirmationBudget

\* A turn with a usable phone is marked as told in the end, without any retry, if nothing
\* fails and no stale copy is saved, unless WhatsApp never answers the message about it.
EventuallyTold ==
  \A b \in ValidPhone :
    b \in DOMAIN rows ~> \/ b \in DOMAIN rows /\ rows[b].enviada
                         \/ faults > 0 \/ crashes > 0 \/ b \in stale
                         \/ [](\E r \in Requests : pc[r] = "confirm" /\ Booking(r) = b)

=============================================================================
