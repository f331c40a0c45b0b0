------------------------------ MODULE Reclamos ------------------------------
(***************************************************************************)
(* The complaints of reclamos.service.ts: the bot creates them, officials  *)
(* change them, the history records what changed and the citizen is told   *)
(* by WhatsApp.  Requests run concurrently; each await is the end of a     *)
(* step.  A request saves every column of the entity it read.              *)
(***************************************************************************)
EXTENDS Integers, Sequences

CONSTANTS
  Creations,   \* requests POST reclamos/bot; each makes the complaint with its name
  Edits,       \* requests PATCH reclamos/:id
  TargetOf,    \* per edit: the complaint
  DtoOf,       \* per request: the fields it gives, with their values
  Silent,      \* edits with notificar = false
  Reachable,   \* complaints whose telefono has a digit
  MaxFaults    \* bound: failed queries, inserts, updates, geocodings and messages

Requests == Creations \cup Edits
Fields   == {"estado", "prioridad", "cuadrilla", "ubicacion"}
Default  == "default"  \* what a creation leaves a column at when the dto has no value

ReclamosAssumption ==
  /\ Creations \cap Edits = {} /\ \A e \in Edits : TargetOf[e] \in Creations
  /\ \A q \in Requests : DOMAIN DtoOf[q] \subseteq Fields
  /\ \A c \in Creations : DOMAIN DtoOf[c] \subseteq {"prioridad", "ubicacion"}
  /\ Silent \subseteq Edits /\ Reachable \subseteq Creations /\ MaxFaults \in Nat

VARIABLES
  rows,       \* reclamos: the columns of each complaint, by complaint
  historial,  \* reclamo_historial: of each complaint, its rows in the order of insertion
  pc,         \* the step each request waits for
  entity,     \* per request: the entity it works on
  previous,   \* prevEstado, prevPrioridad and prevCuadrilla, with the ubicacion that was read
  told,       \* the messages that left, in order: complaint and estado
  stored,     \* ghost: every value a save wrote, by complaint and field
  overlapped, \* ghost: complaints with two requests at work at the same time
  faults

ghosts == <<stored, overlapped>>
vars == <<rows, historial, pc, entity, previous, told, stored, overlapped, faults>>

Final == {"new", "ok", "null", "500"}
Steps == Final \cup {"geocode", "save", "creation", "logCreation", "estado", "log", "notify",
                     "prioridad", "cuadrilla"}

Target(q) == IF q \in Creations THEN q ELSE TargetOf[q]
Goto(q, s) == pc' = [pc EXCEPT ![q] = s]
Fault == faults < MaxFaults /\ faults' = faults + 1
AtWork(q) == pc[q] \notin Final
Quiet(c)  == \A q \in Requests : Target(q) = c => ~AtWork(q)

\* Ghost: q begins while another request works on its complaint.
Begin(q) ==
  overlapped' = IF \E p \in Requests \ {q} : Target(p) = Target(q) /\ AtWork(p)
                  THEN overlapped \cup {Target(q)} ELSE overlapped

Given(q, f) == f \in DOMAIN DtoOf[q]
Changed(q, f) == Given(q, f) /\ DtoOf[q][f] # previous[q][f]

----------------------------------------------------------------------------
(* crearDesdeBot *)

\* The geocoder is asked first; its failure leaves 0, 0.
Create(c) ==
  /\ c \in Creations /\ pc[c] = "new"
  /\ Goto(c, "save") /\ Begin(c)
  /\ \E found \in BOOLEAN :
       /\ found \/ Fault
       /\ found => UNCHANGED faults
       /\ LET value(f) == IF Given(c, f) THEN DtoOf[c][f] ELSE Default IN
          entity' = [entity EXCEPT ![c] =
            [estado |-> "PENDIENTE", prioridad |-> value("prioridad"), cuadrilla |-> Default,
             ubicacion |-> value("ubicacion"),
             coords |-> IF found THEN value("ubicacion") ELSE "none"]]
  /\ UNCHANGED <<rows, historial, previous, told, stored>>

\* registrarCreacion and logCreacion, whose failure is caught.
RegistrarCreacion(c) ==
  /\ pc[c] = "creation" /\ Goto(c, "logCreation")
  /\ historial' = [historial EXCEPT ![c] = Append(@, <<"estado", "", "PENDIENTE">>)]
  /\ UNCHANGED <<rows, entity, previous, told, ghosts, faults>>

LogCreacion(c) ==
  /\ pc[c] = "logCreation" /\ Goto(c, "ok")
  /\ UNCHANGED <<rows, historial, entity, previous, told, ghosts>>
  /\ Fault \/ UNCHANGED faults

----------------------------------------------------------------------------
(* actualizarAdmin *)

\* The complaint is read and changed in memory; a new ubicacion asks the geocoder.
Read(e) ==
  /\ e \in Edits /\ pc[e] = "new"
  /\ LET c == TargetOf[e] IN
     IF c \notin DOMAIN rows
       THEN Goto(e, "null") /\ UNCHANGED <<entity, previous, overlapped>>
       ELSE /\ Begin(e)
            /\ previous' = [previous EXCEPT ![e] = rows[c]]
            /\ entity' = [entity EXCEPT ![e] =
                            [f \in Fields \cup {"coords"} |->
                               IF f \in Fields /\ Given(e, f) THEN DtoOf[e][f] ELSE rows[c][f]]]
            /\ Goto(e, IF Given(e, "ubicacion") /\ DtoOf[e]["ubicacion"] # rows[c].ubicacion
                         THEN "geocode" ELSE "save")
  /\ UNCHANGED <<rows, historial, told, stored, faults>>

\* Its failure is caught: the complaint keeps the coordinates of the old place.
Geocode(e) ==
  /\ pc[e] = "geocode" /\ Goto(e, "save")
  /\ \/ entity' = [entity EXCEPT ![e].coords = entity[e].ubicacion] /\ UNCHANGED faults
     \/ Fault /\ UNCHANGED entity
  /\ UNCHANGED <<rows, historial, previous, told, ghosts>>

Save(q) ==
  /\ pc[q] = "save" /\ Goto(q, IF q \in Creations THEN "creation" ELSE "estado")
  /\ rows' = [c \in DOMAIN rows \cup {Target(q)} |-> IF c = Target(q) THEN entity[q] ELSE rows[c]]
  /\ stored' = [stored EXCEPT ![Target(q)] = @ \cup {<<f, entity[q][f]>> : f \in Fields}]
  /\ UNCHANGED <<historial, entity, previous, told, overlapped, faults>>

\* Plausible bug: the old value is read from the entity, after it was changed.
RegistrarAfterChange(e, f) ==
  historial' = [historial EXCEPT ![TargetOf[e]] = Append(@, <<f, entity[e][f], DtoOf[e][f]>>)]
Registrar(e, f) ==
  historial' = [historial EXCEPT ![TargetOf[e]] = Append(@, <<f, previous[e][f], DtoOf[e][f]>>)]

\* registrarCambioEstado, then logCambioEstado, whose failure is caught.
RegistrarEstado(e) ==
  /\ pc[e] = "estado"
  /\ IF Changed(e, "estado")
       THEN Registrar(e, "estado") /\ Goto(e, "log")
       ELSE Goto(e, "prioridad") /\ UNCHANGED historial
  /\ UNCHANGED <<rows, entity, previous, told, ghosts, faults>>

LogEstado(e) ==
  /\ pc[e] = "log" /\ Goto(e, IF e \in Silent THEN "prioridad" ELSE "notify")
  /\ UNCHANGED <<rows, historial, entity, previous, told, ghosts>>
  /\ Fault \/ UNCHANGED faults

\* notificarCambioEstado: no message without a telephone, and a failure is caught.
Notificar(e) ==
  /\ pc[e] = "notify" /\ Goto(e, "prioridad")
  /\ \/ /\ told' = IF TargetOf[e] \in Reachable
                     THEN Append(told, <<TargetOf[e], DtoOf[e]["estado"]>>) ELSE told
        /\ UNCHANGED faults
     \/ TargetOf[e] \in Reachable /\ Fault /\ UNCHANGED told
  /\ UNCHANGED <<rows, historial, entity, previous, ghosts>>

\* registrarCambioPrioridad and registrarCambioCuadrilla.
RegistrarOtro(e, f, next) ==
  /\ pc[e] = f /\ Goto(e, next)
  /\ IF Changed(e, f) THEN Registrar(e, f) ELSE UNCHANGED historial
  /\ UNCHANGED <<rows, entity, previous, told, ghosts, faults>>

\* Any other failure ends the request, the steps that are left undone.
Fail(q) ==
  /\ pc[q] \in {"save", "creation", "estado", "prioridad", "cuadrilla"} /\ Fault
  /\ Goto(q, "500")
  /\ UNCHANGED <<rows, historial, entity, previous, told, ghosts>>

----------------------------------------------------------------------------
Init ==
  /\ rows = << >> /\ historial = [c \in Creations |-> << >>]
  /\ pc = [q \in Requests |-> "new"]
  /\ entity = [q \in Requests |-> << >>] /\ previous = [q \in Requests |-> << >>]
  /\ told = << >> /\ stored = [c \in Creations |-> {}] /\ overlapped = {} /\ faults = 0

CrearDesdeBot(q)   == Create(q) \/ Save(q) \/ RegistrarCreacion(q) \/ LogCreacion(q)
ActualizarAdmin(q) == \/ Read(q) \/ Geocode(q) \/ RegistrarEstado(q) \/ LogEstado(q) \/ Notificar(q)
                      \/ RegistrarOtro(q, "prioridad", "cuadrilla")
                      \/ RegistrarOtro(q, "cuadrilla", "ok")
Next == \E q \in Requests : CrearDesdeBot(q) \/ ActualizarAdmin(q) \/ Fail(q)
Spec == Init /\ [][Next]_vars

----------------------------------------------------------------------------
(* Properties *)

Entries(c, f) == {i \in DOMAIN historial[c] : historial[c][i][1] = f}

\* Types; a request at work has an entity, an edit at work what it read.
TypeOK ==
  /\ DOMAIN rows \subseteq Creations
  /\ \A c \in DOMAIN rows : DOMAIN rows[c] = Fields \cup {"coords"}
  /\ pc \in [Requests -> Steps] /\ faults \in 0..MaxFaults
  /\ \A c \in Creations : \A i \in DOMAIN historial[c] : historial[c][i][1] \in Fields \ {"ubicacion"}
  /\ \A q \in Requests : AtWork(q) => DOMAIN entity[q] = Fields \cup {"coords"}
  /\ \A e \in Edits : AtWork(e) => DOMAIN previous[e] = Fields \cup {"coords"}
  /\ overlapped \subseteq Creations

\* When officials work one after the other and nothing fails, the history of a complaint
\* explains it: the last entry of estado, prioridad and cuadrilla has the value of the
\* column, and each entry starts where the one before it ended.
HistorialExplainsRow ==
  \A c \in DOMAIN rows \ overlapped : Quiet(c) /\ faults = 0 =>
    \A f \in {"estado", "prioridad", "cuadrilla"} :
      LET h == historial[c]
          of == Entries(c, f) IN
      /\ \A i \in of : (\A k \in of : k <= i) => h[i][3] = rows[c][f]
      /\ \A i, j \in of : i < j /\ (\A k \in of : k <= i \/ j <= k) => h[i][3] = h[j][2]
      /\ f = "estado" => of # {}

\* Neither the history nor the citizen is told of a value that was never in the row, whatever
\* fails and however the requests overlap.
NothingToldBeforeSaved ==
  /\ \A c \in Creations : \A i \in DOMAIN historial[c] :
       <<historial[c][i][1], historial[c][i][3]>> \in stored[c]
  /\ \A i \in DOMAIN told : <<"estado", told[i][2]>> \in stored[told[i][1]]

\* The citizen is told of changes only: between two messages of one complaint its estado
\* changed, unless requests overlapped or an entry of the history was lost.
NoMessageWithoutChange ==
  \A i, j \in DOMAIN told :
    i < j /\ faults = 0 /\ told[i] = told[j] /\ told[i][1] \notin overlapped =>
      \E k \in DOMAIN historial[told[i][1]] :
        LET h == historial[told[i][1]][k] IN h[1] = "estado" /\ h[2] = told[i][2] /\ h[3] # h[2]

\* The coordinates are those of the ubicacion, unless a geocoding failed: an edit that
\* overlaps another one takes back both or none.
CoordsFollowUbicacion ==
  \A c \in DOMAIN rows : faults = 0 => rows[c].coords = rows[c].ubicacion

=============================================================================
