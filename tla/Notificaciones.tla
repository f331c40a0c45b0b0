--------------------------- MODULE Notificaciones ---------------------------
(***************************************************************************)
(* The reminders of waste collection of notificaciones.service.ts: the     *)
(* preferences of the contacts, the section of each for garden waste, and  *)
(* the daily sending, started by hand.  Requests run concurrently; each    *)
(* await is the end of a step.                                             *)
(***************************************************************************)
EXTENDS Integers, Sequences, SequencesExt, FiniteSets

CONSTANTS
  Contacts,    \* contacts of the data base
  WithPhone,   \* those with a telephone
  Updates,     \* requests POST preferencias
  Sections,    \* requests POST seccion
  Runs,        \* requests POST ejecutar-manual
  ContactOf,   \* of each update and section; it may be unknown
  DtoOf,       \* of each update: the flags it gives
  SeccionOf,   \* of each section request: a positive number
  FirstDow,    \* the weekday of the first of the month, 0 (Sunday) to 6
  FirstDay, LastDay,  \* bound: the days that pass
  MaxFaults,   \* bound: failed queries, inserts and messages
  MaxCrashes   \* bound: ends of the process

Tipos    == {"humedo", "seco", "patio"}
Requests == Updates \cup Sections \cup Runs

NotificacionesAssumption ==
  /\ WithPhone \subseteq Contacts
  /\ Runs \cap (Updates \cup Sections) = {}
  /\ \A q \in Updates : DOMAIN DtoOf[q] \subseteq Tipos /\ DtoOf[q] \in [DOMAIN DtoOf[q] -> BOOLEAN]
  /\ \A q \in Sections : SeccionOf[q] \in Nat \ {0}
  /\ FirstDow \in 0..6 /\ FirstDay \in Nat \ {0} /\ LastDay \in Nat /\ FirstDay <= LastDay
  /\ MaxFaults \in Nat /\ MaxCrashes \in Nat

VARIABLES
  day,      \* the day of the month
  prefs,    \* preferencias_usuario: rows, by id, of a contact and its flags
  seccion,  \* the seccion of the newest row of notificaciones of each contact (0: null, or no row)
  avisos,   \* notificaciones: the rows that say notificado: the contact of each and, ghost, of
            \* which message it is: a run and a position in sent
  pc,       \* the step each request waits for
  held,     \* per update: the id of the row it read (0: none) and the flags it will save
  read, at, \* per run: the rows of prefs it read, and the position it has come to
  sent,     \* per run: the messages tried, as pairs of contact and tipo, in order
  choice,   \* ghost: the flags each contact was last answered with
  start,    \* ghost: per run: the day, choice, seccion and the sections given, when it began
  mixed,    \* ghost: contacts two of whose updates were at work at once
  faults, crashes

ghosts == <<choice, start, mixed>>
vars == <<day, prefs, seccion, avisos, pc, held, read, at, sent, ghosts, faults, crashes>>

Final == {"new", "ok", "404", "500", "cut"}
Steps == Final \cup {"save", "insert", "humedo", "humedoRow", "seco", "secoRow",
                     "patio", "patioSend", "patioRow"}

Goto(q, s) == pc' = [pc EXCEPT ![q] = s]
Fault == faults < MaxFaults /\ faults' = faults + 1
RowsOf(u) == {i \in DOMAIN prefs : prefs[i].contact = u}

----------------------------------------------------------------------------
(* The calendar *)

Dow(d) == (FirstDow + d - 1) % 7

\* The Mondays of the month so far.
Semana(d) == Cardinality({e \in 1..d : Dow(e) = 1})

EsResiduo(d, tipo, s) ==
  CASE tipo = "humedo" -> Dow(d) \in {1, 3, 4, 6}
    [] tipo = "seco"   -> Dow(d) \in {2, 5}
    [] tipo = "patio"  -> Dow(d) \in {1, 5} /\ s # 0 /\ Semana(d) = s

----------------------------------------------------------------------------
(* Preferences and sections *)

\* actualizarPreferencias up to its save: any of the rows of the contact is found.
Find(q) ==
  /\ q \in Updates /\ pc[q] = "new"
  /\ LET u == ContactOf[q]
         flags(old) == [t \in Tipos |-> IF t \in DOMAIN DtoOf[q] THEN DtoOf[q][t] ELSE old[t]] IN
     \/ u \notin Contacts /\ Goto(q, "404") /\ UNCHANGED <<held, mixed>>
     \/ /\ u \in Contacts /\ Goto(q, "save")
        /\ \/ /\ RowsOf(u) = {}
              /\ held' = [held EXCEPT ![q] = [id |-> 0, flags |-> flags([t \in Tipos |-> FALSE])]]
           \/ \E i \in RowsOf(u) :
                held' = [held EXCEPT ![q] = [id |-> i, flags |-> flags(prefs[i].flags)]]
        /\ mixed' = IF \E p \in Updates : ContactOf[p] = u /\ pc[p] = "save"
                      THEN mixed \cup {u} ELSE mixed
  /\ UNCHANGED <<day, prefs, seccion, avisos, read, at, sent, choice, start, faults, crashes>>

\* Ghost: the flags that q gives are the choice of its contact.
Chosen(q) == choice' = [choice EXCEPT ![ContactOf[q]] =
                          [t \in Tipos |-> IF t \in DOMAIN DtoOf[q] THEN DtoOf[q][t] ELSE @[t]]]

\* Plausible bug: the update is saved as a new row.
SaveAsNew(q) ==
  /\ pc[q] = "save" /\ Goto(q, "ok")
  /\ prefs' = Append(prefs, [contact |-> ContactOf[q], flags |-> held[q].flags]) /\ Chosen(q)
  /\ UNCHANGED <<day, seccion, avisos, held, read, at, sent, start, mixed, faults, crashes>>
\* Nothing keeps a contact from having two rows.
Save(q) ==
  /\ pc[q] = "save" /\ Goto(q, "ok")
  /\ prefs' = IF held[q].id = 0 THEN Append(prefs, [contact |-> ContactOf[q], flags |-> held[q].flags])
              ELSE [prefs EXCEPT ![held[q].id].flags = held[q].flags]
  /\ Chosen(q)
  /\ UNCHANGED <<day, seccion, avisos, held, read, at, sent, start, mixed, faults, crashes>>

\* actualizarSeccion: a new row of notificaciones.
FindContact(q) ==
  /\ q \in Sections /\ pc[q] = "new"
  /\ Goto(q, IF ContactOf[q] \in Contacts THEN "insert" ELSE "404")
  /\ UNCHANGED <<day, prefs, seccion, avisos, held, read, at, sent, ghosts, faults, crashes>>
Insert(q) ==
  /\ pc[q] = "insert" /\ Goto(q, "ok")
  /\ seccion' = [seccion EXCEPT ![ContactOf[q]] = SeccionOf[q]]
  /\ UNCHANGED <<day, prefs, avisos, held, read, at, sent, choice, start, mixed, faults, crashes>>

----------------------------------------------------------------------------
(* procesarNotificacionesDiarias *)

\* Ghost: the requests for a section that are answered.
SectionsGiven == {q \in Sections : pc[q] = "ok"}

\* Nothing on Sundays; the rows are read at once.
Begin(r) ==
  /\ r \in Runs /\ pc[r] = "new"
  /\ LET rows == IF Dow(day) = 0 THEN << >> ELSE prefs IN
     read' = [read EXCEPT ![r] = rows] /\ Goto(r, IF rows = << >> THEN "ok" ELSE "humedo")
  /\ start' = [start EXCEPT ![r] = [day |-> day, choice |-> choice, seccion |-> seccion,
                                    given |-> SectionsGiven]]
  /\ UNCHANGED <<day, prefs, seccion, avisos, held, at, sent, choice, mixed, faults, crashes>>

User(r) == read[r][at[r]].contact
Wants(r, tipo) == read[r][at[r]].flags[tipo]

\* The next row, if there is one.
Advance(r) == /\ at' = [at EXCEPT ![r] = @ + 1]
              /\ Goto(r, IF at[r] = Len(read[r]) THEN "ok" ELSE "humedo")

\* enviarNotificacion: the message leaves, or its failure is caught and becomes an alert.
Send(r, tipo, next) ==
  /\ Goto(r, next) /\ sent' = [sent EXCEPT ![r] = Append(@, <<User(r), tipo>>)]
  /\ Fault \/ UNCHANGED faults

\* Rows without a telephone are passed over.
Skip(r) ==
  /\ pc[r] = "humedo" /\ User(r) \notin WithPhone /\ Advance(r)
  /\ UNCHANGED <<day, prefs, seccion, avisos, held, read, sent, ghosts, faults, crashes>>
Humedo(r) ==
  /\ pc[r] = "humedo" /\ User(r) \in WithPhone
  /\ IF Wants(r, "humedo") /\ EsResiduo(day, "humedo", 0)
       THEN Send(r, "humedo", "humedoRow") ELSE Goto(r, "seco") /\ UNCHANGED <<sent, faults>>
  /\ UNCHANGED <<day, prefs, seccion, avisos, held, read, at, ghosts, crashes>>

Seco(r) ==
  /\ pc[r] = "seco"
  /\ IF Wants(r, "seco") /\ EsResiduo(day, "seco", 0)
       THEN Send(r, "seco", "secoRow") ELSE Goto(r, "patio") /\ UNCHANGED <<sent, faults>>
  /\ UNCHANGED <<day, prefs, seccion, avisos, held, read, at, ghosts, crashes>>

\* obtenerSeccionDeUsuario: the newest row of the contact, whatever wrote it.
Patio(r) ==
  /\ pc[r] = "patio"
  /\ IF Wants(r, "patio") /\ EsResiduo(day, "patio", seccion[User(r)])
       THEN Goto(r, "patioSend") /\ UNCHANGED at ELSE Advance(r)
  /\ UNCHANGED <<day, prefs, seccion, avisos, held, read, sent, ghosts, faults, crashes>>
PatioSend(r) ==
  /\ pc[r] = "patioSend" /\ Send(r, "patio", "patioRow")
  /\ UNCHANGED <<day, prefs, seccion, avisos, held, read, at, ghosts, crashes>>

\* registrarNotificacion, also after a failed message: a row that says notificado and has no
\* seccion, so it is the newest row of the contact from now on.
Registrar(r) ==
  /\ pc[r] \in {"humedoRow", "secoRow", "patioRow"}
  /\ avisos' = Append(avisos, [contact |-> User(r), of |-> <<r, Len(sent[r])>>])
  /\ seccion' = [seccion EXCEPT ![User(r)] = 0]
  /\ CASE pc[r] = "humedoRow" -> Goto(r, "seco") /\ UNCHANGED at
       [] pc[r] = "secoRow"   -> Goto(r, "patio") /\ UNCHANGED at
       [] pc[r] = "patioRow"  -> Advance(r)
  /\ UNCHANGED <<day, prefs, held, read, sent, ghosts, faults, crashes>>

----------------------------------------------------------------------------
(* Failures and time *)

\* A query or an insert fails: the request ends, a run with all the contacts it has left.
Fail(q) ==
  /\ pc[q] \in {"new", "save", "insert", "humedoRow", "secoRow", "patio", "patioRow"}
  /\ Fault /\ Goto(q, "500")
  /\ UNCHANGED <<day, prefs, seccion, avisos, held, read, at, sent, ghosts, crashes>>

Crash ==
  /\ crashes < MaxCrashes /\ crashes' = crashes + 1
  /\ pc' = [q \in Requests |-> IF pc[q] \in Final THEN pc[q] ELSE "cut"]
  /\ UNCHANGED <<day, prefs, seccion, avisos, held, read, at, sent, ghosts, faults>>

\* A run is over well before midnight.
NextDay ==
  /\ day < LastDay /\ day' = day + 1
  /\ \A r \in Runs : pc[r] \in Final
  /\ UNCHANGED <<prefs, seccion, avisos, pc, held, read, at, sent, ghosts, faults, crashes>>

Init ==
  /\ day = FirstDay /\ prefs = << >>
  /\ seccion = [u \in Contacts |-> 0] /\ avisos = << >>
  /\ pc = [q \in Requests |-> "new"]
  /\ held = [q \in Updates |-> [id |-> 0, flags |-> [t \in Tipos |-> FALSE]]]
  /\ read = [r \in Runs |-> << >>] /\ at = [r \in Runs |-> 1] /\ sent = [r \in Runs |-> << >>]
  /\ mixed = {}
  /\ choice = [u \in Contacts |-> [t \in Tipos |-> FALSE]]
  /\ start = [r \in Runs |-> [day |-> FirstDay, choice |-> choice, seccion |-> seccion, given |-> {}]]
  /\ faults = 0 /\ crashes = 0

ActualizarPreferencias(q) == Find(q) \/ Save(q)
ActualizarSeccion(q)      == FindContact(q) \/ Insert(q)
ProcesarDiarias(r) ==
  Begin(r) \/ Skip(r) \/ Humedo(r) \/ Seco(r) \/ Patio(r) \/ PatioSend(r) \/ Registrar(r)
Serve(q) == ActualizarPreferencias(q) \/ ActualizarSeccion(q) \/ ProcesarDiarias(q) \/ Fail(q)
Next == (\E q \in Requests : Serve(q)) \/ Crash \/ NextDay
Spec == Init /\ [][Next]_vars

----------------------------------------------------------------------------
(* Properties *)

\* Types; an update writes a row of its contact, and messages go where there is a telephone.
TypeOK ==
  /\ day \in FirstDay..LastDay
  /\ \A i \in DOMAIN prefs : prefs[i].contact \in Contacts /\ prefs[i].flags \in [Tipos -> BOOLEAN]
  /\ seccion \in [Contacts -> Nat] /\ pc \in [Requests -> Steps]
  /\ \A q \in Updates : held[q].id # 0 => prefs[held[q].id].contact = ContactOf[q]
  /\ \A r \in Runs : /\ at[r] > Len(read[r]) => pc[r] \in Final
                     /\ \A i \in DOMAIN sent[r] : sent[r][i][1] \in WithPhone

\* A run that answers ok tried every message of wet and dry waste that was due to the rows it
\* read, whatever messages failed on the way.
EveryoneIsTried ==
  \A r \in Runs : pc[r] = "ok" =>
    \A p \in Range(read[r]) : \A t \in {"humedo", "seco"} :
      /\ p.contact \in WithPhone /\ p.flags[t] /\ EsResiduo(start[r].day, t, 0)
      => <<p.contact, t>> \in Range(sent[r])

\* The message of garden waste is due to a row by the section its contact had when the run
\* began, unless the contact has been given another since.
GardenIsDue(r, p) ==
  /\ p.contact \in WithPhone /\ p.flags["patio"]
  /\ EsResiduo(start[r].day, "patio", start[r].seccion[p.contact])
  /\ \A q \in SectionsGiven \ start[r].given : ContactOf[q] # p.contact
Reminded(u) == \E i \in DOMAIN avisos : avisos[i].contact = u

\* A run that answers ok tried every message of garden waste that was due, but to those whom
\* a reminder was ever recorded for: its row hides the section they gave.
GardenIsTried ==
  \A r \in Runs : pc[r] = "ok" =>
    \A p \in Range(read[r]) :
      GardenIsDue(r, p) => Reminded(p.contact) \/ <<p.contact, "patio">> \in Range(sent[r])

\* What the reminders are for, garden waste included (docs/migracion/12-notificaciones.md):
\* whoever wants it and has a section is told on its day, also on a day of wet waste.  It
\* fails: the row of the first reminder has no section and is the newest of its contact.
GardenWasteIsAnnounced ==
  \A r \in Runs : pc[r] = "ok" =>
    \A p \in Range(read[r]) : GardenIsDue(r, p) => <<p.contact, "patio">> \in Range(sent[r])

\* A contact that has said no hears nothing of that waste from the runs that begin after it,
\* and one that said yes hears it once in a run, whatever was said before and in between;
\* unless two first answers of the contact overlapped and left it two rows.
ChoiceIsRespected ==
  \A r \in Runs : \A i, j \in DOMAIN sent[r] :
    LET u == sent[r][i][1] IN
    u \notin mixed => /\ start[r].choice[u][sent[r][i][2]]
                      /\ sent[r][i] = sent[r][j] => i = j

\* A row that says notificado is of one message that was tried, to its contact, and there are
\* no two of a message; every message tried has its row, but the last of a run that is about
\* to write it or failed or ended there.
RowsFollowMessages ==
  /\ \A i \in DOMAIN avisos : \E r \in Runs : \E n \in DOMAIN sent[r] :
       avisos[i] = [contact |-> sent[r][n][1], of |-> <<r, n>>]
  /\ \A i, j \in DOMAIN avisos : avisos[i].of = avisos[j].of => i = j
  /\ \A r \in Runs : \A n \in DOMAIN sent[r] :
       \/ \E i \in DOMAIN avisos : avisos[i].of = <<r, n>>
       \/ n = Len(sent[r]) /\ pc[r] \in {"humedoRow", "secoRow", "patioRow", "500", "cut"}

=============================================================================
