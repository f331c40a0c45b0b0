----------------------------- MODULE MCCitizens -----------------------------
(***************************************************************************)
(* Instances for TLC of the components that keep what citizens are and     *)
(* say: the register of voters, complaints, survey, waste reminders and    *)
(* conversations. They share no state, so a behaviour is one of one        *)
(* component, which active chooses at the start, while the others stay in  *)
(* their initial state: the states are the sum of theirs, and an invariant *)
(* of a component is one of this module.                                   *)
(***************************************************************************)
EXTENDS Votante, TLC

VARIABLES active,
  complaints, historial, complaintPc, entity, previous, messages, stored, overlapped,
  complaintFaults,
  answers, lastId, cache, hour, surveyPc, surveyHeld, latest, deleted, surveyMixed, wasFree,
  dirty, surveyFaults,
  day, prefs, seccion, avisos, wastePc, wasteHeld, read, at, sent, choice, start,
  wasteMixed, wasteFaults, wasteCrashes,
  req, blacklist, delivered, history, answered, handoffMixed, untold, requests,
  handoffFaults, handoffCrashes

complaintVars == <<complaints, historial, complaintPc, entity, previous, messages, stored,
                   overlapped, complaintFaults>>
surveyVars == <<answers, lastId, cache, hour, surveyPc, surveyHeld, latest, deleted, surveyMixed,
                wasFree, dirty, surveyFaults>>
wasteVars == <<day, prefs, seccion, avisos, wastePc, wasteHeld, read, at, sent, choice,
               start, wasteMixed, wasteFaults, wasteCrashes>>
handoffVars == <<req, blacklist, delivered, history, answered, handoffMixed, untold, requests,
                 handoffFaults, handoffCrashes>>

---------------------------------------------------------------------------
(* Votante: two registers that share a voter, spelt in two ways, an addition, and a *)
(* replacement without records. *)

CONSTANTS o1, o2,
          MaxFailures  \* bound: failures of each of the components below
Alike == Permutations({o1, o2})

MCList == [a |-> {"20.1", "2"}, b |-> {"201", "3"}, c |-> {"201", "4"}, none |-> {}]
MCDigits == ("20.1" :> "201") @@ ("201" :> "201") @@ ("2" :> "2") @@ ("3" :> "3") @@ ("4" :> "4")

---------------------------------------------------------------------------
(* Reclamos: e1 starts a complaint at a new place, e2 repeats its estado and gives a crew, *)
(* e3 takes back its estado and its place without a message. *)

CONSTANTS Creations, ComplaintEdits, TargetOf, ComplaintDto, Silent, Reachable

Complaints == INSTANCE Reclamos WITH
  Edits <- ComplaintEdits, DtoOf <- ComplaintDto, MaxFaults <- MaxFailures,
  rows <- complaints, pc <- complaintPc, told <- messages, faults <- complaintFaults

MCTargetOf == [e \in ComplaintEdits |-> "c1"]
MCComplaintDto == [c1 |-> [ubicacion |-> "A", prioridad |-> "BAJA"],
                   e1 |-> [estado |-> "EN_PROCESO", ubicacion |-> "B"],
                   e2 |-> [estado |-> "EN_PROCESO", cuadrilla |-> "norte"],
                   e3 |-> [estado |-> "PENDIENTE", ubicacion |-> "A"]]

---------------------------------------------------------------------------
(* Encuestas: a DNI in two spellings and others.  Validations while an answer is saved, *)
(* edited and deleted; edits of the same answer; or reports while answers are saved.  The *)
(* requests of a behaviour are those of one of the three. *)

CONSTANTS Validations, Savings, Edits, Deletions, Reports, RawOf, DigitsOf, Plausible, DtoOf,
          IdOf, BarrioOf, Options, Top, MaxHours

Survey == INSTANCE Encuestas WITH
  Digits <- DigitsOf, MaxFaults <- MaxFailures,
  rows <- answers, pc <- surveyPc, held <- surveyHeld, mixed <- surveyMixed,
  faults <- surveyFaults

MCRawOf == [v1 |-> "12.345.678", v2 |-> "12345678", v3 |-> "abc",
            g1 |-> "12345678", g2 |-> "12.345.678", g3 |-> "7654321", g4 |-> "9999999"]
MCDigitsOf == ("12.345.678" :> "12345678") @@ ("12345678" :> "12345678") @@ ("abc" :> "")
           @@ ("7654321" :> "7654321") @@ ("9999999" :> "9999999")
Answer(b, o, s, k, text) ==
  [barrio |-> b, obrasUrgentes |-> o, serviciosMejorar |-> s, quiereContacto |-> k,
   propuesta |-> text, espacioMejorar |-> text,
   obrasUrgentesOtro |-> " ", serviciosMejorarOtro |-> " "]
MCDtoOf == [g1 |-> Answer("Norte", <<"cloacas", "luz">>, <<"riego">>, TRUE, "bancos"),
            g2 |-> Answer("Sur", <<"luz">>, <<"poda">>, FALSE, ""),
            g3 |-> Answer("Sur", <<"asfalto", "luz">>, <<"riego", "poda">>, TRUE, "bancos"),
            g4 |-> Answer("Norte", <<"asfalto", "plaza", "luz">>, <<"poda">>, FALSE, "rampas"),
            e1 |-> [barrio |-> "Sur"],
            e2 |-> [dni |-> "9999999", propuesta |-> "rampas"]]
MCIdOf == [e1 |-> 1, e2 |-> 1, d1 |-> 1]
MCBarrioOf == [r1 |-> "todos", r2 |-> "Sur"]

Scenario == [survey |-> {"v1", "v2", "v3", "g1", "e2", "d1"},
             editing |-> {"g1", "g2", "g4", "e1", "e2", "d1"},
             report |-> {"g1", "g3", "g4", "d1", "r1", "r2"}]

---------------------------------------------------------------------------
(* Notificaciones: u1 wants everything and then no wet waste, u2 has no telephone, ghost is *)
(* no contact.  One run among all the requests, or two runs of the preferences of u1. *)

CONSTANTS Citizens, WithPhone, Updates, Sections, Runs, CitizenOf, WasteDto, SeccionOf,
          FirstDow, FirstDay, LastDay

Waste == INSTANCE Notificaciones WITH
  Contacts <- Citizens, ContactOf <- CitizenOf, DtoOf <- WasteDto, MaxFaults <- MaxFailures,
  pc <- wastePc, held <- wasteHeld, mixed <- wasteMixed, faults <- wasteFaults,
  crashes <- wasteCrashes

MCCitizenOf == [p1 |-> "u1", p2 |-> "u1", p3 |-> "u2", p4 |-> "ghost", s1 |-> "u1", s2 |-> "ghost"]
MCWasteDto == [p1 |-> [humedo |-> TRUE, seco |-> TRUE, patio |-> TRUE],
               p2 |-> [humedo |-> FALSE],
               p3 |-> [seco |-> TRUE],
               p4 |-> [seco |-> TRUE]]
MCSeccionOf == [s1 |-> 1, s2 |-> 2]

WasteOf == [waste |-> Updates \cup Sections \cup {"n1"}, runs |-> {"p1", "s1", "n1", "n2"}]

---------------------------------------------------------------------------
(* Handoff: two officials and two contacts, one of them without a telephone. *)

CONSTANTS Contacts, NoPhone, MaxRequests

Handoffs == INSTANCE Handoff WITH
  MaxFaults <- MaxFailures,
  mixed <- handoffMixed, faults <- handoffFaults, crashes <- handoffCrashes

---------------------------------------------------------------------------

ASSUME ReclamosHolds == Complaints!ReclamosAssumption
ASSUME EncuestasHolds == Survey!EncuestasAssumption
ASSUME NotificacionesHolds == Waste!NotificacionesAssumption
ASSUME HandoffHolds == Handoffs!ContactsAssumption

CitizensInit ==
  /\ active \in DOMAIN Scenario \cup DOMAIN WasteOf \cup {"register", "complaints", "handoff"}
  /\ Init /\ Complaints!Init /\ Survey!Init /\ Waste!Init /\ Handoffs!Init

RegisterStep ==
  /\ active = "register" /\ Next
  /\ UNCHANGED <<active, complaintVars, surveyVars, wasteVars, handoffVars>>
ComplaintStep ==
  /\ active = "complaints" /\ Complaints!Next
  /\ UNCHANGED <<active, vars, surveyVars, wasteVars, handoffVars>>
SurveyStep ==
  /\ active \in DOMAIN Scenario
  /\ \/ \E q \in Scenario[active] \cap Survey!Requests : Survey!Serve(q)
     \/ active = "survey" /\ (Survey!Expire \/ Survey!Tick)
  /\ UNCHANGED <<active, vars, complaintVars, wasteVars, handoffVars>>
WasteStep ==
  /\ active \in DOMAIN WasteOf
  /\ \/ \E q \in WasteOf[active] \cap Waste!Requests : Waste!Serve(q)
     \/ Waste!Crash \/ Waste!NextDay
  /\ UNCHANGED <<active, vars, complaintVars, surveyVars, handoffVars>>
HandoffStep ==
  /\ active = "handoff" /\ Handoffs!Next
  /\ UNCHANGED <<active, vars, complaintVars, surveyVars, wasteVars>>

CitizensNext == RegisterStep \/ ComplaintStep \/ SurveyStep \/ WasteStep \/ HandoffStep

CitizensSpec ==
  CitizensInit
  /\ [][CitizensNext]_<<active, vars, complaintVars, surveyVars, wasteVars, handoffVars>>

---------------------------------------------------------------------------

\* What a complaint's history and its messages say happened, and what happened to it is
\* there: entries chain from the first estado to the columns of the row unless requests
\* overlapped or failed, no one is told of a value that was never stored or of no change, and
\* the coordinates are those of the place (crearDesdeBot, actualizarAdmin of reclamos.service.ts).
ComplaintsAreExplained ==
  /\ Complaints!TypeOK
  /\ Complaints!HistorialExplainsRow /\ Complaints!NothingToldBeforeSaved
  /\ Complaints!NoMessageWithoutChange /\ Complaints!CoordsFollowUbicacion

\* What validarDni answers of a DNI, from the cache or not, was so at most two hours before,
\* though saves, edits and deletions interleave with its query and nobody drops the entry.
AnswersAreRecent == Survey!TypeOK /\ Survey!AnswersAreRecent

\* One answer of a DNI at most, which stays as the citizen and the officials left it until it
\* is deleted, unless two edits overlap (guardarEncuesta, editarEncuesta, eliminarEncuesta).
AnswersAreKept == Survey!AnswersAreKept

\* A report adds up unless an answer is saved between its queries, lists the most voted
\* options in order and no comment less (obtenerEstadisticas of encuestas.service.ts).
ReportIsTrue ==
  Survey!ReportAddsUp /\ Survey!MostVotedAreListed /\ Survey!EveryCommentIsReported

\* A run of the daily sending tells every contact what is due to its choice, once in that run
\* and nothing else, whatever messages fail, but for the garden waste of a contact that had a
\* reminder before; and the rows it leaves count the messages but for those that a failure or
\* a stop cut off (notificaciones.service.ts).
WasteIsAnnounced ==
  /\ Waste!TypeOK
  /\ Waste!ChoiceIsRespected /\ Waste!EveryoneIsTried /\ Waste!GardenIsTried
  /\ Waste!RowsFollowMessages

\* The history of a conversation tells who has it, and what it says was sent was delivered,
\* though officials overlap and calls of the bot fail halfway (history.service.ts).
HistoryIsTrue ==
  /\ Handoffs!TypeOK
  /\ Handoffs!HistoryTellsTheMode /\ Handoffs!EntriesHappened /\ Handoffs!SuccessIsDelivery
=============================================================================
