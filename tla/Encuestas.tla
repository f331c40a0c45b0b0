------------------------------ MODULE Encuestas ------------------------------
(***************************************************************************)
(* The survey of the budget, encuestas.service.ts: a citizen validates a   *)
(* DNI and saves one answer for it, officials edit, delete and count.      *)
(* Requests run concurrently; each await is the end of a step.             *)
(***************************************************************************)
EXTENDS Integers, Sequences, SequencesExt, FiniteSets, FiniteSetsExt

CONSTANTS
  Validations, Savings, Edits, Deletions, Reports,  \* requests, one set per endpoint
  RawOf,      \* of each validation and saving: the DNI as it was typed
  Digits,     \* normalizeDni: the digits of what was typed
  Plausible,  \* the digits that are 7 or 8 of them
  DtoOf,      \* of each saving the columns; of each edit those it gives
  IdOf,       \* of each edit and deletion: the id
  BarrioOf,   \* of each report: a barrio or "todos"
  Options,    \* what citizens may vote for: a list of options is a sequence of these
  Top,        \* bound: the options a report lists (10 in the code)
  MaxHours,   \* bound: hours that pass
  MaxFaults   \* bound: commands of Redis that fail

Requests == Validations \cup Savings \cup Edits \cup Deletions \cup Reports
Votos    == {"obrasUrgentes", "serviciosMejorar"}
Comentarios == {"obrasUrgentesOtro", "serviciosMejorarOtro", "espacioMejorar", "propuesta"}
Campos   == {"barrio", "quiereContacto"} \cup Votos \cup Comentarios
Blank    == {"", " "}  \* what trim() makes empty; null is stored as ""
NoEntry  == [free |-> TRUE, since |-> -2]

\* A request is of one endpoint.
EncuestasAssumption ==
  /\ \A q \in Validations : q \notin Savings \cup Edits \cup Deletions \cup Reports
  /\ \A q \in Reports : q \notin Savings \cup Edits \cup Deletions
  /\ \A q \in Savings : DOMAIN DtoOf[q] = Campos
  /\ \A q \in Edits : DOMAIN DtoOf[q] \subseteq Campos \cup {"dni"}
  /\ \A q \in Savings \cup Edits : \A v \in Votos \cap DOMAIN DtoOf[q] : DtoOf[q][v] \in Seq(Options)
  /\ \A q \in Validations \cup Savings : RawOf[q] \in DOMAIN Digits
  /\ \A q \in Edits \cup Deletions : IdOf[q] \in Nat
  /\ Top \in Nat \ {0} /\ MaxHours \in Nat /\ MaxFaults \in Nat

Dnis == {Digits[r] : r \in DOMAIN Digits}
        \cup {DtoOf[q].dni : q \in {e \in Edits : "dni" \in DOMAIN DtoOf[e]}}

VARIABLES
  rows,    \* encuesta_presupuesto: its rows by id, the columns and dni
  lastId,  \* the sequence of ids
  cache,   \* encuesta:dni:<dni> in Redis: puedeContinuar and the hour it was set
  hour,
  pc,      \* the step each request waits for
  held,    \* what each request read or computed
  latest,  \* ghost: by id, the columns as the last answers left them
  deleted, \* ghost: the ids whose deletion was answered
  mixed,   \* ghost: ids with two writers at work at once
  wasFree, \* ghost: pairs of dni and hour, and whether the dni was free then
  dirty,   \* ghost: reports during which a row changed
  faults

ghosts == <<latest, deleted, mixed, wasFree, dirty>>
vars == <<rows, lastId, cache, hour, pc, held, ghosts, faults>>

Final == {"new", "ok", "400", "404", "409", "500"}
Steps == Final \cup {"query", "setCache", "save", "dni", "put", "group", "find"}

Goto(q, s) == pc' = [pc EXCEPT ![q] = s]
Fault == faults < MaxFaults /\ faults' = faults + 1
AtWork(q) == pc[q] \notin Final
Dni(q) == Digits[RawOf[q]]
Taken(d) == \E i \in DOMAIN rows : rows[i].dni = d

\* Ghost: what is true of the DNIs in this hour, and the reports that see a change.
Watch == /\ wasFree' = wasFree \cup {<<d, hour', ~Taken(d)'>> : d \in Dnis}
         /\ dirty' = dirty \cup (IF rows' = rows THEN {} ELSE {r \in Reports : AtWork(r)})

----------------------------------------------------------------------------
(* validarDni *)

\* getCache: a failing Redis counts as no entry.
Look(q) ==
  /\ q \in Validations /\ pc[q] = "new"
  /\ \/ Dni(q) \notin Plausible /\ Goto(q, "400") /\ UNCHANGED <<held, faults>>
     \/ /\ Dni(q) \in Plausible /\ cache[Dni(q)] # NoEntry
        /\ Goto(q, "ok") /\ UNCHANGED faults
        /\ held' = [held EXCEPT ![q] = [free |-> cache[Dni(q)].free, at |-> hour]]
     \/ /\ Dni(q) \in Plausible /\ Goto(q, "query") /\ UNCHANGED held
        /\ IF cache[Dni(q)] = NoEntry THEN UNCHANGED faults ELSE Fault
  /\ UNCHANGED <<rows, lastId, cache, hour, ghosts>>

Query(q) ==
  /\ pc[q] = "query" /\ Goto(q, "setCache")
  /\ held' = [held EXCEPT ![q] = [free |-> ~Taken(Dni(q)), at |-> hour]]
  /\ UNCHANGED <<rows, lastId, cache, hour, ghosts, faults>>

\* Plausible bug: the entry lives for three hours.
SetCacheForLonger(q) ==
  /\ pc[q] = "setCache" /\ Goto(q, "ok")
  /\ cache' = [cache EXCEPT ![Dni(q)] = [free |-> held[q].free, since |-> hour + 2]]
  /\ held' = [held EXCEPT ![q].at = hour]
  /\ UNCHANGED <<rows, lastId, hour, ghosts, faults>>
\* setCache, for an hour; its failure is ignored.
SetCache(q) ==
  /\ pc[q] = "setCache" /\ Goto(q, "ok")
  /\ \/ cache' = [cache EXCEPT ![Dni(q)] = [free |-> held[q].free, since |-> hour]] /\ UNCHANGED faults
     \/ Fault /\ UNCHANGED cache
  /\ held' = [held EXCEPT ![q].at = hour]
  /\ UNCHANGED <<rows, lastId, hour, ghosts>>

----------------------------------------------------------------------------
(* guardarEncuesta, editarEncuesta and eliminarEncuesta *)

Find(q) ==
  /\ q \in Savings /\ pc[q] = "new"
  /\ Goto(q, IF Taken(Dni(q)) THEN "409" ELSE "save")
  /\ UNCHANGED <<rows, lastId, cache, hour, held, ghosts, faults>>

\* The index on dni is unique: the insert that comes second fails.
Save(q) ==
  /\ pc[q] = "save"
  /\ lastId' = lastId + 1
  /\ IF Taken(Dni(q))
       THEN Goto(q, "500") /\ UNCHANGED <<rows, latest>>
       ELSE LET row == [c \in Campos \cup {"dni"} |-> IF c = "dni" THEN Dni(q) ELSE DtoOf[q][c]]
            IN /\ Goto(q, "ok")
               /\ rows' = [i \in DOMAIN rows \cup {lastId'} |-> IF i = lastId' THEN row ELSE rows[i]]
               /\ latest' = [i \in DOMAIN latest \cup {lastId'} |->
                              IF i = lastId' THEN row ELSE latest[i]]
  /\ UNCHANGED <<cache, hour, held, deleted, mixed, faults>> /\ Watch

Given(e, c) == c \in DOMAIN DtoOf[e]
Merged(e, row) == [c \in Campos \cup {"dni"} |-> IF Given(e, c) THEN DtoOf[e][c] ELSE row[c]]

\* The row is read and changed in memory; a new dni is looked up.
Read(e) ==
  /\ e \in Edits /\ pc[e] = "new"
  /\ IF IdOf[e] \notin DOMAIN rows
       THEN Goto(e, "404") /\ UNCHANGED <<held, mixed>>
       ELSE /\ held' = [held EXCEPT ![e] = Merged(e, rows[IdOf[e]])]
            /\ Goto(e, IF held'[e].dni = rows[IdOf[e]].dni THEN "put" ELSE "dni")
            /\ mixed' = IF \E p \in Edits : IdOf[p] = IdOf[e] /\ AtWork(p)
                          THEN mixed \cup {IdOf[e]} ELSE mixed
  /\ UNCHANGED <<rows, lastId, cache, hour, latest, deleted, wasFree, dirty, faults>>

LookUpDni(e) ==
  /\ pc[e] = "dni" /\ Goto(e, IF Taken(held[e].dni) THEN "409" ELSE "put")
  /\ UNCHANGED <<rows, lastId, cache, hour, held, ghosts, faults>>

\* Plausible bug: what the edit does not give is emptied.
PutGivenOnly(e) ==
  /\ pc[e] = "put" /\ Goto(e, "ok")
  /\ IdOf[e] \in DOMAIN rows
  /\ rows' = [rows EXCEPT ![IdOf[e]] = [c \in Campos \cup {"dni"} |->
       IF Given(e, c) THEN DtoOf[e][c] ELSE IF c \in Comentarios THEN "" ELSE @[c]]]
  /\ latest' = [latest EXCEPT ![IdOf[e]] = Merged(e, @)]
  /\ UNCHANGED <<lastId, cache, hour, held, deleted, mixed, faults>> /\ Watch
\* save: every column of the entity, and a row that is gone is inserted again.
Put(e) ==
  /\ pc[e] = "put"
  /\ IF \E i \in DOMAIN rows \ {IdOf[e]} : rows[i].dni = held[e].dni
       THEN Goto(e, "500") /\ UNCHANGED <<rows, latest>>
       ELSE /\ Goto(e, "ok")
            /\ rows' = [i \in DOMAIN rows \cup {IdOf[e]} |-> IF i = IdOf[e] THEN held[e] ELSE rows[i]]
            /\ latest' = [latest EXCEPT ![IdOf[e]] = Merged(e, @)]
  /\ UNCHANGED <<lastId, cache, hour, held, deleted, mixed, faults>> /\ Watch

Delete(q) ==
  /\ q \in Deletions /\ pc[q] = "new"
  /\ IF IdOf[q] \notin DOMAIN rows
       THEN Goto(q, "404") /\ UNCHANGED <<rows, deleted>>
       ELSE /\ Goto(q, "ok") /\ deleted' = deleted \cup {IdOf[q]}
            /\ rows' = [i \in DOMAIN rows \ {IdOf[q]} |-> rows[i]]
  /\ UNCHANGED <<lastId, cache, hour, held, latest, mixed, faults>> /\ Watch

----------------------------------------------------------------------------
(* obtenerEstadisticas: three queries, one after the other *)

InBarrio(b) == {i \in DOMAIN rows : rows[i].barrio = b}
Where(b) == IF b = "todos" THEN DOMAIN rows ELSE InBarrio(b)
Barrios  == {rows[i].barrio : i \in DOMAIN rows}

\* Plausible bug: the total is that of all barrios.
CountAll(r) ==
  /\ r \in Reports /\ pc[r] = "new"
  /\ Goto(r, IF BarrioOf[r] = "todos" THEN "group" ELSE "find")
  /\ LET total == Cardinality(DOMAIN rows) IN
     held' = [held EXCEPT ![r] = [total |-> total,
                porBarrio |-> [b \in {BarrioOf[r]} \ {"todos"} |-> total]]]
  /\ UNCHANGED <<rows, lastId, cache, hour, ghosts, faults>>
Count(r) ==
  /\ r \in Reports /\ pc[r] = "new"
  /\ Goto(r, IF BarrioOf[r] = "todos" THEN "group" ELSE "find")
  /\ LET total == Cardinality(Where(BarrioOf[r])) IN
     held' = [held EXCEPT ![r] = [total |-> total,
                porBarrio |-> [b \in {BarrioOf[r]} \ {"todos"} |-> total]]]
  /\ UNCHANGED <<rows, lastId, cache, hour, ghosts, faults>>

GroupBy(r) ==
  /\ pc[r] = "group" /\ Goto(r, "find")
  /\ held' = [held EXCEPT ![r].porBarrio = [b \in Barrios |-> Cardinality(InBarrio(b))]]
  /\ UNCHANGED <<rows, lastId, cache, hour, ghosts, faults>>

\* The elements of a set, each after those that come before it.
InOrder(S, before(_, _)) ==
  [k \in 1..Cardinality(S) |-> CHOOSE x \in S : Cardinality({y \in S : before(y, x)}) = k - 1]

\* The places where the answers found name an option, each an answer and a place in its list;
\* the options they name, and the places of one of them.
Places(found, v) == UNION {{k} \X DOMAIN found[k][v] : k \in DOMAIN found}
Named(found, v) == {found[p[1]][v][p[2]] : p \in Places(found, v)}
Votes(found, v, o) == {p \in Places(found, v) : found[p[1]][v][p[2]] = o}
Sooner(p, q) == p[1] < q[1] \/ (p[1] = q[1] /\ p[2] < q[2])

\* The votes of each option: the most voted first, and of those with as many the one that is
\* named first.
Tally(found, v) ==
  LET votes(o) == Cardinality(Votes(found, v, o))
      before(o, p) == \/ votes(o) > votes(p)
                      \/ /\ votes(o) = votes(p)
                         /\ \E m \in Votes(found, v, o) : \A n \in Votes(found, v, p) : Sooner(m, n)
      ranking == InOrder(Named(found, v), before)
  IN [k \in DOMAIN ranking |-> [opcion |-> ranking[k], cantidad |-> votes(ranking[k])]]

MasVotados(found, v) == LET t == Tally(found, v) IN SubSeq(t, 1, Min({Top, Len(t)}))

\* Math.round of a percentage; a negative half is not possible.
Porcentaje(part, total) == IF total > 0 THEN (200 * part + total) \div (2 * total) ELSE 0

Otros(found, c) ==
  LET said == InOrder({k \in DOMAIN found : found[k][c] \notin Blank}, <) IN
  [k \in DOMAIN said |-> [id |-> found[said[k]].id, comentario |-> found[said[k]][c]]]

FindAll(r) ==
  /\ pc[r] = "find" /\ Goto(r, "ok")
  /\ LET ids   == InOrder(Where(BarrioOf[r]), <)
         found == [k \in DOMAIN ids |->
                     [c \in Campos \cup {"id"} |-> IF c = "id" THEN ids[k] ELSE rows[ids[k]][c]]]
         contact == Cardinality({k \in DOMAIN found : found[k].quiereContacto})
     IN held' = [held EXCEPT ![r] =
          [total |-> held[r].total, porBarrio |-> held[r].porBarrio, found |-> found,
           masVotados |-> [v \in Votos |-> MasVotados(found, v)],
           contacto |-> contact, porcentaje |-> Porcentaje(contact, held[r].total),
           otros |-> [c \in Comentarios |-> Otros(found, c)]]]
  /\ UNCHANGED <<rows, lastId, cache, hour, ghosts, faults>>

----------------------------------------------------------------------------
(* Time *)

\* An entry set an hour ago is dropped at some moment of this hour.
Expire ==
  /\ \E d \in Dnis : cache[d] # NoEntry /\ cache[d].since < hour /\ cache' = [cache EXCEPT ![d] = NoEntry]
  /\ UNCHANGED <<rows, lastId, hour, pc, held, ghosts, faults>>

\* A validation takes well below an hour: none that began before the last one is at work.
Tick ==
  /\ hour < MaxHours /\ hour' = hour + 1
  /\ \A d \in Dnis : cache[d] = NoEntry \/ cache[d].since >= hour
  /\ \A q \in Validations : AtWork(q) /\ pc[q] = "setCache" => held[q].at = hour
  /\ UNCHANGED <<rows, lastId, cache, pc, held, latest, deleted, mixed, faults>> /\ Watch

Init ==
  /\ rows = << >> /\ lastId = 0 /\ cache = [d \in Dnis |-> NoEntry] /\ hour = 0
  /\ pc = [q \in Requests |-> "new"] /\ held = [q \in Requests |-> << >>]
  /\ latest = << >> /\ deleted = {} /\ mixed = {} /\ dirty = {}
  /\ wasFree = {<<d, 0, TRUE>> : d \in Dnis} /\ faults = 0

ValidarDni(q)      == Look(q) \/ Query(q) \/ SetCache(q)
GuardarEncuesta(q) == Find(q) \/ Save(q)
EditarEncuesta(q)  == Read(q) \/ LookUpDni(q) \/ Put(q)
ObtenerEstadisticas(q) == Count(q) \/ GroupBy(q) \/ FindAll(q)
Serve(q) == \/ ValidarDni(q) \/ GuardarEncuesta(q) \/ EditarEncuesta(q) \/ Delete(q)
            \/ ObtenerEstadisticas(q)
Next == (\E q \in Requests : Serve(q)) \/ Expire \/ Tick
Spec == Init /\ [][Next]_vars

----------------------------------------------------------------------------
(* Properties *)

\* Types; the steps of an edit keep to a row that has an id.
TypeOK ==
  /\ DOMAIN rows \subseteq 1..lastId
  /\ \A i \in DOMAIN rows : DOMAIN rows[i] = Campos \cup {"dni"} /\ rows[i].dni \in Dnis
  /\ lastId \in Nat /\ hour \in 0..MaxHours /\ faults \in 0..MaxFaults
  /\ \A d \in Dnis : cache[d] = NoEntry \/ cache[d].since \in Nat
  /\ pc \in [Requests -> Steps]
  /\ \A e \in Edits : pc[e] \in {"dni", "put"} => IdOf[e] \in 1..lastId

\* The answer of a validation was true at most two hours before, however the cache, the
\* saves, the edits of a DNI and the deletions interleave with it.
AnswersAreRecent ==
  \A q \in Validations : pc[q] = "ok" =>
    \E h \in (held[q].at - 2)..held[q].at : <<Dni(q), h, held[q].free>> \in wasFree

\* Nobody answers twice: at most one row of a DNI, and an answer that was told saved is kept
\* as its citizen and the officials left it until it is deleted; unless two edits overlapped.
AnswersAreKept ==
  /\ \A i, j \in DOMAIN rows : rows[i].dni = rows[j].dni => i = j
  /\ \A i \in DOMAIN latest \ (mixed \cup deleted) : i \in DOMAIN rows /\ rows[i] = latest[i]

\* A report during which no row changed adds up: its total is that of its barrios and of the
\* answers it read, and the share of contacts is a percentage.  (A row that is saved between
\* its queries may make it more than 100.)
ReportAddsUp ==
  \A r \in Reports \ dirty : pc[r] = "ok" =>
    /\ Len(held[r].found) = held[r].total
    /\ SumFunction(held[r].porBarrio) = held[r].total
    /\ held[r].porcentaje \in 0..100
    /\ held[r].porcentaje = 100 => 200 * held[r].contacto >= 199 * held[r].total

\* The times an answer names an option.
Times(answer, v, o) == Cardinality({n \in DOMAIN answer[v] : answer[v][n] = o})

\* The options of a report are the most voted: none left out has more votes than one listed.
\* The votes of each are the times that the answers read name it, one answer after the other.
MostVotedAreListed ==
  \A r \in Reports : pc[r] = "ok" => \A v \in Votos :
    LET found  == held[r].found
        listed == held[r].masVotados[v]
        votes(o) == SumFunction([k \in DOMAIN found |-> Times(found[k], v, o)])
        named  == UNION {Range(found[k][v]) : k \in DOMAIN found}
        out    == named \ {listed[k].opcion : k \in DOMAIN listed}
    IN /\ Len(listed) <= Top /\ (out # {} => Len(listed) = Top)
       /\ \A k \in DOMAIN listed :
            /\ listed[k].cantidad = votes(listed[k].opcion)
            /\ \A o \in out : votes(o) <= listed[k].cantidad
            /\ \A l \in DOMAIN listed : k < l => listed[k].cantidad >= listed[l].cantidad

\* A report has every comment of the answers it read, under the answer that made it.
EveryCommentIsReported ==
  \A r \in Reports : pc[r] = "ok" => \A c \in Comentarios :
    Range(held[r].otros[c]) = {[id |-> e.id, comentario |-> e[c]] :
                                  e \in {x \in Range(held[r].found) : x[c] \notin Blank}}

=============================================================================
