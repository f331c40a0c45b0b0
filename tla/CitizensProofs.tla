--------------------------- MODULE CitizensProofs ---------------------------
(***************************************************************************)
(* What the register, the conversations, the complaints, the survey and    *)
(* the waste reminders keep, for any lists, requests, officials, contacts, *)
(* failures and stops: of each, an inductive invariant, the lemmas that    *)
(* every action keeps it and what it implies.                              *)
(***************************************************************************)
EXTENDS MCCitizens, Integers, Sequences, TLAPS, FiniteSetTheorems, SequenceTheorems,
        WellFoundedInduction

----------------------------------------------------------------------------
(* The register: what was promised is there, and rows are of whole lists   *)

\* The rows a list is saved as.
RowsOf(i) == {[document |-> normalizeDocumento(d), from |-> i] : d \in List[i]}

\* Imports under way: each is known, has begun once, and saves a list that is not empty.
Doing(o) == doing[o].step \in {"clear", "save"}
DoingOK ==
  /\ doing = [o \in Officials |-> doing[o]]
  /\ \A o \in Officials : At(o, "idle") \/ Doing(o)
  /\ \A o \in Officials : Doing(o) =>
       /\ doing[o].import \in Imports /\ doing[o].import \in done
       /\ At(o, "clear") => doing[o].import \in Replaces
       /\ At(o, "save") => List[doing[o].import] # {}
  /\ \A o, p \in Officials : o # p /\ Doing(o) /\ Doing(p) =>
       /\ doing[o].import # doing[p].import
       /\ {doing[o].import, doing[p].import} \in together

\* A row belongs to a list that is there as a whole.
Whole == \A x \in votante : /\ x.from \in Imports /\ x.from \in done
                            /\ x \in RowsOf(x.from) /\ RowsOf(x.from) \subseteq votante

\* What was promised is there; some list is, unless a replacement is to blame.
Kept == /\ \A i \in promised : RowsOf(i) \subseteq votante
        /\ imported /\ emptied = {} =>
             \E i \in Imports : List[i] # {} /\ RowsOf(i) \subseteq votante

\* Rows of two replacements are of two that overlapped, and so will be those still to save.
Apart ==
  /\ TwoRegistersOnlyByOverlap
  /\ \A o \in Officials : At(o, "save") /\ doing[o].import \in Replaces =>
       \A x \in votante : x.from \in Replaces /\ x.from # doing[o].import =>
         {x.from, doing[o].import} \in together

RegisterInv == DoingOK /\ Whole /\ Kept /\ Apart

----------------------------------------------------------------------------
(* The invariant says what the properties say *)

LEMMA RowsGive ==
  \A i, x : x \in RowsOf(i) <=> \E d \in List[i] : x = [document |-> Digits[d], from |-> i]
BY DEF RowsOf, normalizeDocumento

LEMMA FoundIn ==
  ASSUME NEW i, RowsOf(i) \subseteq votante, NEW e \in List[i], NEW d, Digits[d] = Digits[e]
  PROVE  obtenerPorDocumento(d) # {}
<1>1. [document |-> Digits[e], from |-> i] \in votante
  BY RowsGive
<1> QED BY <1>1 DEF obtenerPorDocumento, normalizeDocumento

LEMMA RegisterFollows ==
  ASSUME RegisterInv
  PROVE  TypeOK /\ PromisedIsFound /\ ListsAreWhole /\ GapOnlyByReplacement
         /\ TwoRegistersOnlyByOverlap
<1>1. TypeOK
  <2>1. ASSUME NEW x \in votante
        PROVE  x.from \in done /\ x.document \in {Digits[d] : d \in List[x.from]}
    <3>1. x.from \in done /\ x \in RowsOf(x.from)
      BY DEF RegisterInv, Whole
    <3>2. PICK d \in List[x.from] : x = [document |-> Digits[d], from |-> x.from]
      BY <3>1, RowsGive
    <3> QED BY <3>1, <3>2
  <2>2. \A o \in Officials : ~At(o, "idle") => doing[o].import \in done
    BY DEF RegisterInv, DoingOK
  <2> QED BY <2>1, <2>2 DEF TypeOK
<1>2. PromisedIsFound
  <2> SUFFICES ASSUME NEW i \in promised, NEW d \in Documents,
                      Digits[d] \in {Digits[e] : e \in List[i]}
               PROVE  obtenerPorDocumento(d) # {}
    BY DEF PromisedIsFound
  <2>1. RowsOf(i) \subseteq votante
    BY DEF RegisterInv, Kept
  <2>2. PICK e \in List[i] : Digits[d] = Digits[e]
    OBVIOUS
  <2> QED BY <2>1, <2>2, FoundIn
<1>3. ListsAreWhole
  <2> SUFFICES ASSUME NEW i \in Imports,
                      {x.document : x \in {y \in votante : y.from = i}} # {}
               PROVE  {x.document : x \in {y \in votante : y.from = i}} = {Digits[d] : d \in List[i]}
    BY DEF ListsAreWhole
  <2>1. PICK x \in votante : x.from = i
    OBVIOUS
  <2>2. RowsOf(i) \subseteq votante
    BY <2>1 DEF RegisterInv, Whole
  <2>3. \A y \in votante : y.from = i => \E d \in List[i] : y.document = Digits[d]
    <3> SUFFICES ASSUME NEW y \in votante, y.from = i
                 PROVE  \E d \in List[i] : y.document = Digits[d]
      OBVIOUS
    <3>1. y \in RowsOf(i)
      BY DEF RegisterInv, Whole
    <3>2. PICK d \in List[i] : y = [document |-> Digits[d], from |-> i]
      BY <3>1, RowsGive
    <3> QED BY <3>2
  <2>4. \A d \in List[i] : \E y \in votante : y.from = i /\ y.document = Digits[d]
    <3> SUFFICES ASSUME NEW d \in List[i]
                 PROVE  \E y \in votante : y.from = i /\ y.document = Digits[d]
      OBVIOUS
    <3>1. [document |-> Digits[d], from |-> i] \in votante
      BY <2>2, RowsGive
    <3> QED BY <3>1
  <2> QED BY <2>3, <2>4
<1>4. GapOnlyByReplacement
  <2> SUFFICES ASSUME NEW d \in Documents, imported, emptied = {},
                      \A i \in Imports : List[i] # {} => Digits[d] \in {Digits[e] : e \in List[i]}
               PROVE  obtenerPorDocumento(d) # {}
    BY DEF GapOnlyByReplacement
  <2>1. PICK i \in Imports : List[i] # {} /\ RowsOf(i) \subseteq votante
    BY DEF RegisterInv, Kept
  <2>2. PICK e \in List[i] : Digits[d] = Digits[e]
    BY <2>1
  <2> QED BY <2>1, <2>2, FoundIn
<1> QED BY <1>1, <1>2, <1>3, <1>4 DEF RegisterInv, Apart

----------------------------------------------------------------------------
(* Steps *)

\* A step that ends an import, or moves it on to a save, starts no other.
LEMMA Proceeds ==
  ASSUME DoingOK, NEW o \in Officials, Doing(o), UNCHANGED <<done, together>>,
         \/ End(o)
         \/ List[doing[o].import] # {} /\ Until(o, "save", doing[o].import)
  PROVE  /\ DoingOK' /\ \A p \in Officials : p # o => doing'[p] = doing[p]
         /\ End(o) => doing'[o] = Idle
         /\ Doing(o)' => At(o, "save")' /\ doing'[o].import = doing[o].import
<1>1. /\ doing' = [p \in Officials |-> doing'[p]]
      /\ \A p \in Officials : p # o => doing'[p] = doing[p]
      /\ End(o) => doing'[o] = Idle
      /\ ~End(o) => doing'[o] = [step |-> "save", import |-> doing[o].import]
  BY DEF DoingOK, End, Until
<1>2. Doing(o)' => /\ ~End(o) /\ At(o, "save")' /\ doing'[o].import = doing[o].import
                   /\ List[doing[o].import] # {}
  BY <1>1 DEF Doing, At, Idle
<1>3. \A p \in Officials : At(p, "idle")' \/ Doing(p)'
  BY <1>1 DEF DoingOK, At, Doing, Idle
<1>4. \A p \in Officials : Doing(p)' =>
        /\ doing'[p].import \in Imports /\ doing'[p].import \in done
        /\ At(p, "clear")' => doing'[p].import \in Replaces
        /\ At(p, "save")' => List[doing'[p].import] # {}
  BY <1>1, <1>2 DEF DoingOK, At, Doing
<1>5. \A p \in Officials : Doing(p)' => Doing(p) /\ doing'[p].import = doing[p].import
  BY <1>1, <1>2 DEF Doing
<1>6. \A p, q \in Officials : p # q /\ Doing(p)' /\ Doing(q)' =>
        /\ doing'[p].import # doing'[q].import
        /\ {doing'[p].import, doing'[q].import} \in together
  BY <1>5 DEF DoingOK
<1>7. DoingOK'
  BY <1>1, <1>3, <1>4, <1>6 DEF DoingOK
<1> QED BY <1>1, <1>2, <1>7

\* A step that adds to the register, at most the rows of one import that is being saved.
LEMMA Adds ==
  ASSUME RegisterInv, NEW o \in Officials, At(o, "save"),
         votante' = votante \/ votante' = Saved(doing[o].import),
         UNCHANGED <<done, together>>, DoingOK',
         \A p \in Officials : p # o => doing'[p] = doing[p], ~At(o, "save")'
  PROVE  Whole' /\ Apart' /\ votante \subseteq votante'
<1> DEFINE i == doing[o].import
<1>1. /\ Doing(o) /\ i \in Imports /\ i \in done /\ List[i] # {}
  BY DEF RegisterInv, DoingOK, Doing, At
<1>2. votante' = votante \/ votante' = votante \cup RowsOf(i)
  BY DEF Saved, RowsOf
<1>3. \A x \in RowsOf(i) : x.from = i
  BY DEF RowsOf
<1>x. \A p \in Officials : p # o /\ At(p, "save") => doing[p].import # i /\ {i, doing[p].import} \in together
  <2> SUFFICES ASSUME NEW p \in Officials, p # o, At(p, "save")
               PROVE  doing[p].import # i /\ {i, doing[p].import} \in together
    OBVIOUS
  <2>1. Doing(p)
    BY DEF Doing, At
  <2> QED BY <1>1, <2>1 DEF RegisterInv, DoingOK
<1>y. \A x \in votante : i \in Replaces /\ x.from \in Replaces /\ x.from # i => {x.from, i} \in together
  BY DEF RegisterInv, Apart
<1> HIDE DEF i
<1>4. Whole'
  <2> SUFFICES ASSUME NEW x \in votante'
               PROVE  x.from \in Imports /\ x.from \in done /\ x \in RowsOf(x.from) /\ RowsOf(x.from) \subseteq votante'
    BY DEF Whole, RowsOf, normalizeDocumento
  <2>1. CASE x \in votante
    BY <1>2, <2>1 DEF RegisterInv, Whole
  <2>2. CASE x \notin votante
    BY <1>1, <1>2, <1>3, <2>2
  <2> QED BY <2>1, <2>2
<1>5. TwoRegistersOnlyByOverlap'
  <2> SUFFICES ASSUME NEW x \in votante', NEW y \in votante',
                      x.from \in Replaces, y.from \in Replaces, x.from # y.from
               PROVE  {x.from, y.from} \in together
    BY DEF TwoRegistersOnlyByOverlap
  <2>1. CASE x \in votante /\ y \in votante
    BY <2>1 DEF RegisterInv, Apart, TwoRegistersOnlyByOverlap
  <2>2. CASE x \notin votante
    <3>1. x.from = i /\ y \in votante
      BY <1>2, <1>3, <2>2
    <3>2. {y.from, i} = {x.from, y.from}
      BY <3>1
    <3> QED BY <1>y, <3>1, <3>2
  <2>3. CASE y \notin votante
    <3>1. y.from = i /\ x \in votante
      BY <1>2, <1>3, <2>3
    <3> QED BY <1>y, <3>1
  <2> QED BY <2>1, <2>2, <2>3
<1>6. ASSUME NEW p \in Officials, At(p, "save")', doing'[p].import \in Replaces,
             NEW x \in votante', x.from \in Replaces, x.from # doing'[p].import
      PROVE  {x.from, doing'[p].import} \in together
  <2>1. p # o /\ doing'[p] = doing[p] /\ At(p, "save")
    BY <1>6 DEF At
  <2>2. CASE x \in votante
    BY <1>6, <2>1, <2>2 DEF RegisterInv, Apart
  <2>3. CASE x \notin votante
    <3>1. x.from = i
      BY <1>2, <1>3, <2>3
    <3> QED BY <1>x, <2>1, <3>1
  <2> QED BY <2>2, <2>3
<1>7. Apart'
  BY <1>5, <1>6 DEF Apart
<1> QED BY <1>2, <1>4, <1>7

LEMMA RegisterStarts == Init => RegisterInv
BY DEF Init, RegisterInv, DoingOK, Whole, Kept, Apart, TwoRegistersOnlyByOverlap, Doing, At, Idle

LEMMA ImportKeeps ==
  ASSUME RegisterInv, NEW o \in Officials, NEW i \in Imports, Import(o, i)
  PROVE  RegisterInv'
<1> DEFINE step == IF i \in Replaces THEN "clear" ELSE "save"
<1>0. /\ DoingOK /\ At(o, "idle") /\ i \notin done /\ done' = done \cup {i}
      /\ (i \in Replaces \/ List[i] # {})
      /\ UNCHANGED <<votante, promised, emptied, imported>>
      /\ together' = together \cup {{i, j} : j \in InFlight}
  BY DEF Import, RegisterInv
<1>1. /\ doing' = [p \in Officials |-> doing'[p]]
      /\ \A p \in Officials : p # o => doing'[p] = doing[p]
      /\ doing'[o] = [step |-> IF i \in Replaces THEN "clear" ELSE "save", import |-> i]
  BY DEF Import, Until, RegisterInv, DoingOK
<1>2. /\ doing'[o].import = i /\ Doing(o)'
      /\ At(o, "clear")' => i \in Replaces
      /\ At(o, "save")' => i \notin Replaces /\ List[i] # {}
  BY <1>0, <1>1 DEF Doing, At
<1>3. \A p \in Officials : p # o /\ Doing(p) => doing[p].import # i /\ {i, doing[p].import} \in together'
  <2> SUFFICES ASSUME NEW p \in Officials, p # o, Doing(p)
               PROVE  doing[p].import # i /\ {i, doing[p].import} \in together'
    OBVIOUS
  <2>1. doing[p].import \in InFlight
    BY DEF InFlight, Doing, At
  <2> QED BY <1>0, <2>1 DEF DoingOK
<1>4. DoingOK'
  <2>1. \A p \in Officials : At(p, "idle")' \/ Doing(p)'
    BY <1>0, <1>1, <1>2 DEF DoingOK, At, Doing
  <2>2. \A p \in Officials : Doing(p)' =>
          /\ doing'[p].import \in Imports /\ doing'[p].import \in done'
          /\ At(p, "clear")' => doing'[p].import \in Replaces
          /\ At(p, "save")' => List[doing'[p].import] # {}
    BY <1>0, <1>1, <1>2 DEF DoingOK, At, Doing
  <2>3. ASSUME NEW p \in Officials, NEW q \in Officials, p # q, Doing(p)', Doing(q)'
        PROVE  /\ doing'[p].import # doing'[q].import
               /\ {doing'[p].import, doing'[q].import} \in together'
    <3>1. CASE p = o
      BY <1>1, <1>2, <1>3, <2>3, <3>1 DEF Doing
    <3>2. CASE q = o
      <4>1. doing[p].import # i /\ {i, doing[p].import} \in together' /\ doing'[p] = doing[p]
        BY <1>1, <1>3, <2>3, <3>2 DEF Doing
      <4>2. {i, doing[p].import} = {doing'[p].import, doing'[q].import}
        BY <1>2, <3>2, <4>1
      <4> QED BY <1>2, <3>2, <4>1, <4>2
    <3>3. CASE p # o /\ q # o
      BY <1>0, <1>1, <2>3, <3>3 DEF DoingOK, Doing
    <3> QED BY <3>1, <3>2, <3>3
  <2> QED BY <1>1, <2>1, <2>2, <2>3 DEF DoingOK
<1>5. Whole' /\ Kept'
  BY <1>0 DEF RegisterInv, Whole, Kept, RowsOf, normalizeDocumento
<1>6. Apart'
  <2>1. together \subseteq together'
    BY <1>0
  <2>2. TwoRegistersOnlyByOverlap'
    BY <1>0, <2>1 DEF RegisterInv, Apart, TwoRegistersOnlyByOverlap
  <2>3. \A p \in Officials : At(p, "save")' /\ doing'[p].import \in Replaces =>
          p # o /\ At(p, "save") /\ doing'[p] = doing[p]
    BY <1>1, <1>2 DEF At
  <2>4. \A p \in Officials : At(p, "save")' /\ doing'[p].import \in Replaces =>
          \A x \in votante' : x.from \in Replaces /\ x.from # doing'[p].import =>
            {x.from, doing'[p].import} \in together'
    BY <1>0, <2>1, <2>3 DEF RegisterInv, Apart
  <2> QED BY <2>2, <2>4 DEF Apart
<1> QED BY <1>4, <1>5, <1>6 DEF RegisterInv

LEMMA ClearKeeps ==
  ASSUME RegisterInv, NEW o \in Officials, Clear(o)
  PROVE  RegisterInv'
<1>1. /\ At(o, "clear") /\ votante' = {} /\ promised' = {} /\ emptied' # {}
      /\ UNCHANGED <<done, together>>
      /\ \/ End(o)
         \/ List[doing[o].import] # {} /\ Until(o, "save", doing[o].import)
  BY DEF Clear
<1>2. DoingOK'
  BY <1>1, Proceeds DEF RegisterInv, Doing, At
<1>3. Whole' /\ Kept' /\ Apart'
  BY <1>1 DEF Whole, Kept, Apart, TwoRegistersOnlyByOverlap
<1> QED BY <1>2, <1>3 DEF RegisterInv

LEMMA SaveListKeeps ==
  ASSUME RegisterInv, NEW o \in Officials, Save(o)
  PROVE  RegisterInv'
<1> DEFINE i == doing[o].import
<1>1. /\ At(o, "save") /\ votante' = Saved(i) /\ promised' = promised \cup {i}
      /\ emptied' = emptied \ {i} /\ imported' = TRUE /\ End(o) /\ UNCHANGED <<done, together>>
  BY DEF Save
<1>2. Doing(o) /\ i \in Imports /\ List[i] # {}
  BY <1>1 DEF RegisterInv, DoingOK, Doing, At
<1>3. /\ DoingOK' /\ doing'[o] = Idle /\ \A p \in Officials : p # o => doing'[p] = doing[p]
  BY <1>1, <1>2, Proceeds DEF RegisterInv
<1>4. ~At(o, "save")'
  BY <1>3 DEF At, Idle
<1>5. Whole' /\ Apart' /\ votante \subseteq votante'
  BY <1>1, <1>3, <1>4, Adds
<1>6. RowsOf(i) \subseteq votante'
  BY <1>1 DEF Saved, RowsOf
<1> HIDE DEF i
<1>7. Kept'
  <2>1. \A j \in promised' : RowsOf(j) \subseteq votante'
    BY <1>1, <1>5, <1>6 DEF RegisterInv, Kept
  <2>2. \E j \in Imports : List[j] # {} /\ RowsOf(j) \subseteq votante'
    BY <1>2, <1>6
  <2> QED BY <2>1, <2>2 DEF Kept, RowsOf, normalizeDocumento
<1> QED BY <1>3, <1>5, <1>7 DEF RegisterInv

LEMMA ImportFails ==
  ASSUME RegisterInv, NEW o \in Officials, ClearFails(o) \/ SaveFails(o)
  PROVE  RegisterInv'
<1>1. /\ End(o) /\ UNCHANGED <<done, together, promised, emptied, imported>>
      /\ \/ At(o, "clear") /\ votante' = votante
         \/ At(o, "save") /\ (votante' = votante \/ votante' = Saved(doing[o].import))
  BY DEF ClearFails, SaveFails, Fault, ghosts
<1>2. Doing(o)
  BY <1>1 DEF Doing, At
<1>3. /\ DoingOK' /\ doing'[o] = Idle /\ \A p \in Officials : p # o => doing'[p] = doing[p]
  BY <1>1, <1>2, Proceeds DEF RegisterInv
<1>4. ~At(o, "save")'
  BY <1>3 DEF At, Idle
<1>5. Whole' /\ Apart' /\ votante \subseteq votante'
  <2>1. CASE At(o, "save")
    BY <1>1, <1>3, <1>4, <2>1, Adds DEF At
  <2>2. CASE At(o, "clear")
    <3>1. votante' = votante
      BY <1>1, <2>2 DEF At
    <3>2. Whole' /\ TwoRegistersOnlyByOverlap'
      BY <1>1, <3>1 DEF RegisterInv, Whole, Apart, TwoRegistersOnlyByOverlap, RowsOf, normalizeDocumento
    <3>3. \A p \in Officials : At(p, "save")' => p # o /\ At(p, "save") /\ doing'[p] = doing[p]
      BY <1>3, <1>4 DEF At
    <3> QED BY <1>1, <3>1, <3>2, <3>3 DEF RegisterInv, Apart
  <2> QED BY <1>1, <2>1, <2>2
<1>6. Kept'
  BY <1>1, <1>5 DEF RegisterInv, Kept, RowsOf, normalizeDocumento
<1> QED BY <1>3, <1>5, <1>6 DEF RegisterInv

LEMMA RegisterStepKeeps == RegisterInv /\ [Next]_vars => RegisterInv'
<1> SUFFICES ASSUME RegisterInv, [Next]_vars PROVE RegisterInv'
  OBVIOUS
<1>1. CASE Crash
  <2>1. /\ doing' = [o \in Officials |-> Idle]
        /\ UNCHANGED <<votante, done, promised, emptied, imported, together>>
    BY <1>1 DEF Crash, ghosts
  <2>2. DoingOK' /\ \A o \in Officials : ~At(o, "save")'
    BY <2>1 DEF DoingOK, Doing, At, Idle
  <2>3. Whole' /\ Kept' /\ Apart'
    BY <2>1, <2>2 DEF RegisterInv, Whole, Kept, Apart, TwoRegistersOnlyByOverlap, RowsOf, normalizeDocumento
  <2> QED BY <2>2, <2>3 DEF RegisterInv
<1>2. CASE UNCHANGED vars
  BY <1>2 DEF vars, RegisterInv, DoingOK, Whole, Kept, Apart, TwoRegistersOnlyByOverlap, Doing, At,
              RowsOf, normalizeDocumento
<1> QED BY <1>1, <1>2, ImportKeeps, ClearKeeps, SaveListKeeps, ImportFails DEF Next

\* The register's safety, for any lists, officials, failures and stops.
LEMMA RegisterInductive == Spec => []RegisterInv
BY RegisterStarts, RegisterStepKeeps, PTL DEF Spec

----------------------------------------------------------------------------
(* Conversations: what a history says happened                             *)

\* Operations in flight; those whose call is to be made, and messages whose entry is.
Flights == [step : {"post", "persist"}, kind : Handoffs!Kinds, contact : Contacts]
Waiting == {o \in Officials : req[o].step = "post"}
Owed(c) == {o \in Officials : req[o].step = "persist" /\ req[o].contact = c /\ req[o].kind = "message"}
Flying(o, c) == req[o].step # "idle" /\ req[o].contact = c /\ req[o].kind \in Handoffs!Handoffs
Switching(o, c) == Flying(o, c) /\ req[o].step = "persist"
EntriesOf(h, k) == {i \in DOMAIN h : h[i] = k}
SaysTaken(h) == \E i \in DOMAIN h : h[i] = "take" /\ \A j \in DOMAIN h : j > i => h[j] # "release"

HandoffShape ==
  /\ req \in [Officials -> {Handoffs!Idle} \cup Flights]
  /\ blacklist \subseteq Contacts
  /\ delivered \in [Contacts -> Nat] /\ answered \in [Contacts -> [Handoffs!Kinds -> Nat]]
  /\ history \in [Contacts -> Seq(Handoffs!Kinds)]
  /\ requests \in Nat /\ requests <= MaxRequests

\* What was delivered, or may be, was asked for.
DeliveriesAreAsked ==
  IsFiniteSet(Waiting) /\ \A c \in Contacts : delivered[c] + Cardinality(Waiting) <= requests

\* A message told of, or whose entry is due, was delivered, and every other one is untold.
SuccessesAreDelivered ==
  \A c \in Contacts :
    /\ IsFiniteSet(Owed(c))
    /\ answered[c]["message"] + Cardinality(Owed(c)) <= delivered[c]
    /\ c \notin untold => answered[c]["message"] + Cardinality(Owed(c)) = delivered[c]

EntriesAreAnswered ==
  \A c \in Contacts : \A k \in Handoffs!Kinds : Cardinality(EntriesOf(history[c], k)) <= answered[c][k]

\* Handoffs of a contact follow one another; the bot is ahead of the history by the one
\* whose entry is due.
ModeIsTold ==
  \A c \in Contacts \ handoffMixed :
    /\ \A o, p \in Officials : Flying(o, c) /\ Flying(p, c) => o = p
    /\ c \notin untold =>
         /\ \A o \in Officials : Switching(o, c) => (c \in blacklist <=> req[o].kind = "take")
         /\ (\A o \in Officials : ~Switching(o, c)) => (SaysTaken(history[c]) <=> c \in blacklist)

HandoffInv ==
  HandoffShape /\ DeliveriesAreAsked /\ SuccessesAreDelivered /\ EntriesAreAnswered /\ ModeIsTold

LEMMA SameCount == \A S : Handoffs!Cardinality(S) = Cardinality(S)
BY DEF Handoffs!Cardinality, Cardinality, Handoffs!IsFiniteSet, IsFiniteSet

LEMMA EntriesAreFinite ==
  ASSUME NEW h \in Seq(Handoffs!Kinds), NEW k
  PROVE  IsFiniteSet(EntriesOf(h, k)) /\ EntriesOf(h, k) \subseteq 1..Len(h)
<1>1. EntriesOf(h, k) \subseteq 1..Len(h)
  BY DEF EntriesOf
<1>2. IsFiniteSet(1..Len(h))
  BY FS_Interval
<1> QED BY <1>1, <1>2, FS_Subset

LEMMA OneEntryMore ==
  ASSUME NEW h \in Seq(Handoffs!Kinds), NEW e \in Handoffs!Kinds, NEW k
  PROVE  Cardinality(EntriesOf(Append(h, e), k)) = Cardinality(EntriesOf(h, k)) + IF e = k THEN 1 ELSE 0
<1>1. IsFiniteSet(EntriesOf(h, k)) /\ EntriesOf(h, k) \subseteq 1..Len(h)
  BY EntriesAreFinite
<1>2. Len(h) \in Nat /\ Len(h) + 1 \notin EntriesOf(h, k)
  BY <1>1
<1>3. CASE e = k
  <2>1. EntriesOf(Append(h, e), k) = EntriesOf(h, k) \cup {Len(h) + 1}
    BY <1>3 DEF EntriesOf
  <2> QED BY <1>1, <1>2, <1>3, <2>1, FS_AddElement
<1>4. CASE e # k
  <2>1. EntriesOf(Append(h, e), k) = EntriesOf(h, k)
    BY <1>4 DEF EntriesOf
  <2>2. Cardinality(EntriesOf(h, k)) \in Nat
    BY <1>1, FS_CardinalityType
  <2> QED BY <1>4, <2>1, <2>2
<1> QED BY <1>3, <1>4

LEMMA TakenAfter ==
  ASSUME NEW h \in Seq(Handoffs!Kinds), NEW e \in Handoffs!Kinds
  PROVE  /\ e = "take" => SaysTaken(Append(h, e))
         /\ e = "release" => ~SaysTaken(Append(h, e))
         /\ e = "message" => (SaysTaken(Append(h, e)) <=> SaysTaken(h))
<1> DEFINE n == Len(h)
           g == Append(h, e)
<1>1. /\ n \in Nat /\ DOMAIN h = 1..n /\ DOMAIN g = 1..(n + 1) /\ g[n + 1] = e
      /\ \A i \in 1..n : g[i] = h[i]
  OBVIOUS
<1> HIDE DEF n, g
<1>2. e = "take" => SaysTaken(g)
  BY <1>1 DEF SaysTaken
<1>3. e = "release" => ~SaysTaken(g)
  <2> SUFFICES ASSUME e = "release", NEW i \in DOMAIN g, g[i] = "take",
                      \A j \in DOMAIN g : j > i => g[j] # "release"
               PROVE  FALSE
    BY DEF SaysTaken
  <2> QED BY <1>1
<1>4. e = "message" => (SaysTaken(g) <=> SaysTaken(h))
  <2>1. ASSUME e = "message", SaysTaken(g) PROVE SaysTaken(h)
    <3>1. PICK i \in DOMAIN g : g[i] = "take" /\ \A j \in DOMAIN g : j > i => g[j] # "release"
      BY <2>1 DEF SaysTaken
    <3>2. i \in 1..n
      BY <1>1, <2>1, <3>1
    <3>3. h[i] = "take" /\ \A j \in DOMAIN h : j > i => h[j] # "release"
      BY <1>1, <3>1, <3>2
    <3> QED BY <1>1, <3>2, <3>3 DEF SaysTaken
  <2>2. ASSUME e = "message", SaysTaken(h) PROVE SaysTaken(g)
    <3>1. PICK i \in DOMAIN h : h[i] = "take" /\ \A j \in DOMAIN h : j > i => h[j] # "release"
      BY <2>2 DEF SaysTaken
    <3>2. i \in DOMAIN g /\ g[i] = "take" /\ \A j \in DOMAIN g : j > i => g[j] # "release"
      BY <1>1, <2>2, <3>1
    <3> QED BY <3>2 DEF SaysTaken
  <2> QED BY <2>1, <2>2
<1> QED BY <1>2, <1>3, <1>4 DEF g

\* A step turns what one official waits for into something else.
Turn(o, r) == /\ req' = [p \in Officials |-> IF p = o THEN r ELSE req[p]]
              /\ r \in {Handoffs!Idle} \cup Flights

LEMMA Turns ==
  ASSUME HandoffShape, NEW o \in Officials, NEW r, Turn(o, r)
  PROVE  /\ req' \in [Officials -> {Handoffs!Idle} \cup Flights]
         /\ req'[o] = r /\ \A p \in Officials : p # o => req'[p] = req[p]
BY DEF Turn, HandoffShape

\* The calls to be made, and the entries due, but for the official whose turn it is.
LEMMA WaitingAfter ==
  ASSUME HandoffShape, IsFiniteSet(Waiting), NEW o \in Officials, NEW r, Turn(o, r)
  PROVE  /\ IsFiniteSet(Waiting') /\ Cardinality(Waiting) \in Nat /\ Cardinality(Waiting') \in Nat
         /\ req[o].step = "post" /\ r.step # "post" => Cardinality(Waiting') = Cardinality(Waiting) - 1
         /\ req[o].step # "post" /\ r.step = "post" => Cardinality(Waiting') = Cardinality(Waiting) + 1
         /\ req[o].step # "post" /\ r.step # "post" => Cardinality(Waiting') = Cardinality(Waiting)
<1>1. req'[o] = r /\ \A p \in Officials : p # o => req'[p] = req[p]
  BY Turns
<1>2. CASE req[o].step = "post" /\ r.step # "post"
  <2>1. o \in Waiting /\ Waiting' = Waiting \ {o}
    BY <1>1, <1>2 DEF Waiting
  <2> QED BY <1>2, <2>1, FS_RemoveElement, FS_CardinalityType
<1>3. CASE req[o].step # "post" /\ r.step = "post"
  <2>1. o \notin Waiting /\ Waiting' = Waiting \cup {o}
    BY <1>1, <1>3 DEF Waiting
  <2> QED BY <1>3, <2>1, FS_AddElement, FS_CardinalityType
<1>4. CASE (req[o].step = "post") <=> (r.step = "post")
  <2>1. Waiting' = Waiting
    BY <1>1, <1>4 DEF Waiting
  <2> QED BY <1>4, <2>1, FS_CardinalityType
<1> QED BY <1>2, <1>3, <1>4

Owes(r, c) == r.step = "persist" /\ r.contact = c /\ r.kind = "message"

LEMMA OwedAfter ==
  ASSUME HandoffShape, NEW c, IsFiniteSet(Owed(c)), NEW o \in Officials, NEW r, Turn(o, r)
  PROVE  /\ IsFiniteSet(Owed(c)') /\ Cardinality(Owed(c)) \in Nat /\ Cardinality(Owed(c)') \in Nat
         /\ Owes(req[o], c) /\ ~Owes(r, c) => Cardinality(Owed(c)') = Cardinality(Owed(c)) - 1
         /\ ~Owes(req[o], c) /\ Owes(r, c) => Cardinality(Owed(c)') = Cardinality(Owed(c)) + 1
         /\ ~Owes(req[o], c) /\ ~Owes(r, c) => Cardinality(Owed(c)') = Cardinality(Owed(c))
<1>1. req'[o] = r /\ \A p \in Officials : p # o => req'[p] = req[p]
  BY Turns
<1>2. CASE Owes(req[o], c) /\ ~Owes(r, c)
  <2>1. o \in Owed(c) /\ Owed(c)' = Owed(c) \ {o}
    BY <1>1, <1>2 DEF Owed, Owes
  <2> QED BY <1>2, <2>1, FS_RemoveElement, FS_CardinalityType
<1>3. CASE ~Owes(req[o], c) /\ Owes(r, c)
  <2>1. o \notin Owed(c) /\ Owed(c)' = Owed(c) \cup {o}
    BY <1>1, <1>3 DEF Owed, Owes
  <2> QED BY <1>3, <2>1, FS_AddElement, FS_CardinalityType
<1>4. CASE Owes(req[o], c) <=> Owes(r, c)
  <2>1. Owed(c)' = Owed(c)
    BY <1>1, <1>4 DEF Owed, Owes
  <2> QED BY <1>4, <2>1, FS_CardinalityType
<1> QED BY <1>2, <1>3, <1>4

LEMMA HandoffInitInv == Handoffs!Init => HandoffInv
<1> SUFFICES ASSUME Handoffs!Init PROVE HandoffInv
  OBVIOUS
<1>1. /\ req = [o \in Officials |-> [step |-> "idle"]] /\ blacklist = {} /\ requests = 0
      /\ delivered = [c \in Contacts |-> 0] /\ history = [c \in Contacts |-> << >>]
      /\ answered = [c \in Contacts |-> [k \in Handoffs!Kinds |-> 0]] /\ handoffMixed = {}
  BY DEF Handoffs!Init, Handoffs!Idle
<1>2. HandoffShape
  BY <1>1, HandoffHolds DEF HandoffShape, Handoffs!Idle, Handoffs!ContactsAssumption
<1>3. Waiting = {} /\ \A c : Owed(c) = {}
  BY <1>1 DEF Waiting, Owed
<1>a. IsFiniteSet(Waiting) /\ Cardinality(Waiting) = 0
  BY <1>3, FS_EmptySet
<1>b. \A c : IsFiniteSet(Owed(c)) /\ Cardinality(Owed(c)) = 0
  BY <1>3, FS_EmptySet
<1>4. DeliveriesAreAsked
  BY <1>1, <1>a DEF DeliveriesAreAsked
<1>5. SuccessesAreDelivered
  <2>1. "message" \in Handoffs!Kinds
    BY DEF Handoffs!Kinds
  <2> QED BY <1>1, <1>b, <2>1 DEF SuccessesAreDelivered
<1>6. \A k : EntriesOf(<< >>, k) = {}
  BY DEF EntriesOf
<1>7. EntriesAreAnswered
  <2>1. \A c \in Contacts : \A k : history[c] = << >> /\ Cardinality(EntriesOf(history[c], k)) = 0
    BY <1>1, <1>6, FS_EmptySet
  <2>2. \A c \in Contacts : \A k \in Handoffs!Kinds : answered[c][k] = 0
    BY <1>1
  <2> QED BY <2>1, <2>2 DEF EntriesAreAnswered
<1>8. ~SaysTaken(<< >>)
  BY DEF SaysTaken
<1>9. ModeIsTold
  BY <1>1, <1>8 DEF ModeIsTold, Flying, Switching
<1> QED BY <1>2, <1>4, <1>5, <1>7, <1>9 DEF HandoffInv

LEMMA AskKeeps ==
  ASSUME HandoffInv, NEW o \in Officials, NEW k \in Handoffs!Kinds, NEW c \in Contacts,
         Handoffs!Ask(o, k, c)
  PROVE  HandoffInv'
<1> DEFINE r == [step |-> "post", kind |-> k, contact |-> c]
<1>1. /\ req[o].step = "idle" /\ requests < MaxRequests /\ requests' = requests + 1
      /\ req' = [req EXCEPT ![o] = r]
      /\ handoffMixed' = IF k \in Handoffs!Handoffs /\ Handoffs!InFlight(c) # {}
                           THEN handoffMixed \cup {c} ELSE handoffMixed
      /\ UNCHANGED <<blacklist, delivered, history, answered, untold>>
  BY DEF Handoffs!Ask, Handoffs!At
<1>2. HandoffShape
  BY DEF HandoffInv
<1>3. Turn(o, r)
  BY <1>1, <1>2 DEF Turn, HandoffShape, Flights
<1>4. /\ req' \in [Officials -> {Handoffs!Idle} \cup Flights]
      /\ req'[o] = r /\ \A p \in Officials : p # o => req'[p] = req[p]
  BY <1>2, <1>3, Turns
<1>5. r.step = "post" /\ r.kind = k /\ r.contact = c
  OBVIOUS
<1> HIDE DEF r
<1>6. HandoffShape'
  <2>1. requests' \in Nat /\ requests' <= MaxRequests
    BY <1>1, <1>2, HandoffHolds DEF HandoffShape, Handoffs!ContactsAssumption
  <2> QED BY <1>1, <1>2, <1>4, <2>1 DEF HandoffShape
<1>7. DeliveriesAreAsked'
  <2>1. IsFiniteSet(Waiting)
    BY DEF HandoffInv, DeliveriesAreAsked
  <2>2. IsFiniteSet(Waiting') /\ Cardinality(Waiting) \in Nat /\ Cardinality(Waiting') = Cardinality(Waiting) + 1
    BY <1>1, <1>2, <1>3, <1>5, <2>1, WaitingAfter
  <2>3. \A d \in Contacts : delivered[d] \in Nat /\ delivered'[d] = delivered[d]
    BY <1>1, <1>2 DEF HandoffShape
  <2>4. \A d \in Contacts : delivered'[d] + Cardinality(Waiting') <= requests'
    BY <1>1, <1>2, <2>2, <2>3 DEF HandoffInv, DeliveriesAreAsked, HandoffShape
  <2> QED BY <2>2, <2>4 DEF DeliveriesAreAsked
<1>8. SuccessesAreDelivered'
  <2>1. \A d : Owed(d)' = Owed(d)
    BY <1>1, <1>4, <1>5 DEF Owed
  <2> QED BY <1>1, <2>1 DEF HandoffInv, SuccessesAreDelivered
<1>9. EntriesAreAnswered'
  BY <1>1 DEF HandoffInv, EntriesAreAnswered, EntriesOf
<1>10. ModeIsTold'
  <2> SUFFICES ASSUME NEW d \in Contacts, d \notin handoffMixed'
               PROVE  /\ \A p, q \in Officials : Flying(p, d)' /\ Flying(q, d)' => p = q
                      /\ d \notin untold =>
                           /\ \A p \in Officials : Switching(p, d)' => (d \in blacklist <=> req'[p].kind = "take")
                           /\ (\A p \in Officials : ~Switching(p, d)') => (SaysTaken(history[d]) <=> d \in blacklist)
    BY <1>1 DEF ModeIsTold
  <2>1. d \notin handoffMixed
    BY <1>1
  <2>2. \A p \in Officials : p # o => (Flying(p, d)' <=> Flying(p, d))
    BY <1>4 DEF Flying
  <2>3. \A p \in Officials : Flying(o, d)' => ~Flying(p, d)
    <3> SUFFICES ASSUME Flying(o, d)', NEW p \in Officials, Flying(p, d) PROVE FALSE
      OBVIOUS
    <3>1. k \in Handoffs!Handoffs /\ c = d
      BY <1>4, <1>5 DEF Flying
    <3>2. p \in Handoffs!InFlight(c)
      BY <3>1 DEF Flying, Handoffs!InFlight
    <3> QED BY <1>1, <3>1, <3>2
  <2>4. \A p, q \in Officials : Flying(p, d)' /\ Flying(q, d)' => p = q
    BY <2>1, <2>2, <2>3 DEF HandoffInv, ModeIsTold
  <2>5. \A p \in Officials : (Switching(p, d)' <=> Switching(p, d)) /\ (Switching(p, d) => req'[p] = req[p])
    BY <1>1, <1>4, <1>5 DEF Flying, Switching
  <2> QED BY <2>1, <2>4, <2>5 DEF HandoffInv, ModeIsTold
<1> QED BY <1>6, <1>7, <1>8, <1>9, <1>10 DEF HandoffInv

\* An official whose call is made, or fails, whatever the bot did.
Called(o, r) ==
  /\ Turn(o, r) /\ req[o].step = "post" /\ r.step # "post"
  /\ Handoffs!BotDoes(req[o].kind, req[o].contact) \/ UNCHANGED <<blacklist, delivered>>
  /\ UNCHANGED <<history, answered, handoffMixed, requests>> /\ untold \subseteq untold'

LEMMA CalledKeeps ==
  ASSUME HandoffInv, NEW o \in Officials, NEW r, Called(o, r)
  PROVE  /\ HandoffShape' /\ DeliveriesAreAsked' /\ EntriesAreAnswered'
         /\ req'[o] = r /\ \A p \in Officials : p # o => req'[p] = req[p]
         /\ req[o].contact \in Contacts /\ req[o].kind \in Handoffs!Kinds
         /\ \A d \in Contacts : d # req[o].contact => (d \in blacklist' <=> d \in blacklist)
         /\ \A d \in Contacts : delivered'[d] \in Nat /\ delivered[d] \in Nat
                               /\ delivered[d] <= delivered'[d] /\ delivered'[d] <= delivered[d] + 1
<1>1. HandoffShape /\ Turn(o, r)
  BY DEF HandoffInv, Called
<1>2. /\ req' \in [Officials -> {Handoffs!Idle} \cup Flights]
      /\ req'[o] = r /\ \A p \in Officials : p # o => req'[p] = req[p]
  BY <1>1, Turns
<1>3. req[o].contact \in Contacts /\ req[o].kind \in Handoffs!Kinds
  BY DEF HandoffInv, HandoffShape, Called, Flights, Handoffs!Idle
<1>4. /\ delivered' \in [Contacts -> Nat] /\ blacklist' \subseteq Contacts
      /\ \A d \in Contacts : d # req[o].contact => (d \in blacklist' <=> d \in blacklist)
      /\ \A d \in Contacts : delivered[d] <= delivered'[d] /\ delivered'[d] <= delivered[d] + 1
  <2> DEFINE c == req[o].contact
  <2>1. /\ delivered \in [Contacts -> Nat] /\ blacklist \subseteq Contacts /\ c \in Contacts
    BY <1>1, <1>3 DEF HandoffShape
  <2>2. \/ blacklist' = blacklist \/ blacklist' = blacklist \cup {c} \/ blacklist' = blacklist \ {c}
    BY DEF Called, Handoffs!BotDoes
  <2>3. \/ delivered' = delivered \/ delivered' = [delivered EXCEPT ![c] = @ + 1]
    BY DEF Called, Handoffs!BotDoes
  <2> HIDE DEF c
  <2>4. /\ delivered' \in [Contacts -> Nat]
        /\ \A d \in Contacts : delivered[d] <= delivered'[d] /\ delivered'[d] <= delivered[d] + 1
    BY <2>1, <2>3
  <2>5. /\ blacklist' \subseteq Contacts
        /\ \A d \in Contacts : d # c => (d \in blacklist' <=> d \in blacklist)
    BY <2>1, <2>2
  <2> QED BY <2>4, <2>5 DEF c
<1>5. HandoffShape'
  BY <1>1, <1>2, <1>4 DEF HandoffShape, Called
<1>6. DeliveriesAreAsked'
  <2>1. /\ IsFiniteSet(Waiting') /\ Cardinality(Waiting) \in Nat
        /\ Cardinality(Waiting') = Cardinality(Waiting) - 1
    BY <1>1, WaitingAfter DEF Called, HandoffInv, DeliveriesAreAsked
  <2>2. \A d \in Contacts : delivered[d] \in Nat /\ delivered'[d] \in Nat
    BY <1>1, <1>4 DEF HandoffShape
  <2>3. requests' = requests /\ requests \in Nat
    BY <1>1 DEF Called, HandoffShape
  <2>4. \A d \in Contacts : delivered[d] + Cardinality(Waiting) <= requests
    BY DEF HandoffInv, DeliveriesAreAsked
  <2>5. \A d \in Contacts : delivered'[d] + Cardinality(Waiting') <= requests'
    BY <1>4, <2>1, <2>2, <2>3, <2>4
  <2> QED BY <2>1, <2>5 DEF DeliveriesAreAsked
<1>7. EntriesAreAnswered'
  BY DEF HandoffInv, EntriesAreAnswered, EntriesOf, Called
<1> QED BY <1>1, <1>2, <1>3, <1>4, <1>5, <1>6, <1>7 DEF HandoffShape

\* A call that comes to nothing, or of which no trace is left.
LEMMA GivenUp ==
  ASSUME HandoffInv, NEW o \in Officials, Called(o, Handoffs!Idle),
         UNCHANGED <<blacklist, delivered>> \/ req[o].contact \in untold'
  PROVE  HandoffInv'
<1>1. /\ HandoffShape' /\ DeliveriesAreAsked' /\ EntriesAreAnswered'
      /\ req'[o] = Handoffs!Idle /\ \A p \in Officials : p # o => req'[p] = req[p]
      /\ \A d \in Contacts : d # req[o].contact => (d \in blacklist' <=> d \in blacklist)
      /\ \A d \in Contacts : delivered'[d] \in Nat /\ delivered[d] \in Nat
                            /\ delivered[d] <= delivered'[d]
  BY CalledKeeps
<1>2. /\ req[o].step = "post" /\ req'[o].step = "idle" /\ untold \subseteq untold'
      /\ UNCHANGED <<history, answered, handoffMixed>>
  BY <1>1 DEF Called, Handoffs!Idle
<1>3. SuccessesAreDelivered'
  <2> SUFFICES ASSUME NEW c \in Contacts
               PROVE  /\ IsFiniteSet(Owed(c)')
                      /\ answered[c]["message"] + Cardinality(Owed(c)') <= delivered'[c]
                      /\ c \notin untold' => answered[c]["message"] + Cardinality(Owed(c)') = delivered'[c]
    BY <1>2 DEF SuccessesAreDelivered
  <2>1. Owed(c)' = Owed(c)
    BY <1>1, <1>2 DEF Owed
  <2>2. c \notin untold' => delivered'[c] = delivered[c]
    BY <1>1, <1>2 DEF Called, Handoffs!BotDoes, HandoffInv, HandoffShape
  <2>3. answered[c]["message"] \in Nat
    BY DEF HandoffInv, HandoffShape, Handoffs!Kinds
  <2>4. IsFiniteSet(Owed(c)) /\ Cardinality(Owed(c)) \in Nat
    BY FS_CardinalityType DEF HandoffInv, SuccessesAreDelivered
  <2> QED BY <1>1, <1>2, <2>1, <2>2, <2>3, <2>4 DEF HandoffInv, SuccessesAreDelivered
<1>4. ModeIsTold'
  <2> SUFFICES ASSUME NEW d \in Contacts, d \notin handoffMixed
               PROVE  /\ \A p, q \in Officials : Flying(p, d)' /\ Flying(q, d)' => p = q
                      /\ d \notin untold' =>
                           /\ \A p \in Officials : Switching(p, d)' => (d \in blacklist' <=> req'[p].kind = "take")
                           /\ (\A p \in Officials : ~Switching(p, d)') => (SaysTaken(history[d]) <=> d \in blacklist')
    BY <1>2 DEF ModeIsTold
  <2>1. \A p \in Officials : Flying(p, d)' => Flying(p, d)
    BY <1>1, <1>2 DEF Flying
  <2>2. \A p \in Officials : (Switching(p, d)' <=> Switching(p, d)) /\ (Switching(p, d) => req'[p] = req[p])
    BY <1>1, <1>2 DEF Flying, Switching
  <2>3. d \notin untold' => d \notin untold /\ (d \in blacklist' <=> d \in blacklist)
    BY <1>1, <1>2
  <2> QED BY <2>1, <2>2, <2>3 DEF HandoffInv, ModeIsTold
<1> QED BY <1>1, <1>3, <1>4 DEF HandoffInv

LEMMA PostKeeps ==
  ASSUME HandoffInv, NEW o \in Officials, Handoffs!Post(o)
  PROVE  HandoffInv'
<1> DEFINE k == req[o].kind
           c == req[o].contact
           r == [step |-> "persist", kind |-> k, contact |-> c]
<1>1. /\ req[o].step = "post" /\ Handoffs!BotDoes(k, c)
      /\ req' = [req EXCEPT ![o].step = "persist"]
      /\ UNCHANGED <<history, answered, handoffMixed, untold, requests>>
  BY DEF Handoffs!Post, Handoffs!At, Handoffs!Goto, Handoffs!bounds
<1>2. HandoffShape
  BY DEF HandoffInv
<1>3. req[o] \in Flights /\ [req[o] EXCEPT !.step = "persist"] = r /\ r \in Flights
  <2>1. req[o] \in {Handoffs!Idle} \cup Flights
    BY <1>2 DEF HandoffShape
  <2>2. req[o] \in Flights
    BY <1>1, <2>1 DEF Handoffs!Idle
  <2> QED BY <2>2 DEF Flights
<1>4. Called(o, r)
  <2>1. req' = [p \in Officials |-> IF p = o THEN r ELSE req[p]]
    BY <1>1, <1>2, <1>3 DEF HandoffShape
  <2>2. Turn(o, r)
    BY <1>3, <2>1 DEF Turn
  <2> QED BY <1>1, <2>2 DEF Called
<1>5. /\ HandoffShape' /\ DeliveriesAreAsked' /\ EntriesAreAnswered'
      /\ req'[o] = r /\ \A p \in Officials : p # o => req'[p] = req[p]
      /\ c \in Contacts /\ k \in Handoffs!Kinds
      /\ \A d \in Contacts : d # c => (d \in blacklist' <=> d \in blacklist)
      /\ \A d \in Contacts : delivered'[d] \in Nat /\ delivered[d] \in Nat
  BY <1>4, CalledKeeps
<1>6. r.step = "persist" /\ r.kind = k /\ r.contact = c
  OBVIOUS
<1>k. k = req[o].kind /\ c = req[o].contact
  OBVIOUS
<1>t. Turn(o, r)
  BY <1>4 DEF Called
<1> HIDE DEF r, k, c
<1>7. SuccessesAreDelivered'
  <2> SUFFICES ASSUME NEW d \in Contacts
               PROVE  /\ IsFiniteSet(Owed(d)')
                      /\ answered[d]["message"] + Cardinality(Owed(d)') <= delivered'[d]
                      /\ d \notin untold => answered[d]["message"] + Cardinality(Owed(d)') = delivered'[d]
    BY <1>1 DEF SuccessesAreDelivered
  <2>1. answered[d]["message"] \in Nat
    BY <1>2 DEF HandoffShape, Handoffs!Kinds
  <2>2. IsFiniteSet(Owed(d)) /\ ~Owes(req[o], d) /\ (Owes(r, d) <=> d = c /\ k = "message")
    BY <1>1, <1>6 DEF HandoffInv, SuccessesAreDelivered, Owes
  <2>3. /\ IsFiniteSet(Owed(d)') /\ Cardinality(Owed(d)) \in Nat
        /\ Cardinality(Owed(d)') = Cardinality(Owed(d)) + IF d = c /\ k = "message" THEN 1 ELSE 0
    BY <1>2, <1>t, <2>2, OwedAfter
  <2>4. delivered'[d] = delivered[d] + IF d = c /\ k = "message" THEN 1 ELSE 0
    BY <1>1, <1>2, <1>5 DEF Handoffs!BotDoes, HandoffShape
  <2>5. /\ answered[d]["message"] + Cardinality(Owed(d)) <= delivered[d]
        /\ d \notin untold => answered[d]["message"] + Cardinality(Owed(d)) = delivered[d]
    BY DEF HandoffInv, SuccessesAreDelivered
  <2> QED BY <1>5, <2>1, <2>3, <2>4, <2>5
<1>8. ModeIsTold'
  <2> SUFFICES ASSUME NEW d \in Contacts, d \notin handoffMixed
               PROVE  /\ \A p, q \in Officials : Flying(p, d)' /\ Flying(q, d)' => p = q
                      /\ d \notin untold =>
                           /\ \A p \in Officials : Switching(p, d)' => (d \in blacklist' <=> req'[p].kind = "take")
                           /\ (\A p \in Officials : ~Switching(p, d)') => (SaysTaken(history[d]) <=> d \in blacklist')
    BY <1>1 DEF ModeIsTold
  <2>1. \A p \in Officials : Flying(p, d)' <=> Flying(p, d)
    BY <1>1, <1>5, <1>6, <1>k DEF Flying
  <2>2. \A p, q \in Officials : Flying(p, d)' /\ Flying(q, d)' => p = q
    BY <2>1 DEF HandoffInv, ModeIsTold
  <2>3. CASE d = c /\ k \in Handoffs!Handoffs
    <3>1. Switching(o, d)' /\ \A p \in Officials : Switching(p, d)' => p = o
      BY <1>5, <1>6, <2>2, <2>3 DEF Flying, Switching
    <3>2. d \in blacklist' <=> k = "take"
      BY <1>1, <2>3 DEF Handoffs!BotDoes, Handoffs!Handoffs
    <3> QED BY <1>5, <1>6, <2>2, <3>1, <3>2
  <2>4. CASE ~(d = c /\ k \in Handoffs!Handoffs)
    <3>1. d \in blacklist' <=> d \in blacklist
      BY <1>1, <1>5, <2>4 DEF Handoffs!BotDoes, Handoffs!Handoffs
    <3>2. \A p \in Officials : (Switching(p, d)' <=> Switching(p, d)) /\ (Switching(p, d) => req'[p] = req[p])
      BY <1>1, <1>5, <1>6, <2>4 DEF Flying, Switching
    <3> QED BY <2>2, <3>1, <3>2 DEF HandoffInv, ModeIsTold
  <2> QED BY <2>3, <2>4
<1> QED BY <1>5, <1>7, <1>8 DEF HandoffInv

LEMMA CallFails ==
  ASSUME HandoffInv, NEW o \in Officials, Handoffs!NotFound(o) \/ Handoffs!PostFails(o)
  PROVE  HandoffInv'
<1>1. /\ req[o].step = "post" /\ req' = [req EXCEPT ![o] = Handoffs!Idle]
      /\ UNCHANGED <<history, answered, handoffMixed, requests>>
      /\ \/ /\ Handoffs!BotDoes(req[o].kind, req[o].contact)
            /\ untold' = untold \cup {req[o].contact}
         \/ UNCHANGED <<blacklist, delivered, untold>>
  BY DEF Handoffs!NotFound, Handoffs!PostFails, Handoffs!At, Handoffs!bounds, Handoffs!Fault
<1>2. Turn(o, Handoffs!Idle)
  BY <1>1 DEF Turn, HandoffInv, HandoffShape
<1>3. Handoffs!Idle.step = "idle"
  BY DEF Handoffs!Idle
<1>4. Called(o, Handoffs!Idle)
  BY <1>1, <1>2, <1>3 DEF Called
<1> QED BY <1>1, <1>4, GivenUp

\* The entry of an operation is added, or lost: the official is told of success.
LEMMA PersistKeeps ==
  ASSUME HandoffInv, NEW o \in Officials, Handoffs!Persist(o) \/ Handoffs!PersistFails(o)
  PROVE  HandoffInv'
<1> DEFINE k == req[o].kind
           c == req[o].contact
<1>1. /\ req[o].step = "persist" /\ req' = [req EXCEPT ![o] = Handoffs!Idle]
      /\ answered' = [answered EXCEPT ![c][k] = @ + 1]
      /\ UNCHANGED <<blacklist, delivered, handoffMixed, requests>>
      /\ \/ history' = [history EXCEPT ![c] = Append(@, k)] /\ untold' = untold
         \/ history' = history /\ untold' = untold \cup {c}
  BY DEF Handoffs!Persist, Handoffs!PersistFails, Handoffs!At, Handoffs!bounds, Handoffs!Fault, Handoffs!Entry
<1>2. HandoffShape
  BY DEF HandoffInv
<1>3. Turn(o, Handoffs!Idle)
  BY <1>1 DEF Turn, HandoffInv, HandoffShape
<1>4. /\ req' \in [Officials -> {Handoffs!Idle} \cup Flights]
      /\ req'[o] = Handoffs!Idle /\ \A p \in Officials : p # o => req'[p] = req[p]
  BY <1>2, <1>3, Turns
<1>5. Handoffs!Idle.step = "idle"
  BY DEF Handoffs!Idle
<1>6. c \in Contacts /\ k \in Handoffs!Kinds /\ k = req[o].kind /\ c = req[o].contact
  <2>1. req[o] \in Flights
    BY <1>1, <1>2, <1>5 DEF HandoffShape
  <2> QED BY <2>1 DEF Flights
<1> HIDE DEF k, c
<1>7. answered' \in [Contacts -> [Handoffs!Kinds -> Nat]]
  BY <1>1, <1>2, <1>6 DEF HandoffShape
<1>8. \A d \in Contacts : \A l \in Handoffs!Kinds :
        /\ answered[d][l] \in Nat
        /\ answered'[d][l] = answered[d][l] + IF d = c /\ l = k THEN 1 ELSE 0
  BY <1>1, <1>2, <1>6 DEF HandoffShape
<1>9. /\ history' \in [Contacts -> Seq(Handoffs!Kinds)]
      /\ \A d \in Contacts : history[d] \in Seq(Handoffs!Kinds)
      /\ \A d \in Contacts : d # c => history'[d] = history[d]
      /\ history'[c] = history[c] \/ history'[c] = Append(history[c], k)
      /\ c \notin untold' => history'[c] = Append(history[c], k)
  <2>1. \A d \in Contacts : history[d] \in Seq(Handoffs!Kinds)
    BY <1>2 DEF HandoffShape
  <2>2. Append(history[c], k) \in Seq(Handoffs!Kinds)
    BY <1>6, <2>1
  <2>3. history \in [Contacts -> Seq(Handoffs!Kinds)]
    BY <1>2 DEF HandoffShape
  <2> QED BY <1>1, <1>6, <2>1, <2>2, <2>3
<1>10. HandoffShape'
  BY <1>1, <1>2, <1>4, <1>7, <1>9 DEF HandoffShape
<1>11. DeliveriesAreAsked'
  <2>1. Waiting' = Waiting
    BY <1>1, <1>4, <1>5 DEF Waiting
  <2> QED BY <1>1, <2>1 DEF HandoffInv, DeliveriesAreAsked
<1>12. SuccessesAreDelivered'
  <2> SUFFICES ASSUME NEW d \in Contacts
               PROVE  /\ IsFiniteSet(Owed(d)')
                      /\ answered'[d]["message"] + Cardinality(Owed(d)') <= delivered[d]
                      /\ d \notin untold' => answered'[d]["message"] + Cardinality(Owed(d)') = delivered[d]
    BY <1>1 DEF SuccessesAreDelivered
  <2>1. IsFiniteSet(Owed(d)) /\ ~Owes(Handoffs!Idle, d) /\ (Owes(req[o], d) <=> d = c /\ k = "message")
    BY <1>1, <1>5, <1>6 DEF HandoffInv, SuccessesAreDelivered, Owes
  <2>2. /\ IsFiniteSet(Owed(d)') /\ Cardinality(Owed(d)) \in Nat /\ Cardinality(Owed(d)') \in Nat
        /\ Cardinality(Owed(d)') = Cardinality(Owed(d)) - IF d = c /\ k = "message" THEN 1 ELSE 0
    BY <1>2, <1>3, <2>1, OwedAfter
  <2>3. /\ answered[d]["message"] \in Nat
        /\ answered'[d]["message"] = answered[d]["message"] + IF d = c /\ k = "message" THEN 1 ELSE 0
    BY <1>8 DEF Handoffs!Kinds
  <2>4. /\ answered[d]["message"] + Cardinality(Owed(d)) <= delivered[d]
        /\ d \notin untold => answered[d]["message"] + Cardinality(Owed(d)) = delivered[d]
    BY DEF HandoffInv, SuccessesAreDelivered
  <2>5. untold \subseteq untold'
    BY <1>1
  <2> QED BY <2>2, <2>3, <2>4, <2>5
<1>13. EntriesAreAnswered'
  <2> SUFFICES ASSUME NEW d \in Contacts, NEW l \in Handoffs!Kinds
               PROVE  Cardinality(EntriesOf(history'[d], l)) <= answered'[d][l]
    BY DEF EntriesAreAnswered, EntriesOf
  <2>1. Cardinality(EntriesOf(history[d], l)) \in Nat /\ Cardinality(EntriesOf(history[d], l)) <= answered[d][l]
    BY <1>9, EntriesAreFinite, FS_CardinalityType DEF HandoffInv, EntriesAreAnswered
  <2>2. CASE history'[d] = history[d]
    BY <1>8, <2>1, <2>2
  <2>3. CASE d = c /\ history'[c] = Append(history[c], k)
    <3>1. Cardinality(EntriesOf(Append(history[c], k), l)) = Cardinality(EntriesOf(history[c], l)) + IF k = l THEN 1 ELSE 0
      BY <1>6, <1>9, OneEntryMore
    <3> QED BY <1>8, <2>1, <2>3, <3>1
  <2> QED BY <1>9, <2>2, <2>3
<1>14. ModeIsTold'
  <2> SUFFICES ASSUME NEW d \in Contacts, d \notin handoffMixed
               PROVE  /\ \A p, q \in Officials : Flying(p, d)' /\ Flying(q, d)' => p = q
                      /\ d \notin untold' =>
                           /\ \A p \in Officials : Switching(p, d)' => (d \in blacklist <=> req'[p].kind = "take")
                           /\ (\A p \in Officials : ~Switching(p, d)') => (SaysTaken(history'[d]) <=> d \in blacklist)
    BY <1>1 DEF ModeIsTold, SaysTaken
  <2>1. \A p \in Officials : Flying(p, d)' => p # o /\ Flying(p, d)
    BY <1>4, <1>5 DEF Flying
  <2>2. \A p, q \in Officials : Flying(p, d)' /\ Flying(q, d)' => p = q
    BY <2>1 DEF HandoffInv, ModeIsTold
  <2>t. LET g == Append(history[c], k) IN
        /\ k = "take" => SaysTaken(g)
        /\ k = "release" => ~SaysTaken(g)
        /\ k = "message" => (SaysTaken(g) <=> SaysTaken(history[c]))
    <3>1. history[c] \in Seq(Handoffs!Kinds) /\ k \in Handoffs!Kinds
      BY <1>6, <1>9
    <3> QED BY <3>1, TakenAfter, Zenon
  <2>3. CASE d = c /\ k \in Handoffs!Handoffs
    <3>1. Switching(o, d) /\ \A p \in Officials : ~Flying(p, d)'
      BY <1>1, <1>6, <2>1, <2>3 DEF Flying, Switching, HandoffInv, ModeIsTold
    <3>2. d \notin untold' => (d \in blacklist <=> k = "take")
      BY <1>1, <1>6, <3>1 DEF HandoffInv, ModeIsTold
    <3>3. d \notin untold' => (SaysTaken(history'[d]) <=> k = "take")
      BY <1>9, <2>t, <2>3 DEF Handoffs!Handoffs
    <3> QED BY <2>2, <3>1, <3>2, <3>3 DEF Switching
  <2>4. CASE ~(d = c /\ k \in Handoffs!Handoffs)
    <3>1. d \notin untold' => (SaysTaken(history'[d]) <=> SaysTaken(history[d]))
      <4>1. CASE d # c
        BY <1>9, <4>1
      <4>2. CASE d = c
        <5>1. k = "message"
          BY <1>6, <2>4, <4>2 DEF Handoffs!Kinds, Handoffs!Handoffs
        <5> QED BY <1>9, <2>t, <4>2, <5>1
      <4> QED BY <4>1, <4>2
    <3>2. \A p \in Officials : (Switching(p, d)' <=> Switching(p, d)) /\ (Switching(p, d) => req'[p] = req[p])
      BY <1>1, <1>4, <1>5, <1>6, <2>4 DEF Flying, Switching
    <3>3. untold \subseteq untold'
      BY <1>1
    <3> QED BY <2>2, <3>1, <3>2, <3>3 DEF HandoffInv, ModeIsTold
  <2> QED BY <2>3, <2>4
<1> QED BY <1>10, <1>11, <1>12, <1>13, <1>14 DEF HandoffInv

\* The entries that were due never will be there.
LEMMA HandoffCrashKeeps ==
  ASSUME HandoffInv, Handoffs!Crash
  PROVE  HandoffInv'
<1>1. /\ req' = [o \in Officials |-> Handoffs!Idle]
      /\ untold' = untold \cup {req[o].contact : o \in {p \in Officials : req[p].step = "persist"}}
      /\ UNCHANGED <<blacklist, delivered, history, answered, handoffMixed, requests>>
  BY DEF Handoffs!Crash, Handoffs!At
<1>2. \A o \in Officials : req'[o].step = "idle"
  BY <1>1 DEF Handoffs!Idle
<1>3. HandoffShape'
  BY <1>1 DEF HandoffInv, HandoffShape
<1>4. /\ IsFiniteSet(Waiting') /\ Cardinality(Waiting') = 0
      /\ \A c : IsFiniteSet(Owed(c)') /\ Cardinality(Owed(c)') = 0
  <2>1. Waiting' = {} /\ \A c : Owed(c)' = {}
    BY <1>2 DEF Waiting, Owed
  <2> QED BY <2>1, FS_EmptySet
<1>5. DeliveriesAreAsked'
  <2> SUFFICES ASSUME NEW c \in Contacts PROVE delivered[c] <= requests
    BY <1>1, <1>4 DEF DeliveriesAreAsked, HandoffInv, HandoffShape
  <2>1. Cardinality(Waiting) \in Nat /\ delivered[c] \in Nat /\ requests \in Nat
    BY FS_CardinalityType DEF HandoffInv, HandoffShape, DeliveriesAreAsked
  <2> QED BY <2>1 DEF HandoffInv, DeliveriesAreAsked
<1>6. SuccessesAreDelivered'
  <2> SUFFICES ASSUME NEW c \in Contacts
               PROVE  /\ answered[c]["message"] <= delivered[c]
                      /\ c \notin untold' => answered[c]["message"] = delivered[c]
    BY <1>1, <1>4 DEF SuccessesAreDelivered, HandoffInv, HandoffShape, Handoffs!Kinds
  <2>1. /\ IsFiniteSet(Owed(c)) /\ Cardinality(Owed(c)) \in Nat
        /\ answered[c]["message"] \in Nat /\ delivered[c] \in Nat
    BY FS_CardinalityType DEF HandoffInv, HandoffShape, SuccessesAreDelivered, Handoffs!Kinds
  <2>2. c \notin untold' => c \notin untold /\ Owed(c) = {}
    BY <1>1 DEF Owed
  <2>3. c \notin untold' => Cardinality(Owed(c)) = 0
    BY <2>2, FS_EmptySet
  <2> QED BY <2>1, <2>2, <2>3 DEF HandoffInv, SuccessesAreDelivered
<1>7. EntriesAreAnswered'
  BY <1>1 DEF HandoffInv, EntriesAreAnswered, EntriesOf
<1>8. ModeIsTold'
  <2> SUFFICES ASSUME NEW d \in Contacts, d \notin handoffMixed, d \notin untold'
               PROVE  SaysTaken(history[d]) <=> d \in blacklist
    BY <1>1, <1>2 DEF ModeIsTold, Flying, Switching
  <2>1. d \notin untold /\ \A p \in Officials : ~Switching(p, d)
    BY <1>1 DEF Flying, Switching
  <2> QED BY <2>1 DEF HandoffInv, ModeIsTold
<1> QED BY <1>3, <1>5, <1>6, <1>7, <1>8 DEF HandoffInv

LEMMA HandoffInductive == Handoffs!Spec => []HandoffInv
<1>1. HandoffInv /\ Handoffs!Next => HandoffInv'
  BY AskKeeps, PostKeeps, CallFails, PersistKeeps, HandoffCrashKeeps DEF Handoffs!Next
<1>2. HandoffInv /\ UNCHANGED Handoffs!vars => HandoffInv'
  BY DEF Handoffs!vars, HandoffInv, HandoffShape, DeliveriesAreAsked, SuccessesAreDelivered,
         EntriesAreAnswered, ModeIsTold, Waiting, Owed, Flying, Switching, EntriesOf, SaysTaken
<1> QED BY <1>1, <1>2, HandoffInitInv, PTL DEF Handoffs!Spec

LEMMA HistoryFollows == HandoffInv => HistoryIsTrue
<1> SUFFICES ASSUME HandoffInv PROVE HistoryIsTrue
  OBVIOUS
<1>0. HandoffShape
  BY DEF HandoffInv
<1>1. Handoffs!TypeOK
  <2>1. \A o \in Officials : req[o].step \in {"idle", "post", "persist"}
    BY <1>0 DEF HandoffShape, Handoffs!Idle, Flights
  <2>2. ASSUME NEW c \in Contacts
        PROVE  /\ delivered[c] \in 0..MaxRequests
               /\ \A i \in DOMAIN history[c] : history[c][i] \in Handoffs!Kinds
    <3>1. Cardinality(Waiting) \in Nat /\ delivered[c] \in Nat /\ requests \in Nat /\ requests <= MaxRequests
      BY <1>0, FS_CardinalityType DEF HandoffInv, HandoffShape, DeliveriesAreAsked
    <3>2. delivered[c] + Cardinality(Waiting) <= requests
      BY DEF HandoffInv, DeliveriesAreAsked
    <3>3. history[c] \in Seq(Handoffs!Kinds)
      BY <1>0 DEF HandoffShape
    <3>4. \A i \in DOMAIN history[c] : history[c][i] \in Handoffs!Kinds
      BY <3>3
    <3> QED BY <3>1, <3>2, <3>4, HandoffHolds DEF Handoffs!ContactsAssumption
  <2>3. blacklist \subseteq Contacts /\ requests \in 0..MaxRequests
    BY <1>0 DEF HandoffShape
  <2> QED BY <2>1, <2>2, <2>3 DEF Handoffs!TypeOK
<1>2. \A c \in Contacts : \A k : Handoffs!Occurrences(k, c) = Cardinality(EntriesOf(history[c], k))
  BY SameCount DEF Handoffs!Occurrences, EntriesOf
<1>3. \A c \in Contacts : /\ IsFiniteSet(Owed(c)) /\ Cardinality(Owed(c)) \in Nat
                           /\ answered[c]["message"] \in Nat /\ delivered[c] \in Nat
                           /\ \A k : Cardinality(EntriesOf(history[c], k)) \in Nat
  BY <1>0, FS_CardinalityType, EntriesAreFinite DEF HandoffInv, HandoffShape, SuccessesAreDelivered, Handoffs!Kinds
<1>4. Handoffs!EntriesHappened
  <2> SUFFICES ASSUME NEW c \in Contacts
               PROVE  /\ Cardinality(EntriesOf(history[c], "message")) <= delivered[c]
                      /\ \A k \in Handoffs!Kinds : Cardinality(EntriesOf(history[c], k)) <= answered[c][k]
    BY <1>2 DEF Handoffs!EntriesHappened
  <2>1. \A k \in Handoffs!Kinds : Cardinality(EntriesOf(history[c], k)) <= answered[c][k]
    BY DEF HandoffInv, EntriesAreAnswered
  <2>2. answered[c]["message"] + Cardinality(Owed(c)) <= delivered[c]
    BY DEF HandoffInv, SuccessesAreDelivered
  <2>3. Cardinality(EntriesOf(history[c], "message")) <= answered[c]["message"]
    BY <2>1 DEF Handoffs!Kinds
  <2>4. \A a, b, d, e \in Nat : a <= b /\ b + d <= e => a <= e
    OBVIOUS
  <2>5. Cardinality(EntriesOf(history[c], "message")) <= delivered[c]
    BY <1>3, <2>2, <2>3, <2>4
  <2> QED BY <2>1, <2>5
<1>5. \A c \in Contacts : Handoffs!Quiet(c) => Owed(c) = {} /\ \A o \in Officials : ~Flying(o, c)
  BY DEF Handoffs!Quiet, Handoffs!At, Owed, Flying
<1>6. Handoffs!SuccessIsDelivery
  <2> SUFFICES ASSUME NEW c \in Contacts
               PROVE  /\ answered[c]["message"] <= delivered[c]
                      /\ Handoffs!Quiet(c) /\ c \notin untold => answered[c]["message"] = delivered[c]
    BY DEF Handoffs!SuccessIsDelivery
  <2>1. Handoffs!Quiet(c) => Cardinality(Owed(c)) = 0
    BY <1>5, FS_EmptySet
  <2>2. /\ answered[c]["message"] + Cardinality(Owed(c)) <= delivered[c]
        /\ c \notin untold => answered[c]["message"] + Cardinality(Owed(c)) = delivered[c]
    BY DEF HandoffInv, SuccessesAreDelivered
  <2> QED BY <1>3, <2>1, <2>2
<1>7. Handoffs!HistoryTellsTheMode
  <2> SUFFICES ASSUME NEW c \in Contacts, Handoffs!Quiet(c), c \notin handoffMixed, c \notin untold
               PROVE  SaysTaken(history[c]) <=> c \in blacklist
    BY DEF Handoffs!HistoryTellsTheMode, Handoffs!ShownTaken, SaysTaken
  <2> QED BY <1>5 DEF Switching, HandoffInv, ModeIsTold
<1> QED BY <1>1, <1>4, <1>6, <1>7 DEF HistoryIsTrue

----------------------------------------------------------------------------
(* Complaints: what the history and the messages say happened              *)

\* Entries <<field, old, new>> of a field; the last of them, whether they chain, and whether
\* some entry left an estado.
Sequence(h) == \E S : h \in Seq(S)
EntriesIn(h, f) == {i \in DOMAIN h : h[i][1] = f}
LastEntry(h, f, i) == i \in EntriesIn(h, f) /\ \A k \in EntriesIn(h, f) : k <= i
EndsWith(h, f, v) == \A i \in DOMAIN h : LastEntry(h, f, i) => h[i][3] = v
EndsIn(h, f, v) == \E i \in DOMAIN h : LastEntry(h, f, i) /\ h[i][3] = v
Adjacent(h, f, i, j) ==
  i \in EntriesIn(h, f) /\ j \in EntriesIn(h, f) /\ i < j /\ \A k \in EntriesIn(h, f) : k <= i \/ j <= k
Chained(h, f) == \A i, j \in DOMAIN h : Adjacent(h, f, i, j) => h[i][3] = h[j][2]
Leaves(h, s) == \E k \in DOMAIN h : h[k][1] = "estado" /\ h[k][2] = s /\ h[k][3] # s

LEMMA Appended ==
  ASSUME NEW h, Sequence(h), NEW e
  PROVE  /\ Sequence(Append(h, e)) /\ Len(h) \in Nat /\ DOMAIN h = 1..Len(h)
         /\ DOMAIN Append(h, e) = 1..(Len(h) + 1) /\ Append(h, e)[Len(h) + 1] = e
         /\ \A i \in 1..Len(h) : Append(h, e)[i] = h[i]
<1>1. PICK S : h \in Seq(S)
  BY DEF Sequence
<1>2. h \in Seq(S \cup {e}) /\ e \in S \cup {e}
  BY <1>1
<1>3. Append(h, e) \in Seq(S \cup {e})
  BY <1>2
<1>4. Sequence(Append(h, e))
  BY <1>3 DEF Sequence
<1> QED BY <1>2, <1>4

LEMMA EmptyHistory ==
  \A f, v : /\ EntriesIn(<< >>, f) = {} /\ EndsWith(<< >>, f, v) /\ Chained(<< >>, f)
            /\ Sequence(<< >>)
<1>1. << >> \in Seq({}) /\ DOMAIN << >> = {}
  OBVIOUS
<1> QED BY <1>1 DEF EntriesIn, EndsWith, Chained, Sequence

\* What an entry <<f, a, b>> does to a history.
LEMMA EntryAdded ==
  ASSUME NEW h, Sequence(h), NEW f, NEW a, NEW b
  PROVE  LET g == Append(h, <<f, a, b>>) IN
         /\ Sequence(g)
         /\ \A d : EntriesIn(h, d) # {} => EntriesIn(g, d) # {}
         /\ EntriesIn(g, f) # {}
         /\ \A d, v : d # f => /\ EndsWith(h, d, v) => EndsWith(g, d, v)
                               /\ EndsIn(h, d, v) => EndsIn(g, d, v)
                               /\ Chained(h, d) => Chained(g, d)
         /\ EndsWith(g, f, b) /\ EndsIn(g, f, b)
         /\ Chained(h, f) /\ EndsWith(h, f, a) => Chained(g, f)
         /\ \A s : Leaves(h, s) => Leaves(g, s)
         /\ f = "estado" /\ a # b => Leaves(g, a)
<1> DEFINE g == Append(h, <<f, a, b>>)
           n == Len(h)
<1>1. /\ Sequence(g) /\ n \in Nat /\ DOMAIN h = 1..n /\ DOMAIN g = 1..(n + 1)
      /\ g[n + 1] = <<f, a, b>> /\ \A i \in 1..n : g[i] = h[i]
  BY Appended
<1> HIDE DEF g, n
<1>2. g[n + 1][1] = f /\ g[n + 1][2] = a /\ g[n + 1][3] = b /\ n + 1 \in DOMAIN g
  BY <1>1
<1>3. \A d : d # f => EntriesIn(g, d) = EntriesIn(h, d)
  BY <1>1, <1>2 DEF EntriesIn
<1>4. EntriesIn(g, f) = EntriesIn(h, f) \cup {n + 1} /\ EntriesIn(h, f) \subseteq 1..n
  BY <1>1, <1>2 DEF EntriesIn
<1>5. ASSUME NEW d, NEW v, d # f
      PROVE  /\ EndsWith(h, d, v) => EndsWith(g, d, v)
             /\ EndsIn(h, d, v) => EndsIn(g, d, v)
             /\ Chained(h, d) => Chained(g, d)
  <2>1. EntriesIn(g, d) = EntriesIn(h, d) /\ EntriesIn(h, d) \subseteq 1..n
    BY <1>1, <1>3, <1>5 DEF EntriesIn
  <2>2. \A i : LastEntry(g, d, i) => LastEntry(h, d, i) /\ g[i] = h[i] /\ i \in DOMAIN h
    BY <1>1, <2>1 DEF LastEntry
  <2>3. \A i : LastEntry(h, d, i) => LastEntry(g, d, i) /\ g[i] = h[i] /\ i \in DOMAIN g
    BY <1>1, <2>1 DEF LastEntry
  <2>4. \A i, j : Adjacent(g, d, i, j) => Adjacent(h, d, i, j) /\ g[i] = h[i] /\ g[j] = h[j]
                                          /\ i \in DOMAIN h /\ j \in DOMAIN h
    BY <1>1, <2>1 DEF Adjacent
  <2> QED BY <2>2, <2>3, <2>4 DEF EndsWith, EndsIn, Chained
<1>6. \A i : LastEntry(g, f, i) <=> i = n + 1
  BY <1>1, <1>4 DEF LastEntry
<1>7. EndsWith(g, f, b) /\ EndsIn(g, f, b)
  BY <1>2, <1>6 DEF EndsWith, EndsIn
<1>8. ASSUME Chained(h, f), EndsWith(h, f, a) PROVE Chained(g, f)
  <2> SUFFICES ASSUME NEW i \in DOMAIN g, NEW j \in DOMAIN g, Adjacent(g, f, i, j)
               PROVE  g[i][3] = g[j][2]
    BY DEF Chained
  <2>1. /\ i \in EntriesIn(g, f) /\ j \in EntriesIn(g, f) /\ i < j
        /\ \A k \in EntriesIn(g, f) : k <= i \/ j <= k
    BY DEF Adjacent
  <2>2. i \in EntriesIn(h, f) /\ i \in 1..n
    BY <1>1, <1>4, <2>1
  <2>3. CASE j = n + 1
    <3>1. LastEntry(h, f, i)
      BY <1>1, <1>4, <2>1, <2>2, <2>3 DEF LastEntry
    <3> QED BY <1>1, <1>2, <1>8, <2>2, <2>3, <3>1 DEF EndsWith
  <2>4. CASE j # n + 1
    <3>1. j \in EntriesIn(h, f) /\ j \in 1..n
      BY <1>4, <2>1, <2>4
    <3>2. Adjacent(h, f, i, j)
      BY <1>4, <2>1, <2>2, <3>1 DEF Adjacent
    <3> QED BY <1>1, <1>8, <2>2, <3>1, <3>2 DEF Chained
  <2> QED BY <2>3, <2>4
<1>9. \A s : Leaves(h, s) => Leaves(g, s)
  <2> SUFFICES ASSUME NEW s, NEW k \in DOMAIN h, h[k][1] = "estado" /\ h[k][2] = s /\ h[k][3] # s
               PROVE  Leaves(g, s)
    BY DEF Leaves
  <2>1. k \in DOMAIN g /\ g[k] = h[k]
    BY <1>1
  <2> QED BY <2>1 DEF Leaves
<1>10. f = "estado" /\ a # b => Leaves(g, a)
  BY <1>2 DEF Leaves
<1>11. EntriesIn(g, f) # {} /\ \A d : EntriesIn(h, d) # {} => EntriesIn(g, d) # {}
  BY <1>3, <1>4
<1> QED BY <1>1, <1>5, <1>7, <1>8, <1>9, <1>10, <1>11 DEF g

\* A value that ends a history is the one it ends with.
LEMMA OneEnd == \A h, f, v, w : EndsIn(h, f, v) /\ EndsWith(h, f, w) => v = w
BY DEF EndsIn, EndsWith

----------------------------------------------------------------------------

Columns == Complaints!Fields \cup {"coords"}
Told    == {"estado", "prioridad", "cuadrilla"}
AfterSave  == {"creation", "logCreation", "estado", "log", "notify", "prioridad", "cuadrilla"}
EditSteps == {"geocode", "save", "estado", "log", "notify", "prioridad", "cuadrilla"}
Working(q) == complaintPc[q] \notin Complaints!Final
DtoIs(e, f) == ComplaintDto[e][f]

ComplaintShape ==
  /\ complaintPc \in [Complaints!Requests -> Complaints!Steps]
  /\ entity = [q \in Complaints!Requests |-> entity[q]]
  /\ previous = [q \in Complaints!Requests |-> previous[q]]
  /\ stored = [c \in Creations |-> stored[c]]
  /\ historial = [c \in Creations |-> historial[c]] /\ \A c \in Creations : Sequence(historial[c])
  /\ Sequence(messages)
  /\ DOMAIN complaints \subseteq Creations /\ \A c \in DOMAIN complaints : DOMAIN complaints[c] = Columns
  /\ overlapped \subseteq Creations
  /\ complaintFaults \in Nat /\ complaintFaults <= MaxFailures

\* What a request works on: what was read with what it gives.
EntitiesFollowDto ==
  /\ \A q \in Complaints!Requests : Working(q) => DOMAIN entity[q] = Columns
  /\ \A c \in Creations : Working(c) =>
       complaintPc[c] \in {"save", "creation", "logCreation"} /\ entity[c]["estado"] = "PENDIENTE"
  /\ \A e \in ComplaintEdits : Working(e) =>
       /\ complaintPc[e] \in EditSteps /\ DOMAIN previous[e] = Columns
       /\ TargetOf[e] \in DOMAIN complaints
       /\ \A f \in Complaints!Fields :
            entity[e][f] = IF Complaints!Given(e, f) THEN DtoIs(e, f) ELSE previous[e][f]
       /\ complaintPc[e] \in {"log", "notify"} =>
            Complaints!Given(e, "estado") /\ DtoIs(e, "estado") # previous[e]["estado"]
  /\ \A c \in Creations : complaintPc[c] \in {"new", "save"} => c \notin DOMAIN complaints

CoordsFollow ==
  complaintFaults = 0 =>
    /\ \A c \in DOMAIN complaints : complaints[c]["coords"] = complaints[c]["ubicacion"]
    /\ \A q \in Complaints!Requests : complaintPc[q] = "save" => entity[q]["coords"] = entity[q]["ubicacion"]

\* What was saved is stored, and only that is told.
SavedIsStored ==
  /\ \A q \in Complaints!Requests : complaintPc[q] \in AfterSave =>
       \A f \in Complaints!Fields : <<f, entity[q][f]>> \in stored[Complaints!Target(q)]
  /\ \A c \in Creations : \A i \in DOMAIN historial[c] :
       historial[c][i][1] \in Told /\ <<historial[c][i][1], historial[c][i][3]>> \in stored[c]
  /\ \A i \in DOMAIN messages :
       messages[i][1] \in Creations /\ <<"estado", messages[i][2]>> \in stored[messages[i][1]]

\* An edit that has not come to the entry of a column.
Due(e, f) ==
  complaintPc[e] \in CASE f = "estado" -> {"estado"}
                       [] f = "prioridad" -> {"estado", "log", "notify", "prioridad"}
                       [] OTHER -> {"estado", "log", "notify", "prioridad", "cuadrilla"}

\* The history of a complaint whose requests follow one another ends with the columns of its
\* row, or with what the edit that is due to record them read.
TrailOK(c) ==
  /\ \A p, q \in Complaints!Requests :
       Working(p) /\ Working(q) /\ Complaints!Target(p) = c /\ Complaints!Target(q) = c => p = q
  /\ complaintPc[c] \in {"new", "save", "creation"} => historial[c] = << >>
  /\ \A q \in Complaints!Requests : Complaints!Target(q) = c /\ complaintPc[q] \in AfterSave =>
       c \in DOMAIN complaints /\ complaints[c] = entity[q]
  /\ \A e \in ComplaintEdits : TargetOf[e] = c /\ complaintPc[e] \in {"geocode", "save"} =>
       c \in DOMAIN complaints /\ previous[e] = complaints[c]
  /\ \A f \in Told :
       /\ Chained(historial[c], f)
       /\ \A e \in ComplaintEdits : TargetOf[e] = c /\ Due(e, f) => EndsWith(historial[c], f, previous[e][f])
       /\ c \in DOMAIN complaints /\ (\A e \in ComplaintEdits : TargetOf[e] = c => ~Due(e, f)) =>
            EndsWith(historial[c], f, complaints[c][f])
  /\ c \in DOMAIN complaints /\ complaintPc[c] # "creation" => EntriesIn(historial[c], "estado") # {}

\* An estado that was told was left since, or it is still the last.
MessagesOK(c) ==
  /\ \A i, j \in DOMAIN messages : i < j /\ messages[i] = messages[j] /\ messages[i][1] = c =>
       Leaves(historial[c], messages[i][2])
  /\ \A e \in ComplaintEdits : TargetOf[e] = c /\ complaintPc[e] \in {"log", "notify"} =>
       /\ EndsIn(historial[c], "estado", DtoIs(e, "estado"))
       /\ \A i \in DOMAIN messages : messages[i][1] = c /\ messages[i][2] = DtoIs(e, "estado") =>
            Leaves(historial[c], messages[i][2])
  /\ \A i \in DOMAIN messages : messages[i][1] = c =>
       Leaves(historial[c], messages[i][2]) \/ EndsIn(historial[c], "estado", messages[i][2])

ComplaintInv ==
  /\ ComplaintShape /\ EntitiesFollowDto /\ CoordsFollow /\ SavedIsStored
  /\ complaintFaults = 0 => \A c \in Creations \ overlapped : TrailOK(c) /\ MessagesOK(c)

\* A step of q takes it to s, and touches no complaint but that of q.
Acts(q, s) ==
  /\ q \in Complaints!Requests /\ s \in Complaints!Steps
  /\ complaintPc' = [complaintPc EXCEPT ![q] = s]
  /\ \A p \in Complaints!Requests : p # q => entity'[p] = entity[p] /\ previous'[p] = previous[p]
  /\ \A c \in Creations : c # Complaints!Target(q) =>
       /\ historial'[c] = historial[c]
       /\ c \in DOMAIN complaints' <=> c \in DOMAIN complaints
       /\ c \in DOMAIN complaints => complaints'[c] = complaints[c]
  /\ overlapped \subseteq overlapped'
  /\ complaintFaults' \in Nat /\ complaintFaults' <= MaxFailures
  /\ complaintFaults' = 0 => complaintFaults = 0
  /\ \/ messages' = messages
     \/ \E v : messages' = Append(messages, <<Complaints!Target(q), v>>)

LEMMA Acted ==
  ASSUME ComplaintShape, NEW q, NEW s, Acts(q, s)
  PROVE  /\ q \in Complaints!Requests /\ complaintPc'[q] = s
         /\ \A p \in Complaints!Requests : p # q => complaintPc'[p] = complaintPc[p]
         /\ complaintPc' \in [Complaints!Requests -> Complaints!Steps]
         /\ complaintFaults' \in Nat /\ complaintFaults' <= MaxFailures
         /\ Complaints!Target(q) \in Creations
<1>1. Complaints!Target(q) \in Creations
  BY ReclamosHolds DEF Acts, Complaints!Target, Complaints!ReclamosAssumption, Complaints!Requests
<1> QED BY <1>1 DEF Acts, ComplaintShape

LEMMA TargetOfCreation == \A c \in Creations : Complaints!Target(c) = c /\ c \in Complaints!Requests /\ c \notin ComplaintEdits
BY ReclamosHolds DEF Complaints!Target, Complaints!ReclamosAssumption, Complaints!Requests
LEMMA TargetOfEdit ==
  \A e \in ComplaintEdits : /\ Complaints!Target(e) = TargetOf[e] /\ e \in Complaints!Requests
                            /\ e \notin Creations /\ TargetOf[e] \in Creations
BY ReclamosHolds DEF Complaints!Target, Complaints!ReclamosAssumption, Complaints!Requests

FaultAtMost == /\ complaintFaults' \in Nat /\ complaintFaults' <= MaxFailures
               /\ complaintFaults' = 0 => complaintFaults = 0

LEMMA FaultsCount ==
  ASSUME ComplaintShape,
         \/ complaintFaults' = complaintFaults
         \/ complaintFaults < MaxFailures /\ complaintFaults' = complaintFaults + 1
  PROVE  FaultAtMost /\ (complaintFaults' = complaintFaults + 1 => complaintFaults' # 0)
<1>1. complaintFaults \in Nat /\ complaintFaults <= MaxFailures /\ MaxFailures \in Nat
  BY ReclamosHolds DEF ComplaintShape, Complaints!ReclamosAssumption
<1> QED BY <1>1 DEF FaultAtMost

LEMMA TrailThen ==
  ASSUME NEW c,
         \A p, q \in Complaints!Requests :
           complaintPc'[p] \notin Complaints!Final /\ complaintPc'[q] \notin Complaints!Final
           /\ Complaints!Target(p) = c /\ Complaints!Target(q) = c => p = q,
         complaintPc'[c] \in {"new", "save", "creation"} => historial'[c] = << >>,
         \A q \in Complaints!Requests : Complaints!Target(q) = c /\ complaintPc'[q] \in AfterSave =>
           c \in DOMAIN complaints' /\ complaints'[c] = entity'[q],
         \A e \in ComplaintEdits : TargetOf[e] = c /\ complaintPc'[e] \in {"geocode", "save"} =>
           c \in DOMAIN complaints' /\ previous'[e] = complaints'[c],
         \A f \in Told : Chained(historial'[c], f),
         \A f \in Told : \A e \in ComplaintEdits :
           TargetOf[e] = c /\ Due(e, f)' => EndsWith(historial'[c], f, previous'[e][f]),
         \A f \in Told : c \in DOMAIN complaints' /\ (\A e \in ComplaintEdits : TargetOf[e] = c => ~Due(e, f)') =>
           EndsWith(historial'[c], f, complaints'[c][f]),
         c \in DOMAIN complaints' /\ complaintPc'[c] # "creation" => EntriesIn(historial'[c], "estado") # {}
  PROVE  TrailOK(c)'
BY ZenonT(60) DEF TrailOK, Working, Chained, EndsWith, EntriesIn, LastEntry, Adjacent

LEMMA MessagesThen ==
  ASSUME NEW c,
         \A i, j \in DOMAIN messages' : i < j /\ messages'[i] = messages'[j] /\ messages'[i][1] = c =>
           Leaves(historial'[c], messages'[i][2]),
         \A e \in ComplaintEdits : TargetOf[e] = c /\ complaintPc'[e] \in {"log", "notify"} =>
           /\ EndsIn(historial'[c], "estado", DtoIs(e, "estado"))
           /\ \A i \in DOMAIN messages' : messages'[i][1] = c /\ messages'[i][2] = DtoIs(e, "estado") =>
                Leaves(historial'[c], messages'[i][2]),
         \A i \in DOMAIN messages' : messages'[i][1] = c =>
           Leaves(historial'[c], messages'[i][2]) \/ EndsIn(historial'[c], "estado", messages'[i][2])
  PROVE  MessagesOK(c)'
BY ZenonT(60) DEF MessagesOK, Leaves, EndsIn, LastEntry, EntriesIn, DtoIs

\* The trail and the messages of the other complaints are as they were.
LEMMA Elsewhere ==
  ASSUME ComplaintShape, NEW q, NEW s, Acts(q, s),
         NEW c \in Creations, c # Complaints!Target(q), TrailOK(c), MessagesOK(c)
  PROVE  TrailOK(c)' /\ MessagesOK(c)'
<1>1. /\ \A p \in Complaints!Requests : Complaints!Target(p) = c =>
           /\ complaintPc'[p] = complaintPc[p] /\ entity'[p] = entity[p] /\ previous'[p] = previous[p]
      /\ c \in Complaints!Requests /\ Complaints!Target(c) = c
  BY Acted, TargetOfCreation DEF Acts
<1>2. /\ historial'[c] = historial[c]
      /\ c \in DOMAIN complaints' <=> c \in DOMAIN complaints
      /\ c \in DOMAIN complaints => complaints'[c] = complaints[c]
  BY DEF Acts
<1>3. \A e \in ComplaintEdits : TargetOf[e] = c =>
        /\ complaintPc'[e] = complaintPc[e] /\ previous'[e] = previous[e]
        /\ \A f : Due(e, f)' <=> Due(e, f)
  BY <1>1, TargetOfEdit DEF Due
<1>4. TrailOK(c)'
  <2>1. \A p, r \in Complaints!Requests :
          (Working(p) /\ Working(r))' /\ Complaints!Target(p) = c /\ Complaints!Target(r) = c => p = r
    BY <1>1 DEF TrailOK, Working
  <2>2. complaintPc'[c] \in {"new", "save", "creation"} => historial'[c] = << >>
    BY <1>1, <1>2 DEF TrailOK
  <2>3. \A r \in Complaints!Requests : Complaints!Target(r) = c /\ complaintPc'[r] \in AfterSave =>
          c \in DOMAIN complaints' /\ complaints'[c] = entity'[r]
    BY <1>1, <1>2 DEF TrailOK
  <2>4. \A e \in ComplaintEdits : TargetOf[e] = c /\ complaintPc'[e] \in {"geocode", "save"} =>
          c \in DOMAIN complaints' /\ previous'[e] = complaints'[c]
    BY <1>2, <1>3 DEF TrailOK
  <2>5. \A f \in Told :
          /\ Chained(historial'[c], f)
          /\ \A e \in ComplaintEdits : TargetOf[e] = c /\ Due(e, f)' => EndsWith(historial'[c], f, previous'[e][f])
          /\ c \in DOMAIN complaints' /\ (\A e \in ComplaintEdits : TargetOf[e] = c => ~Due(e, f)') =>
               EndsWith(historial'[c], f, complaints'[c][f])
    BY <1>2, <1>3 DEF TrailOK
  <2>6. c \in DOMAIN complaints' /\ complaintPc'[c] # "creation" => EntriesIn(historial'[c], "estado") # {}
    BY <1>1, <1>2 DEF TrailOK
  <2> QED BY <2>1, <2>2, <2>3, <2>4, <2>5, <2>6 DEF TrailOK, Working, Due, Chained, EndsWith, EntriesIn, LastEntry, Adjacent
<1>5. MessagesOK(c)'
  <2>1. \A i \in DOMAIN messages' : messages'[i][1] = c => i \in DOMAIN messages /\ messages'[i] = messages[i]
    <3>1. CASE messages' = messages
      BY <3>1
    <3>2. CASE messages' # messages
      <4>1. PICK v : messages' = Append(messages, <<Complaints!Target(q), v>>)
        BY <3>2 DEF Acts
      <4>2. /\ DOMAIN messages = 1..Len(messages) /\ DOMAIN messages' = 1..(Len(messages) + 1)
            /\ Len(messages) \in Nat /\ messages'[Len(messages) + 1] = <<Complaints!Target(q), v>>
            /\ \A i \in 1..Len(messages) : messages'[i] = messages[i]
        BY <4>1, Appended DEF ComplaintShape
      <4>3. messages'[Len(messages) + 1][1] # c
        BY <4>2
      <4> QED BY <4>2, <4>3
    <3> QED BY <3>1, <3>2
  <2>2. \A i, j \in DOMAIN messages' : i < j /\ messages'[i] = messages'[j] /\ messages'[i][1] = c =>
          Leaves(historial'[c], messages'[i][2])
    BY <1>2, <2>1 DEF MessagesOK
  <2>3. \A e \in ComplaintEdits : TargetOf[e] = c /\ complaintPc'[e] \in {"log", "notify"} =>
          /\ EndsIn(historial'[c], "estado", DtoIs(e, "estado"))
          /\ \A i \in DOMAIN messages' : messages'[i][1] = c /\ messages'[i][2] = DtoIs(e, "estado") =>
               Leaves(historial'[c], messages'[i][2])
    BY <1>2, <1>3, <2>1 DEF MessagesOK
  <2>4. \A i \in DOMAIN messages' : messages'[i][1] = c =>
          Leaves(historial'[c], messages'[i][2]) \/ EndsIn(historial'[c], "estado", messages'[i][2])
    BY <1>2, <2>1 DEF MessagesOK
  <2> QED BY <2>2, <2>3, <2>4, MessagesThen
<1> QED BY <1>4, <1>5

LEMMA ItsOwn ==
  ASSUME ComplaintInv, NEW q, NEW s, Acts(q, s), NEW c, c = Complaints!Target(q),
         ComplaintShape', EntitiesFollowDto', CoordsFollow', SavedIsStored',
         complaintFaults' = 0 /\ c \notin overlapped' => TrailOK(c)' /\ MessagesOK(c)'
  PROVE  ComplaintInv'
<1>1. ASSUME complaintFaults' = 0, NEW d \in Creations, d \notin overlapped'
      PROVE  TrailOK(d)' /\ MessagesOK(d)'
  <2>1. CASE d = c
    BY <1>1, <2>1
  <2>2. CASE d # c
    <3>1. ComplaintShape /\ TrailOK(d) /\ MessagesOK(d)
      BY <1>1 DEF ComplaintInv, Acts
    <3> QED BY <2>2, <3>1, Elsewhere
  <2> QED BY <2>1, <2>2
<1> QED BY <1>1 DEF ComplaintInv

\* The steps that only edits come to.
LEMMA AtEdit ==
  ASSUME ComplaintInv, NEW q \in Complaints!Requests,
         complaintPc[q] \in {"geocode", "estado", "log", "notify", "prioridad", "cuadrilla"}
  PROVE  q \in ComplaintEdits
<1>1. Working(q)
  BY DEF Working, Complaints!Final
<1>2. q \notin Creations
  BY <1>1 DEF ComplaintInv, EntitiesFollowDto
<1> QED BY <1>2 DEF Complaints!Requests

Tells(e) == messages' = Append(messages, <<TargetOf[e], DtoIs(e, "estado")>>)
\* A step that only moves on, for which nothing was left to do, or tells of an estado.
Moves(q, s) ==
  /\ q \in Complaints!Requests /\ s \in Complaints!Steps
  /\ complaintPc' = [complaintPc EXCEPT ![q] = s]
  /\ UNCHANGED <<complaints, historial, entity, previous, stored, overlapped>>
  /\ \/ messages' = messages
     \/ complaintPc[q] = "notify" /\ Tells(q)
  /\ \/ complaintFaults' = complaintFaults
     \/ complaintFaults < MaxFailures /\ complaintFaults' = complaintFaults + 1
  /\ \/ complaintPc[q] = "new" /\ s = "null" /\ q \in ComplaintEdits
     \/ complaintPc[q] = "logCreation" /\ s = "ok"
     \/ complaintPc[q] = "log" /\ s \in {"notify", "prioridad"}
     \/ complaintPc[q] = "notify" /\ s = "prioridad"
     \/ complaintPc[q] = "estado" /\ s = "prioridad" /\ ~Complaints!Changed(q, "estado")
     \/ complaintPc[q] = "prioridad" /\ s = "cuadrilla" /\ ~Complaints!Changed(q, "prioridad")
     \/ complaintPc[q] = "cuadrilla" /\ s = "ok" /\ ~Complaints!Changed(q, "cuadrilla")
     \/ complaintPc[q] \in {"save", "creation", "estado", "prioridad", "cuadrilla"} /\ s = "500"
        /\ complaintFaults' = complaintFaults + 1

LEMMA MovesKeeps ==
  ASSUME ComplaintInv, NEW q, NEW s, Moves(q, s)
  PROVE  ComplaintInv'
<1>c. PICK c : c = Complaints!Target(q)
  OBVIOUS
<1>1. ComplaintShape
  BY DEF ComplaintInv
<1>f. FaultAtMost /\ (s = "500" => complaintFaults' # 0)
  BY <1>1, FaultsCount DEF Moves, Complaints!Final, ComplaintShape
<1>2. Acts(q, s) /\ (s = "500" => complaintFaults' # 0)
  <2>1. UNCHANGED <<complaints, historial, entity, previous, overlapped>>
    BY DEF Moves
  <2>2. complaintPc[q] = "notify" => q \in ComplaintEdits
    BY <1>1, AtEdit DEF Moves
  <2>3. messages' = messages \/ \E v : messages' = Append(messages, <<c, v>>)
    BY <1>c, <2>2, TargetOfEdit DEF Moves, Tells
  <2> QED BY <1>c, <1>f, <2>1, <2>3 DEF Acts, Moves, FaultAtMost
<1>3. /\ complaintPc'[q] = s /\ \A p \in Complaints!Requests : p # q => complaintPc'[p] = complaintPc[p]
      /\ complaintPc' \in [Complaints!Requests -> Complaints!Steps] /\ c \in Creations
      /\ complaintFaults' \in Nat /\ complaintFaults' <= MaxFailures
      /\ (complaintFaults' = 0 => complaintFaults = 0) /\ q \in Complaints!Requests
  BY <1>1, <1>2, <1>c, Acted DEF Acts
<1>4. UNCHANGED <<complaints, historial, entity, previous, stored, overlapped>>
  BY DEF Moves
<1>m. \/ messages' = messages
      \/ /\ complaintPc[q] = "notify" /\ q \in ComplaintEdits /\ c = TargetOf[q] /\ s \in {"prioridad"}
         /\ Tells(q) /\ Sequence(messages') /\ DOMAIN messages = 1..Len(messages) /\ Len(messages) \in Nat
         /\ DOMAIN messages' = 1..(Len(messages) + 1)
         /\ messages'[Len(messages) + 1] = <<c, DtoIs(q, "estado")>>
         /\ \A i \in 1..Len(messages) : messages'[i] = messages[i]
  <2>1. CASE messages' = messages
    BY <2>1
  <2>2. CASE messages' # messages
    <3>1. complaintPc[q] = "notify" /\ Tells(q) /\ s = "prioridad"
      BY <2>2 DEF Moves
    <3>2. q \in ComplaintEdits /\ c = TargetOf[q]
      BY <1>c, <3>1, AtEdit, TargetOfEdit DEF Moves
    <3>3. Sequence(messages) /\ messages' = Append(messages, <<c, DtoIs(q, "estado")>>)
      BY <1>1, <3>1, <3>2 DEF ComplaintShape, Tells
    <3> QED BY <3>1, <3>2, <3>3, Appended
  <2> QED BY <2>1, <2>2
<1>5. ComplaintShape'
  <2>1. Sequence(messages')
    BY <1>1, <1>m DEF ComplaintShape
  <2> QED BY <1>1, <1>3, <1>4, <2>1 DEF ComplaintShape, Sequence
<1>6. \A p \in Complaints!Requests : Working(p)' => Working(p)
  BY <1>3 DEF Moves, Working, Complaints!Final
<1>7. \A p \in Complaints!Requests : complaintPc'[p] \in AfterSave => complaintPc[p] \in AfterSave
  BY <1>3 DEF Moves, AfterSave
<1>8. /\ \A p \in Complaints!Requests : complaintPc'[p] \in {"new", "geocode", "save"} => complaintPc'[p] = complaintPc[p]
      /\ \A p \in Complaints!Requests : complaintPc'[p] \in {"log", "notify"} => complaintPc[p] \in {"log", "notify"}
      /\ \A p \in Complaints!Requests : complaintPc'[p] = "creation" => complaintPc[p] = "creation"
  BY <1>3 DEF Moves
<1>9. EntitiesFollowDto'
  <2>1. \A p \in Creations : Working(p)' => complaintPc'[p] \in {"save", "creation", "logCreation"}
    <3> SUFFICES ASSUME NEW p \in Creations, Working(p)'
                 PROVE  complaintPc'[p] \in {"save", "creation", "logCreation"}
      OBVIOUS
    <3>1. complaintPc[p] \in {"save", "creation", "logCreation"} /\ p \in Complaints!Requests
      BY <1>6, TargetOfCreation DEF ComplaintInv, EntitiesFollowDto
    <3> QED BY <1>3, <3>1 DEF Moves, Working, Complaints!Final
  <2>2. \A p \in ComplaintEdits : Working(p)' => complaintPc'[p] \in EditSteps
    <3> SUFFICES ASSUME NEW p \in ComplaintEdits, Working(p)'
                 PROVE  complaintPc'[p] \in EditSteps
      OBVIOUS
    <3>1. complaintPc[p] \in EditSteps /\ p \in Complaints!Requests
      BY <1>6, TargetOfEdit DEF ComplaintInv, EntitiesFollowDto
    <3> QED BY <1>3, <3>1 DEF Moves, Working, Complaints!Final, EditSteps
  <2> QED BY <1>4, <1>6, <1>8, <2>1, <2>2, TargetOfCreation, TargetOfEdit
          DEF ComplaintInv, EntitiesFollowDto, DtoIs, Complaints!Given
<1>10. CoordsFollow'
  BY <1>3, <1>4, <1>8 DEF ComplaintInv, CoordsFollow
<1>11. SavedIsStored'
  <2>1. ASSUME NEW i \in DOMAIN messages'
        PROVE  messages'[i][1] \in Creations /\ <<"estado", messages'[i][2]>> \in stored[messages'[i][1]]
    <3>1. CASE i \in DOMAIN messages /\ messages'[i] = messages[i]
      BY <3>1 DEF ComplaintInv, SavedIsStored
    <3>2. CASE ~(i \in DOMAIN messages /\ messages'[i] = messages[i])
      <4>1. /\ complaintPc[q] = "notify" /\ q \in ComplaintEdits
            /\ messages'[i] = <<c, DtoIs(q, "estado")>>
        <5>1. messages' # messages
          BY <3>2
        <5>2. i \in 1..(Len(messages) + 1) /\ ~(i \in 1..Len(messages))
          BY <1>m, <3>2, <5>1
        <5>3. i = Len(messages) + 1
          BY <1>m, <5>1, <5>2
        <5> QED BY <1>m, <5>1, <5>3
      <4>2. entity[q]["estado"] = DtoIs(q, "estado") /\ complaintPc[q] \in AfterSave /\ "estado" \in Complaints!Fields
        BY <4>1 DEF ComplaintInv, EntitiesFollowDto, Working, Complaints!Final, Complaints!Fields, AfterSave
      <4>3. <<"estado", DtoIs(q, "estado")>> \in stored[c]
        BY <1>3, <1>c, <4>2 DEF ComplaintInv, SavedIsStored
      <4> QED BY <1>3, <4>1, <4>3
    <3> QED BY <3>1, <3>2
  <2> QED BY <1>4, <1>7, <2>1 DEF ComplaintInv, SavedIsStored
<1>12. ASSUME complaintFaults' = 0, c \notin overlapped'
       PROVE  TrailOK(c)' /\ MessagesOK(c)'
  <2>1. TrailOK(c) /\ MessagesOK(c) /\ c \in Complaints!Requests /\ s # "500"
    BY <1>2, <1>3, <1>4, <1>12, TargetOfCreation DEF ComplaintInv
  <2>2. \A e \in ComplaintEdits : TargetOf[e] = c => \A f \in Told : Due(e, f)' => Due(e, f)
    <3> SUFFICES ASSUME NEW e \in ComplaintEdits, NEW f \in Told, Due(e, f)' PROVE Due(e, f)
      OBVIOUS
    <3>1. CASE e # q
      BY <1>3, <3>1, TargetOfEdit DEF Due
    <3>2. CASE e = q
      BY <1>3, <3>2 DEF Due, Told, Moves
    <3> QED BY <3>1, <3>2
  <2>3. ASSUME NEW f \in Told, c \in DOMAIN complaints, \A e \in ComplaintEdits : TargetOf[e] = c => ~Due(e, f)'
        PROVE  EndsWith(historial[c], f, complaints[c][f])
    <3>1. CASE \A e \in ComplaintEdits : TargetOf[e] = c => ~Due(e, f)
      BY <2>1, <2>3, <3>1 DEF TrailOK
    <3>2. CASE \E e \in ComplaintEdits : TargetOf[e] = c /\ Due(e, f)
      <4>1. PICK e \in ComplaintEdits : TargetOf[e] = c /\ Due(e, f)
        BY <3>2
      <4>2. e = q
        BY <1>3, <2>3, <4>1, TargetOfEdit DEF Due
      <4>3. f \in Complaints!Fields /\ complaintPc[q] \in AfterSave /\ Working(q)
        BY <4>1, <4>2 DEF Due, Told, AfterSave, Complaints!Fields, Working, Complaints!Final
      <4>4. complaints[c] = entity[q] /\ EndsWith(historial[c], f, previous[q][f])
        BY <1>3, <1>c, <2>1, <4>1, <4>2, <4>3 DEF TrailOK
      <4>5. ~Complaints!Changed(q, f)
        BY <1>3, <2>1, <2>3, <4>1, <4>2 DEF Due, Told, Moves
      <4>6. entity[q][f] = previous[q][f]
        BY <4>2, <4>3, <4>5 DEF ComplaintInv, EntitiesFollowDto, Complaints!Changed, DtoIs
      <4> QED BY <4>4, <4>6
    <3> QED BY <3>1, <3>2
  <2>4. complaintPc'[c] \in {"new", "save", "creation"} => historial[c] = << >>
    BY <1>8, <2>1 DEF TrailOK
  <2>5. c \in DOMAIN complaints /\ complaintPc'[c] # "creation" => EntriesIn(historial[c], "estado") # {}
    <3> SUFFICES ASSUME complaintPc'[c] # "creation", complaintPc[c] = "creation" PROVE FALSE
      BY <2>1 DEF TrailOK
    <3>1. c = q
      BY <1>3, <2>1
    <3> QED BY <2>1, <3>1 DEF Moves
  <2>6. \A p, r \in Complaints!Requests :
          (Working(p) /\ Working(r))' /\ Complaints!Target(p) = c /\ Complaints!Target(r) = c => p = r
    BY <1>6, <2>1 DEF TrailOK
  <2>7. \A r \in Complaints!Requests : Complaints!Target(r) = c /\ complaintPc'[r] \in AfterSave =>
          c \in DOMAIN complaints /\ complaints[c] = entity[r]
    BY <1>7, <2>1 DEF TrailOK
  <2>8. \A e \in ComplaintEdits : TargetOf[e] = c /\ complaintPc'[e] \in {"geocode", "save"} =>
          c \in DOMAIN complaints /\ previous[e] = complaints[c]
    BY <1>8, <2>1, TargetOfEdit DEF TrailOK
  <2>9. \A f \in Told :
          /\ Chained(historial[c], f)
          /\ \A e \in ComplaintEdits : TargetOf[e] = c /\ Due(e, f)' => EndsWith(historial[c], f, previous[e][f])
    BY <2>1, <2>2 DEF TrailOK
  <2>10. TrailOK(c)'
    BY <1>4, <2>3, <2>4, <2>5, <2>6, <2>7, <2>8, <2>9 DEF TrailOK, Chained, EndsWith, EntriesIn, LastEntry, Adjacent
  <2>11. CASE messages' = messages
    <3>1. \A e \in ComplaintEdits : TargetOf[e] = c /\ complaintPc'[e] \in {"log", "notify"} =>
            /\ EndsIn(historial[c], "estado", DtoIs(e, "estado"))
            /\ \A i \in DOMAIN messages : messages[i][1] = c /\ messages[i][2] = DtoIs(e, "estado") =>
                 Leaves(historial[c], messages[i][2])
      BY <1>8, <2>1, TargetOfEdit DEF MessagesOK
    <3>2. historial'[c] = historial[c] /\ messages' = messages
      BY <1>4, <2>11
    <3>3. \A i, j \in DOMAIN messages' : i < j /\ messages'[i] = messages'[j] /\ messages'[i][1] = c =>
            Leaves(historial'[c], messages'[i][2])
      BY <2>1, <3>2 DEF MessagesOK
    <3>4. \A e \in ComplaintEdits : TargetOf[e] = c /\ complaintPc'[e] \in {"log", "notify"} =>
            /\ EndsIn(historial'[c], "estado", DtoIs(e, "estado"))
            /\ \A i \in DOMAIN messages' : messages'[i][1] = c /\ messages'[i][2] = DtoIs(e, "estado") =>
                 Leaves(historial'[c], messages'[i][2])
      BY <3>1, <3>2
    <3>5. \A i \in DOMAIN messages' : messages'[i][1] = c =>
            Leaves(historial'[c], messages'[i][2]) \/ EndsIn(historial'[c], "estado", messages'[i][2])
      BY <2>1, <3>2 DEF MessagesOK
    <3> QED BY <2>10, <3>3, <3>4, <3>5, MessagesThen
  <2>12. CASE messages' # messages
    <3> DEFINE n == Len(messages)
               v == DtoIs(q, "estado")
    <3>1. /\ complaintPc[q] = "notify" /\ q \in ComplaintEdits /\ c = TargetOf[q] /\ s \in {"prioridad"}
          /\ DOMAIN messages = 1..n /\ n \in Nat
          /\ DOMAIN messages' = 1..(n + 1) /\ messages'[n + 1] = <<c, v>>
          /\ \A i \in 1..n : messages'[i] = messages[i]
      BY <1>m, <2>12
    <3>2. /\ EndsIn(historial[c], "estado", v)
          /\ \A i \in DOMAIN messages : messages[i][1] = c /\ messages[i][2] = v => Leaves(historial[c], v)
      BY <2>1, <3>1 DEF MessagesOK
    <3> HIDE DEF n, v
    <3>3. \A e \in ComplaintEdits : TargetOf[e] = c => complaintPc'[e] \notin {"log", "notify"}
      <4> SUFFICES ASSUME NEW e \in ComplaintEdits, TargetOf[e] = c, complaintPc'[e] \in {"log", "notify"}
                   PROVE  FALSE
        OBVIOUS
      <4>1. e # q /\ Working(e) /\ Working(q)
        BY <1>3, <1>8, <3>1, TargetOfEdit DEF Working, Complaints!Final
      <4> QED BY <2>1, <3>1, <4>1, TargetOfEdit DEF TrailOK
    <3>4. ASSUME NEW i \in DOMAIN messages', NEW j \in DOMAIN messages', i < j,
                 messages'[i] = messages'[j], messages'[i][1] = c
          PROVE  Leaves(historial'[c], messages'[i][2])
      <4>0. i \in 1..n
        BY <3>1, <3>4
      <4>1. CASE j \in 1..n
        BY <1>4, <2>1, <3>1, <3>4, <4>0, <4>1 DEF MessagesOK
      <4>2. CASE j = n + 1
        BY <1>4, <3>1, <3>2, <3>4, <4>0, <4>2
      <4> QED BY <3>1, <4>1, <4>2
    <3>5. ASSUME NEW i \in DOMAIN messages', messages'[i][1] = c
          PROVE  Leaves(historial'[c], messages'[i][2]) \/ EndsIn(historial'[c], "estado", messages'[i][2])
      <4>1. CASE i \in 1..n
        BY <1>4, <2>1, <3>1, <3>5, <4>1 DEF MessagesOK
      <4>2. CASE i = n + 1
        BY <1>4, <3>1, <3>2, <4>2
      <4> QED BY <3>1, <4>1, <4>2
    <3> QED BY <2>10, <3>3, <3>4, <3>5, MessagesThen
  <2> QED BY <2>10, <2>11, <2>12
<1> QED BY <1>2, <1>5, <1>9, <1>10, <1>11, <1>12, <1>c, ItsOwn

\* A request begins: it reads the complaint, or makes it.
LEMMA CreateKeeps ==
  ASSUME ComplaintInv, NEW q \in Complaints!Requests, Complaints!Create(q)
  PROVE  ComplaintInv'
<1>1. /\ q \in Creations /\ complaintPc[q] = "new"
      /\ complaintPc' = [complaintPc EXCEPT ![q] = "save"]
      /\ UNCHANGED <<complaints, historial, previous, messages, stored>>
      /\ overlapped' = IF \E p \in Complaints!Requests \ {q} :
                             Complaints!Target(p) = Complaints!Target(q) /\ Working(p)
                         THEN overlapped \cup {Complaints!Target(q)} ELSE overlapped
  BY DEF Complaints!Create, Complaints!Goto, Complaints!Begin, Complaints!AtWork, Working
<1>2. \E v, w : /\ entity' = [entity EXCEPT ![q] =
                     [estado |-> "PENDIENTE", prioridad |-> v, cuadrilla |-> Complaints!Default,
                      ubicacion |-> w, coords |-> entity'[q]["coords"]]]
                /\ \/ entity'[q]["coords"] = w /\ complaintFaults' = complaintFaults
                   \/ complaintFaults < MaxFailures /\ complaintFaults' = complaintFaults + 1
  <2>0. ComplaintShape
    BY DEF ComplaintInv
  <2> DEFINE value(f) == IF Complaints!Given(q, f) THEN ComplaintDto[q][f] ELSE Complaints!Default
             entityWith(x) == [estado |-> "PENDIENTE", prioridad |-> value("prioridad"),
                               cuadrilla |-> Complaints!Default, ubicacion |-> value("ubicacion"), coords |-> x]
  <2>1. \E found \in BOOLEAN :
          /\ found \/ (complaintFaults < MaxFailures /\ complaintFaults' = complaintFaults + 1)
          /\ found => UNCHANGED complaintFaults
          /\ entity' = [entity EXCEPT ![q] = entityWith(IF found THEN value("ubicacion") ELSE "none")]
    BY DEF Complaints!Create, Complaints!Fault
  <2>2. PICK x : /\ entity' = [entity EXCEPT ![q] = entityWith(x)]
                 /\ \/ x = value("ubicacion") /\ complaintFaults' = complaintFaults
                    \/ complaintFaults < MaxFailures /\ complaintFaults' = complaintFaults + 1
    BY <2>1
  <2>3. entity'[q] = entityWith(x)
    BY <2>0, <2>2 DEF ComplaintShape
  <2>4. entity'[q]["coords"] = x
    BY <2>3
  <2> QED BY <2>2, <2>4
<1>3. PICK v, w : /\ entity' = [entity EXCEPT ![q] =
                       [estado |-> "PENDIENTE", prioridad |-> v, cuadrilla |-> Complaints!Default,
                        ubicacion |-> w, coords |-> entity'[q]["coords"]]]
                  /\ \/ entity'[q]["coords"] = w /\ complaintFaults' = complaintFaults
                     \/ complaintFaults < MaxFailures /\ complaintFaults' = complaintFaults + 1
  BY <1>2
<1>4. ComplaintShape /\ Complaints!Target(q) = q
  BY <1>1, TargetOfCreation DEF ComplaintInv
<1>5. /\ entity' = [p \in Complaints!Requests |-> entity'[p]]
      /\ \A p \in Complaints!Requests : p # q => entity'[p] = entity[p]
      /\ DOMAIN entity'[q] = Columns /\ entity'[q]["estado"] = "PENDIENTE" /\ entity'[q]["ubicacion"] = w
  BY <1>3, <1>4 DEF ComplaintShape, Columns, Complaints!Fields
<1>f. FaultAtMost
  BY <1>3, <1>4, FaultsCount
<1>c. complaintFaults' = 0 => entity'[q]["coords"] = entity'[q]["ubicacion"]
  BY <1>3, <1>4, <1>5, FaultsCount DEF ComplaintShape
<1>6. Acts(q, "save")
  BY <1>1, <1>5, <1>f DEF Acts, FaultAtMost, Complaints!Steps
<1>7. /\ complaintPc'[q] = "save" /\ \A p \in Complaints!Requests : p # q => complaintPc'[p] = complaintPc[p]
      /\ complaintPc' \in [Complaints!Requests -> Complaints!Steps] /\ q \in Creations
      /\ complaintFaults' \in Nat /\ complaintFaults' <= MaxFailures
      /\ (complaintFaults' = 0 => complaintFaults = 0)
  BY <1>1, <1>4, <1>6, <1>f, Acted DEF FaultAtMost
<1>8. ComplaintShape'
  BY <1>1, <1>4, <1>5, <1>7 DEF ComplaintShape, Sequence
<1>9. EntitiesFollowDto'
  <2>1. \A e \in ComplaintEdits : complaintPc'[e] = complaintPc[e] /\ entity'[e] = entity[e] /\ e # q
    BY <1>1, <1>5, <1>7, TargetOfEdit
  <2>2. \A p \in Complaints!Requests : Working(p)' => DOMAIN entity'[p] = Columns
    BY <1>5, <1>7 DEF ComplaintInv, EntitiesFollowDto, Working
  <2>3. \A c \in Creations : Working(c)' =>
          complaintPc'[c] \in {"save", "creation", "logCreation"} /\ entity'[c]["estado"] = "PENDIENTE"
    BY <1>5, <1>7, TargetOfCreation DEF ComplaintInv, EntitiesFollowDto, Working
  <2>4. \A c \in Creations : complaintPc'[c] \in {"new", "save"} => c \notin DOMAIN complaints
    BY <1>1, <1>7, TargetOfCreation DEF ComplaintInv, EntitiesFollowDto
  <2>5. \A e \in ComplaintEdits : Working(e)' =>
          /\ complaintPc'[e] \in EditSteps /\ DOMAIN previous[e] = Columns
          /\ TargetOf[e] \in DOMAIN complaints
          /\ \A f \in Complaints!Fields :
               entity'[e][f] = IF Complaints!Given(e, f) THEN DtoIs(e, f) ELSE previous[e][f]
          /\ complaintPc'[e] \in {"log", "notify"} =>
               Complaints!Given(e, "estado") /\ DtoIs(e, "estado") # previous[e]["estado"]
    BY <2>1 DEF ComplaintInv, EntitiesFollowDto, Working
  <2> QED BY <1>1, <2>2, <2>3, <2>4, <2>5 DEF EntitiesFollowDto, DtoIs, Complaints!Given
<1>10. CoordsFollow'
  BY <1>1, <1>5, <1>7, <1>c DEF ComplaintInv, CoordsFollow
<1>11. SavedIsStored'
  <2>1. \A p \in Complaints!Requests : complaintPc'[p] \in AfterSave => p # q /\ complaintPc[p] \in AfterSave
    BY <1>7 DEF AfterSave
  <2> QED BY <1>1, <1>5, <2>1 DEF ComplaintInv, SavedIsStored
<1>12. ASSUME complaintFaults' = 0, q \notin overlapped'
       PROVE  TrailOK(q)' /\ MessagesOK(q)'
  <2>1. TrailOK(q) /\ MessagesOK(q)
    BY <1>1, <1>7, <1>12 DEF ComplaintInv
  <2>2. \A p \in Complaints!Requests : Complaints!Target(p) = q /\ p # q => complaintPc'[p] \in Complaints!Final
    BY <1>1, <1>4, <1>7, <1>12 DEF Working
  <2>3. historial'[q] = << >> /\ q \notin DOMAIN complaints'
    BY <1>1, <2>1 DEF TrailOK, ComplaintInv, EntitiesFollowDto
  <2>4. \A e \in ComplaintEdits : TargetOf[e] = q =>
          complaintPc'[e] \in Complaints!Final /\ \A f \in Told : ~Due(e, f)'
    <3> SUFFICES ASSUME NEW e \in ComplaintEdits, TargetOf[e] = q
                 PROVE  complaintPc'[e] \in Complaints!Final /\ \A f \in Told : ~Due(e, f)'
      OBVIOUS
    <3>1. complaintPc'[e] \in Complaints!Final
      BY <1>1, <2>2, TargetOfEdit
    <3> QED BY <3>1 DEF Due, Told, Complaints!Final
  <2>5. TrailOK(q)'
    <3>1. \A p, r \in Complaints!Requests :
            complaintPc'[p] \notin Complaints!Final /\ complaintPc'[r] \notin Complaints!Final
            /\ Complaints!Target(p) = q /\ Complaints!Target(r) = q => p = r
      BY <2>2
    <3>2. \A p \in Complaints!Requests : Complaints!Target(p) = q /\ complaintPc'[p] \in AfterSave => FALSE
      BY <1>7, <2>2 DEF AfterSave, Complaints!Final
    <3>3. \A e \in ComplaintEdits : TargetOf[e] = q => complaintPc'[e] \notin {"geocode", "save"}
      BY <2>4 DEF Complaints!Final
    <3>4. \A f : Chained(historial'[q], f)
      BY <2>3, EmptyHistory
    <3> QED BY <2>3, <2>4, <3>1, <3>2, <3>3, <3>4, TrailThen
  <2>6. MessagesOK(q)'
    <3>1. \A e \in ComplaintEdits : TargetOf[e] = q => complaintPc'[e] \notin {"log", "notify"}
      BY <2>4 DEF Complaints!Final
    <3>2. messages' = messages /\ historial'[q] = historial[q]
      BY <1>1
    <3>3. \A i, j \in DOMAIN messages' : i < j /\ messages'[i] = messages'[j] /\ messages'[i][1] = q =>
            Leaves(historial'[q], messages'[i][2])
      BY <2>1, <3>2 DEF MessagesOK
    <3>4. \A i \in DOMAIN messages' : messages'[i][1] = q =>
            Leaves(historial'[q], messages'[i][2]) \/ EndsIn(historial'[q], "estado", messages'[i][2])
      BY <2>1, <3>2 DEF MessagesOK
    <3> QED BY <3>1, <3>3, <3>4, MessagesThen
  <2> QED BY <2>5, <2>6
<1> QED BY <1>4, <1>6, <1>8, <1>9, <1>10, <1>11, <1>12, ItsOwn

LEMMA ReadKeeps ==
  ASSUME ComplaintInv, NEW e \in ComplaintEdits, Complaints!Read(e), TargetOf[e] \in DOMAIN complaints
  PROVE  ComplaintInv'
<1>c. PICK c : c = TargetOf[e]
  OBVIOUS
<1>1. /\ complaintPc[e] = "new" /\ c \in DOMAIN complaints
      /\ UNCHANGED <<complaints, historial, messages, stored, complaintFaults>>
      /\ overlapped' = IF \E p \in Complaints!Requests \ {e} :
                             Complaints!Target(p) = Complaints!Target(e) /\ Working(p)
                         THEN overlapped \cup {Complaints!Target(e)} ELSE overlapped
  BY <1>c DEF Complaints!Read, Complaints!Begin, Complaints!AtWork, Working
<1>2. /\ previous' = [previous EXCEPT ![e] = complaints[c]]
      /\ entity' = [entity EXCEPT ![e] = [f \in Columns |->
            IF f \in Complaints!Fields /\ Complaints!Given(e, f) THEN ComplaintDto[e][f] ELSE complaints[c][f]]]
      /\ complaintPc' = [complaintPc EXCEPT ![e] =
            IF Complaints!Given(e, "ubicacion") /\ ComplaintDto[e]["ubicacion"] # complaints[c]["ubicacion"]
              THEN "geocode" ELSE "save"]
  BY <1>c DEF Complaints!Read, Complaints!Goto, Columns
<1>3. ComplaintShape /\ Complaints!Target(e) = c /\ e \in Complaints!Requests /\ c \in Creations /\ e \notin Creations
  BY <1>c, TargetOfEdit DEF ComplaintInv
<1>4. /\ previous' = [p \in Complaints!Requests |-> previous'[p]]
      /\ entity' = [p \in Complaints!Requests |-> entity'[p]]
      /\ \A p \in Complaints!Requests : p # e => entity'[p] = entity[p] /\ previous'[p] = previous[p]
      /\ previous'[e] = complaints[c] /\ DOMAIN previous'[e] = Columns /\ DOMAIN entity'[e] = Columns
      /\ \A f \in Complaints!Fields :
           entity'[e][f] = IF Complaints!Given(e, f) THEN DtoIs(e, f) ELSE previous'[e][f]
      /\ entity'[e]["coords"] = complaints[c]["coords"]
  BY <1>1, <1>2, <1>3 DEF ComplaintShape, Columns, DtoIs, Complaints!Fields
<1>s. PICK s \in {"geocode", "save"} :
        /\ complaintPc' = [complaintPc EXCEPT ![e] = s]
        /\ s = "save" => ~(Complaints!Given(e, "ubicacion") /\ DtoIs(e, "ubicacion") # complaints[c]["ubicacion"])
  BY <1>2 DEF DtoIs
<1>f. FaultAtMost
  BY <1>1, <1>3, FaultsCount
<1>6. Acts(e, s)
  BY <1>1, <1>3, <1>4, <1>f, <1>s DEF Acts, FaultAtMost, Complaints!Steps
<1>7. /\ complaintPc'[e] = s /\ \A p \in Complaints!Requests : p # e => complaintPc'[p] = complaintPc[p]
      /\ complaintPc' \in [Complaints!Requests -> Complaints!Steps]
      /\ complaintFaults' \in Nat /\ complaintFaults' <= MaxFailures
  BY <1>3, <1>6, Acted
<1>8. ComplaintShape'
  BY <1>1, <1>3, <1>4, <1>7 DEF ComplaintShape, Sequence
<1>9. EntitiesFollowDto'
  <2>1. \A p \in ComplaintEdits : p # e =>
          complaintPc'[p] = complaintPc[p] /\ entity'[p] = entity[p] /\ previous'[p] = previous[p]
    BY <1>4, <1>7, TargetOfEdit
  <2>2. \A p \in Complaints!Requests : Working(p)' => DOMAIN entity'[p] = Columns
    BY <1>4, <1>7 DEF ComplaintInv, EntitiesFollowDto, Working
  <2>3. \A d \in Creations : complaintPc'[d] = complaintPc[d] /\ entity'[d] = entity[d]
    BY <1>3, <1>4, <1>7, TargetOfCreation
  <2>4. \A p \in ComplaintEdits : Working(p)' =>
          /\ complaintPc'[p] \in EditSteps /\ DOMAIN previous'[p] = Columns
          /\ TargetOf[p] \in DOMAIN complaints
          /\ \A f \in Complaints!Fields :
               entity'[p][f] = IF Complaints!Given(p, f) THEN DtoIs(p, f) ELSE previous'[p][f]
          /\ complaintPc'[p] \in {"log", "notify"} =>
               Complaints!Given(p, "estado") /\ DtoIs(p, "estado") # previous'[p]["estado"]
    <3> SUFFICES ASSUME NEW p \in ComplaintEdits, Working(p)'
                 PROVE  /\ complaintPc'[p] \in EditSteps /\ DOMAIN previous'[p] = Columns
                        /\ TargetOf[p] \in DOMAIN complaints
                        /\ \A f \in Complaints!Fields :
                             entity'[p][f] = IF Complaints!Given(p, f) THEN DtoIs(p, f) ELSE previous'[p][f]
                        /\ complaintPc'[p] \in {"log", "notify"} =>
                             Complaints!Given(p, "estado") /\ DtoIs(p, "estado") # previous'[p]["estado"]
      OBVIOUS
    <3>1. CASE p # e
      BY <2>1, <3>1 DEF ComplaintInv, EntitiesFollowDto, Working
    <3>2. CASE p = e
      BY <1>1, <1>4, <1>7, <1>c, <3>2 DEF EditSteps
    <3> QED BY <3>1, <3>2
  <2> QED BY <1>1, <2>2, <2>3, <2>4 DEF ComplaintInv, EntitiesFollowDto, Working, DtoIs, Complaints!Given
<1>10. CoordsFollow'
  <2>1. complaintFaults' = 0 /\ s = "save" => entity'[e]["coords"] = entity'[e]["ubicacion"]
    BY <1>1, <1>4, <1>s DEF ComplaintInv, CoordsFollow, Complaints!Fields
  <2> QED BY <1>1, <1>4, <1>7, <2>1 DEF ComplaintInv, CoordsFollow
<1>11. SavedIsStored'
  <2>1. \A p \in Complaints!Requests : complaintPc'[p] \in AfterSave => p # e /\ complaintPc[p] \in AfterSave
    BY <1>7 DEF AfterSave
  <2> QED BY <1>1, <1>4, <2>1 DEF ComplaintInv, SavedIsStored
<1>12. ASSUME complaintFaults' = 0, c \notin overlapped'
       PROVE  TrailOK(c)' /\ MessagesOK(c)'
  <2>1. TrailOK(c) /\ MessagesOK(c)
    BY <1>1, <1>3, <1>12 DEF ComplaintInv
  <2>2. \A p \in Complaints!Requests : Complaints!Target(p) = c /\ p # e =>
          complaintPc'[p] = complaintPc[p] /\ complaintPc[p] \in Complaints!Final
    BY <1>1, <1>3, <1>7, <1>12 DEF Working
  <2>3. \A p \in ComplaintEdits : TargetOf[p] = c => \A f \in Told : ~Due(p, f)' /\ ~Due(p, f)
    <3> SUFFICES ASSUME NEW p \in ComplaintEdits, TargetOf[p] = c, NEW f \in Told
                 PROVE  ~Due(p, f)' /\ ~Due(p, f)
      OBVIOUS
    <3>1. complaintPc'[p] \in Complaints!Final \cup {"geocode", "save"} /\ complaintPc[p] \in Complaints!Final
      BY <1>1, <1>3, <1>7, <2>2, TargetOfEdit DEF Complaints!Final
    <3> QED BY <3>1 DEF Due, Told, Complaints!Final
  <2>4. historial'[c] = historial[c] /\ complaints' = complaints /\ messages' = messages
    BY <1>1
  <2>5. complaintPc'[c] = complaintPc[c]
    BY <1>3, <1>7, TargetOfCreation
  <2>6. TrailOK(c)'
    <3>1. \A p, r \in Complaints!Requests :
            complaintPc'[p] \notin Complaints!Final /\ complaintPc'[r] \notin Complaints!Final
            /\ Complaints!Target(p) = c /\ Complaints!Target(r) = c => p = r
      BY <2>2
    <3>2. \A p \in Complaints!Requests : Complaints!Target(p) = c /\ complaintPc'[p] \in AfterSave => FALSE
      BY <1>7, <2>2 DEF AfterSave, Complaints!Final
    <3>3. \A p \in ComplaintEdits : TargetOf[p] = c /\ complaintPc'[p] \in {"geocode", "save"} =>
            c \in DOMAIN complaints' /\ previous'[p] = complaints'[c]
      BY <1>1, <1>4, <2>2, <2>4, TargetOfEdit DEF Complaints!Final
    <3>4. /\ complaintPc'[c] \in {"new", "save", "creation"} => historial'[c] = << >>
          /\ \A f \in Told : Chained(historial'[c], f)
          /\ c \in DOMAIN complaints' /\ complaintPc'[c] # "creation" => EntriesIn(historial'[c], "estado") # {}
      BY <2>1, <2>4, <2>5 DEF TrailOK
    <3>5. \A f \in Told : EndsWith(historial'[c], f, complaints'[c][f])
      BY <1>1, <2>1, <2>3, <2>4 DEF TrailOK
    <3> QED BY <2>3, <3>1, <3>2, <3>3, <3>4, <3>5, TrailThen
  <2>7. MessagesOK(c)'
    <3>1. \A p \in ComplaintEdits : TargetOf[p] = c => complaintPc'[p] \notin {"log", "notify"}
      BY <1>7, <2>2, TargetOfEdit DEF Complaints!Final
    <3>3. \A i, j \in DOMAIN messages' : i < j /\ messages'[i] = messages'[j] /\ messages'[i][1] = c =>
            Leaves(historial'[c], messages'[i][2])
      BY <2>1, <2>4 DEF MessagesOK
    <3>4. \A i \in DOMAIN messages' : messages'[i][1] = c =>
            Leaves(historial'[c], messages'[i][2]) \/ EndsIn(historial'[c], "estado", messages'[i][2])
      BY <2>1, <2>4 DEF MessagesOK
    <3> QED BY <3>1, <3>3, <3>4, MessagesThen
  <2> QED BY <2>6, <2>7
<1> QED BY <1>3, <1>6, <1>8, <1>9, <1>10, <1>11, <1>12, ItsOwn

\* The geocoder answers, or fails.
LEMMA GeocodeKeeps ==
  ASSUME ComplaintInv, NEW e \in Complaints!Requests, Complaints!Geocode(e)
  PROVE  ComplaintInv'
<1>0. e \in ComplaintEdits
  BY AtEdit DEF Complaints!Geocode
<1>c. PICK c : c = TargetOf[e]
  OBVIOUS
<1>1. /\ complaintPc[e] = "geocode" /\ complaintPc' = [complaintPc EXCEPT ![e] = "save"]
      /\ UNCHANGED <<complaints, historial, messages, previous, stored, overlapped>>
      /\ \/ /\ entity' = [entity EXCEPT ![e] = [@ EXCEPT !.coords = entity[e]["ubicacion"]]]
            /\ complaintFaults' = complaintFaults
         \/ /\ complaintFaults < MaxFailures /\ complaintFaults' = complaintFaults + 1
            /\ entity' = entity
  BY DEF Complaints!Geocode, Complaints!Goto, Complaints!Fault, Complaints!ghosts
<1>3. ComplaintShape /\ Complaints!Target(e) = c /\ c \in Creations /\ e \notin Creations
  BY <1>0, <1>c, TargetOfEdit DEF ComplaintInv
<1>w. DOMAIN entity[e] = Columns /\ Working(e)
  BY <1>1 DEF ComplaintInv, EntitiesFollowDto, Working, Complaints!Final
<1>4. /\ entity' = [p \in Complaints!Requests |-> entity'[p]]
      /\ \A p \in Complaints!Requests : p # e => entity'[p] = entity[p]
      /\ DOMAIN entity'[e] = Columns
      /\ \A f \in Complaints!Fields : entity'[e][f] = entity[e][f]
  BY <1>1, <1>3, <1>w DEF ComplaintShape, Columns, Complaints!Fields
<1>f. FaultAtMost
  BY <1>1, <1>3, FaultsCount
<1>g. complaintFaults' = 0 => entity'[e]["coords"] = entity'[e]["ubicacion"]
  <2>1. complaintFaults' = 0 => entity' = [entity EXCEPT ![e] = [@ EXCEPT !.coords = entity[e]["ubicacion"]]]
    BY <1>1, <1>3, FaultsCount
  <2> QED BY <1>3, <1>4, <1>w, <2>1 DEF ComplaintShape, Columns, Complaints!Fields
<1>6. Acts(e, "save")
  BY <1>1, <1>3, <1>4, <1>f DEF Acts, FaultAtMost, Complaints!Steps
<1>7. /\ complaintPc'[e] = "save" /\ \A p \in Complaints!Requests : p # e => complaintPc'[p] = complaintPc[p]
      /\ complaintPc' \in [Complaints!Requests -> Complaints!Steps]
      /\ complaintFaults' \in Nat /\ complaintFaults' <= MaxFailures
      /\ (complaintFaults' = 0 => complaintFaults = 0)
  BY <1>3, <1>6, <1>f, Acted DEF FaultAtMost
<1>8. ComplaintShape'
  BY <1>1, <1>3, <1>4, <1>7 DEF ComplaintShape, Sequence
<1>9. EntitiesFollowDto'
  <2>1. \A p \in Complaints!Requests :
          /\ Working(p)' <=> Working(p)
          /\ \A f \in Complaints!Fields : entity'[p][f] = entity[p][f]
          /\ Working(p) => DOMAIN entity'[p] = Columns
    BY <1>1, <1>4, <1>7, <1>w DEF Working, Complaints!Final, ComplaintInv, EntitiesFollowDto
  <2>2. \A d \in Creations : complaintPc'[d] = complaintPc[d] /\ entity'[d] = entity[d]
    BY <1>3, <1>4, <1>7, TargetOfCreation
  <2>3. \A p \in ComplaintEdits :
          /\ complaintPc'[p] \in {"log", "notify"} => complaintPc[p] \in {"log", "notify"}
          /\ Working(p) => complaintPc'[p] \in EditSteps
    BY <1>7, TargetOfEdit DEF ComplaintInv, EntitiesFollowDto, EditSteps
  <2>4. \A p \in ComplaintEdits : Working(p)' =>
          /\ complaintPc'[p] \in EditSteps /\ DOMAIN previous'[p] = Columns
          /\ TargetOf[p] \in DOMAIN complaints'
          /\ \A f \in Complaints!Fields :
               entity'[p][f] = IF Complaints!Given(p, f) THEN DtoIs(p, f) ELSE previous'[p][f]
          /\ complaintPc'[p] \in {"log", "notify"} =>
               Complaints!Given(p, "estado") /\ DtoIs(p, "estado") # previous'[p]["estado"]
    BY <1>1, <2>1, <2>3, TargetOfEdit DEF ComplaintInv, EntitiesFollowDto
  <2>5. \A d \in Creations : Working(d)' =>
          complaintPc'[d] \in {"save", "creation", "logCreation"} /\ entity'[d]["estado"] = "PENDIENTE"
    BY <2>1, <2>2, TargetOfCreation DEF ComplaintInv, EntitiesFollowDto
  <2>6. \A d \in Creations : complaintPc'[d] \in {"new", "save"} => d \notin DOMAIN complaints'
    BY <1>1, <2>2 DEF ComplaintInv, EntitiesFollowDto
  <2>7. \A p \in Complaints!Requests : Working(p)' => DOMAIN entity'[p] = Columns
    BY <2>1
  <2> QED BY <2>4, <2>5, <2>6, <2>7 DEF EntitiesFollowDto, DtoIs, Complaints!Given
<1>10. CoordsFollow'
  BY <1>1, <1>4, <1>7, <1>g DEF ComplaintInv, CoordsFollow
<1>11. SavedIsStored'
  <2>1. \A p \in Complaints!Requests : complaintPc'[p] \in AfterSave => p # e /\ complaintPc[p] \in AfterSave
    BY <1>7 DEF AfterSave
  <2> QED BY <1>1, <1>4, <2>1 DEF ComplaintInv, SavedIsStored
<1>12. ASSUME complaintFaults' = 0, c \notin overlapped'
       PROVE  TrailOK(c)' /\ MessagesOK(c)'
  <2>1. TrailOK(c) /\ MessagesOK(c)
    BY <1>1, <1>3, <1>7, <1>12 DEF ComplaintInv
  <2>2. \A p \in Complaints!Requests : Complaints!Target(p) = c /\ p # e =>
          complaintPc'[p] = complaintPc[p] /\ complaintPc[p] \in Complaints!Final
    BY <1>3, <1>7, <1>w, <2>1 DEF Working, TrailOK
  <2>3. \A p \in ComplaintEdits : TargetOf[p] = c => \A f \in Told : ~Due(p, f)' /\ ~Due(p, f)
    <3> SUFFICES ASSUME NEW p \in ComplaintEdits, TargetOf[p] = c, NEW f \in Told
                 PROVE  ~Due(p, f)' /\ ~Due(p, f)
      OBVIOUS
    <3>1. /\ complaintPc'[p] \in Complaints!Final \cup {"geocode", "save"}
          /\ complaintPc[p] \in Complaints!Final \cup {"geocode", "save"}
      BY <1>1, <1>3, <1>7, <2>2, TargetOfEdit DEF Complaints!Final
    <3> QED BY <3>1 DEF Due, Told, Complaints!Final
  <2>4. historial'[c] = historial[c] /\ complaints' = complaints /\ messages' = messages /\ previous' = previous
    BY <1>1
  <2>5. complaintPc'[c] = complaintPc[c]
    BY <1>3, <1>7, TargetOfCreation
  <2>p. c \in DOMAIN complaints /\ previous[e] = complaints[c]
    BY <1>0, <1>1, <1>3, <1>c, <2>1 DEF TrailOK
  <2>6. TrailOK(c)'
    <3>1. \A p, r \in Complaints!Requests :
            complaintPc'[p] \notin Complaints!Final /\ complaintPc'[r] \notin Complaints!Final
            /\ Complaints!Target(p) = c /\ Complaints!Target(r) = c => p = r
      BY <2>2
    <3>2. \A p \in Complaints!Requests : Complaints!Target(p) = c /\ complaintPc'[p] \in AfterSave => FALSE
      BY <1>7, <2>2 DEF AfterSave, Complaints!Final
    <3>3. \A p \in ComplaintEdits : TargetOf[p] = c /\ complaintPc'[p] \in {"geocode", "save"} =>
            c \in DOMAIN complaints' /\ previous'[p] = complaints'[c]
      BY <2>2, <2>4, <2>p, TargetOfEdit DEF Complaints!Final
    <3>4. /\ complaintPc'[c] \in {"new", "save", "creation"} => historial'[c] = << >>
          /\ \A f \in Told : Chained(historial'[c], f)
          /\ c \in DOMAIN complaints' /\ complaintPc'[c] # "creation" => EntriesIn(historial'[c], "estado") # {}
      BY <2>1, <2>4, <2>5 DEF TrailOK
    <3>5. \A f \in Told : EndsWith(historial'[c], f, complaints'[c][f])
      BY <2>p, <2>1, <2>3, <2>4 DEF TrailOK
    <3> QED BY <2>3, <3>1, <3>2, <3>3, <3>4, <3>5, TrailThen
  <2>7. MessagesOK(c)'
    <3>1. \A p \in ComplaintEdits : TargetOf[p] = c => complaintPc'[p] \notin {"log", "notify"}
      BY <1>7, <2>2, TargetOfEdit DEF Complaints!Final
    <3>3. \A i, j \in DOMAIN messages' : i < j /\ messages'[i] = messages'[j] /\ messages'[i][1] = c =>
            Leaves(historial'[c], messages'[i][2])
      BY <2>1, <2>4 DEF MessagesOK
    <3>4. \A i \in DOMAIN messages' : messages'[i][1] = c =>
            Leaves(historial'[c], messages'[i][2]) \/ EndsIn(historial'[c], "estado", messages'[i][2])
      BY <2>1, <2>4 DEF MessagesOK
    <3> QED BY <3>1, <3>3, <3>4, MessagesThen
  <2> QED BY <2>6, <2>7
<1> QED BY <1>3, <1>6, <1>8, <1>9, <1>10, <1>11, <1>12, ItsOwn

\* The columns of the entity become those of the row.
LEMMA SaveKeeps ==
  ASSUME ComplaintInv, NEW q \in Complaints!Requests, Complaints!Save(q)
  PROVE  ComplaintInv'
<1>c. PICK c : c = Complaints!Target(q)
  OBVIOUS
<1>s. PICK s : s = IF q \in Creations THEN "creation" ELSE "estado"
  OBVIOUS
<1>1. /\ complaintPc[q] = "save" /\ complaintPc' = [complaintPc EXCEPT ![q] = s]
      /\ UNCHANGED <<historial, entity, messages, previous, overlapped, complaintFaults>>
      /\ complaints' = [d \in DOMAIN complaints \cup {c} |-> IF d = c THEN entity[q] ELSE complaints[d]]
      /\ stored' = [stored EXCEPT ![c] = @ \cup {<<f, entity[q][f]>> : f \in Complaints!Fields}]
  BY <1>c, <1>s DEF Complaints!Save, Complaints!Goto
<1>3. ComplaintShape /\ c \in Creations /\ (q \in Creations => q = c) /\ (q \notin Creations => q \in ComplaintEdits /\ c = TargetOf[q])
  BY <1>c, TargetOfEdit, TargetOfCreation DEF ComplaintInv, Complaints!Requests
<1>w. DOMAIN entity[q] = Columns /\ Working(q)
  BY <1>1 DEF ComplaintInv, EntitiesFollowDto, Working, Complaints!Final
<1>4. /\ DOMAIN complaints' = DOMAIN complaints \cup {c} /\ complaints'[c] = entity[q]
      /\ \A d \in DOMAIN complaints : d # c => complaints'[d] = complaints[d]
      /\ stored' = [d \in Creations |-> stored'[d]]
      /\ \A d \in Creations : stored[d] \subseteq stored'[d]
      /\ \A f \in Complaints!Fields : <<f, entity[q][f]>> \in stored'[c]
  BY <1>1, <1>3 DEF ComplaintShape
<1>f. FaultAtMost
  BY <1>1, <1>3, FaultsCount
<1>6. Acts(q, s)
  <2>1. \A d \in Creations : d # c =>
          /\ historial'[d] = historial[d]
          /\ d \in DOMAIN complaints' <=> d \in DOMAIN complaints
          /\ d \in DOMAIN complaints => complaints'[d] = complaints[d]
    BY <1>1, <1>4
  <2> QED BY <1>1, <1>3, <1>c, <1>f, <1>s, <2>1 DEF Acts, FaultAtMost, Complaints!Steps
<1>7. /\ complaintPc'[q] = s /\ \A p \in Complaints!Requests : p # q => complaintPc'[p] = complaintPc[p]
      /\ complaintPc' \in [Complaints!Requests -> Complaints!Steps]
      /\ complaintFaults' \in Nat /\ complaintFaults' <= MaxFailures
      /\ (complaintFaults' = 0 => complaintFaults = 0)
  BY <1>3, <1>6, <1>f, Acted DEF FaultAtMost
<1>8. ComplaintShape'
  <2>1. \A d \in DOMAIN complaints' : DOMAIN complaints'[d] = Columns
    BY <1>3, <1>4, <1>w DEF ComplaintShape
  <2> QED BY <1>1, <1>3, <1>4, <1>7, <2>1 DEF ComplaintShape, Sequence
<1>9. EntitiesFollowDto'
  <2>1. \A p \in Complaints!Requests : /\ Working(p)' => Working(p)
                                        /\ (complaintPc'[p] \in {"log", "notify"} => complaintPc'[p] = complaintPc[p])
    BY <1>s, <1>7, <1>w DEF Working
  <2>2. \A p \in ComplaintEdits : Working(p)' =>
          /\ complaintPc'[p] \in EditSteps /\ DOMAIN previous'[p] = Columns
          /\ TargetOf[p] \in DOMAIN complaints'
          /\ \A f \in Complaints!Fields :
               entity'[p][f] = IF Complaints!Given(p, f) THEN DtoIs(p, f) ELSE previous'[p][f]
          /\ complaintPc'[p] \in {"log", "notify"} =>
               Complaints!Given(p, "estado") /\ DtoIs(p, "estado") # previous'[p]["estado"]
    <3>1. \A p \in ComplaintEdits : Working(p)' => complaintPc'[p] \in EditSteps
      BY <1>s, <1>7, <2>1, TargetOfEdit DEF ComplaintInv, EntitiesFollowDto, EditSteps
    <3> QED BY <1>1, <1>4, <2>1, <3>1, TargetOfEdit DEF ComplaintInv, EntitiesFollowDto
  <2>3. \A d \in Creations : Working(d)' =>
          complaintPc'[d] \in {"save", "creation", "logCreation"} /\ entity'[d]["estado"] = "PENDIENTE"
    BY <1>1, <1>s, <1>7, <2>1, TargetOfCreation DEF ComplaintInv, EntitiesFollowDto
  <2>4. \A d \in Creations : complaintPc'[d] \in {"new", "save"} => d \notin DOMAIN complaints'
    <3> SUFFICES ASSUME NEW d \in Creations, complaintPc'[d] \in {"new", "save"}
                 PROVE  d \notin DOMAIN complaints'
      OBVIOUS
    <3>1. d # q /\ complaintPc[d] \in {"new", "save"} /\ d \notin DOMAIN complaints
      BY <1>s, <1>7, TargetOfCreation DEF ComplaintInv, EntitiesFollowDto
    <3>2. d # c
      BY <1>3, <1>w, <3>1 DEF ComplaintInv, EntitiesFollowDto
    <3> QED BY <1>4, <3>1, <3>2
  <2>5. \A p \in Complaints!Requests : Working(p)' => DOMAIN entity'[p] = Columns
    BY <1>1, <2>1 DEF ComplaintInv, EntitiesFollowDto
  <2> QED BY <2>2, <2>3, <2>4, <2>5 DEF EntitiesFollowDto, DtoIs, Complaints!Given
<1>10. CoordsFollow'
  <2>1. \A p \in Complaints!Requests : complaintPc'[p] = "save" => complaintPc[p] = "save"
    BY <1>s, <1>7
  <2> QED BY <1>1, <1>4, <2>1 DEF ComplaintInv, CoordsFollow
<1>11. SavedIsStored'
  <2>1. \A p \in Complaints!Requests : complaintPc'[p] \in AfterSave =>
          \A f \in Complaints!Fields : <<f, entity'[p][f]>> \in stored'[Complaints!Target(p)]
    <3> SUFFICES ASSUME NEW p \in Complaints!Requests, complaintPc'[p] \in AfterSave, NEW f \in Complaints!Fields
                 PROVE  <<f, entity[p][f]>> \in stored'[Complaints!Target(p)]
      BY <1>1
    <3>1. CASE p = q
      BY <1>4, <1>c, <3>1
    <3>2. CASE p # q
      <4>1. <<f, entity[p][f]>> \in stored[Complaints!Target(p)] /\ Complaints!Target(p) \in Creations
        BY <1>7, <3>2, TargetOfEdit, TargetOfCreation DEF ComplaintInv, SavedIsStored, Complaints!Requests
      <4> QED BY <1>4, <4>1
    <3> QED BY <3>1, <3>2
  <2>2. \A d \in Creations : \A i \in DOMAIN historial'[d] :
          historial'[d][i][1] \in Told /\ <<historial'[d][i][1], historial'[d][i][3]>> \in stored'[d]
    BY <1>1, <1>4 DEF ComplaintInv, SavedIsStored
  <2>3. \A i \in DOMAIN messages' :
          messages'[i][1] \in Creations /\ <<"estado", messages'[i][2]>> \in stored'[messages'[i][1]]
    BY <1>1, <1>4 DEF ComplaintInv, SavedIsStored
  <2> QED BY <2>1, <2>2, <2>3 DEF SavedIsStored
<1>12. ASSUME complaintFaults' = 0, c \notin overlapped'
       PROVE  TrailOK(c)' /\ MessagesOK(c)'
  <2>1. TrailOK(c) /\ MessagesOK(c)
    BY <1>1, <1>3, <1>7, <1>12 DEF ComplaintInv
  <2>2. \A p \in Complaints!Requests : Complaints!Target(p) = c /\ p # q =>
          complaintPc'[p] = complaintPc[p] /\ complaintPc[p] \in Complaints!Final
    BY <1>c, <1>7, <1>w, <2>1 DEF Working, TrailOK
  <2>3. \A p \in ComplaintEdits : TargetOf[p] = c => \A f \in Told :
          ~Due(p, f) /\ (Due(p, f)' <=> p = q)
    <3> SUFFICES ASSUME NEW p \in ComplaintEdits, TargetOf[p] = c, NEW f \in Told
                 PROVE  ~Due(p, f) /\ (Due(p, f)' <=> p = q)
      OBVIOUS
    <3>1. CASE p = q
      BY <1>1, <1>3, <1>7, <1>s, <3>1, TargetOfEdit DEF Due, Told
    <3>2. CASE p # q
      <4>1. complaintPc'[p] \in Complaints!Final /\ complaintPc[p] \in Complaints!Final
        BY <2>2, <3>2, TargetOfEdit
      <4> QED BY <3>2, <4>1 DEF Due, Told, Complaints!Final
    <3> QED BY <3>1, <3>2
  <2>4. historial'[c] = historial[c] /\ messages' = messages /\ previous' = previous /\ entity' = entity
    BY <1>1
  <2>5. q \in ComplaintEdits => c \in DOMAIN complaints /\ previous[q] = complaints[c] /\ complaintPc'[c] = complaintPc[c]
                                /\ q \notin Creations
    BY <1>1, <1>3, <1>7, <2>1, TargetOfCreation, TargetOfEdit DEF TrailOK
  <2>6. q \in Creations => historial'[c] = << >> /\ complaintPc'[c] = "creation"
    BY <1>1, <1>3, <1>7, <1>s, <2>1, <2>4 DEF TrailOK
  <2>7. TrailOK(c)'
    <3>1. \A p, r \in Complaints!Requests :
            complaintPc'[p] \notin Complaints!Final /\ complaintPc'[r] \notin Complaints!Final
            /\ Complaints!Target(p) = c /\ Complaints!Target(r) = c => p = r
      BY <2>2
    <3>2. \A p \in Complaints!Requests : Complaints!Target(p) = c /\ complaintPc'[p] \in AfterSave =>
            c \in DOMAIN complaints' /\ complaints'[c] = entity'[p]
      BY <1>1, <1>4, <2>2 DEF AfterSave, Complaints!Final
    <3>3. \A p \in ComplaintEdits : TargetOf[p] = c => complaintPc'[p] \notin {"geocode", "save"}
      BY <1>7, <1>s, <2>2, TargetOfEdit DEF Complaints!Final
    <3>4. complaintPc'[c] \in {"new", "save", "creation"} => historial'[c] = << >>
      BY <1>3, <2>1, <2>4, <2>5, <2>6 DEF TrailOK
    <3>5. \A f \in Told : Chained(historial'[c], f)
      BY <2>1, <2>4 DEF TrailOK
    <3>6. \A f \in Told : \A p \in ComplaintEdits :
            TargetOf[p] = c /\ Due(p, f)' => EndsWith(historial'[c], f, previous'[p][f])
      BY <2>1, <2>3, <2>4, <2>5 DEF TrailOK
    <3>7. \A f \in Told : c \in DOMAIN complaints' /\ (\A p \in ComplaintEdits : TargetOf[p] = c => ~Due(p, f)') =>
            EndsWith(historial'[c], f, complaints'[c][f])
      BY <1>3, <2>3, <2>6, EmptyHistory
    <3>8. c \in DOMAIN complaints' /\ complaintPc'[c] # "creation" => EntriesIn(historial'[c], "estado") # {}
      BY <1>3, <2>1, <2>4, <2>5, <2>6 DEF TrailOK
    <3> QED BY <3>1, <3>2, <3>3, <3>4, <3>5, <3>6, <3>7, <3>8, TrailThen
  <2>8. MessagesOK(c)'
    <3>1. \A p \in ComplaintEdits : TargetOf[p] = c => complaintPc'[p] \notin {"log", "notify"}
      BY <1>7, <1>s, <2>2, TargetOfEdit DEF Complaints!Final
    <3>3. \A i, j \in DOMAIN messages' : i < j /\ messages'[i] = messages'[j] /\ messages'[i][1] = c =>
            Leaves(historial'[c], messages'[i][2])
      BY <2>1, <2>4 DEF MessagesOK
    <3>4. \A i \in DOMAIN messages' : messages'[i][1] = c =>
            Leaves(historial'[c], messages'[i][2]) \/ EndsIn(historial'[c], "estado", messages'[i][2])
      BY <2>1, <2>4 DEF MessagesOK
    <3> QED BY <3>1, <3>3, <3>4, MessagesThen
  <2> QED BY <2>7, <2>8
<1> QED BY <1>c, <1>6, <1>8, <1>9, <1>10, <1>11, <1>12, ItsOwn

\* A request adds the entry <<f, a, b>> and goes on.
Records(q, s, f, a, b) ==
  /\ complaintPc' = [complaintPc EXCEPT ![q] = s]
  /\ historial' = [historial EXCEPT ![Complaints!Target(q)] = Append(@, <<f, a, b>>)]
  /\ UNCHANGED <<complaints, entity, previous, messages, stored, overlapped, complaintFaults>>
  /\ \/ /\ q \in Creations /\ complaintPc[q] = "creation" /\ s = "logCreation"
        /\ f = "estado" /\ b = "PENDIENTE"
     \/ /\ q \in ComplaintEdits /\ complaintPc[q] = f /\ a = previous[q][f] /\ b = DtoIs(q, f)
        /\ Complaints!Changed(q, f)
        /\ \/ f = "estado" /\ s = "log"
           \/ f = "prioridad" /\ s = "cuadrilla"
           \/ f = "cuadrilla" /\ s = "ok"

LEMMA RecordsKeeps ==
  ASSUME ComplaintInv, NEW q \in Complaints!Requests, NEW s, NEW f, NEW a, NEW b, Records(q, s, f, a, b)
  PROVE  ComplaintInv'
<1>c. PICK c : c = Complaints!Target(q)
  OBVIOUS
<1>1. /\ complaintPc' = [complaintPc EXCEPT ![q] = s]
      /\ historial' = [historial EXCEPT ![c] = Append(@, <<f, a, b>>)]
      /\ UNCHANGED <<complaints, entity, previous, messages, stored, overlapped, complaintFaults>>
      /\ \/ /\ q \in Creations /\ complaintPc[q] = "creation" /\ s = "logCreation"
            /\ f = "estado" /\ b = "PENDIENTE"
         \/ /\ q \in ComplaintEdits /\ complaintPc[q] = f /\ a = previous[q][f] /\ b = DtoIs(q, f)
            /\ Complaints!Changed(q, f)
            /\ \/ f = "estado" /\ s = "log"
               \/ f = "prioridad" /\ s = "cuadrilla"
               \/ f = "cuadrilla" /\ s = "ok"
  BY <1>c DEF Records
<1>3. /\ ComplaintShape /\ c \in Creations /\ (q \in Creations => q = c /\ q \notin ComplaintEdits)
      /\ (q \in ComplaintEdits => q \notin Creations /\ c = TargetOf[q])
  BY <1>c, TargetOfEdit, TargetOfCreation DEF ComplaintInv, Complaints!Requests
<1>w. /\ Working(q) /\ complaintPc[q] \in AfterSave /\ f \in Complaints!Fields /\ f \in Told
      /\ entity[q][f] = b /\ (q \in ComplaintEdits => a # b)
  BY <1>1, <1>3 DEF ComplaintInv, EntitiesFollowDto, Working, Complaints!Final, AfterSave, Complaints!Fields,
                    Told, Complaints!Changed, DtoIs
<1>4. /\ Sequence(historial[c]) /\ historial'[c] = Append(historial[c], <<f, a, b>>)
      /\ historial' = [d \in Creations |-> historial'[d]]
      /\ \A d \in Creations : d # c => historial'[d] = historial[d]
  BY <1>1, <1>3 DEF ComplaintShape
<1>h. /\ Sequence(historial'[c])
      /\ \A d : EntriesIn(historial[c], d) # {} => EntriesIn(historial'[c], d) # {}
      /\ EntriesIn(historial'[c], f) # {}
      /\ \A d, v : d # f => /\ EndsWith(historial[c], d, v) => EndsWith(historial'[c], d, v)
                            /\ EndsIn(historial[c], d, v) => EndsIn(historial'[c], d, v)
                            /\ Chained(historial[c], d) => Chained(historial'[c], d)
      /\ EndsWith(historial'[c], f, b) /\ EndsIn(historial'[c], f, b)
      /\ Chained(historial[c], f) /\ EndsWith(historial[c], f, a) => Chained(historial'[c], f)
      /\ \A v : Leaves(historial[c], v) => Leaves(historial'[c], v)
      /\ f = "estado" /\ a # b => Leaves(historial'[c], a)
  <2>1. PICK h : h = historial[c]
    OBVIOUS
  <2>2. PICK g : g = Append(h, <<f, a, b>>)
    OBVIOUS
  <2>3. /\ Sequence(g)
        /\ \A d : EntriesIn(h, d) # {} => EntriesIn(g, d) # {}
        /\ EntriesIn(g, f) # {}
        /\ \A d, v : d # f => /\ EndsWith(h, d, v) => EndsWith(g, d, v)
                              /\ EndsIn(h, d, v) => EndsIn(g, d, v)
                              /\ Chained(h, d) => Chained(g, d)
        /\ EndsWith(g, f, b) /\ EndsIn(g, f, b)
        /\ Chained(h, f) /\ EndsWith(h, f, a) => Chained(g, f)
        /\ \A v : Leaves(h, v) => Leaves(g, v)
        /\ f = "estado" /\ a # b => Leaves(g, a)
    <3>1. Sequence(h)
      BY <1>4, <2>1
    <3> QED BY <2>2, <3>1, EntryAdded
  <2> QED BY <1>4, <2>1, <2>2, <2>3
<1>e. \A i \in DOMAIN historial'[c] :
        \/ historial'[c][i] = <<f, a, b>>
        \/ i \in DOMAIN historial[c] /\ historial'[c][i] = historial[c][i]
  <2>1. PICK h : h = historial[c]
    OBVIOUS
  <2>2. PICK t : t = <<f, a, b>>
    OBVIOUS
  <2>3. PICK g : g = Append(h, t)
    OBVIOUS
  <2>4. Sequence(h)
    BY <1>4, <2>1
  <2>5. /\ Len(h) \in Nat /\ DOMAIN h = 1..Len(h) /\ DOMAIN g = 1..(Len(h) + 1) /\ g[Len(h) + 1] = t
        /\ \A i \in 1..Len(h) : g[i] = h[i]
    BY <2>3, <2>4, Appended
  <2>6. \A i \in DOMAIN g : g[i] = t \/ (i \in DOMAIN h /\ g[i] = h[i])
    BY <2>5
  <2> QED BY <1>4, <2>1, <2>2, <2>3, <2>6
<1>f. FaultAtMost
  BY <1>1, <1>3, FaultsCount
<1>6. Acts(q, s)
  BY <1>1, <1>3, <1>4, <1>c, <1>f DEF Acts, FaultAtMost, Complaints!Steps, Complaints!Final
<1>7. /\ complaintPc'[q] = s /\ \A p \in Complaints!Requests : p # q => complaintPc'[p] = complaintPc[p]
      /\ complaintPc' \in [Complaints!Requests -> Complaints!Steps]
      /\ complaintFaults' \in Nat /\ complaintFaults' <= MaxFailures
      /\ (complaintFaults' = 0 => complaintFaults = 0)
  BY <1>3, <1>6, <1>f, Acted DEF FaultAtMost
<1>8. ComplaintShape'
  <2>1. \A d \in Creations : Sequence(historial'[d])
    BY <1>3, <1>4, <1>h DEF ComplaintShape
  <2> QED BY <1>1, <1>3, <1>4, <1>7, <2>1 DEF ComplaintShape, Sequence
<1>9. EntitiesFollowDto'
  <2>1. \A p \in Complaints!Requests : Working(p)' => Working(p)
    BY <1>7, <1>w DEF Working
  <2>2. \A p \in ComplaintEdits : Working(p)' =>
          /\ complaintPc'[p] \in EditSteps /\ DOMAIN previous'[p] = Columns
          /\ TargetOf[p] \in DOMAIN complaints'
          /\ \A d \in Complaints!Fields :
               entity'[p][d] = IF Complaints!Given(p, d) THEN DtoIs(p, d) ELSE previous'[p][d]
          /\ complaintPc'[p] \in {"log", "notify"} =>
               Complaints!Given(p, "estado") /\ DtoIs(p, "estado") # previous'[p]["estado"]
    <3>1. \A p \in ComplaintEdits : Working(p)' => complaintPc'[p] \in EditSteps
      BY <1>1, <1>3, <1>7, <2>1, TargetOfEdit DEF ComplaintInv, EntitiesFollowDto, EditSteps, Working, Complaints!Final
    <3>2. complaintPc'[q] = "log" => Complaints!Given(q, "estado") /\ DtoIs(q, "estado") # previous[q]["estado"]
      BY <1>1, <1>7 DEF Complaints!Changed, DtoIs
    <3>3. \A p \in ComplaintEdits : complaintPc'[p] \in {"log", "notify"} =>
            complaintPc[p] \in {"log", "notify"} \/ (p = q /\ complaintPc'[q] = "log")
      BY <1>1, <1>7, TargetOfEdit
    <3> QED BY <1>1, <2>1, <3>1, <3>2, <3>3, TargetOfEdit DEF ComplaintInv, EntitiesFollowDto
  <2>3. \A d \in Creations : Working(d)' =>
          complaintPc'[d] \in {"save", "creation", "logCreation"} /\ entity'[d]["estado"] = "PENDIENTE"
    BY <1>1, <1>3, <1>7, <2>1, TargetOfCreation DEF ComplaintInv, EntitiesFollowDto
  <2>4. \A d \in Creations : complaintPc'[d] \in {"new", "save"} => d \notin DOMAIN complaints'
    BY <1>1, <1>7, TargetOfCreation DEF ComplaintInv, EntitiesFollowDto
  <2>5. \A p \in Complaints!Requests : Working(p)' => DOMAIN entity'[p] = Columns
    BY <1>1, <2>1 DEF ComplaintInv, EntitiesFollowDto
  <2> QED BY <2>2, <2>3, <2>4, <2>5 DEF EntitiesFollowDto, DtoIs, Complaints!Given
<1>10. CoordsFollow'
  <2>1. \A p \in Complaints!Requests : complaintPc'[p] = "save" => complaintPc[p] = "save"
    BY <1>1, <1>7
  <2> QED BY <1>1, <2>1 DEF ComplaintInv, CoordsFollow
<1>11. SavedIsStored'
  <2>1. \A p \in Complaints!Requests : complaintPc'[p] \in AfterSave => complaintPc[p] \in AfterSave
    BY <1>7, <1>w
  <2>2. <<f, b>> \in stored[c]
    BY <1>c, <1>w DEF ComplaintInv, SavedIsStored
  <2>3. \A d \in Creations : \A i \in DOMAIN historial'[d] :
          historial'[d][i][1] \in Told /\ <<historial'[d][i][1], historial'[d][i][3]>> \in stored[d]
    <3> SUFFICES ASSUME NEW d \in Creations, NEW i \in DOMAIN historial'[d]
                 PROVE  historial'[d][i][1] \in Told /\ <<historial'[d][i][1], historial'[d][i][3]>> \in stored[d]
      OBVIOUS
    <3>1. CASE d # c
      BY <1>4, <3>1 DEF ComplaintInv, SavedIsStored
    <3>2. CASE d = c /\ historial'[c][i] = <<f, a, b>>
      BY <1>w, <2>2, <3>2
    <3>3. CASE d = c /\ i \in DOMAIN historial[c] /\ historial'[c][i] = historial[c][i]
      BY <3>3 DEF ComplaintInv, SavedIsStored
    <3> QED BY <1>e, <3>1, <3>2, <3>3
  <2> QED BY <1>1, <2>1, <2>3 DEF ComplaintInv, SavedIsStored
<1>12. ASSUME complaintFaults' = 0, c \notin overlapped'
       PROVE  TrailOK(c)' /\ MessagesOK(c)'
  <2>1. TrailOK(c) /\ MessagesOK(c)
    BY <1>1, <1>3, <1>7, <1>12 DEF ComplaintInv
  <2>2. \A p \in Complaints!Requests : Complaints!Target(p) = c /\ p # q =>
          complaintPc'[p] = complaintPc[p] /\ complaintPc[p] \in Complaints!Final
    BY <1>c, <1>7, <1>w, <2>1 DEF Working, TrailOK
  <2>3. \A p \in ComplaintEdits : TargetOf[p] = c => \A d \in Told :
          /\ Due(p, d)' => p = q /\ Due(q, d) /\ d # f
          /\ Due(p, d) => p = q /\ (d = f \/ Due(q, d)')
    <3> SUFFICES ASSUME NEW p \in ComplaintEdits, TargetOf[p] = c, NEW d \in Told
                 PROVE  /\ Due(p, d)' => p = q /\ Due(q, d) /\ d # f
                        /\ Due(p, d) => p = q /\ (d = f \/ Due(q, d)')
      OBVIOUS
    <3>1. CASE p = q
      BY <1>1, <1>3, <1>7, <3>1, TargetOfEdit DEF Due, Told
    <3>2. CASE p # q
      <4>1. complaintPc'[p] \in Complaints!Final /\ complaintPc[p] \in Complaints!Final
        BY <2>2, <3>2, TargetOfEdit
      <4> QED BY <3>2, <4>1 DEF Due, Told, Complaints!Final
    <3> QED BY <3>1, <3>2
  <2>4. complaints' = complaints /\ messages' = messages /\ previous' = previous /\ entity' = entity
    BY <1>1
  <2>5. c \in DOMAIN complaints /\ complaints[c] = entity[q]
    BY <1>c, <1>w, <2>1 DEF TrailOK
  <2>6. q \in Creations => historial[c] = << >>
    BY <1>1, <1>3, <2>1 DEF TrailOK
  <2>7. q \in ComplaintEdits => /\ EndsWith(historial[c], f, a) /\ complaintPc'[c] = complaintPc[c]
                                /\ complaintPc[c] \notin {"new", "save", "creation"}
    <3> SUFFICES ASSUME q \in ComplaintEdits
                 PROVE  /\ EndsWith(historial[c], f, a) /\ complaintPc'[c] = complaintPc[c]
                        /\ complaintPc[c] \notin {"new", "save", "creation"}
      OBVIOUS
    <3>1. Due(q, f)
      BY <1>1, <1>3 DEF Due
    <3>2. EndsWith(historial[c], f, a)
      BY <1>1, <1>3, <1>w, <2>1, <3>1 DEF TrailOK
    <3>3. complaintPc'[c] = complaintPc[c] /\ complaintPc[c] \in Complaints!Final
      BY <1>3, <2>2, TargetOfCreation
    <3>4. complaintPc[c] # "new"
      BY <1>3, <2>5 DEF ComplaintInv, EntitiesFollowDto
    <3> QED BY <3>2, <3>3, <3>4 DEF Complaints!Final
  <2>8. TrailOK(c)'
    <3>1. \A p, r \in Complaints!Requests :
            complaintPc'[p] \notin Complaints!Final /\ complaintPc'[r] \notin Complaints!Final
            /\ Complaints!Target(p) = c /\ Complaints!Target(r) = c => p = r
      BY <2>2
    <3>2. \A p \in Complaints!Requests : Complaints!Target(p) = c /\ complaintPc'[p] \in AfterSave =>
            c \in DOMAIN complaints' /\ complaints'[c] = entity'[p]
      BY <2>2, <2>4, <2>5 DEF AfterSave, Complaints!Final
    <3>3. \A p \in ComplaintEdits : TargetOf[p] = c => complaintPc'[p] \notin {"geocode", "save"}
      BY <1>1, <1>7, <2>2, TargetOfEdit DEF Complaints!Final
    <3>4. complaintPc'[c] \notin {"new", "save", "creation"}
      BY <1>1, <1>3, <1>7, <2>7
    <3>5. \A d \in Told : Chained(historial[c], d)
      BY <2>1 DEF TrailOK
    <3>6. EndsWith(historial[c], f, a)
      BY <1>1, <2>6, <2>7, EmptyHistory
    <3>7. \A d \in Told : Chained(historial'[c], d)
      BY <1>h, <1>w, <3>5, <3>6
    <3>8. \A d \in Told : \A p \in ComplaintEdits :
            TargetOf[p] = c /\ Due(p, d)' => EndsWith(historial'[c], d, previous'[p][d])
      BY <1>h, <2>1, <2>3, <2>4 DEF TrailOK
    <3>9. ASSUME NEW d \in Told, \A p \in ComplaintEdits : TargetOf[p] = c => ~Due(p, d)'
          PROVE  EndsWith(historial'[c], d, complaints'[c][d])
      <4>1. CASE d = f
        BY <1>h, <1>w, <2>4, <2>5, <4>1
      <4>2. CASE d # f
        <5>1. \A p \in ComplaintEdits : TargetOf[p] = c => ~Due(p, d)
          BY <2>3, <3>9, <4>2
        <5>2. EndsWith(historial[c], d, complaints[c][d])
          BY <2>1, <2>5, <5>1 DEF TrailOK
        <5> QED BY <1>h, <2>4, <4>2, <5>2
      <4> QED BY <4>1, <4>2
    <3>10. EntriesIn(historial'[c], "estado") # {}
      BY <1>1, <1>h, <2>1, <2>5, <2>7 DEF TrailOK
    <3> QED BY <3>1, <3>2, <3>3, <3>4, <3>7, <3>8, <3>9, <3>10, TrailThen
  <2>9. MessagesOK(c)'
    <3>1. \A v : EndsIn(historial[c], "estado", v) =>
            Leaves(historial'[c], v) \/ EndsIn(historial'[c], "estado", v)
      <4> SUFFICES ASSUME NEW v, EndsIn(historial[c], "estado", v)
                   PROVE  Leaves(historial'[c], v) \/ EndsIn(historial'[c], "estado", v)
        OBVIOUS
      <4>1. CASE f # "estado"
        BY <1>h, <4>1
      <4>2. CASE f = "estado" /\ q \in ComplaintEdits
        <5>1. v = a
          BY <2>7, <4>2, OneEnd
        <5> QED BY <1>h, <1>w, <4>2, <5>1
      <4>3. CASE q \in Creations
        BY <2>6, <4>3 DEF EndsIn
      <4> QED BY <1>1, <4>1, <4>2, <4>3
    <3>2. ASSUME NEW e \in ComplaintEdits, TargetOf[e] = c, complaintPc'[e] \in {"log", "notify"}
          PROVE  /\ EndsIn(historial'[c], "estado", DtoIs(e, "estado"))
                 /\ \A i \in DOMAIN messages' : messages'[i][1] = c /\ messages'[i][2] = DtoIs(e, "estado") =>
                      Leaves(historial'[c], messages'[i][2])
      <4>1. e = q /\ f = "estado" /\ b = DtoIs(e, "estado") /\ q \in ComplaintEdits
        BY <1>1, <1>3, <1>7, <2>2, <3>2, TargetOfEdit DEF Complaints!Final
      <4>2. ASSUME NEW i \in DOMAIN messages, messages[i][1] = c, messages[i][2] = b
            PROVE  Leaves(historial'[c], b)
        <5>1. Leaves(historial[c], b) \/ EndsIn(historial[c], "estado", b)
          BY <2>1, <4>2 DEF MessagesOK
        <5>2. EndsIn(historial[c], "estado", b) => a = b
          BY <2>7, <4>1, OneEnd
        <5> QED BY <1>h, <1>w, <4>1, <5>1, <5>2
      <4> QED BY <1>h, <2>4, <4>1, <4>2
    <3>3. \A i, j \in DOMAIN messages' : i < j /\ messages'[i] = messages'[j] /\ messages'[i][1] = c =>
            Leaves(historial'[c], messages'[i][2])
      BY <1>h, <2>1, <2>4 DEF MessagesOK
    <3>4. \A i \in DOMAIN messages' : messages'[i][1] = c =>
            Leaves(historial'[c], messages'[i][2]) \/ EndsIn(historial'[c], "estado", messages'[i][2])
      BY <1>h, <2>1, <2>4, <3>1 DEF MessagesOK
    <3> QED BY <3>2, <3>3, <3>4, MessagesThen
  <2> QED BY <2>8, <2>9
<1> QED BY <1>c, <1>6, <1>8, <1>9, <1>10, <1>11, <1>12, ItsOwn

----------------------------------------------------------------------------

LEMMA ComplaintsStart == Complaints!Init => ComplaintInv
<1> SUFFICES ASSUME Complaints!Init PROVE ComplaintInv
  OBVIOUS
<1>1. /\ complaints = << >> /\ historial = [c \in Creations |-> << >>]
      /\ complaintPc = [q \in Complaints!Requests |-> "new"]
      /\ entity = [q \in Complaints!Requests |-> << >>] /\ previous = [q \in Complaints!Requests |-> << >>]
      /\ messages = << >> /\ stored = [c \in Creations |-> {}] /\ overlapped = {} /\ complaintFaults = 0
  BY DEF Complaints!Init
<1>2. DOMAIN << >> = {}
  OBVIOUS
<1>3. DOMAIN complaints = {} /\ DOMAIN messages = {} /\ Sequence(messages)
      /\ \A c \in Creations : DOMAIN historial[c] = {} /\ Sequence(historial[c])
  BY <1>1, <1>2, EmptyHistory
<1>4. \A q \in Complaints!Requests : complaintPc[q] = "new"
  BY <1>1
<1>5. \A c \in Creations : c \in Complaints!Requests
  BY TargetOfCreation
<1>6. \A e \in ComplaintEdits : e \in Complaints!Requests
  BY TargetOfEdit
<1>7. ComplaintShape
  <2>1. "new" \in Complaints!Steps
    BY DEF Complaints!Steps, Complaints!Final
  <2>2. MaxFailures \in Nat
    BY ReclamosHolds DEF Complaints!ReclamosAssumption
  <2> QED BY <1>1, <1>3, <2>1, <2>2 DEF ComplaintShape
<1>8. \A q \in Complaints!Requests : ~Working(q) /\ complaintPc[q] \notin AfterSave /\ complaintPc[q] # "save"
  BY <1>4 DEF Working, Complaints!Final, AfterSave
<1>9. EntitiesFollowDto /\ CoordsFollow /\ SavedIsStored
  BY <1>3, <1>5, <1>6, <1>8 DEF EntitiesFollowDto, CoordsFollow, SavedIsStored
<1>10. ASSUME NEW c \in Creations PROVE TrailOK(c) /\ MessagesOK(c)
  <2>1. \A e \in ComplaintEdits : complaintPc[e] = "new" /\ \A f : ~Due(e, f)
    BY <1>4, <1>6 DEF Due
  <2>2. historial[c] = << >> /\ c \notin DOMAIN complaints
    BY <1>1, <1>3
  <2>3. TrailOK(c)
    BY <1>8, <2>1, <2>2, EmptyHistory DEF TrailOK
  <2>4. MessagesOK(c)
    BY <1>3, <2>1 DEF MessagesOK
  <2> QED BY <2>3, <2>4
<1> QED BY <1>7, <1>9, <1>10 DEF ComplaintInv

\* What each request's steps are: it begins, it saves, it records, or it only moves on.
LEMMA RecordsOrMoves ==
  ASSUME ComplaintInv, NEW q \in Complaints!Requests,
         \/ Complaints!RegistrarCreacion(q) \/ Complaints!LogCreacion(q) \/ Complaints!RegistrarEstado(q)
         \/ Complaints!LogEstado(q) \/ Complaints!Notificar(q)
         \/ Complaints!RegistrarOtro(q, "prioridad", "cuadrilla") \/ Complaints!RegistrarOtro(q, "cuadrilla", "ok")
         \/ Complaints!Fail(q)
  PROVE  ComplaintInv'
<1>s. {"logCreation", "ok", "prioridad", "notify", "cuadrilla", "500"} \subseteq Complaints!Steps
  BY DEF Complaints!Steps, Complaints!Final
<1>1. CASE Complaints!RegistrarCreacion(q)
  <2>1. complaintPc[q] = "creation"
    BY <1>1 DEF Complaints!RegistrarCreacion
  <2>2. q \in Creations /\ Complaints!Target(q) = q
    <3>1. q \notin ComplaintEdits
      BY <2>1 DEF ComplaintInv, EntitiesFollowDto, Working, Complaints!Final, EditSteps
    <3> QED BY <3>1, TargetOfCreation DEF Complaints!Requests
  <2>3. Records(q, "logCreation", "estado", "", "PENDIENTE")
    BY <1>1, <2>1, <2>2 DEF Complaints!RegistrarCreacion, Complaints!Goto, Complaints!ghosts, Records
  <2> QED BY <2>3, RecordsKeeps
<1>2. CASE Complaints!LogCreacion(q)
  <2>1. Moves(q, "ok")
    BY <1>2, <1>s DEF Complaints!LogCreacion, Complaints!Goto, Complaints!ghosts, Complaints!Fault, Moves
  <2> QED BY <2>1, MovesKeeps
<1>3. CASE Complaints!RegistrarEstado(q)
  <2>1. q \in ComplaintEdits /\ Complaints!Target(q) = TargetOf[q] /\ complaintPc[q] = "estado"
    BY <1>3, AtEdit, TargetOfEdit DEF Complaints!RegistrarEstado
  <2>2. CASE Complaints!Changed(q, "estado")
    <3>1. Records(q, "log", "estado", previous[q]["estado"], DtoIs(q, "estado"))
      BY <1>3, <2>1, <2>2 DEF Complaints!RegistrarEstado, Complaints!Registrar, Complaints!Goto, Complaints!ghosts,
                              Records, DtoIs
    <3> QED BY <3>1, RecordsKeeps
  <2>3. CASE ~Complaints!Changed(q, "estado")
    <3>1. Moves(q, "prioridad")
      BY <1>3, <1>s, <2>3 DEF Complaints!RegistrarEstado, Complaints!Goto, Complaints!ghosts, Moves
    <3> QED BY <3>1, MovesKeeps
  <2> QED BY <2>2, <2>3
<1>4. CASE Complaints!LogEstado(q)
  <2> DEFINE s == IF q \in Silent THEN "prioridad" ELSE "notify"
  <2>1. s \in {"prioridad", "notify"} /\ s \in Complaints!Steps
    BY <1>s
  <2>2. complaintPc[q] = "log" /\ complaintPc' = [complaintPc EXCEPT ![q] = s]
        /\ UNCHANGED <<complaints, historial, entity, previous, messages, stored, overlapped>>
        /\ \/ complaintFaults' = complaintFaults
           \/ complaintFaults < MaxFailures /\ complaintFaults' = complaintFaults + 1
    BY <1>4 DEF Complaints!LogEstado, Complaints!Goto, Complaints!ghosts, Complaints!Fault
  <2> HIDE DEF s
  <2>3. Moves(q, s)
    BY <2>1, <2>2 DEF Moves
  <2> QED BY <2>3, MovesKeeps
<1>5. CASE Complaints!Notificar(q)
  <2>1. Moves(q, "prioridad")
    BY <1>5, <1>s DEF Complaints!Notificar, Complaints!Goto, Complaints!ghosts, Complaints!Fault, Moves, Tells, DtoIs
  <2> QED BY <2>1, MovesKeeps
<1>6. CASE Complaints!RegistrarOtro(q, "prioridad", "cuadrilla")
  <2>1. q \in ComplaintEdits /\ Complaints!Target(q) = TargetOf[q] /\ complaintPc[q] = "prioridad"
    BY <1>6, AtEdit, TargetOfEdit DEF Complaints!RegistrarOtro
  <2>2. CASE Complaints!Changed(q, "prioridad")
    <3>1. Records(q, "cuadrilla", "prioridad", previous[q]["prioridad"], DtoIs(q, "prioridad"))
      BY <1>6, <2>1, <2>2 DEF Complaints!RegistrarOtro, Complaints!Registrar, Complaints!Goto, Complaints!ghosts,
                              Records, DtoIs
    <3> QED BY <3>1, RecordsKeeps
  <2>3. CASE ~Complaints!Changed(q, "prioridad")
    <3>1. Moves(q, "cuadrilla")
      BY <1>6, <1>s, <2>3 DEF Complaints!RegistrarOtro, Complaints!Goto, Complaints!ghosts, Moves
    <3> QED BY <3>1, MovesKeeps
  <2> QED BY <2>2, <2>3
<1>7. CASE Complaints!RegistrarOtro(q, "cuadrilla", "ok")
  <2>1. q \in ComplaintEdits /\ Complaints!Target(q) = TargetOf[q] /\ complaintPc[q] = "cuadrilla"
    BY <1>7, AtEdit, TargetOfEdit DEF Complaints!RegistrarOtro
  <2>2. CASE Complaints!Changed(q, "cuadrilla")
    <3>1. Records(q, "ok", "cuadrilla", previous[q]["cuadrilla"], DtoIs(q, "cuadrilla"))
      BY <1>7, <2>1, <2>2 DEF Complaints!RegistrarOtro, Complaints!Registrar, Complaints!Goto, Complaints!ghosts,
                              Records, DtoIs
    <3> QED BY <3>1, RecordsKeeps
  <2>3. CASE ~Complaints!Changed(q, "cuadrilla")
    <3>1. Moves(q, "ok")
      BY <1>7, <1>s, <2>3 DEF Complaints!RegistrarOtro, Complaints!Goto, Complaints!ghosts, Moves
    <3> QED BY <3>1, MovesKeeps
  <2> QED BY <2>2, <2>3
<1>8. CASE Complaints!Fail(q)
  <2>1. Moves(q, "500")
    BY <1>8, <1>s DEF Complaints!Fail, Complaints!Goto, Complaints!ghosts, Complaints!Fault, Moves
  <2> QED BY <2>1, MovesKeeps
<1> QED BY <1>1, <1>2, <1>3, <1>4, <1>5, <1>6, <1>7, <1>8

LEMMA ComplaintStepKeeps ==
  ASSUME ComplaintInv, Complaints!Next
  PROVE  ComplaintInv'
<1>1. PICK q \in Complaints!Requests :
        Complaints!CrearDesdeBot(q) \/ Complaints!ActualizarAdmin(q) \/ Complaints!Fail(q)
  BY DEF Complaints!Next
<1>2. CASE Complaints!Create(q)
  BY <1>2, CreateKeeps
<1>3. CASE Complaints!Save(q)
  BY <1>3, SaveKeeps
<1>4. CASE Complaints!Read(q)
  <2>1. q \in ComplaintEdits /\ complaintPc[q] = "new"
    BY <1>4 DEF Complaints!Read
  <2>2. CASE TargetOf[q] \in DOMAIN complaints
    BY <1>4, <2>1, <2>2, ReadKeeps
  <2>3. CASE TargetOf[q] \notin DOMAIN complaints
    <3>1. "null" \in Complaints!Steps
      BY DEF Complaints!Steps, Complaints!Final
    <3>2. Moves(q, "null")
      BY <1>4, <2>1, <2>3, <3>1 DEF Complaints!Read, Complaints!Goto, Moves
    <3> QED BY <3>2, MovesKeeps
  <2> QED BY <2>2, <2>3
<1>5. CASE Complaints!Geocode(q)
  <2>1. q \in ComplaintEdits
    BY <1>5, AtEdit DEF Complaints!Geocode
  <2> QED BY <1>5, <2>1, GeocodeKeeps
<1>6. CASE ~(Complaints!Create(q) \/ Complaints!Save(q) \/ Complaints!Read(q) \/ Complaints!Geocode(q))
  BY <1>1, <1>6, RecordsOrMoves DEF Complaints!CrearDesdeBot, Complaints!ActualizarAdmin
<1> QED BY <1>2, <1>3, <1>4, <1>5, <1>6

LEMMA ComplaintInductive == Complaints!Spec => []ComplaintInv
<1>1. ComplaintInv /\ Complaints!Next => ComplaintInv'
  BY ComplaintStepKeeps
<1>2. ComplaintInv /\ UNCHANGED Complaints!vars => ComplaintInv'
  <2> SUFFICES ASSUME ComplaintInv, UNCHANGED Complaints!vars PROVE ComplaintInv'
    OBVIOUS
  <2>1. UNCHANGED <<complaints, historial, complaintPc, entity, previous, messages, stored, overlapped,
                    complaintFaults>>
    BY DEF Complaints!vars
  <2>2. (ComplaintShape /\ EntitiesFollowDto /\ CoordsFollow /\ SavedIsStored)'
    BY <2>1 DEF ComplaintInv, ComplaintShape, EntitiesFollowDto, CoordsFollow, SavedIsStored, Working
  <2>3. ASSUME complaintFaults' = 0, NEW c \in Creations \ overlapped'
        PROVE  TrailOK(c)' /\ MessagesOK(c)'
    <3>1. TrailOK(c) /\ MessagesOK(c)
      BY <2>1, <2>3 DEF ComplaintInv
    <3>2. TrailOK(c)'
      BY <2>1, <3>1 DEF TrailOK, Working, Due
    <3>3. MessagesOK(c)'
      BY <2>1, <3>1 DEF MessagesOK
    <3> QED BY <3>2, <3>3
  <2> QED BY <2>2, <2>3 DEF ComplaintInv
<1> QED BY <1>1, <1>2, ComplaintsStart, PTL DEF Complaints!Spec

LEMMA ComplaintsFollow == ComplaintInv => ComplaintsAreExplained
<1> SUFFICES ASSUME ComplaintInv PROVE ComplaintsAreExplained
  OBVIOUS
<1>0. ComplaintShape /\ EntitiesFollowDto /\ SavedIsStored /\ CoordsFollow
  BY DEF ComplaintInv
<1>1. Complaints!TypeOK
  <2>1. \A q \in Complaints!Requests : Complaints!AtWork(q) <=> Working(q)
    BY DEF Complaints!AtWork, Working
  <2>2. \A c \in Creations : \A i \in DOMAIN historial[c] :
          historial[c][i][1] \in Complaints!Fields \ {"ubicacion"}
    BY <1>0 DEF SavedIsStored, Told, Complaints!Fields
  <2>3. complaintFaults \in 0..MaxFailures
    BY <1>0, ReclamosHolds DEF ComplaintShape, Complaints!ReclamosAssumption
  <2>4. \A e \in ComplaintEdits : Complaints!AtWork(e) => DOMAIN previous[e] = Columns
    BY <1>0, <2>1, TargetOfEdit DEF EntitiesFollowDto
  <2>5. \A q \in Complaints!Requests : Complaints!AtWork(q) => DOMAIN entity[q] = Columns
    BY <1>0, <2>1 DEF EntitiesFollowDto
  <2> QED BY <1>0, <2>2, <2>3, <2>4, <2>5 DEF Complaints!TypeOK, ComplaintShape, Columns
<1>2. Complaints!HistorialExplainsRow
  <2> SUFFICES ASSUME NEW c \in DOMAIN complaints \ overlapped, Complaints!Quiet(c), complaintFaults = 0,
                      NEW f \in Told
               PROVE  /\ \A i \in Complaints!Entries(c, f) :
                           (\A k \in Complaints!Entries(c, f) : k <= i) => historial[c][i][3] = complaints[c][f]
                      /\ \A i, j \in Complaints!Entries(c, f) :
                           i < j /\ (\A k \in Complaints!Entries(c, f) : k <= i \/ j <= k) =>
                             historial[c][i][3] = historial[c][j][2]
                      /\ f = "estado" => Complaints!Entries(c, f) # {}
    BY DEF Complaints!HistorialExplainsRow, Told
  <2>1. c \in Creations /\ TrailOK(c) /\ c \in Complaints!Requests
    BY <1>0, TargetOfCreation DEF ComplaintInv, ComplaintShape
  <2>2. Complaints!Entries(c, f) = EntriesIn(historial[c], f) /\ EntriesIn(historial[c], f) \subseteq DOMAIN historial[c]
    BY DEF Complaints!Entries, EntriesIn
  <2>3. \A q \in Complaints!Requests : Complaints!Target(q) = c => ~Working(q)
    BY DEF Complaints!Quiet, Complaints!AtWork, Working
  <2>4. complaintPc[c] # "creation" /\ \A e \in ComplaintEdits : TargetOf[e] = c => ~Due(e, f)
    BY <2>1, <2>3, TargetOfEdit, TargetOfCreation DEF Working, Complaints!Final, Due, Told
  <2>5. EndsWith(historial[c], f, complaints[c][f]) /\ Chained(historial[c], f)
        /\ EntriesIn(historial[c], "estado") # {}
    BY <2>1, <2>4 DEF TrailOK
  <2> QED BY <2>2, <2>5 DEF EndsWith, LastEntry, Chained, Adjacent
<1>3. Complaints!NothingToldBeforeSaved
  BY <1>0 DEF SavedIsStored, Complaints!NothingToldBeforeSaved
<1>4. Complaints!NoMessageWithoutChange
  <2> SUFFICES ASSUME NEW i \in DOMAIN messages, NEW j \in DOMAIN messages, i < j, complaintFaults = 0,
                      messages[i] = messages[j], messages[i][1] \notin overlapped
               PROVE  \E k \in DOMAIN historial[messages[i][1]] :
                        LET h == historial[messages[i][1]][k]
                        IN  h[1] = "estado" /\ h[2] = messages[i][2] /\ h[3] # h[2]
    BY DEF Complaints!NoMessageWithoutChange
  <2>1. MessagesOK(messages[i][1])
    BY <1>0 DEF ComplaintInv, SavedIsStored
  <2>2. Leaves(historial[messages[i][1]], messages[i][2])
    BY <2>1 DEF MessagesOK
  <2> QED BY <2>2 DEF Leaves
<1>5. Complaints!CoordsFollowUbicacion
  <2>1. \A c \in DOMAIN complaints : /\ complaints[c].coords = complaints[c]["coords"]
                                     /\ complaints[c].ubicacion = complaints[c]["ubicacion"]
    OBVIOUS
  <2> QED BY <1>0, <2>1 DEF CoordsFollow, Complaints!CoordsFollowUbicacion
<1> QED BY <1>1, <1>2, <1>3, <1>4, <1>5 DEF ComplaintsAreExplained

----------------------------------------------------------------------------
(* The survey: one answer of a DNI, kept as it was left; what is said is recent *)

AnswerColumns == Survey!Campos \cup {"dni"}
\* The edit e has read a row and not written it yet; the entry of a DNI in the cache is set.
Editing(e) == surveyPc[e] \in {"dni", "put"}
Cached(d)  == cache[d] # Survey!NoEntry
\* It was said of d, at hour h or the lag hours before, whether it was free.
SoWithin(d, h, lag, f) == \E k \in (h - lag)..h : <<d, k, f>> \in wasFree

SurveyShape ==
  /\ surveyPc \in [Survey!Requests -> Survey!Steps]
  /\ surveyHeld = [q \in Survey!Requests |-> surveyHeld[q]]
  /\ cache = [d \in Survey!Dnis |-> cache[d]]
  /\ lastId \in Nat /\ hour \in 0..MaxHours /\ surveyFaults \in 0..MaxFailures
  /\ DOMAIN answers \subseteq DOMAIN latest /\ DOMAIN latest \subseteq 1..lastId
  /\ \A i \in DOMAIN answers : DOMAIN answers[i] = AnswerColumns /\ answers[i]["dni"] \in Survey!Dnis
  /\ \A q \in Survey!Requests :
       /\ surveyPc[q] \in {"query", "setCache"} => q \in Validations
       /\ surveyPc[q] = "save" => q \in Savings
       /\ surveyPc[q] \in {"group", "find"} => q \in Reports
       /\ Editing(q) => /\ q \in Edits /\ IdOf[q] \in DOMAIN latest
                        /\ DOMAIN surveyHeld[q] = AnswerColumns /\ surveyHeld[q]["dni"] \in Survey!Dnis

OneAnswer == \A i, j \in DOMAIN answers : answers[i]["dni"] = answers[j]["dni"] => i = j

\* Edits of an answer that do not overlap write it as it was left, with what they give.
LeftAsSaid ==
  \A i \in DOMAIN latest \ surveyMixed :
    /\ \A e, p \in Edits : Editing(e) /\ Editing(p) /\ IdOf[e] = i /\ IdOf[p] = i => e = p
    /\ i \notin deleted =>
         /\ i \in DOMAIN answers /\ answers[i] = latest[i]
         /\ \A e \in Edits : Editing(e) /\ IdOf[e] = i => surveyHeld[e] = Survey!Merged(e, latest[i])

\* What is cached, or about to be, was so an hour before at most.
SaidIsRecent ==
  /\ \A d \in Survey!Dnis : <<d, hour, ~Survey!Taken(d)>> \in wasFree
  /\ \A d \in Survey!Dnis : Cached(d) =>
       cache[d].since \in Nat /\ cache[d].since \in (hour - 1)..hour
       /\ SoWithin(d, cache[d].since, 1, cache[d].free)
  /\ \A q \in Validations : surveyPc[q] = "setCache" =>
       surveyHeld[q] \in [free : BOOLEAN, at : Nat] /\ surveyHeld[q].at \in (hour - 1)..hour
       /\ <<Survey!Dni(q), surveyHeld[q].at, surveyHeld[q].free>> \in wasFree
  /\ Survey!AnswersAreRecent

SurveyInv == SurveyShape /\ OneAnswer /\ LeftAsSaid /\ SaidIsRecent

LEMMA Endpoints ==
  /\ \A q \in Validations : q \in Survey!Requests /\ Survey!Dni(q) \in Survey!Dnis
                            /\ q \notin Savings \cup Edits \cup Deletions \cup Reports
  /\ \A q \in Savings : q \in Survey!Requests /\ q \notin Validations /\ Survey!Dni(q) \in Survey!Dnis
  /\ \A e \in Edits : e \in Survey!Requests /\ e \notin Validations
                      /\ (Survey!Given(e, "dni") => DtoOf[e]["dni"] \in Survey!Dnis)
  /\ \A q \in Deletions \cup Reports : q \in Survey!Requests /\ q \notin Validations
  /\ MaxHours \in Nat /\ MaxFailures \in Nat
<1>1. /\ \A q \in Validations : q \notin Savings \cup Edits \cup Deletions \cup Reports
      /\ \A q \in Validations \cup Savings : RawOf[q] \in DOMAIN DigitsOf
      /\ MaxHours \in Nat /\ MaxFailures \in Nat
  BY EncuestasHolds DEF Survey!EncuestasAssumption
<1>2. \A q \in Validations \cup Savings : Survey!Dni(q) \in Survey!Dnis
  BY <1>1 DEF Survey!Dni, Survey!Dnis
<1>3. \A e \in Edits : Survey!Given(e, "dni") => DtoOf[e]["dni"] \in Survey!Dnis
  BY DEF Survey!Given, Survey!Dnis
<1> QED BY <1>1, <1>2, <1>3 DEF Survey!Requests

SurveyFaultAtMost == surveyFaults' \in 0..MaxFailures

LEMMA SurveyFaultsCount ==
  ASSUME SurveyShape, surveyFaults' = surveyFaults \/ Survey!Fault
  PROVE  SurveyFaultAtMost
<1>1. surveyFaults \in Nat /\ surveyFaults <= MaxFailures /\ MaxFailures \in Nat
  BY Endpoints DEF SurveyShape
<1>2. \/ surveyFaults' = surveyFaults
      \/ surveyFaults < MaxFailures /\ surveyFaults' = surveyFaults + 1
  BY DEF Survey!Fault
<1> QED BY <1>1, <1>2 DEF SurveyFaultAtMost

\* What stays true of a DNI once it was.
LEMMA RecentThen ==
  ASSUME SaidIsRecent, UNCHANGED <<cache, hour>>, wasFree \subseteq wasFree',
         \A d \in Survey!Dnis : <<d, hour, ~Survey!Taken(d)'>> \in wasFree',
         \A q \in Validations : surveyPc'[q] = surveyPc[q] /\ surveyHeld'[q] = surveyHeld[q]
  PROVE  SaidIsRecent'
<1>1. \A d \in Survey!Dnis : Cached(d)' =>
        cache'[d].since \in Nat /\ cache'[d].since \in (hour' - 1)..hour'
        /\ SoWithin(d, cache[d].since, 1, cache[d].free)'
  BY DEF SaidIsRecent, Cached, SoWithin
<1>2. \A q \in Validations : surveyPc'[q] = "setCache" =>
        surveyHeld'[q] \in [free : BOOLEAN, at : Nat] /\ surveyHeld'[q].at \in (hour' - 1)..hour'
        /\ <<Survey!Dni(q), surveyHeld'[q].at, surveyHeld'[q].free>> \in wasFree'
  BY DEF SaidIsRecent
<1>3. Survey!AnswersAreRecent'
  BY DEF SaidIsRecent, Survey!AnswersAreRecent
<1>4. \A d \in Survey!Dnis : <<d, hour', ~Survey!Taken(d)'>> \in wasFree'
  OBVIOUS
<1> QED BY <1>1, <1>2, <1>3, <1>4 DEF SaidIsRecent

\* A step of q that leaves the answers, the cache and the time as they are.
Rests(q, s) ==
  /\ q \in Survey!Requests /\ s \in Survey!Steps
  /\ surveyPc' = [surveyPc EXCEPT ![q] = s]
  /\ UNCHANGED <<answers, lastId, cache, hour, latest, deleted, surveyMixed, wasFree>>
  /\ surveyHeld' = [p \in Survey!Requests |-> surveyHeld'[p]]
  /\ \A p \in Survey!Requests : p # q => surveyHeld'[p] = surveyHeld[p]
  /\ SurveyFaultAtMost
  /\ s \in {"query", "setCache"} => q \in Validations
  /\ s = "save" => q \in Savings
  /\ s \in {"group", "find"} => q \in Reports
  /\ s \in {"dni", "put"} => Editing(q) /\ surveyHeld'[q] = surveyHeld[q]
  /\ q \in Validations /\ s = "setCache" =>
       surveyHeld'[q] = [free |-> ~Survey!Taken(Survey!Dni(q)), at |-> hour]
  /\ q \in Validations /\ s = "ok" =>
       SoWithin(Survey!Dni(q), surveyHeld'[q].at, 2, surveyHeld'[q].free)

LEMMA RestsKeeps ==
  ASSUME SurveyInv, NEW q, NEW s, Rests(q, s)
  PROVE  SurveyInv'
<1>1. /\ q \in Survey!Requests /\ surveyPc'[q] = s /\ surveyPc' \in [Survey!Requests -> Survey!Steps]
      /\ \A p \in Survey!Requests : p # q => surveyPc'[p] = surveyPc[p] /\ surveyHeld'[p] = surveyHeld[p]
      /\ UNCHANGED <<answers, lastId, cache, hour, latest, deleted, surveyMixed, wasFree>>
  BY DEF SurveyInv, SurveyShape, Rests
<1>2. \A e \in Survey!Requests : Editing(e)' => Editing(e) /\ surveyHeld'[e] = surveyHeld[e]
  BY <1>1 DEF Rests, Editing
<1>3. SurveyShape'
  <2>1. \A p \in Survey!Requests :
          /\ surveyPc'[p] \in {"query", "setCache"} => p \in Validations
          /\ surveyPc'[p] = "save" => p \in Savings
          /\ surveyPc'[p] \in {"group", "find"} => p \in Reports
    BY <1>1 DEF SurveyInv, SurveyShape, Rests
  <2>2. \A p \in Survey!Requests : Editing(p)' =>
          /\ p \in Edits /\ IdOf[p] \in DOMAIN latest'
          /\ DOMAIN surveyHeld'[p] = AnswerColumns /\ surveyHeld'[p]["dni"] \in Survey!Dnis
    BY <1>1, <1>2 DEF SurveyInv, SurveyShape
  <2>3. surveyHeld' = [p \in Survey!Requests |-> surveyHeld'[p]] /\ surveyFaults' \in 0..MaxFailures
    BY DEF Rests, SurveyFaultAtMost
  <2> QED BY <1>1, <2>1, <2>2, <2>3 DEF SurveyInv, SurveyShape
<1>4. OneAnswer'
  BY <1>1 DEF SurveyInv, OneAnswer
<1>5. LeftAsSaid'
  <2>1. \A e \in Edits : Editing(e)' => Editing(e) /\ surveyHeld'[e] = surveyHeld[e]
    BY <1>2, Endpoints
  <2> QED BY <1>1, <2>1 DEF SurveyInv, LeftAsSaid
<1>6. SaidIsRecent'
  <2>1. \A d \in Survey!Dnis : <<d, hour', ~Survey!Taken(d)'>> \in wasFree'
    BY <1>1 DEF SurveyInv, SaidIsRecent, Survey!Taken
  <2>2. \A d \in Survey!Dnis : Cached(d)' =>
          cache'[d].since \in Nat /\ cache'[d].since \in (hour' - 1)..hour'
          /\ SoWithin(d, cache[d].since, 1, cache[d].free)'
    BY <1>1 DEF SurveyInv, SaidIsRecent, Cached, SoWithin
  <2>3. ASSUME NEW p \in Validations, surveyPc'[p] = "setCache"
        PROVE  /\ surveyHeld'[p] \in [free : BOOLEAN, at : Nat] /\ surveyHeld'[p].at \in (hour' - 1)..hour'
               /\ <<Survey!Dni(p), surveyHeld'[p].at, surveyHeld'[p].free>> \in wasFree'
    <3>1. CASE p = q
      <4>1. surveyHeld'[p] = [free |-> ~Survey!Taken(Survey!Dni(p)), at |-> hour]
        BY <1>1, <2>3, <3>1 DEF Rests
      <4>2. <<Survey!Dni(p), hour, ~Survey!Taken(Survey!Dni(p))>> \in wasFree
        BY Endpoints DEF SurveyInv, SaidIsRecent
      <4>3. hour \in Nat
        BY Endpoints DEF SurveyInv, SurveyShape
      <4> QED BY <1>1, <4>1, <4>2, <4>3
    <3>2. CASE p # q
      BY <1>1, <2>3, <3>2, Endpoints DEF SurveyInv, SaidIsRecent
    <3> QED BY <3>1, <3>2
  <2>4. ASSUME NEW p \in Validations, surveyPc'[p] = "ok"
        PROVE  \E h \in (surveyHeld'[p].at - 2)..surveyHeld'[p].at :
                 <<Survey!Dni(p), h, surveyHeld'[p].free>> \in wasFree'
    <3>1. CASE p = q
      BY <1>1, <2>4, <3>1 DEF Rests, SoWithin
    <3>2. CASE p # q
      BY <1>1, <2>4, <3>2, Endpoints DEF SurveyInv, SaidIsRecent, Survey!AnswersAreRecent
    <3> QED BY <3>1, <3>2
  <2>5. Survey!AnswersAreRecent'
    BY <2>4 DEF Survey!AnswersAreRecent, Survey!Dni
  <2> QED BY <2>1, <2>2, <2>3, <2>5 DEF SaidIsRecent
<1> QED BY <1>3, <1>4, <1>5, <1>6 DEF SurveyInv

LEMMA SetCacheKeeps ==
  ASSUME SurveyInv, NEW q \in Survey!Requests, Survey!SetCache(q)
  PROVE  SurveyInv'
<1>c. PICK d : d = Survey!Dni(q)
  OBVIOUS
<1>1. /\ surveyPc[q] = "setCache" /\ surveyPc' = [surveyPc EXCEPT ![q] = "ok"]
      /\ \/ /\ cache' = [cache EXCEPT ![d] = [free |-> surveyHeld[q].free, since |-> hour]]
            /\ surveyFaults' = surveyFaults
         \/ Survey!Fault /\ cache' = cache
      /\ surveyHeld' = [surveyHeld EXCEPT ![q] = [@ EXCEPT !.at = hour]]
      /\ UNCHANGED <<answers, lastId, hour, latest, deleted, surveyMixed, wasFree>>
  BY <1>c DEF Survey!SetCache, Survey!Goto, Survey!ghosts
<1>2. SurveyShape /\ q \in Validations /\ d \in Survey!Dnis /\ "ok" \in Survey!Steps /\ hour \in Nat
  BY <1>1, <1>c, Endpoints DEF SurveyInv, SurveyShape, Survey!Steps, Survey!Final
<1>3. /\ surveyPc'[q] = "ok" /\ surveyPc' \in [Survey!Requests -> Survey!Steps]
      /\ surveyHeld' = [p \in Survey!Requests |-> surveyHeld'[p]]
      /\ \A p \in Survey!Requests : p # q => surveyPc'[p] = surveyPc[p] /\ surveyHeld'[p] = surveyHeld[p]
      /\ surveyHeld'[q] = [surveyHeld[q] EXCEPT !.at = hour]
  BY <1>1, <1>2 DEF SurveyShape
<1>h. surveyHeld'[q].at = hour /\ surveyHeld'[q].free = surveyHeld[q].free
  <2>1. surveyHeld[q] \in [free : BOOLEAN, at : Nat]
    BY <1>1, <1>2 DEF SurveyInv, SaidIsRecent
  <2> QED BY <1>3, <2>1
<1>k. /\ cache' = [e \in Survey!Dnis |-> cache'[e]]
      /\ \A e \in Survey!Dnis : e # d => cache'[e] = cache[e]
      /\ cache'[d] = [free |-> surveyHeld[q].free, since |-> hour] \/ cache'[d] = cache[d]
  BY <1>1, <1>2 DEF SurveyShape
<1>4. \E h \in (hour - 1)..hour : <<d, h, surveyHeld[q].free>> \in wasFree
  BY <1>1, <1>2, <1>c DEF SurveyInv, SaidIsRecent
<1>5. \A e \in Edits : e # q
  BY <1>2, Endpoints
<1>6. SurveyShape'
  <2>1. surveyFaults' \in 0..MaxFailures
    BY <1>1, <1>2, SurveyFaultsCount DEF SurveyFaultAtMost
  <2>2. \A p \in Survey!Requests :
       /\ surveyPc'[p] \in {"query", "setCache"} => p \in Validations
       /\ surveyPc'[p] = "save" => p \in Savings
       /\ surveyPc'[p] \in {"group", "find"} => p \in Reports
       /\ Editing(p)' => /\ p \in Edits /\ IdOf[p] \in DOMAIN latest'
                        /\ DOMAIN surveyHeld'[p] = AnswerColumns /\ surveyHeld'[p]["dni"] \in Survey!Dnis
    BY <1>1, <1>2, <1>3 DEF SurveyShape, Editing
  <2> QED BY <1>1, <1>2, <1>3, <1>k, <2>1, <2>2 DEF SurveyShape
<1>7. OneAnswer'
  BY <1>1 DEF SurveyInv, OneAnswer
<1>8. LeftAsSaid'
  <2>1. \A e \in Edits : /\ Editing(e)' => Editing(e)
                         /\ surveyHeld'[e] = surveyHeld[e]
    BY <1>3, <1>5, Endpoints DEF Editing
  <2> QED BY <1>1, <2>1 DEF SurveyInv, LeftAsSaid
<1>9. SaidIsRecent'
  <2>1. \A e \in Survey!Dnis : <<e, hour', ~Survey!Taken(e)'>> \in wasFree'
    BY <1>1 DEF SurveyInv, SaidIsRecent, Survey!Taken
  <2>2. ASSUME NEW e \in Survey!Dnis, Cached(e)'
        PROVE  /\ cache'[e].since \in Nat /\ cache'[e].since \in (hour' - 1)..hour'
               /\ SoWithin(e, cache[e].since, 1, cache[e].free)'
    <3>1. CASE cache'[e] = cache[e]
      BY <1>1, <2>2, <3>1 DEF SurveyInv, SaidIsRecent, Cached, SoWithin
    <3>2. CASE cache'[e] # cache[e]
      <4>1. e = d /\ cache'[e].free = surveyHeld[q].free /\ cache'[e].since = hour
        BY <1>k, <3>2
      <4> QED BY <1>1, <1>2, <1>4, <4>1 DEF SoWithin
    <3> QED BY <3>1, <3>2
  <2>3. \A p \in Validations : surveyPc'[p] = "setCache" =>
          /\ surveyHeld'[p] \in [free : BOOLEAN, at : Nat] /\ surveyHeld'[p].at \in (hour' - 1)..hour'
          /\ <<Survey!Dni(p), surveyHeld'[p].at, surveyHeld'[p].free>> \in wasFree'
    BY <1>1, <1>3, Endpoints DEF SurveyInv, SaidIsRecent
  <2>4. ASSUME NEW p \in Validations, surveyPc'[p] = "ok"
        PROVE  \E h \in (surveyHeld'[p].at - 2)..surveyHeld'[p].at :
                 <<Survey!Dni(p), h, surveyHeld'[p].free>> \in wasFree'
    <3>1. CASE p = q
      BY <1>1, <1>2, <1>h, <1>4, <1>c, <3>1
    <3>2. CASE p # q
      BY <1>1, <1>3, <2>4, <3>2, Endpoints DEF SurveyInv, SaidIsRecent, Survey!AnswersAreRecent
    <3> QED BY <3>1, <3>2
  <2>5. Survey!AnswersAreRecent'
    BY <2>4 DEF Survey!AnswersAreRecent, Survey!Dni
  <2> QED BY <2>1, <2>2, <2>3, <2>5 DEF SaidIsRecent
<1> QED BY <1>6, <1>7, <1>8, <1>9 DEF SurveyInv

\* What a save, an edit's write and a deletion have in common.
Writes(q, s) ==
  /\ q \in Survey!Requests /\ q \notin Validations /\ s \in Survey!Final
  /\ surveyPc' = [surveyPc EXCEPT ![q] = s]
  /\ UNCHANGED <<cache, hour, surveyHeld, surveyMixed, surveyFaults>>
  /\ wasFree \subseteq wasFree'
  /\ \A d \in Survey!Dnis : <<d, hour, ~Survey!Taken(d)'>> \in wasFree'

LEMMA Written ==
  ASSUME SurveyInv, NEW q, NEW s, Writes(q, s),
         lastId' \in Nat, lastId <= lastId',
         DOMAIN answers' \subseteq DOMAIN latest', DOMAIN latest \subseteq DOMAIN latest',
         DOMAIN latest' \subseteq 1..lastId',
         \A i \in DOMAIN answers' : DOMAIN answers'[i] = AnswerColumns /\ answers'[i]["dni"] \in Survey!Dnis
  PROVE  /\ SurveyShape' /\ SaidIsRecent' /\ ~Editing(q)'
         /\ \A p \in Survey!Requests : p # q => (Editing(p)' <=> Editing(p))
<1>1. /\ q \in Survey!Requests /\ surveyPc'[q] = s /\ surveyPc' \in [Survey!Requests -> Survey!Steps]
      /\ \A p \in Survey!Requests : p # q => surveyPc'[p] = surveyPc[p]
      /\ surveyHeld' = surveyHeld /\ surveyFaults' = surveyFaults /\ cache' = cache /\ hour' = hour
  BY DEF SurveyInv, SurveyShape, Writes, Survey!Steps
<1>2. ~Editing(q)' /\ s \notin {"query", "setCache", "save", "group", "find"}
  BY <1>1 DEF Editing, Writes, Survey!Final
<1>3. \A p \in Survey!Requests : p # q => (Editing(p)' <=> Editing(p))
  BY <1>1 DEF Editing
<1>4. SurveyShape'
  <2>1. \A p \in Survey!Requests :
       /\ surveyPc'[p] \in {"query", "setCache"} => p \in Validations
       /\ surveyPc'[p] = "save" => p \in Savings
       /\ surveyPc'[p] \in {"group", "find"} => p \in Reports
    BY <1>1, <1>2 DEF SurveyInv, SurveyShape
  <2>2. \A p \in Survey!Requests : Editing(p)' =>
          /\ p \in Edits /\ IdOf[p] \in DOMAIN latest'
          /\ DOMAIN surveyHeld'[p] = AnswerColumns /\ surveyHeld'[p]["dni"] \in Survey!Dnis
    BY <1>1, <1>2, <1>3 DEF SurveyInv, SurveyShape
  <2> QED BY <1>1, <2>1, <2>2 DEF SurveyInv, SurveyShape
<1>5. SaidIsRecent'
  <2>1. \A p \in Validations : surveyPc'[p] = surveyPc[p] /\ surveyHeld'[p] = surveyHeld[p]
    BY <1>1, Endpoints DEF Writes
  <2> QED BY <2>1, RecentThen DEF Writes, SurveyInv
<1> QED BY <1>2, <1>3, <1>4, <1>5

\* What the unsuccessful and the successful ends share.
LEMMA Watched ==
  ASSUME Survey!Watch, hour' = hour
  PROVE  /\ wasFree \subseteq wasFree'
         /\ \A d \in Survey!Dnis : <<d, hour, ~Survey!Taken(d)'>> \in wasFree'
BY DEF Survey!Watch

LEMMA GivesUp ==
  ASSUME SurveyInv, NEW q, NEW s, Writes(q, s), UNCHANGED <<answers, latest, deleted>>,
         lastId' = lastId \/ lastId' = lastId + 1
  PROVE  SurveyInv'
<1>1. SurveyShape /\ lastId \in Nat
  BY DEF SurveyInv, SurveyShape
<1>2. /\ lastId' \in Nat /\ lastId <= lastId' /\ DOMAIN latest' \subseteq 1..lastId'
      /\ DOMAIN answers' \subseteq DOMAIN latest' /\ DOMAIN latest \subseteq DOMAIN latest'
      /\ \A i \in DOMAIN answers' : DOMAIN answers'[i] = AnswerColumns /\ answers'[i]["dni"] \in Survey!Dnis
  BY <1>1 DEF SurveyShape
<1>3. /\ SurveyShape' /\ SaidIsRecent' /\ ~Editing(q)'
      /\ \A p \in Survey!Requests : p # q => (Editing(p)' <=> Editing(p))
  BY <1>2, Written
<1>4. OneAnswer'
  BY DEF SurveyInv, OneAnswer
<1>5. LeftAsSaid'
  <2>1. \A e \in Edits : Editing(e)' => Editing(e)
    BY <1>3, Endpoints
  <2> QED BY <2>1 DEF SurveyInv, LeftAsSaid, Writes
<1> QED BY <1>3, <1>4, <1>5 DEF SurveyInv

LEMMA SaveAnswerKeeps ==
  ASSUME SurveyInv, NEW q \in Survey!Requests, Survey!Save(q)
  PROVE  SurveyInv'
<1>1. /\ surveyPc[q] = "save" /\ lastId' = lastId + 1 /\ q \in Savings
      /\ UNCHANGED <<cache, hour, surveyHeld, deleted, surveyMixed, surveyFaults>> /\ Survey!Watch
  BY DEF Survey!Save, SurveyInv, SurveyShape
<1>2. SurveyShape /\ q \notin Validations /\ lastId \in Nat /\ Survey!Dni(q) \in Survey!Dnis
  BY <1>1, Endpoints DEF SurveyInv, SurveyShape
<1>3. CASE Survey!Taken(Survey!Dni(q))
  <2>1. surveyPc' = [surveyPc EXCEPT ![q] = "500"] /\ UNCHANGED <<answers, latest>>
    BY <1>3 DEF Survey!Save, Survey!Goto
  <2>2. Writes(q, "500")
    BY <1>1, <1>2, <2>1, Watched DEF Writes, Survey!Final
  <2> QED BY <1>1, <2>1, <2>2, GivesUp
<1>4. CASE ~Survey!Taken(Survey!Dni(q))
  <2>r. PICK row : row = [c \in AnswerColumns |-> IF c = "dni" THEN Survey!Dni(q) ELSE DtoOf[q][c]]
    OBVIOUS
  <2>n. PICK n : n = lastId + 1
    OBVIOUS
  <2>1. /\ surveyPc' = [surveyPc EXCEPT ![q] = "ok"]
        /\ answers' = [i \in DOMAIN answers \cup {n} |-> IF i = n THEN row ELSE answers[i]]
        /\ latest' = [i \in DOMAIN latest \cup {n} |-> IF i = n THEN row ELSE latest[i]]
    BY <1>1, <1>4, <2>r, <2>n DEF Survey!Save, Survey!Goto, AnswerColumns
  <2>2. row["dni"] = Survey!Dni(q) /\ DOMAIN row = AnswerColumns
    BY <2>r DEF AnswerColumns
  <2>3. /\ n \in Nat /\ n \notin DOMAIN latest /\ n \notin DOMAIN answers /\ lastId <= lastId'
        /\ n \in 1..lastId' /\ lastId' \in Nat /\ 1..lastId \subseteq 1..lastId'
    BY <1>1, <1>2, <2>n DEF SurveyShape
  <2>4. /\ DOMAIN answers' = DOMAIN answers \cup {n} /\ answers'[n] = row
        /\ \A i \in DOMAIN answers : i # n /\ answers'[i] = answers[i]
        /\ DOMAIN latest' = DOMAIN latest \cup {n} /\ latest'[n] = row
        /\ \A i \in DOMAIN latest : i # n /\ latest'[i] = latest[i]
    BY <2>1, <2>3
  <2>5. Writes(q, "ok")
    BY <1>1, <1>2, <2>1, Watched DEF Writes, Survey!Final
  <2>6. /\ DOMAIN answers' \subseteq DOMAIN latest' /\ DOMAIN latest \subseteq DOMAIN latest'
        /\ DOMAIN latest' \subseteq 1..lastId'
        /\ \A i \in DOMAIN answers' : DOMAIN answers'[i] = AnswerColumns /\ answers'[i]["dni"] \in Survey!Dnis
    BY <1>2, <2>2, <2>3, <2>4 DEF SurveyShape
  <2>7. /\ SurveyShape' /\ SaidIsRecent' /\ ~Editing(q)'
        /\ \A p \in Survey!Requests : p # q => (Editing(p)' <=> Editing(p))
    BY <2>3, <2>5, <2>6, Written
  <2>8. OneAnswer'
    BY <1>4, <2>2, <2>4 DEF SurveyInv, OneAnswer, Survey!Taken
  <2>9. LeftAsSaid'
    <3>1. \A e \in Edits : Editing(e)' => Editing(e) /\ IdOf[e] \in DOMAIN latest /\ surveyHeld'[e] = surveyHeld[e]
      BY <1>1, <1>2, <2>7, Endpoints DEF SurveyShape
    <3>2. ASSUME NEW i \in DOMAIN latest', i \notin surveyMixed'
          PROVE  /\ \A e, p \in Edits : Editing(e)' /\ Editing(p)' /\ IdOf[e] = i /\ IdOf[p] = i => e = p
                 /\ i \notin deleted' =>
                      /\ i \in DOMAIN answers' /\ answers'[i] = latest'[i]
                      /\ \A e \in Edits : Editing(e)' /\ IdOf[e] = i =>
                           surveyHeld'[e] = Survey!Merged(e, latest'[i])
      <4>1. CASE i = n
        BY <2>3, <2>4, <3>1, <4>1
      <4>2. CASE i # n
        <5>1. i \in DOMAIN latest /\ i \notin surveyMixed /\ latest'[i] = latest[i]
          BY <1>1, <2>4, <3>2, <4>2
        <5> QED BY <1>1, <2>4, <3>1, <5>1 DEF SurveyInv, LeftAsSaid
      <4> QED BY <4>1, <4>2
    <3> QED BY <3>2 DEF LeftAsSaid, Editing, Survey!Merged, Survey!Given
  <2> QED BY <2>7, <2>8, <2>9 DEF SurveyInv
<1> QED BY <1>3, <1>4

LEMMA PutKeeps ==
  ASSUME SurveyInv, NEW e \in Survey!Requests, Survey!Put(e)
  PROVE  SurveyInv'
<1>c. PICK c : c = IdOf[e]
  OBVIOUS
<1>1. /\ surveyPc[e] = "put" /\ Editing(e)
      /\ UNCHANGED <<lastId, cache, hour, surveyHeld, deleted, surveyMixed, surveyFaults>> /\ Survey!Watch
  BY DEF Survey!Put, Editing
<1>2. /\ SurveyShape /\ e \in Edits /\ e \notin Validations /\ lastId \in Nat /\ c \in DOMAIN latest
      /\ DOMAIN surveyHeld[e] = AnswerColumns /\ surveyHeld[e]["dni"] \in Survey!Dnis
  BY <1>1, <1>c, Endpoints DEF SurveyInv, SurveyShape
<1>3. CASE \E i \in DOMAIN answers \ {c} : answers[i].dni = surveyHeld[e].dni
  <2>1. surveyPc' = [surveyPc EXCEPT ![e] = "500"] /\ UNCHANGED <<answers, latest>>
    BY <1>3, <1>c DEF Survey!Put, Survey!Goto
  <2>2. Writes(e, "500")
    BY <1>1, <1>2, <2>1, Watched DEF Writes, Survey!Final
  <2> QED BY <1>1, <2>1, <2>2, GivesUp
<1>4. CASE ~\E i \in DOMAIN answers \ {c} : answers[i].dni = surveyHeld[e].dni
  <2>1. /\ surveyPc' = [surveyPc EXCEPT ![e] = "ok"]
        /\ answers' = [i \in DOMAIN answers \cup {c} |-> IF i = c THEN surveyHeld[e] ELSE answers[i]]
        /\ latest' = [latest EXCEPT ![c] = Survey!Merged(e, latest[c])]
    BY <1>1, <1>4, <1>c DEF Survey!Put, Survey!Goto
  <2>4. /\ DOMAIN answers' = DOMAIN answers \cup {c} /\ answers'[c] = surveyHeld[e]
        /\ \A i \in DOMAIN answers : i # c => answers'[i] = answers[i]
        /\ DOMAIN latest' = DOMAIN latest /\ latest'[c] = Survey!Merged(e, latest[c])
        /\ \A i \in DOMAIN latest : i # c => latest'[i] = latest[i]
    BY <1>2, <2>1
  <2>5. Writes(e, "ok")
    BY <1>1, <1>2, <2>1, Watched DEF Writes, Survey!Final
  <2>6. /\ DOMAIN answers' \subseteq DOMAIN latest' /\ DOMAIN latest \subseteq DOMAIN latest'
        /\ DOMAIN latest' \subseteq 1..lastId' /\ lastId' \in Nat /\ lastId <= lastId'
        /\ \A i \in DOMAIN answers' : DOMAIN answers'[i] = AnswerColumns /\ answers'[i]["dni"] \in Survey!Dnis
    BY <1>1, <1>2, <2>4 DEF SurveyShape
  <2>7. /\ SurveyShape' /\ SaidIsRecent' /\ ~Editing(e)'
        /\ \A p \in Survey!Requests : p # e => (Editing(p)' <=> Editing(p))
    BY <2>5, <2>6, Written
  <2>8. OneAnswer'
    BY <1>4, <2>4 DEF SurveyInv, OneAnswer
  <2>9. LeftAsSaid'
    <3>1. \A p \in Edits : Editing(p)' => Editing(p) /\ p # e /\ surveyHeld'[p] = surveyHeld[p]
      BY <1>1, <2>7, Endpoints
    <3>2. ASSUME NEW i \in DOMAIN latest', i \notin surveyMixed'
          PROVE  /\ \A r, p \in Edits : Editing(r)' /\ Editing(p)' /\ IdOf[r] = i /\ IdOf[p] = i => r = p
                 /\ i \notin deleted' =>
                      /\ i \in DOMAIN answers' /\ answers'[i] = latest'[i]
                      /\ \A p \in Edits : Editing(p)' /\ IdOf[p] = i =>
                           surveyHeld'[p] = Survey!Merged(p, latest'[i])
      <4>0. i \in DOMAIN latest /\ i \notin surveyMixed
        BY <1>1, <2>4, <3>2
      <4>1. CASE i = c
        <5>1. \A p \in Edits : Editing(p)' => IdOf[p] # i
          BY <1>1, <1>2, <1>c, <3>1, <4>0, <4>1 DEF SurveyInv, LeftAsSaid
        <5>2. i \notin deleted => surveyHeld[e] = Survey!Merged(e, latest[c])
          BY <1>1, <1>2, <1>c, <4>0, <4>1 DEF SurveyInv, LeftAsSaid
        <5> QED BY <1>1, <2>4, <4>1, <5>1, <5>2
      <4>2. CASE i # c
        BY <1>1, <2>4, <3>1, <4>0, <4>2 DEF SurveyInv, LeftAsSaid
      <4> QED BY <4>1, <4>2
    <3> QED BY <3>2 DEF LeftAsSaid, Editing, Survey!Merged, Survey!Given
  <2> QED BY <2>7, <2>8, <2>9 DEF SurveyInv
<1> QED BY <1>3, <1>4

LEMMA DeleteKeeps ==
  ASSUME SurveyInv, NEW q \in Survey!Requests, Survey!Delete(q)
  PROVE  SurveyInv'
<1>c. PICK c : c = IdOf[q]
  OBVIOUS
<1>1. /\ surveyPc[q] = "new" /\ q \in Deletions
      /\ UNCHANGED <<lastId, cache, hour, surveyHeld, latest, surveyMixed, surveyFaults>> /\ Survey!Watch
  BY DEF Survey!Delete
<1>2. SurveyShape /\ q \notin Validations /\ lastId \in Nat
  BY <1>1, Endpoints DEF SurveyInv, SurveyShape
<1>3. CASE c \notin DOMAIN answers
  <2>1. surveyPc' = [surveyPc EXCEPT ![q] = "404"] /\ UNCHANGED <<answers, deleted>>
    BY <1>3, <1>c DEF Survey!Delete, Survey!Goto
  <2>2. Writes(q, "404")
    BY <1>1, <1>2, <2>1, Watched DEF Writes, Survey!Final
  <2> QED BY <1>1, <2>1, <2>2, GivesUp
<1>4. CASE c \in DOMAIN answers
  <2>1. /\ surveyPc' = [surveyPc EXCEPT ![q] = "ok"] /\ deleted' = deleted \cup {c}
        /\ answers' = [i \in DOMAIN answers \ {c} |-> answers[i]]
    BY <1>4, <1>c DEF Survey!Delete, Survey!Goto
  <2>4. /\ DOMAIN answers' = DOMAIN answers \ {c}
        /\ \A i \in DOMAIN answers' : answers'[i] = answers[i]
    BY <2>1
  <2>5. Writes(q, "ok")
    BY <1>1, <1>2, <2>1, Watched DEF Writes, Survey!Final
  <2>6. /\ DOMAIN answers' \subseteq DOMAIN latest' /\ DOMAIN latest \subseteq DOMAIN latest'
        /\ DOMAIN latest' \subseteq 1..lastId' /\ lastId' \in Nat /\ lastId <= lastId'
        /\ \A i \in DOMAIN answers' : DOMAIN answers'[i] = AnswerColumns /\ answers'[i]["dni"] \in Survey!Dnis
    BY <1>1, <1>2, <2>4 DEF SurveyShape
  <2>7. /\ SurveyShape' /\ SaidIsRecent' /\ ~Editing(q)'
        /\ \A p \in Survey!Requests : p # q => (Editing(p)' <=> Editing(p))
    BY <2>5, <2>6, Written
  <2>8. OneAnswer'
    BY <2>4 DEF SurveyInv, OneAnswer
  <2>9. LeftAsSaid'
    <3>1. \A p \in Edits : Editing(p)' => Editing(p) /\ surveyHeld'[p] = surveyHeld[p]
      BY <1>1, <2>7, Endpoints
    <3>2. ASSUME NEW i \in DOMAIN latest', i \notin surveyMixed'
          PROVE  /\ \A r, p \in Edits : Editing(r)' /\ Editing(p)' /\ IdOf[r] = i /\ IdOf[p] = i => r = p
                 /\ i \notin deleted' =>
                      /\ i \in DOMAIN answers' /\ answers'[i] = latest'[i]
                      /\ \A p \in Edits : Editing(p)' /\ IdOf[p] = i =>
                           surveyHeld'[p] = Survey!Merged(p, latest'[i])
      <4>1. i \in DOMAIN latest /\ i \notin surveyMixed /\ latest'[i] = latest[i]
            /\ (i \notin deleted' => i # c /\ i \notin deleted)
        BY <1>1, <2>1, <3>2
      <4> QED BY <2>4, <3>1, <4>1 DEF SurveyInv, LeftAsSaid
    <3> QED BY <3>2 DEF LeftAsSaid, Editing, Survey!Merged, Survey!Given
  <2> QED BY <2>7, <2>8, <2>9 DEF SurveyInv
<1> QED BY <1>3, <1>4

LEMMA ReadAnswerKeeps ==
  ASSUME SurveyInv, NEW e \in Survey!Requests, Survey!Read(e), IdOf[e] \in DOMAIN answers
  PROVE  SurveyInv'
<1>c. PICK c : c = IdOf[e]
  OBVIOUS
<1>s. PICK s : s = IF surveyHeld'[e].dni = answers[c].dni THEN "put" ELSE "dni"
  OBVIOUS
<1>1. /\ e \in Edits /\ surveyPc[e] = "new" /\ surveyPc' = [surveyPc EXCEPT ![e] = s] /\ s \in {"put", "dni"}
      /\ surveyHeld' = [surveyHeld EXCEPT ![e] = Survey!Merged(e, answers[c])]
      /\ surveyMixed' = IF \E p \in Edits : IdOf[p] = c /\ Survey!AtWork(p)
                          THEN surveyMixed \cup {c} ELSE surveyMixed
      /\ UNCHANGED <<answers, lastId, cache, hour, latest, deleted, wasFree, surveyFaults>>
  BY <1>c, <1>s DEF Survey!Read, Survey!Goto
<1>2. /\ SurveyShape /\ e \notin Validations /\ c \in DOMAIN answers /\ c \in DOMAIN latest
      /\ s \in Survey!Steps /\ ~Editing(e)
  BY <1>1, <1>c, Endpoints DEF SurveyInv, SurveyShape, Survey!Steps, Editing
<1>3. /\ surveyPc'[e] = s /\ surveyPc' \in [Survey!Requests -> Survey!Steps]
      /\ surveyHeld' = [p \in Survey!Requests |-> surveyHeld'[p]]
      /\ surveyHeld'[e] = Survey!Merged(e, answers[c])
      /\ \A p \in Survey!Requests : p # e => surveyPc'[p] = surveyPc[p] /\ surveyHeld'[p] = surveyHeld[p]
  BY <1>1, <1>2 DEF SurveyShape
<1>4. \A p \in Survey!Requests : p # e => (Editing(p)' <=> Editing(p))
  BY <1>3 DEF Editing
<1>5. DOMAIN surveyHeld'[e] = AnswerColumns /\ surveyHeld'[e]["dni"] \in Survey!Dnis
  <2>1. answers[c]["dni"] \in Survey!Dnis
    BY <1>2 DEF SurveyShape
  <2>2. surveyHeld'[e]["dni"] = IF Survey!Given(e, "dni") THEN DtoOf[e]["dni"] ELSE answers[c]["dni"]
    BY <1>3 DEF Survey!Merged
  <2>3. DOMAIN surveyHeld'[e] = AnswerColumns
    BY <1>3 DEF Survey!Merged, AnswerColumns
  <2> QED BY <1>1, <2>1, <2>2, <2>3, Endpoints
<1>6. SurveyShape'
  <2>1. \A p \in Survey!Requests :
       /\ surveyPc'[p] \in {"query", "setCache"} => p \in Validations
       /\ surveyPc'[p] = "save" => p \in Savings
       /\ surveyPc'[p] \in {"group", "find"} => p \in Reports
    BY <1>1, <1>2, <1>3 DEF SurveyShape
  <2>2. \A p \in Survey!Requests : Editing(p)' =>
          /\ p \in Edits /\ IdOf[p] \in DOMAIN latest'
          /\ DOMAIN surveyHeld'[p] = AnswerColumns /\ surveyHeld'[p]["dni"] \in Survey!Dnis
    BY <1>1, <1>2, <1>3, <1>4, <1>5, <1>c DEF SurveyShape
  <2> QED BY <1>1, <1>2, <1>3, <2>1, <2>2 DEF SurveyShape
<1>7. OneAnswer'
  BY <1>1 DEF SurveyInv, OneAnswer
<1>8. SaidIsRecent'
  <2>1. \A p \in Validations : surveyPc'[p] = surveyPc[p] /\ surveyHeld'[p] = surveyHeld[p]
    BY <1>2, <1>3, Endpoints
  <2>2. \A d \in Survey!Dnis : <<d, hour, ~Survey!Taken(d)'>> \in wasFree'
    BY <1>1 DEF SurveyInv, SaidIsRecent, Survey!Taken
  <2> QED BY <1>1, <2>1, <2>2, RecentThen DEF SurveyInv
<1>9. LeftAsSaid'
  <2>1. ASSUME NEW i \in DOMAIN latest', i \notin surveyMixed'
        PROVE  /\ \A r, p \in Edits : Editing(r)' /\ Editing(p)' /\ IdOf[r] = i /\ IdOf[p] = i => r = p
               /\ i \notin deleted' =>
                    /\ i \in DOMAIN answers' /\ answers'[i] = latest'[i]
                    /\ \A p \in Edits : Editing(p)' /\ IdOf[p] = i =>
                         surveyHeld'[p] = Survey!Merged(p, latest'[i])
    <3>0. i \in DOMAIN latest /\ i \notin surveyMixed
      BY <1>1, <2>1
    <3>1. CASE i = c
      <4>1. \A p \in Edits : IdOf[p] = c => ~Editing(p)
        BY <1>1, <2>1, <3>1 DEF Editing, Survey!AtWork, Survey!Final
      <4>2. \A p \in Edits : Editing(p)' /\ IdOf[p] = c => p = e
        BY <1>4, <4>1, Endpoints
      <4>3. i \notin deleted => answers[c] = latest[c]
        BY <3>0, <3>1 DEF SurveyInv, LeftAsSaid
      <4> QED BY <1>1, <1>2, <1>3, <3>1, <4>2, <4>3
    <3>2. CASE i # c
      <4>1. \A p \in Edits : Editing(p)' /\ IdOf[p] = i => Editing(p) /\ surveyHeld'[p] = surveyHeld[p]
        BY <1>3, <1>4, <1>c, <3>2, Endpoints
      <4> QED BY <1>1, <3>0, <4>1 DEF SurveyInv, LeftAsSaid
    <3> QED BY <3>1, <3>2
  <2> QED BY <2>1 DEF LeftAsSaid, Editing, Survey!Merged, Survey!Given
<1> QED BY <1>6, <1>7, <1>8, <1>9 DEF SurveyInv

LEMMA LookupsRest ==
  ASSUME SurveyInv, NEW q \in Survey!Requests,
         \/ Survey!Look(q) \/ Survey!Query(q) \/ Survey!Find(q) \/ Survey!LookUpDni(q)
         \/ Survey!Read(q) /\ IdOf[q] \notin DOMAIN answers
         \/ Survey!Count(q) \/ Survey!GroupBy(q) \/ Survey!FindAll(q)
  PROVE  SurveyInv'
<1>0. SurveyShape /\ surveyHeld = [p \in Survey!Requests |-> surveyHeld[p]] /\ hour \in Nat
  BY Endpoints DEF SurveyInv, SurveyShape
<1>u. surveyFaults' = surveyFaults \/ Survey!Fault => SurveyFaultAtMost
  BY <1>0, SurveyFaultsCount
<1>s. {"ok", "400", "404", "409", "query", "setCache", "save", "put", "group", "find"} \subseteq Survey!Steps
  BY DEF Survey!Steps, Survey!Final
<1>1. CASE Survey!Look(q)
  <2>d. PICK d : d = Survey!Dni(q)
    OBVIOUS
  <2>1. /\ q \in Validations /\ d \in Survey!Dnis
        /\ UNCHANGED <<answers, lastId, cache, hour, latest, deleted, surveyMixed, wasFree>>
    BY <1>1, <2>d, Endpoints DEF Survey!Look, Survey!ghosts
  <2>2. CASE surveyPc' = [surveyPc EXCEPT ![q] = "400"] /\ surveyHeld' = surveyHeld /\ surveyFaults' = surveyFaults
    <3>1. Rests(q, "400")
      BY <1>0, <1>u, <1>s, <2>1, <2>2 DEF Rests
    <3> QED BY <3>1, RestsKeeps
  <2>3. CASE /\ Cached(d) /\ surveyPc' = [surveyPc EXCEPT ![q] = "ok"] /\ surveyFaults' = surveyFaults
             /\ surveyHeld' = [surveyHeld EXCEPT ![q] = [free |-> cache[d].free, at |-> hour]]
    <3>1. /\ surveyHeld'[q].free = cache[d].free /\ surveyHeld'[q].at = hour
          /\ \A p \in Survey!Requests : p # q => surveyHeld'[p] = surveyHeld[p]
          /\ surveyHeld' = [p \in Survey!Requests |-> surveyHeld'[p]]
      BY <1>0, <2>3
    <3>2. /\ cache[d].since \in Nat /\ cache[d].since \in (hour - 1)..hour
          /\ SoWithin(d, cache[d].since, 1, cache[d].free)
      BY <2>1, <2>3 DEF SurveyInv, SaidIsRecent
    <3>3. SoWithin(d, hour, 2, cache[d].free)
      <4>1. PICK k \in (cache[d].since - 1)..cache[d].since : <<d, k, cache[d].free>> \in wasFree
        BY <3>2 DEF SoWithin
      <4>2. k \in (hour - 2)..hour
        BY <1>0, <3>2
      <4> QED BY <4>1, <4>2 DEF SoWithin
    <3>4. Rests(q, "ok")
      BY <1>u, <1>s, <2>d, <2>1, <2>3, <3>1, <3>3 DEF Rests
    <3> QED BY <3>4, RestsKeeps
  <2>4. CASE /\ surveyPc' = [surveyPc EXCEPT ![q] = "query"] /\ surveyHeld' = surveyHeld
             /\ surveyFaults' = surveyFaults \/ Survey!Fault
    <3>1. Rests(q, "query")
      BY <1>0, <1>u, <1>s, <2>1, <2>4 DEF Rests
    <3> QED BY <3>1, RestsKeeps
  <2> QED BY <1>1, <2>2, <2>3, <2>4, <2>d DEF Survey!Look, Survey!Goto, Cached
<1>2. CASE Survey!Query(q)
  <2>1. /\ q \in Validations /\ surveyPc' = [surveyPc EXCEPT ![q] = "setCache"]
        /\ UNCHANGED <<answers, lastId, cache, hour, latest, deleted, surveyMixed, wasFree, surveyFaults>>
        /\ surveyHeld' = [surveyHeld EXCEPT ![q] = [free |-> ~Survey!Taken(Survey!Dni(q)), at |-> hour]]
    BY <1>0, <1>2 DEF Survey!Query, Survey!Goto, Survey!ghosts, SurveyShape
  <2>2. /\ surveyHeld'[q] = [free |-> ~Survey!Taken(Survey!Dni(q)), at |-> hour]
        /\ \A p \in Survey!Requests : p # q => surveyHeld'[p] = surveyHeld[p]
        /\ surveyHeld' = [p \in Survey!Requests |-> surveyHeld'[p]]
    BY <1>0, <2>1
  <2>3. Rests(q, "setCache")
    BY <1>u, <1>s, <2>1, <2>2 DEF Rests
  <2> QED BY <2>3, RestsKeeps
<1>3. CASE Survey!Find(q)
  <2> DEFINE s == IF Survey!Taken(Survey!Dni(q)) THEN "409" ELSE "save"
  <2>1. /\ q \in Savings /\ q \notin Validations /\ surveyPc' = [surveyPc EXCEPT ![q] = s]
        /\ UNCHANGED <<answers, lastId, cache, hour, latest, deleted, surveyMixed, wasFree, surveyHeld, surveyFaults>>
    BY <1>3, Endpoints DEF Survey!Find, Survey!Goto, Survey!ghosts
  <2>2. s \in {"409", "save"} /\ s \in Survey!Steps
    BY <1>s
  <2> HIDE DEF s
  <2>3. Rests(q, s)
    BY <1>0, <1>u, <2>1, <2>2 DEF Rests
  <2> QED BY <2>3, RestsKeeps
<1>4. CASE Survey!LookUpDni(q)
  <2> DEFINE s == IF Survey!Taken(surveyHeld[q].dni) THEN "409" ELSE "put"
  <2>1. /\ Editing(q) /\ surveyPc' = [surveyPc EXCEPT ![q] = s]
        /\ UNCHANGED <<answers, lastId, cache, hour, latest, deleted, surveyMixed, wasFree, surveyHeld, surveyFaults>>
    BY <1>4 DEF Survey!LookUpDni, Survey!Goto, Survey!ghosts, Editing
  <2>2. s \in {"409", "put"} /\ s \in Survey!Steps
    BY <1>s
  <2> HIDE DEF s
  <2>3. Rests(q, s)
    BY <1>0, <1>u, <2>1, <2>2 DEF Rests
  <2> QED BY <2>3, RestsKeeps
<1>5. CASE Survey!Read(q) /\ IdOf[q] \notin DOMAIN answers
  <2>1. /\ surveyPc' = [surveyPc EXCEPT ![q] = "404"]
        /\ UNCHANGED <<answers, lastId, cache, hour, latest, deleted, surveyMixed, wasFree, surveyHeld, surveyFaults>>
    BY <1>5 DEF Survey!Read, Survey!Goto
  <2>2. Rests(q, "404")
    BY <1>0, <1>u, <1>s, <2>1 DEF Rests
  <2> QED BY <2>2, RestsKeeps
<1>6. CASE Survey!Count(q) \/ Survey!GroupBy(q) \/ Survey!FindAll(q)
  <2>1. /\ q \in Reports /\ q \notin Validations
        /\ UNCHANGED <<answers, lastId, cache, hour, latest, deleted, surveyMixed, wasFree, surveyFaults>>
    BY <1>0, <1>6, Endpoints DEF Survey!Count, Survey!GroupBy, Survey!FindAll, Survey!ghosts, SurveyShape
  <2>2. \E s \in {"group", "find", "ok"} : surveyPc' = [surveyPc EXCEPT ![q] = s]
    BY <1>6 DEF Survey!Count, Survey!GroupBy, Survey!FindAll, Survey!Goto
  <2>3. \E x : surveyHeld' = [surveyHeld EXCEPT ![q] = x]
    BY <1>6 DEF Survey!Count, Survey!GroupBy, Survey!FindAll
  <2>4. PICK s \in {"group", "find", "ok"} : surveyPc' = [surveyPc EXCEPT ![q] = s]
    BY <2>2
  <2>5. /\ \A p \in Survey!Requests : p # q => surveyHeld'[p] = surveyHeld[p]
        /\ surveyHeld' = [p \in Survey!Requests |-> surveyHeld'[p]]
    BY <1>0, <2>3
  <2>6. Rests(q, s)
    BY <1>u, <1>s, <2>1, <2>4, <2>5 DEF Rests
  <2> QED BY <2>6, RestsKeeps
<1> QED BY <1>1, <1>2, <1>3, <1>4, <1>5, <1>6

LEMMA TimeKeeps ==
  ASSUME SurveyInv, Survey!Expire \/ Survey!Tick
  PROVE  SurveyInv'
<1>0. SurveyShape /\ hour \in Nat /\ MaxHours \in Nat /\ hour <= MaxHours
  BY Endpoints DEF SurveyInv, SurveyShape
<1>1. UNCHANGED <<answers, lastId, surveyPc, surveyHeld, latest, deleted, surveyMixed, surveyFaults>>
  BY DEF Survey!Expire, Survey!Tick, Survey!ghosts
<1>2. OneAnswer' /\ LeftAsSaid'
  BY <1>1 DEF SurveyInv, OneAnswer, LeftAsSaid, Editing
<1>3. CASE Survey!Expire
  <2>1. PICK d \in Survey!Dnis : cache' = [cache EXCEPT ![d] = Survey!NoEntry]
    BY <1>3 DEF Survey!Expire
  <2>2. hour' = hour /\ wasFree' = wasFree
    BY <1>3 DEF Survey!Expire, Survey!ghosts
  <2>3. /\ cache' = [e \in Survey!Dnis |-> cache'[e]] /\ cache'[d] = Survey!NoEntry
        /\ \A e \in Survey!Dnis : e # d => cache'[e] = cache[e]
    BY <1>0, <2>1 DEF SurveyShape
  <2>4. SurveyShape'
    BY <1>0, <1>1, <2>2, <2>3 DEF SurveyShape, Editing
  <2>5. \A e \in Survey!Dnis : Cached(e)' => Cached(e) /\ cache'[e] = cache[e]
    BY <2>3 DEF Cached
  <2>6. \A e \in Survey!Dnis : <<e, hour', ~Survey!Taken(e)'>> \in wasFree'
    BY <1>1, <2>2 DEF SurveyInv, SaidIsRecent, Survey!Taken
  <2>7. \A e \in Survey!Dnis : Cached(e)' =>
          cache'[e].since \in Nat /\ cache'[e].since \in (hour' - 1)..hour'
          /\ SoWithin(e, cache[e].since, 1, cache[e].free)'
    BY <2>2, <2>5 DEF SurveyInv, SaidIsRecent, SoWithin
  <2>8. \A q \in Validations : surveyPc'[q] = "setCache" =>
          surveyHeld'[q] \in [free : BOOLEAN, at : Nat] /\ surveyHeld'[q].at \in (hour' - 1)..hour'
          /\ <<Survey!Dni(q), surveyHeld'[q].at, surveyHeld'[q].free>> \in wasFree'
    BY <1>1, <2>2 DEF SurveyInv, SaidIsRecent
  <2>9. Survey!AnswersAreRecent'
    BY <1>1, <2>2 DEF SurveyInv, SaidIsRecent, Survey!AnswersAreRecent
  <2>10. SaidIsRecent'
    BY <2>6, <2>7, <2>8, <2>9 DEF SaidIsRecent
  <2> QED BY <1>2, <2>4, <2>10 DEF SurveyInv
<1>4. CASE Survey!Tick
  <2>1. /\ hour < MaxHours /\ hour' = hour + 1 /\ cache' = cache /\ Survey!Watch
        /\ \A d \in Survey!Dnis : Cached(d) => cache[d].since >= hour
        /\ \A q \in Validations : surveyPc[q] = "setCache" => surveyHeld[q].at = hour
    BY <1>4 DEF Survey!Tick, Cached, Survey!AtWork, Survey!Final
  <2>2. SurveyShape'
    BY <1>0, <1>1, <2>1 DEF SurveyShape, Editing
  <2>3. /\ wasFree \subseteq wasFree'
        /\ \A d \in Survey!Dnis : <<d, hour', ~Survey!Taken(d)'>> \in wasFree'
    BY <2>1 DEF Survey!Watch
  <2>4. ASSUME NEW e \in Survey!Dnis, Cached(e)'
        PROVE  /\ cache'[e].since \in Nat /\ cache'[e].since \in (hour' - 1)..hour'
               /\ SoWithin(e, cache[e].since, 1, cache[e].free)'
    <3>1. /\ cache[e].since \in Nat /\ cache[e].since \in (hour - 1)..hour /\ cache[e].since >= hour
          /\ SoWithin(e, cache[e].since, 1, cache[e].free)
      BY <2>1, <2>4 DEF SurveyInv, SaidIsRecent, Cached
    <3>2. cache'[e].since \in Nat /\ cache'[e].since \in (hour' - 1)..hour'
      BY <1>0, <2>1, <3>1
    <3>3. SoWithin(e, cache[e].since, 1, cache[e].free)'
      BY <2>1, <2>3, <3>1 DEF SoWithin
    <3> QED BY <3>2, <3>3
  <2>5. ASSUME NEW q \in Validations, surveyPc'[q] = "setCache"
        PROVE  /\ surveyHeld'[q] \in [free : BOOLEAN, at : Nat] /\ surveyHeld'[q].at \in (hour' - 1)..hour'
               /\ <<Survey!Dni(q), surveyHeld'[q].at, surveyHeld'[q].free>> \in wasFree'
    <3>1. /\ surveyHeld[q] \in [free : BOOLEAN, at : Nat] /\ surveyHeld[q].at = hour
          /\ <<Survey!Dni(q), surveyHeld[q].at, surveyHeld[q].free>> \in wasFree
      BY <1>1, <2>1, <2>5 DEF SurveyInv, SaidIsRecent
    <3> QED BY <1>0, <1>1, <2>1, <2>3, <3>1
  <2>6. Survey!AnswersAreRecent'
    BY <1>1, <2>3 DEF SurveyInv, SaidIsRecent, Survey!AnswersAreRecent
  <2>7. SaidIsRecent'
    BY <2>3, <2>4, <2>5, <2>6 DEF SaidIsRecent
  <2> QED BY <1>2, <2>2, <2>7 DEF SurveyInv
<1> QED BY <1>3, <1>4

LEMMA SurveyStarts == Survey!Init => SurveyInv
<1> SUFFICES ASSUME Survey!Init PROVE SurveyInv
  OBVIOUS
<1>1. /\ answers = << >> /\ lastId = 0 /\ cache = [d \in Survey!Dnis |-> Survey!NoEntry] /\ hour = 0
      /\ surveyPc = [q \in Survey!Requests |-> "new"] /\ surveyHeld = [q \in Survey!Requests |-> << >>]
      /\ latest = << >> /\ wasFree = {<<d, 0, TRUE>> : d \in Survey!Dnis} /\ surveyFaults = 0
  BY DEF Survey!Init
<1>2. DOMAIN << >> = {}
  OBVIOUS
<1>3. DOMAIN answers = {} /\ DOMAIN latest = {}
  BY <1>1, <1>2
<1>4. \A q \in Survey!Requests : surveyPc[q] = "new" /\ ~Editing(q)
  BY <1>1 DEF Editing
<1>5. "new" \in Survey!Steps
  BY DEF Survey!Steps, Survey!Final
<1>6. SurveyShape
  BY <1>1, <1>3, <1>4, <1>5, Endpoints DEF SurveyShape
<1>7. OneAnswer /\ LeftAsSaid
  BY <1>3 DEF OneAnswer, LeftAsSaid
<1>8. \A d \in Survey!Dnis : ~Cached(d) /\ Survey!Taken(d) = FALSE
  BY <1>1, <1>3 DEF Cached, Survey!Taken
<1>9. \A q \in Validations : surveyPc[q] \notin {"setCache", "ok"}
  BY <1>4, Endpoints
<1>10. \A d \in Survey!Dnis : <<d, hour, ~Survey!Taken(d)>> \in wasFree
  BY <1>1, <1>8
<1>11. SaidIsRecent
  BY <1>8, <1>9, <1>10 DEF SaidIsRecent, Survey!AnswersAreRecent
<1> QED BY <1>6, <1>7, <1>11 DEF SurveyInv

LEMMA SurveyInductive == Survey!Spec => []SurveyInv
<1>1. SurveyInv /\ Survey!Next => SurveyInv'
  <2> SUFFICES ASSUME SurveyInv, Survey!Next PROVE SurveyInv'
    OBVIOUS
  <2>1. CASE Survey!Expire \/ Survey!Tick
    BY <2>1, TimeKeeps
  <2>2. CASE \E q \in Survey!Requests : Survey!Serve(q)
    <3>1. PICK q \in Survey!Requests : Survey!Serve(q)
      BY <2>2
    <3> QED BY <3>1, SetCacheKeeps, SaveAnswerKeeps, PutKeeps, DeleteKeeps, ReadAnswerKeeps, LookupsRest
            DEF Survey!Serve, Survey!ValidarDni, Survey!GuardarEncuesta, Survey!EditarEncuesta,
                Survey!ObtenerEstadisticas
  <2> QED BY <2>1, <2>2 DEF Survey!Next
<1>2. SurveyInv /\ UNCHANGED Survey!vars => SurveyInv'
  <2> SUFFICES ASSUME SurveyInv, UNCHANGED Survey!vars PROVE SurveyInv'
    OBVIOUS
  <2>1. UNCHANGED <<answers, lastId, cache, hour, surveyPc, surveyHeld, latest, deleted, surveyMixed,
                    wasFree, surveyFaults>>
    BY DEF Survey!vars, Survey!ghosts
  <2>2. SurveyShape' /\ OneAnswer' /\ LeftAsSaid'
    BY <2>1 DEF SurveyInv, SurveyShape, OneAnswer, LeftAsSaid, Editing
  <2>3. \A d \in Survey!Dnis : <<d, hour, ~Survey!Taken(d)'>> \in wasFree'
    BY <2>1 DEF SurveyInv, SaidIsRecent, Survey!Taken
  <2>4. SaidIsRecent'
    BY <2>1, <2>3, RecentThen DEF SurveyInv
  <2> QED BY <2>2, <2>4 DEF SurveyInv
<1> QED BY <1>1, <1>2, SurveyStarts, PTL DEF Survey!Spec

LEMMA SurveyFollows == SurveyInv => AnswersAreRecent /\ AnswersAreKept
<1> SUFFICES ASSUME SurveyInv PROVE AnswersAreRecent /\ AnswersAreKept
  OBVIOUS
<1>0. SurveyShape
  BY DEF SurveyInv
<1>1. Survey!TypeOK
  <2>1. \A i \in DOMAIN answers : DOMAIN answers[i] = AnswerColumns /\ answers[i].dni \in Survey!Dnis
    BY <1>0 DEF SurveyShape
  <2>2. \A d \in Survey!Dnis : cache[d] = Survey!NoEntry \/ cache[d].since \in Nat
    BY DEF SurveyInv, SaidIsRecent, Cached
  <2>3. \A e \in Edits : surveyPc[e] \in {"dni", "put"} => IdOf[e] \in 1..lastId
    BY <1>0, Endpoints DEF SurveyShape, Editing
  <2>4. DOMAIN answers \subseteq 1..lastId
    BY <1>0 DEF SurveyShape
  <2> QED BY <1>0, <2>1, <2>2, <2>3, <2>4 DEF Survey!TypeOK, SurveyShape, AnswerColumns
<1>2. AnswersAreRecent
  BY <1>1 DEF SurveyInv, SaidIsRecent, AnswersAreRecent
<1>3. AnswersAreKept
  BY DEF SurveyInv, OneAnswer, LeftAsSaid, AnswersAreKept, Survey!AnswersAreKept
<1> QED BY <1>2, <1>3

----------------------------------------------------------------------------
(* Sums over finite sets *)

LEMMA LeastNatural ==
  ASSUME NEW T \in SUBSET Nat, T # {}
  PROVE  \E n \in T : \A m \in T : n <= m
<1>0. T \subseteq Nat
  OBVIOUS
<1>1. PICK R : R = OpToRel(<, Nat)
  OBVIOUS
<1>2. IsWellFoundedOn(R, Nat)
  BY <1>1, NatLessThanWellFounded
<1>3. PICK n \in T : \A m \in T : <<m, n>> \notin R
  BY <1>2, WFMin
<1>4. \A m \in T : <<m, n>> \in R <=> m < n
  BY <1>1 DEF OpToRel
<1>5. n \in Nat /\ \A m \in T : m \in Nat /\ ~(m < n)
  BY <1>0, <1>3, <1>4
<1>6. \A m \in T : n <= m
  BY <1>5
<1> QED BY <1>6

\* What holds of zero, and of a number that follows one of which it holds, holds of all.
LEMMA Inductive ==
  ASSUME NEW T \in SUBSET Nat, 0 \in T, \A n \in T : n + 1 \in T
  PROVE  T = Nat
<1> SUFFICES ASSUME T # Nat PROVE FALSE
  OBVIOUS
<1>1. PICK n \in Nat \ T : \A m \in Nat \ T : n <= m
  BY LeastNatural
<1>2. n # 0 /\ n - 1 \in Nat /\ n - 1 \in T
  BY <1>1
<1>3. n - 1 + 1 = n
  OBVIOUS
<1> QED BY <1>1, <1>2, <1>3

\* A function that adds up h over the subsets of S.
Summing(h, S, g) ==
  g = [s \in SUBSET S |-> IF s = {} THEN 0
                          ELSE h[CHOOSE x \in s : TRUE] + g[s \ {CHOOSE x \in s : TRUE}]]
SumOver(h, S) == (CHOOSE g : Summing(h, S, g))[S]

\* The sum over each subset is that of the rest and of one of its elements.
AddsUp(h, S, g) ==
  /\ g[S] = SumOver(h, S) /\ g[{}] = 0
  /\ \A s \in SUBSET S : s # {} => \E x \in s : g[s] = h[x] + g[s \ {x}]

LEMMA SumAddsUp ==
  ASSUME NEW S, IsFiniteSet(S), NEW h
  PROVE  \E g : AddsUp(h, S, g)
<1> DEFINE c(s) == CHOOSE x \in s : TRUE
           Upto(n) == {s \in SUBSET S : Cardinality(s) <= n}
           Good(g, n) == \A s \in Upto(n) : g[s] = IF s = {} THEN 0 ELSE h[c(s)] + g[s \ {c(s)}]
           T == {n \in Nat : \E g : Good(g, n)}
<1>1. \A s \in SUBSET S : /\ IsFiniteSet(s) /\ Cardinality(s) \in Nat /\ Cardinality(s) <= Cardinality(S)
                          /\ (s = {} <=> Cardinality(s) = 0)
                          /\ s # {} => c(s) \in s /\ Cardinality(s \ {c(s)}) = Cardinality(s) - 1
  <2> SUFFICES ASSUME NEW s \in SUBSET S
               PROVE  /\ IsFiniteSet(s) /\ Cardinality(s) \in Nat /\ Cardinality(s) <= Cardinality(S)
                      /\ (s = {} <=> Cardinality(s) = 0)
                      /\ s # {} => c(s) \in s /\ Cardinality(s \ {c(s)}) = Cardinality(s) - 1
    OBVIOUS
  <2>1. IsFiniteSet(s) /\ Cardinality(s) <= Cardinality(S)
    BY FS_Subset
  <2>2. s # {} => c(s) \in s
    OBVIOUS
  <2>3. Cardinality(s) \in Nat /\ (s = {} <=> Cardinality(s) = 0)
    BY <2>1, FS_CardinalityType, FS_EmptySet
  <2>4. s # {} => Cardinality(s \ {c(s)}) = Cardinality(s) - 1
    BY <2>1, <2>2, FS_RemoveElement
  <2> QED BY <2>1, <2>2, <2>3, <2>4
<1> HIDE DEF c
<1>2. 0 \in T
  <2>0. ASSUME NEW s \in SUBSET S, Cardinality(s) <= 0 PROVE s = {}
    <3>1. Cardinality(s) \in Nat
      BY <1>1
    <3>2. Cardinality(s) = 0
      BY <2>0, <3>1
    <3> QED BY <1>1, <3>2
  <2> DEFINE z == [s \in SUBSET S |-> 0]
  <2>1. \A s \in SUBSET S : z[s] = 0
    OBVIOUS
  <2> HIDE DEF z
  <2>2. Good(z, 0)
    BY <2>0, <2>1
  <2> QED BY <2>2
<1>3. ASSUME NEW n \in T PROVE n + 1 \in T
  <2>1. PICK g : Good(g, n)
    OBVIOUS
  <2> DEFINE k == [s \in SUBSET S |-> IF Cardinality(s) <= n THEN g[s] ELSE h[c(s)] + g[s \ {c(s)}]]
  <2>2. ASSUME NEW s \in Upto(n + 1)
        PROVE  k[s] = IF s = {} THEN 0 ELSE h[c(s)] + k[s \ {c(s)}]
    <3>1. s \in SUBSET S /\ s \ {c(s)} \in SUBSET S /\ Cardinality(s) <= n + 1
      OBVIOUS
    <3>2. CASE s = {}
      <4>0. n \in Nat /\ Cardinality(s) = 0
        BY <1>1, <3>1, <3>2
      <4>1. Cardinality(s) <= n /\ s \in Upto(n)
        BY <3>1, <4>0
      <4> QED BY <2>1, <3>2, <4>1
    <3>3. CASE s # {}
      <4>1. Cardinality(s \ {c(s)}) <= n
        BY <1>1, <3>1, <3>3
      <4>2. k[s \ {c(s)}] = g[s \ {c(s)}]
        BY <3>1, <4>1
      <4>3. k[s] = h[c(s)] + g[s \ {c(s)}]
        <5>1. CASE Cardinality(s) <= n
          <6>1. s \in Upto(n) /\ k[s] = g[s]
            BY <3>1, <5>1
          <6> QED BY <2>1, <3>3, <6>1
        <5>2. CASE ~(Cardinality(s) <= n)
          BY <3>1, <5>2
        <5> QED BY <5>1, <5>2
      <4> QED BY <3>3, <4>2, <4>3
    <3> QED BY <3>2, <3>3
  <2> HIDE DEF k
  <2>3. Good(k, n + 1)
    BY <2>2
  <2>4. n + 1 \in Nat
    OBVIOUS
  <2> HIDE DEF Good
  <2> QED BY <2>3, <2>4
<1>4. Cardinality(S) \in T
  <2>1. T = Nat
    <3> HIDE DEF Good
    <3>1. T \in SUBSET Nat
      OBVIOUS
    <3> HIDE DEF T
    <3> QED BY <1>2, <1>3, <3>1, Inductive
  <2> QED BY <1>1, <2>1
<1>5. PICK f : Good(f, Cardinality(S))
  BY <1>4
<1> DEFINE e == [s \in SUBSET S |-> f[s]]
<1>6. Summing(h, S, e)
  <2>1. ASSUME NEW s \in SUBSET S
        PROVE  e[s] = IF s = {} THEN 0 ELSE h[c(s)] + e[s \ {c(s)}]
    <3>1. s \in Upto(Cardinality(S)) /\ s \ {c(s)} \in SUBSET S
      BY <1>1
    <3> QED BY <1>5, <3>1
  <2>2. e = [s \in SUBSET S |-> IF s = {} THEN 0 ELSE h[c(s)] + e[s \ {c(s)}]]
    <3>1. e = [s \in SUBSET S |-> e[s]]
      OBVIOUS
    <3> HIDE DEF e
    <3> QED BY <2>1, <3>1
  <2> HIDE DEF e
  <2> QED BY <2>2 DEF Summing, c
<1>7. PICK g : g = CHOOSE i : Summing(h, S, i)
  OBVIOUS
<1>8. Summing(h, S, g)
  BY <1>6, <1>7
<1>9. g[S] = SumOver(h, S)
  BY <1>7 DEF SumOver
<1>10. \A s \in SUBSET S : g[s] = IF s = {} THEN 0 ELSE h[c(s)] + g[s \ {c(s)}]
  <2>1. g = [s \in SUBSET S |-> IF s = {} THEN 0 ELSE h[c(s)] + g[s \ {c(s)}]]
    BY <1>8 DEF Summing, c
  <2> QED BY <2>1
<1>11. {} \in SUBSET S
  OBVIOUS
<1>12. g[{}] = 0
  BY <1>10, <1>11
<1>13. ASSUME NEW s \in SUBSET S, s # {} PROVE \E x \in s : g[s] = h[x] + g[s \ {x}]
  BY <1>1, <1>10, <1>13
<1> QED BY <1>9, <1>12, <1>13 DEF AddsUp

\* What is counted of disjoint sets adds up to what is counted of them together.
CountsParts(h, S, P) ==
  /\ \A x \in S : IsFiniteSet(P[x]) /\ h[x] = Cardinality(P[x])
  /\ \A x, y \in S : x # y => P[x] \cap P[y] = {}
Together(S, P) == UNION {P[x] : x \in S}

LEMMA SumOfParts ==
  ASSUME NEW S, IsFiniteSet(S), NEW h, NEW P, CountsParts(h, S, P)
  PROVE  IsFiniteSet(Together(S, P)) /\ SumOver(h, S) = Cardinality(Together(S, P))
<1>0. PICK g : AddsUp(h, S, g)
  BY SumAddsUp
<1>1. /\ g[S] = SumOver(h, S) /\ g[{}] = 0
      /\ \A s \in SUBSET S : s # {} => \E x \in s : g[s] = h[x] + g[s \ {x}]
  BY <1>0 DEF AddsUp
<1> DEFINE Of(s) == UNION {P[x] : x \in s}
           Right(s) == IsFiniteSet(Of(s)) /\ g[s] = Cardinality(Of(s))
           T == {n \in Nat : \A s \in SUBSET S : Cardinality(s) = n => Right(s)}
<1>2. 0 \in T
  <2> SUFFICES ASSUME NEW s \in SUBSET S, Cardinality(s) = 0 PROVE Right(s)
    OBVIOUS
  <2>1. s = {}
    BY FS_Subset, FS_EmptySet
  <2>2. Of(s) = {} /\ g[s] = 0
    BY <1>1, <2>1
  <2> HIDE DEF Of
  <2> QED BY <2>2, FS_EmptySet
<1>3. ASSUME NEW n \in T PROVE n + 1 \in T
  <2>0. n \in Nat
    OBVIOUS
  <2> SUFFICES ASSUME NEW s \in SUBSET S, Cardinality(s) = n + 1 PROVE Right(s)
    BY <2>0
  <2>1. IsFiniteSet(s) /\ s # {}
    BY <2>0, FS_Subset, FS_EmptySet
  <2>2. PICK x \in s : g[s] = h[x] + g[s \ {x}]
    BY <1>1, <2>1
  <2>3. PICK r \in SUBSET S : r = s \ {x}
    OBVIOUS
  <2>4. Cardinality(r) = n
    <3>1. Cardinality(s \ {x}) = Cardinality(s) - 1
      BY <2>1, FS_RemoveElement
    <3> HIDE DEF T
    <3> QED BY <2>0, <2>3, <3>1
  <2>5. Right(r)
    BY <2>4
  <2>6. Of(s) = Of(r) \cup P[x] /\ Of(r) \cap P[x] = {}
    BY <2>3 DEF CountsParts
  <2>7. IsFiniteSet(P[x]) /\ h[x] = Cardinality(P[x])
    BY DEF CountsParts
  <2> HIDE DEF Of
  <2>8. Cardinality(Of(r) \cap P[x]) = 0
    BY <2>6, FS_EmptySet
  <2>9. Cardinality(Of(r)) \in Nat /\ Cardinality(P[x]) \in Nat
    BY <2>5, <2>7, FS_CardinalityType
  <2>10. IsFiniteSet(Of(r) \cup P[x])
         /\ Cardinality(Of(r) \cup P[x]) = Cardinality(Of(r)) + Cardinality(P[x]) - Cardinality(Of(r) \cap P[x])
    BY <2>5, <2>7, FS_Union
  <2>11. g[s] = Cardinality(P[x]) + Cardinality(Of(r))
    BY <2>2, <2>3, <2>5, <2>7
  <2>12. IsFiniteSet(Of(s)) /\ Cardinality(Of(s)) = Cardinality(Of(r)) + Cardinality(P[x])
    BY <2>6, <2>8, <2>9, <2>10
  <2>13. g[s] = Cardinality(Of(s))
    BY <2>9, <2>11, <2>12
  <2> QED BY <2>12, <2>13
<1>4. Cardinality(S) \in T
  <2>1. T \in SUBSET Nat
    OBVIOUS
  <2>2. T = Nat
    <3> HIDE DEF T
    <3> QED BY <1>2, <1>3, <2>1, Inductive
  <2> QED BY <2>2, FS_CardinalityType
<1>5. Right(S)
  BY <1>4
<1> HIDE DEF Of
<1> QED BY <1>1, <1>5 DEF Of, Together

----------------------------------------------------------------------------
(* Sets in an order *)

\* Ahead[x] is what comes before x in an order of S, that is strict and total.
Ordered(S, Ahead) ==
  /\ Ahead \in [S -> SUBSET S]
  /\ \A x \in S : x \notin Ahead[x]
  /\ \A x, y \in S : x # y => x \in Ahead[y] \/ y \in Ahead[x]
  /\ \A x, y \in S : x \in Ahead[y] => Ahead[x] \subseteq Ahead[y]
\* s has at each place an element that as many as the places before come ahead of, if any.
Ranks(S, Ahead, s) ==
  /\ s = [k \in 1..Cardinality(S) |-> s[k]]
  /\ \A k \in 1..Cardinality(S) : \A x \in S :
       Cardinality(Ahead[x]) = k - 1 => s[k] \in S /\ Cardinality(Ahead[s[k]]) = k - 1
\* s has the elements of S, each once, in this order.
Lists(S, Ahead, s) ==
  /\ s \in [1..Cardinality(S) -> S] /\ Cardinality(S) \in Nat
  /\ \A x \in S : \E k \in 1..Cardinality(S) : s[k] = x
  /\ \A k, l \in 1..Cardinality(S) : k < l => s[k] \in Ahead[s[l]]

LEMMA RankedLists ==
  ASSUME NEW S, IsFiniteSet(S), NEW Ahead, Ordered(S, Ahead), NEW s, Ranks(S, Ahead, s)
  PROVE  Lists(S, Ahead, s)
<1> DEFINE c == Cardinality(S)
           D == 0..(c - 1)
           rank == [x \in S |-> Cardinality(Ahead[x])]
<1>0. c \in Nat
  BY FS_CardinalityType
<1>1. \A x \in S : IsFiniteSet(Ahead[x]) /\ Ahead[x] \subseteq S /\ x \notin Ahead[x] /\ rank[x] \in Nat
  <2>1. ASSUME NEW x \in S
        PROVE IsFiniteSet(Ahead[x]) /\ Ahead[x] \in SUBSET S /\ x \notin Ahead[x] /\ Cardinality(Ahead[x]) \in Nat
    <3>1. Ahead[x] \in SUBSET S /\ x \notin Ahead[x]
      BY DEF Ordered
    <3>2. IsFiniteSet(Ahead[x])
      BY <3>1, FS_Subset
    <3> QED BY <3>1, <3>2, FS_CardinalityType
  <2> QED BY <2>1
<1>2. ASSUME NEW x \in S, NEW A \in SUBSET S, IsFiniteSet(A), x \in A, Ahead[x] \subseteq A
      PROVE  rank[x] < Cardinality(A)
  <2>1. Ahead[x] \in SUBSET (A \ {x})
    BY <1>1, <1>2
  <2>2. IsFiniteSet(A \ {x}) /\ Cardinality(A \ {x}) = Cardinality(A) - 1
    BY <1>2, FS_RemoveElement
  <2>3. Cardinality(Ahead[x]) <= Cardinality(A \ {x})
    BY <2>1, <2>2, FS_Subset
  <2>4. Cardinality(A) \in Nat /\ rank[x] \in Nat
    BY <1>1, <1>2, FS_CardinalityType
  <2> QED BY <2>2, <2>3, <2>4
<1>3. \A x \in S : rank[x] \in D
  <2> SUFFICES ASSUME NEW x \in S PROVE rank[x] \in D
    OBVIOUS
  <2>1. rank[x] \in Nat /\ rank[x] < c
    BY <1>1, <1>2
  <2> HIDE DEF rank, c
  <2> QED BY <1>0, <2>1
<1>4. \A x, y \in S : x \in Ahead[y] => rank[x] < rank[y]
  <2> SUFFICES ASSUME NEW x \in S, NEW y \in S, x \in Ahead[y] PROVE rank[x] < Cardinality(Ahead[y])
    OBVIOUS
  <2>1. Ahead[x] \subseteq Ahead[y] /\ Ahead[y] \in SUBSET S /\ IsFiniteSet(Ahead[y])
    BY <1>1 DEF Ordered
  <2> QED BY <1>2, <2>1
<1>5. \A x, y \in S : rank[x] = rank[y] => x = y
  <2> SUFFICES ASSUME NEW x \in S, NEW y \in S, rank[x] = rank[y], x # y PROVE FALSE
    OBVIOUS
  <2>1. x \in Ahead[y] \/ y \in Ahead[x]
    BY DEF Ordered
  <2>2. rank[x] \in Nat /\ rank[y] \in Nat
    BY <1>1
  <2> HIDE DEF rank
  <2> QED BY <1>4, <2>1, <2>2
<1>6. \A n \in D : \E x \in S : rank[x] = n
  <2>1. IsFiniteSet(D) /\ Cardinality(D) = c
    <3>1. PICK b \in Int : b = c - 1
      BY <1>0
    <3>0. 0 \in Int
      OBVIOUS
    <3>2. IsFiniteSet(0..b) /\ Cardinality(0..b) = IF 0 > b THEN 0 ELSE b - 0 + 1
      BY <3>0, FS_Interval
    <3> QED BY <1>0, <3>1, <3>2
  <2>2. rank \in [S -> D]
    BY <1>3
  <2> HIDE DEF rank, D
  <2>3. rank \in Injection(S, D)
    BY <1>5, <2>2 DEF Injection, IsInjective
  <2>4. rank \in Surjection(S, D)
    BY <2>1, <2>3, FS_Injection
  <2> QED BY <2>4 DEF Surjection
<1>8. \A k \in 1..c : s[k] \in S /\ rank[s[k]] = k - 1
  <2> SUFFICES ASSUME NEW k \in 1..c PROVE s[k] \in S /\ rank[s[k]] = k - 1
    OBVIOUS
  <2>2. k - 1 \in D
    BY <1>0
  <2>3. \E x \in S : Cardinality(Ahead[x]) = k - 1
    BY <1>6, <2>2
  <2> QED BY <2>3 DEF Ranks
<1>9. s \in [1..c -> S]
  <2>1. s = [k \in 1..c |-> s[k]]
    BY DEF Ranks
  <2> HIDE DEF c
  <2> QED BY <1>8, <2>1
<1> HIDE DEF rank
<1>10. ASSUME NEW x \in S PROVE \E k \in 1..c : s[k] = x
  <2>1. PICK k \in Int : k = rank[x] + 1
    BY <1>3
  <2>2. k \in 1..c /\ k - 1 = rank[x]
    BY <1>0, <1>3, <2>1
  <2> QED BY <1>5, <1>8, <2>2
<1>11. ASSUME NEW k \in 1..c, NEW l \in 1..c, k < l PROVE s[k] \in Ahead[s[l]]
  <2>1. /\ s[k] \in S /\ s[l] \in S /\ rank[s[k]] = k - 1 /\ rank[s[l]] = l - 1
    BY <1>8
  <2>2. k - 1 # l - 1 /\ ~(l - 1 < k - 1)
    BY <1>0, <1>11
  <2>3. s[k] # s[l] /\ s[l] \notin Ahead[s[k]]
    BY <1>4, <2>1, <2>2
  <2> QED BY <2>1, <2>3 DEF Ordered
<1> HIDE DEF c
<1> QED BY <1>0, <1>9, <1>10, <1>11 DEF Lists, c

----------------------------------------------------------------------------
(* The report of the survey *)

LEMMA SurveyCardinality == \A S : Survey!Cardinality(S) = Cardinality(S)
BY DEF Survey!Cardinality, Cardinality

LEMMA SurveySum == \A h : Survey!SumFunction(h) = SumOver(h, DOMAIN h)
BY DEF Survey!SumFunction, Survey!SumFunctionOnSet, Survey!FoldFunctionOnSet, Survey!MapThenFoldSet, SumOver, Summing

\* Answers found: a sequence of them, each with two lists of options.
Found(F) ==
  /\ \E n \in Nat : DOMAIN F = 1..n
  /\ \A k \in DOMAIN F : \A v \in Survey!Votos : F[k][v] \in Seq(Options)

LEMMA FoundIsFinite ==
  ASSUME NEW F, Found(F), NEW v \in Survey!Votos
  PROVE  /\ IsFiniteSet(DOMAIN F)
         /\ \A k \in DOMAIN F : k \in Nat /\ IsFiniteSet(DOMAIN F[k][v]) /\ DOMAIN F[k][v] \subseteq Nat
<1>1. PICK n \in Nat : DOMAIN F = 1..n
  BY DEF Found
<1>2. \A m \in Nat : IsFiniteSet(1..m)
  <2> SUFFICES ASSUME NEW m \in Nat PROVE IsFiniteSet(1..m)
    OBVIOUS
  <2>1. 1 \in Int /\ m \in Int
    OBVIOUS
  <2> QED BY <2>1, FS_Interval
<1>3. ASSUME NEW k \in DOMAIN F PROVE IsFiniteSet(DOMAIN F[k][v]) /\ DOMAIN F[k][v] \subseteq Nat
  <2>1. F[k][v] \in Seq(Options)
    BY DEF Found
  <2>2. DOMAIN F[k][v] = 1..Len(F[k][v]) /\ Len(F[k][v]) \in Nat
    BY <2>1
  <2> QED BY <1>2, <2>2
<1> QED BY <1>1, <1>2, <1>3

\* The places of an answer where it names o.
PlacesOf(F, v, o) == [k \in DOMAIN F |-> {p \in Survey!Votes(F, v, o) : p[1] = k}]
TimesOf(F, v, o) == [k \in DOMAIN F |-> Survey!Times(F[k], v, o)]

LEMMA VotesAre ==
  ASSUME NEW F, NEW v, NEW o, NEW k \in DOMAIN F
  PROVE  PlacesOf(F, v, o)[k] = {<<k, n>> : n \in {m \in DOMAIN F[k][v] : F[k][v][m] = o}}
<1>1. PlacesOf(F, v, o)[k] = {p \in Survey!Votes(F, v, o) : p[1] = k}
  BY DEF PlacesOf
<1>2. \A p : p \in Survey!Votes(F, v, o) <=>
               \E j \in DOMAIN F : \E n \in DOMAIN F[j][v] : p = <<j, n>> /\ F[j][v][n] = o
  BY DEF Survey!Votes, Survey!Places
<1>3. ASSUME NEW p, p \in Survey!Votes(F, v, o), p[1] = k
      PROVE  p \in {<<k, n>> : n \in {m \in DOMAIN F[k][v] : F[k][v][m] = o}}
  BY <1>2, <1>3
<1>4. ASSUME NEW n \in DOMAIN F[k][v], F[k][v][n] = o
      PROVE  <<k, n>> \in Survey!Votes(F, v, o) /\ <<k, n>>[1] = k
  BY <1>2, <1>4
<1> QED BY <1>1, <1>3, <1>4

\* The votes of an option are the times each answer names it, added up.
LEMMA VotesAddUp ==
  ASSUME NEW F, Found(F), NEW v \in Survey!Votos, NEW o
  PROVE  /\ IsFiniteSet(Survey!Votes(F, v, o))
         /\ Cardinality(Survey!Votes(F, v, o)) = Survey!SumFunction(TimesOf(F, v, o))
<1>1. IsFiniteSet(DOMAIN F)
  BY FoundIsFinite
<1>2. PICK P : P = PlacesOf(F, v, o)
  OBVIOUS
<1>3. PICK h : h = TimesOf(F, v, o)
  OBVIOUS
<1>4. ASSUME NEW k \in DOMAIN F PROVE IsFiniteSet(P[k]) /\ h[k] = Cardinality(P[k])
  <2>1. PICK D : D = {m \in DOMAIN F[k][v] : F[k][v][m] = o}
    OBVIOUS
  <2>2. D \in SUBSET (DOMAIN F[k][v]) /\ IsFiniteSet(DOMAIN F[k][v])
    BY <2>1, FoundIsFinite
  <2>3. IsFiniteSet(D)
    BY <2>2, FS_Subset
  <2>4. P[k] = {<<k, n>> : n \in D}
    BY <1>2, <2>1, VotesAre
  <2>5. h[k] = Cardinality(D)
    BY <1>3, <2>1, SurveyCardinality DEF TimesOf, Survey!Times
  <2> DEFINE g == [n \in D |-> <<k, n>>]
  <2>6. g \in [D -> P[k]] /\ (\A m, n \in D : g[m] = g[n] => m = n) /\ \A p \in P[k] : \E n \in D : g[n] = p
    BY <2>4
  <2> HIDE DEF g
  <2>7. g \in Bijection(D, P[k])
    BY <2>6 DEF Bijection, Injection, IsInjective, Surjection
  <2>8. ExistsBijection(D, P[k])
    BY <2>7 DEF ExistsBijection
  <2> QED BY <2>3, <2>5, <2>8, FS_Bijection
<1>5. CountsParts(h, DOMAIN F, P)
  <2>1. \A x, y \in DOMAIN F : x # y => P[x] \cap P[y] = {}
    BY <1>2 DEF PlacesOf
  <2> QED BY <1>4, <2>1 DEF CountsParts
<1>6. Together(DOMAIN F, P) = Survey!Votes(F, v, o)
  <2>1. \A p \in Survey!Votes(F, v, o) : p[1] \in DOMAIN F
    BY DEF Survey!Votes, Survey!Places
  <2> QED BY <1>2, <2>1 DEF Together, PlacesOf
<1>7. Survey!SumFunction(h) = SumOver(h, DOMAIN F)
  <2>1. DOMAIN h = DOMAIN F
    BY <1>3 DEF TimesOf
  <2> QED BY <2>1, SurveySum
<1>8. IsFiniteSet(Together(DOMAIN F, P)) /\ SumOver(h, DOMAIN F) = Cardinality(Together(DOMAIN F, P))
  BY <1>1, <1>5, SumOfParts
<1> QED BY <1>3, <1>6, <1>7, <1>8

\* What is sooner, by the answer and then by the place in its list.
LEMMA SoonerIs ==
  ASSUME NEW m \in Nat \X Nat, NEW n \in Nat \X Nat
  PROVE  /\ ~Survey!Sooner(m, m)
         /\ m # n => Survey!Sooner(m, n) \/ Survey!Sooner(n, m)
         /\ \A l \in Nat \X Nat : Survey!Sooner(m, n) /\ Survey!Sooner(n, l) => Survey!Sooner(m, l)
BY DEF Survey!Sooner

\* The soonest of some places.
LEMMA SoonestIs ==
  ASSUME NEW V \in SUBSET (Nat \X Nat), V # {}
  PROVE  \E m \in V : \A n \in V : n # m => Survey!Sooner(m, n)
<1> DEFINE A == {p[1] : p \in V}
<1>1. PICK a \in A : \A b \in A : a <= b
  <2>1. A \in SUBSET Nat /\ A # {}
    OBVIOUS
  <2> HIDE DEF A
  <2> QED BY <2>1, LeastNatural
<1> DEFINE B == {p[2] : p \in {q \in V : q[1] = a}}
<1>2. PICK b \in B : \A c \in B : b <= c
  <2>1. B \in SUBSET Nat /\ B # {}
    OBVIOUS
  <2> HIDE DEF B
  <2> QED BY <2>1, LeastNatural
<1>3. PICK m \in V : m[1] = a /\ m[2] = b
  OBVIOUS
<1>4. ASSUME NEW n \in V, n # m PROVE Survey!Sooner(m, n)
  <2>1. n[1] \in Nat /\ n[2] \in Nat /\ m[1] \in Nat /\ m[2] \in Nat /\ n = <<n[1], n[2]>> /\ m = <<m[1], m[2]>>
    OBVIOUS
  <2>2. n[1] \in A /\ (n[1] = a => n[2] \in B)
    OBVIOUS
  <2>3. a <= n[1] /\ (n[1] = a => b <= n[2])
    BY <1>1, <1>2, <2>2
  <2> HIDE DEF A, B
  <2> QED BY <1>3, <1>4, <2>1, <2>3 DEF Survey!Sooner
<1> QED BY <1>4

Before(F, v, o, p) ==
  \/ Survey!Cardinality(Survey!Votes(F, v, o)) > Survey!Cardinality(Survey!Votes(F, v, p))
  \/ /\ Survey!Cardinality(Survey!Votes(F, v, o)) = Survey!Cardinality(Survey!Votes(F, v, p))
     /\ \E m \in Survey!Votes(F, v, o) : \A n \in Survey!Votes(F, v, p) : Survey!Sooner(m, n)
MoreVoted(F, v) ==
  [p \in Survey!Named(F, v) |-> {o \in Survey!Named(F, v) : Before(F, v, o, p)}]

LEMMA OptionsAreOrdered ==
  ASSUME NEW F, Found(F), NEW v \in Survey!Votos
  PROVE  IsFiniteSet(Survey!Named(F, v)) /\ Ordered(Survey!Named(F, v), MoreVoted(F, v))
<1>1. \A k \in DOMAIN F : k \in Nat /\ IsFiniteSet(DOMAIN F[k][v]) /\ DOMAIN F[k][v] \subseteq Nat
  BY FoundIsFinite
<1>2. Survey!Places(F, v) \subseteq Nat \X Nat
  BY <1>1 DEF Survey!Places
<1>3. PICK N : N = Survey!Named(F, v)
  OBVIOUS
<1>4. IsFiniteSet(N)
  <2>1. IsFiniteSet(Survey!Places(F, v))
    <3> DEFINE P == [k \in DOMAIN F |-> {k} \X DOMAIN F[k][v]]
               h == [k \in DOMAIN F |-> Cardinality(P[k])]
    <3>1. \A k \in DOMAIN F : IsFiniteSet(P[k])
      <4> SUFFICES ASSUME NEW k \in DOMAIN F PROVE IsFiniteSet({k} \X DOMAIN F[k][v])
        OBVIOUS
      <4>1. IsFiniteSet({k})
        BY FS_Singleton
      <4> QED BY <1>1, <4>1, FS_Product
    <3>2. \A x, y \in DOMAIN F : x # y => P[x] \cap P[y] = {}
      OBVIOUS
    <3>3. Together(DOMAIN F, P) = Survey!Places(F, v)
      BY DEF Together, Survey!Places
    <3>4. \A k \in DOMAIN F : h[k] = Cardinality(P[k])
      OBVIOUS
    <3> HIDE DEF P, h
    <3>5. CountsParts(h, DOMAIN F, P)
      BY <3>1, <3>2, <3>4 DEF CountsParts
    <3>6. IsFiniteSet(DOMAIN F)
      BY FoundIsFinite
    <3> QED BY <3>3, <3>5, <3>6, SumOfParts
  <2> DEFINE f == [p \in Survey!Places(F, v) |-> F[p[1]][v][p[2]]]
  <2>2. f \in [Survey!Places(F, v) -> N] /\ \A o \in N : \E p \in Survey!Places(F, v) : f[p] = o
    BY <1>3 DEF Survey!Named
  <2> HIDE DEF f
  <2>3. f \in Surjection(Survey!Places(F, v), N)
    BY <2>2 DEF Surjection
  <2> QED BY <2>1, <2>3, FS_Surjection
<1> DEFINE V(o) == Survey!Votes(F, v, o)
           n(o) == Survey!Cardinality(V(o))
<1>5. ASSUME NEW o \in N PROVE n(o) \in Nat /\ V(o) \in SUBSET (Nat \X Nat) /\ V(o) # {}
  <2>1. IsFiniteSet(V(o))
    BY VotesAddUp
  <2>2. n(o) \in Nat
    BY <2>1, FS_CardinalityType, SurveyCardinality
  <2>3. V(o) \subseteq Survey!Places(F, v)
    BY DEF Survey!Votes
  <2>4. V(o) # {}
    BY <1>3 DEF Survey!Named, Survey!Votes
  <2> QED BY <1>2, <2>2, <2>3, <2>4
<1>6. \A o, p \in N : o # p => V(o) \cap V(p) = {}
  BY DEF Survey!Votes
<1>b. \A o, p \in N : Before(F, v, o, p) <=>
         \/ n(o) > n(p)
         \/ n(o) = n(p) /\ \E a \in V(o) : \A b \in V(p) : Survey!Sooner(a, b)
  BY DEF Before
<1> HIDE DEF V, n
<1>7. ASSUME NEW o \in N PROVE ~Before(F, v, o, o)
  <2>1. \A a \in V(o) : ~Survey!Sooner(a, a)
    BY <1>5, SoonerIs
  <2>2. n(o) \in Nat
    BY <1>5
  <2> QED BY <1>b, <2>1, <2>2
<1>8. ASSUME NEW o \in N, NEW p \in N, o # p, ~Before(F, v, o, p) PROVE Before(F, v, p, o)
  <2>1. n(o) \in Nat /\ n(p) \in Nat
    BY <1>5
  <2>2. n(p) > n(o) \/ n(p) = n(o)
    BY <1>8, <1>b, <2>1
  <2>3. CASE n(p) = n(o)
    <3>1. PICK a \in V(o) : \A b \in V(o) : b # a => Survey!Sooner(a, b)
      BY <1>5, SoonestIs
    <3>2. PICK b \in V(p) : \A c \in V(p) : c # b => Survey!Sooner(b, c)
      BY <1>5, SoonestIs
    <3>3. a # b /\ a \in Nat \X Nat /\ b \in Nat \X Nat
      BY <1>5, <1>6, <1>8
    <3>4. Survey!Sooner(a, b) \/ Survey!Sooner(b, a)
      BY <3>3, SoonerIs
    <3>5. CASE Survey!Sooner(a, b)
      <4>1. \A c \in V(p) : Survey!Sooner(a, c)
        <5> SUFFICES ASSUME NEW c \in V(p), c # b PROVE Survey!Sooner(a, c)
          BY <3>5
        <5>1. c \in Nat \X Nat /\ Survey!Sooner(b, c)
          BY <1>5, <3>2
        <5> QED BY <3>3, <3>5, <5>1, SoonerIs
      <4> QED BY <1>8, <1>b, <2>3, <4>1
    <3>6. CASE Survey!Sooner(b, a)
      <4>1. \A c \in V(o) : Survey!Sooner(b, c)
        <5> SUFFICES ASSUME NEW c \in V(o), c # a PROVE Survey!Sooner(b, c)
          BY <3>6
        <5>1. c \in Nat \X Nat /\ Survey!Sooner(a, c)
          BY <1>5, <3>1
        <5> QED BY <3>3, <3>6, <5>1, SoonerIs
      <4> QED BY <1>b, <2>3, <4>1
    <3> QED BY <3>4, <3>5, <3>6
  <2> QED BY <1>b, <2>2, <2>3
<1>9. ASSUME NEW o \in N, NEW p \in N, NEW q \in N, Before(F, v, o, p), Before(F, v, q, o)
      PROVE  Before(F, v, q, p)
  <2>1. n(o) \in Nat /\ n(p) \in Nat /\ n(q) \in Nat
    BY <1>5
  <2>2. /\ n(o) > n(p) \/ (n(o) = n(p) /\ \E a \in V(o) : \A b \in V(p) : Survey!Sooner(a, b))
        /\ n(q) > n(o) \/ (n(q) = n(o) /\ \E a \in V(q) : \A b \in V(o) : Survey!Sooner(a, b))
    BY <1>9, <1>b
  <2>3. CASE n(q) = n(o) /\ n(o) = n(p)
    <3>1. PICK a \in V(o) : \A b \in V(p) : Survey!Sooner(a, b)
      BY <2>1, <2>2, <2>3
    <3>2. PICK c \in V(q) : \A b \in V(o) : Survey!Sooner(c, b)
      BY <2>1, <2>2, <2>3
    <3>3. \A b \in V(p) : Survey!Sooner(c, b)
      <4> SUFFICES ASSUME NEW b \in V(p) PROVE Survey!Sooner(c, b)
        OBVIOUS
      <4>1. a \in Nat \X Nat /\ b \in Nat \X Nat /\ c \in Nat \X Nat
        BY <1>5
      <4> QED BY <3>1, <3>2, <4>1, SoonerIs
    <3> QED BY <1>b, <2>3, <3>3
  <2>4. CASE ~(n(q) = n(o) /\ n(o) = n(p))
    <3>1. n(q) > n(p)
      BY <2>1, <2>2, <2>4
    <3> QED BY <1>b, <3>1
  <2> QED BY <2>3, <2>4
<1>10. MoreVoted(F, v) = [p \in N |-> {o \in N : Before(F, v, o, p)}]
  BY <1>3 DEF MoreVoted
<1>11. PICK A : A = MoreVoted(F, v)
  OBVIOUS
<1>12. A \in [N -> SUBSET N] /\ \A o, p \in N : o \in A[p] <=> Before(F, v, o, p)
  BY <1>10, <1>11
<1>13. Ordered(N, A)
  BY <1>7, <1>8, <1>9, <1>12 DEF Ordered
<1> QED BY <1>3, <1>4, <1>11, <1>13

\* The tally lists every option named, in this order, with its votes.
LEMMA TallyLists ==
  ASSUME NEW F, Found(F), NEW v \in Survey!Votos
  PROVE  \E s : /\ Lists(Survey!Named(F, v), MoreVoted(F, v), s)
                /\ Survey!Tally(F, v) =
                     [k \in 1..Cardinality(Survey!Named(F, v)) |->
                        [opcion |-> s[k], cantidad |-> Survey!Cardinality(Survey!Votes(F, v, s[k]))]]
<1> DEFINE N == Survey!Named(F, v)
           A == MoreVoted(F, v)
<1>1. PICK s : s = [k \in 1..Survey!Cardinality(N) |->
                      CHOOSE x \in N : Survey!Cardinality({y \in N : Before(F, v, y, x)}) = k - 1]
  OBVIOUS
<1>2. Survey!Tally(F, v) =
        [k \in DOMAIN s |-> [opcion |-> s[k], cantidad |-> Survey!Cardinality(Survey!Votes(F, v, s[k]))]]
  BY <1>1 DEF Survey!Tally, Survey!InOrder, Before
<1>3. DOMAIN s = 1..Cardinality(N)
  <2>1. DOMAIN s = 1..Survey!Cardinality(N)
    BY <1>1
  <2> QED BY <2>1, SurveyCardinality
<1>4. Ranks(N, A, s)
  <2>1. s = [k \in 1..Cardinality(N) |-> s[k]]
    <3>1. s = [k \in DOMAIN s |-> s[k]]
      <4> DEFINE e(k) == CHOOSE x \in N : Survey!Cardinality({y \in N : Before(F, v, y, x)}) = k - 1
                 M == 1..Survey!Cardinality(N)
      <4>1. s = [k \in M |-> e(k)]
        BY <1>1
      <4> HIDE DEF e, M
      <4> QED BY <4>1
    <3> QED BY <1>3, <3>1
  <2>2. ASSUME NEW k \in 1..Cardinality(N), NEW x \in N, Cardinality(A[x]) = k - 1
        PROVE  s[k] \in N /\ Cardinality(A[s[k]]) = k - 1
    <3>1. \A y \in N : A[y] = {o \in N : Before(F, v, o, y)}
      BY DEF MoreVoted
    <3>2. \A y \in N : Survey!Cardinality({o \in N : Before(F, v, o, y)}) = Cardinality(A[y])
      BY <3>1, SurveyCardinality
    <3>3. s[k] = CHOOSE y \in N : Survey!Cardinality({o \in N : Before(F, v, o, y)}) = k - 1
      <4>1. k \in 1..Survey!Cardinality(N)
        BY SurveyCardinality
      <4> QED BY <1>1, <4>1
    <3>4. \E y \in N : Survey!Cardinality({o \in N : Before(F, v, o, y)}) = k - 1
      BY <2>2, <3>2
    <3>5. s[k] \in N /\ Survey!Cardinality({o \in N : Before(F, v, o, s[k])}) = k - 1
      BY <3>3, <3>4
    <3> QED BY <3>2, <3>5
  <2> HIDE DEF N, A
  <2> QED BY <2>1, <2>2 DEF Ranks
<1>5. Lists(N, A, s)
  <2>1. IsFiniteSet(N) /\ Ordered(N, A)
    BY OptionsAreOrdered
  <2> HIDE DEF N, A
  <2> QED BY <1>4, <2>1, RankedLists
<1> QED BY <1>2, <1>3, <1>5

\* What MostVotedAreListed says of one list.
MostVoted(F, v, listed) ==
  LET votes(o) == Survey!SumFunction(TimesOf(F, v, o))
      named == UNION {Survey!Range(F[k][v]) : k \in DOMAIN F}
      out == named \ {listed[k].opcion : k \in DOMAIN listed}
  IN /\ Len(listed) <= Top /\ (out # {} => Len(listed) = Top)
     /\ \A k \in DOMAIN listed :
          /\ listed[k].cantidad = votes(listed[k].opcion)
          /\ \A o \in out : votes(o) <= listed[k].cantidad
          /\ \A l \in DOMAIN listed : k < l => listed[k].cantidad >= listed[l].cantidad

LEMMA MostVotedIs ==
  ASSUME NEW F, Found(F), NEW v \in Survey!Votos
  PROVE  MostVoted(F, v, Survey!MasVotados(F, v))
<1> DEFINE N == Survey!Named(F, v)
           n(o) == Survey!Cardinality(Survey!Votes(F, v, o))
<1>0. Top \in Nat \ {0}
  BY EncuestasHolds DEF Survey!EncuestasAssumption
<1>1. PICK s : /\ Lists(N, MoreVoted(F, v), s)
               /\ Survey!Tally(F, v) = [k \in 1..Cardinality(N) |-> [opcion |-> s[k], cantidad |-> n(s[k])]]
  BY TallyLists
<1>2. PICK c \in Nat : c = Cardinality(N)
  BY <1>1 DEF Lists
<1>3. PICK t : t = Survey!Tally(F, v)
  OBVIOUS
<1>4. /\ s \in [1..c -> N] /\ \A o \in N : \E k \in 1..c : s[k] = o
      /\ \A k, l \in 1..c : k < l => s[k] \in MoreVoted(F, v)[s[l]]
  BY <1>1, <1>2 DEF Lists
<1>5. \A o : n(o) = Survey!SumFunction(TimesOf(F, v, o)) /\ n(o) \in Nat
  <2> SUFFICES ASSUME NEW o PROVE n(o) = Survey!SumFunction(TimesOf(F, v, o)) /\ n(o) \in Nat
    OBVIOUS
  <2>1. IsFiniteSet(Survey!Votes(F, v, o))
        /\ Cardinality(Survey!Votes(F, v, o)) = Survey!SumFunction(TimesOf(F, v, o))
    BY VotesAddUp
  <2>2. Cardinality(Survey!Votes(F, v, o)) \in Nat
    BY <2>1, FS_CardinalityType
  <2> QED BY <2>1, <2>2, SurveyCardinality
<1>6. \A k, l \in 1..c : k < l => n(s[k]) >= n(s[l])
  <2> SUFFICES ASSUME NEW k \in 1..c, NEW l \in 1..c, k < l PROVE n(s[k]) >= n(s[l])
    OBVIOUS
  <2>1. s[l] \in N /\ s[k] \in MoreVoted(F, v)[s[l]]
    BY <1>4
  <2>2. Before(F, v, s[k], s[l])
    BY <2>1 DEF MoreVoted
  <2>3. n(s[k]) > n(s[l]) \/ n(s[k]) = n(s[l])
    BY <2>2 DEF Before
  <2>4. n(s[k]) \in Nat /\ n(s[l]) \in Nat
    BY <1>5
  <2> HIDE DEF n
  <2> QED BY <2>3, <2>4
<1>7. N = UNION {Survey!Range(F[k][v]) : k \in DOMAIN F}
  <2>1. ASSUME NEW o \in N PROVE \E k \in DOMAIN F : o \in Survey!Range(F[k][v])
    <3>1. PICK p \in Survey!Places(F, v) : o = F[p[1]][v][p[2]]
      BY DEF Survey!Named
    <3>2. p[1] \in DOMAIN F /\ p[2] \in DOMAIN F[p[1]][v]
      BY DEF Survey!Places
    <3> QED BY <3>1, <3>2 DEF Survey!Range
  <2>2. ASSUME NEW k \in DOMAIN F, NEW o \in Survey!Range(F[k][v]) PROVE o \in N
    <3>1. PICK j \in DOMAIN F[k][v] : o = F[k][v][j]
      BY DEF Survey!Range
    <3>2. <<k, j>> \in Survey!Places(F, v)
      BY DEF Survey!Places
    <3> QED BY <3>1, <3>2 DEF Survey!Named
  <2> HIDE DEF N
  <2> QED BY <2>1, <2>2
<1> HIDE DEF N, n
<1>8. \A k \in 1..c : t[k] = [opcion |-> s[k], cantidad |-> n(s[k])]
  BY <1>1, <1>2, <1>3
<1>r. PICK R : R = [opcion : N, cantidad : Nat]
  OBVIOUS
<1>9. t \in Seq(R) /\ Len(t) = c /\ \A k \in 1..c : t[k] \in R
  <2>1. \A k \in 1..c : t[k] \in R
    <3> SUFFICES ASSUME NEW k \in 1..c PROVE t[k] \in R
      OBVIOUS
    <3>1. s[k] \in N /\ n(s[k]) \in Nat
      BY <1>4, <1>5
    <3>2. [opcion |-> s[k], cantidad |-> n(s[k])] \in R
      BY <1>r, <3>1
    <3> QED BY <1>8, <3>2
  <2>2. t = [k \in 1..c |-> t[k]]
    BY <1>1, <1>2, <1>3
  <2>3. t \in [1..c -> R]
    BY <2>1, <2>2
  <2> QED BY <2>1, <2>3
<1>10. PICK m \in Nat : m = IF Top <= c THEN Top ELSE c
  BY <1>0
<1>11. PICK listed : listed = Survey!MasVotados(F, v)
  OBVIOUS
<1>12. listed = SubSeq(t, 1, m)
  <2>1. Survey!Min({Top, Len(t)}) = m
    <3>1. m \in {Top, Len(t)} /\ \A y \in {Top, Len(t)} : m <= y
      BY <1>0, <1>9, <1>10
    <3>2. \A y \in {Top, Len(t)} : y \in Nat
      BY <1>0, <1>9
    <3>3. PICK z : z = Survey!Min({Top, Len(t)})
      OBVIOUS
    <3>4. z \in {Top, Len(t)} /\ \A y \in {Top, Len(t)} : z <= y
      BY <3>1, <3>3 DEF Survey!Min
    <3> QED BY <3>1, <3>2, <3>3, <3>4
  <2> QED BY <1>3, <1>11, <2>1 DEF Survey!MasVotados
<1>13. Len(listed) = m /\ DOMAIN listed = 1..m /\ \A k \in 1..m : listed[k] = t[k]
  <2>1. \A i \in 1..m : t[i] \in R
    BY <1>9, <1>10
  <2>2. 1 \in Int /\ m \in Int
    OBVIOUS
  <2>3. /\ SubSeq(t, 1, m) \in Seq(R)
        /\ Len(SubSeq(t, 1, m)) = IF 1 <= m THEN m - 1 + 1 ELSE 0
        /\ \A i \in 1..m - 1 + 1 : SubSeq(t, 1, m)[i] = t[1 + i - 1]
    BY <2>1, <2>2, SubSeqProperties
  <2>4. Len(listed) = m /\ listed \in Seq(R)
    BY <1>12, <2>3
  <2>5. \A i \in 1..m : listed[i] = t[i]
    <3>1. \A i \in 1..m : 1 + i - 1 = i /\ i \in 1..m - 1 + 1
      OBVIOUS
    <3> QED BY <1>12, <2>3, <3>1
  <2> QED BY <2>4, <2>5
<1>14. \A k \in 1..m : k \in 1..c /\ listed[k].opcion = s[k] /\ listed[k].cantidad = n(s[k])
  <2> SUFFICES ASSUME NEW k \in 1..m
               PROVE  k \in 1..c /\ listed[k].opcion = s[k] /\ listed[k].cantidad = n(s[k])
    OBVIOUS
  <2>1. k \in 1..c
    BY <1>10
  <2>2. listed[k] = [opcion |-> s[k], cantidad |-> n(s[k])]
    BY <1>8, <1>13, <2>1
  <2> QED BY <2>1, <2>2
<1>15. ASSUME NEW o \in N \ {listed[k].opcion : k \in DOMAIN listed}
       PROVE  m = Top /\ \A k \in 1..m : n(o) <= n(s[k])
  <2>1. PICK j \in 1..c : s[j] = o
    BY <1>4
  <2>2. ~(j <= m)
    BY <1>13, <1>14, <2>1
  <2>3. m = Top
    BY <1>10, <2>1, <2>2
  <2>4. ASSUME NEW k \in 1..m PROVE n(o) <= n(s[k])
    <3>1. k \in 1..c /\ k < j
      BY <1>14, <2>2
    <3>2. n(s[k]) >= n(s[j])
      BY <1>6, <3>1
    <3>3. n(s[k]) \in Nat /\ n(s[j]) \in Nat
      BY <1>5
    <3> QED BY <2>1, <3>2, <3>3
  <2> QED BY <2>3, <2>4
<1>16. /\ Len(listed) <= Top
       /\ \A k \in DOMAIN listed :
            /\ listed[k].cantidad = n(listed[k].opcion)
            /\ \A l \in DOMAIN listed : k < l => listed[k].cantidad >= listed[l].cantidad
  <2>1. m <= Top
    BY <1>0, <1>10
  <2> QED BY <1>6, <1>13, <1>14, <2>1
<1>17. \A k \in DOMAIN listed, o \in N \ {listed[j].opcion : j \in DOMAIN listed} : n(o) <= listed[k].cantidad
  BY <1>13, <1>14, <1>15
<1>18. N \ {listed[j].opcion : j \in DOMAIN listed} # {} => Len(listed) = Top
  BY <1>13, <1>15
<1>19. MostVoted(F, v, listed)
  <2>1. \A o : Survey!SumFunction(TimesOf(F, v, o)) = n(o)
    BY <1>5
  <2> QED BY <1>7, <1>16, <1>17, <1>18, <2>1 DEF MostVoted
<1> QED BY <1>11, <1>19

\* What is less among some numbers, and the list of them.
Below(S) == [i \in S |-> {j \in S : j < i}]

LEMMA NumbersAreListed ==
  ASSUME NEW S \in SUBSET Nat, IsFiniteSet(S)
  PROVE  Lists(S, Below(S), Survey!InOrder(S, <))
<1>1. PICK A : A = Below(S)
  OBVIOUS
<1>2. \A x \in S : x \in Nat /\ A[x] = {y \in S : y < x}
  BY <1>1 DEF Below
<1>3. Ordered(S, A)
  <2>1. A \in [S -> SUBSET S]
    BY <1>1 DEF Below
  <2>2. \A x \in S : x \notin A[x]
    BY <1>2
  <2>3. \A x, y \in S : x # y => x \in A[y] \/ y \in A[x]
    BY <1>2
  <2>4. ASSUME NEW x \in S, NEW y \in S, x \in A[y] PROVE A[x] \subseteq A[y]
    <3>1. x < y /\ x \in Nat /\ y \in Nat
      BY <1>2, <2>4
    <3>2. \A z \in A[x] : z \in S /\ z \in Nat /\ z < x
      BY <1>2
    <3>3. \A z \in A[x] : z < y
      BY <3>1, <3>2
    <3> QED BY <1>2, <3>2, <3>3
  <2> QED BY <2>1, <2>2, <2>3, <2>4 DEF Ordered
<1> DEFINE e(k) == CHOOSE x \in S : Survey!Cardinality({y \in S : y < x}) = k - 1
           M == 1..Survey!Cardinality(S)
<1>4. PICK s : s = Survey!InOrder(S, <)
  OBVIOUS
<1>5. s = [k \in M |-> e(k)]
  BY <1>4 DEF Survey!InOrder
<1>6. Ranks(S, A, s)
  <2>1. s = [k \in 1..Cardinality(S) |-> s[k]]
    <3>1. M = 1..Cardinality(S)
      BY SurveyCardinality
    <3> HIDE DEF e, M
    <3> QED BY <1>5, <3>1
  <2>2. ASSUME NEW k \in 1..Cardinality(S), NEW x \in S, Cardinality(A[x]) = k - 1
        PROVE  s[k] \in S /\ Cardinality(A[s[k]]) = k - 1
    <3>1. \A y \in S : Survey!Cardinality({z \in S : z < y}) = Cardinality(A[y])
      BY <1>2, SurveyCardinality
    <3>2. s[k] = e(k)
      <4>1. k \in M
        BY SurveyCardinality
      <4> HIDE DEF e, M
      <4> QED BY <1>5, <4>1
    <3>3. e(k) \in S /\ Survey!Cardinality({y \in S : y < e(k)}) = k - 1
      <4>1. \E y \in S : Survey!Cardinality({z \in S : z < y}) = k - 1
        BY <2>2, <3>1
      <4> QED BY <4>1
    <3> HIDE DEF e
    <3> QED BY <3>1, <3>2, <3>3
  <2> HIDE DEF e, M
  <2> QED BY <2>1, <2>2 DEF Ranks
<1> QED BY <1>1, <1>3, <1>4, <1>6, RankedLists

\* What EveryCommentIsReported says of one list.
LEMMA CommentsAreReported ==
  ASSUME NEW F, Found(F), NEW c
  PROVE  Survey!Range(Survey!Otros(F, c)) =
           {[id |-> e.id, comentario |-> e[c]] : e \in {x \in Survey!Range(F) : x[c] \notin Survey!Blank}}
<1>1. PICK S : S = {k \in DOMAIN F : F[k][c] \notin Survey!Blank}
  OBVIOUS
<1>2. S \in SUBSET Nat /\ IsFiniteSet(S)
  <2>1. PICK n \in Nat : DOMAIN F = 1..n
    BY DEF Found
  <2>2. IsFiniteSet(1..n)
    <3>1. 1 \in Int /\ n \in Int
      OBVIOUS
    <3> QED BY <3>1, FS_Interval
  <2>3. S \in SUBSET (1..n)
    BY <1>1, <2>1
  <2>4. IsFiniteSet(S)
    BY <2>2, <2>3, FS_Subset
  <2>5. \A i \in 1..n : i \in Nat
    OBVIOUS
  <2>6. S \in SUBSET Nat
    BY <2>3, <2>5
  <2> QED BY <2>4, <2>6
<1>3. PICK s : s = Survey!InOrder(S, <)
  OBVIOUS
<1>4. DOMAIN s = 1..Cardinality(S) /\ (\A k \in DOMAIN s : s[k] \in S) /\ \A x \in S : \E k \in DOMAIN s : s[k] = x
  <2>1. Lists(S, Below(S), s)
    BY <1>2, <1>3, NumbersAreListed
  <2> QED BY <2>1 DEF Lists
<1>5. PICK t : t = Survey!Otros(F, c)
  OBVIOUS
<1>6. t = [k \in DOMAIN s |-> [id |-> F[s[k]].id, comentario |-> F[s[k]][c]]]
  BY <1>1, <1>3, <1>5 DEF Survey!Otros
<1>7. PICK R : R = Survey!Range(t)
  OBVIOUS
<1>8. \A z : z \in R <=> \E k \in DOMAIN s : z = [id |-> F[s[k]].id, comentario |-> F[s[k]][c]]
  BY <1>6, <1>7 DEF Survey!Range
<1>9. PICK Q : Q = {[id |-> e.id, comentario |-> e[c]] : e \in {x \in Survey!Range(F) : x[c] \notin Survey!Blank}}
  OBVIOUS
<1>10. \A z : z \in Q <=> \E k \in S : z = [id |-> F[k].id, comentario |-> F[k][c]]
  <2>1. \A e : e \in {x \in Survey!Range(F) : x[c] \notin Survey!Blank} <=> \E k \in S : e = F[k]
    BY <1>1 DEF Survey!Range
  <2> QED BY <1>9, <2>1
<1>11. R = Q
  <2>1. \A z : z \in R <=> z \in Q
    BY <1>4, <1>8, <1>10
  <2> QED BY <2>1
<1> QED BY <1>5, <1>7, <1>9, <1>11

\* The answers of some barrios, counted barrio by barrio.
LEMMA BarriosAddUp ==
  ASSUME IsFiniteSet(DOMAIN answers), NEW B, IsFiniteSet(B)
  PROVE  Survey!SumFunction([b \in B |-> Survey!Cardinality(Survey!InBarrio(b))])
           = Cardinality({i \in DOMAIN answers : answers[i].barrio \in B})
<1>1. PICK h : h = [b \in B |-> Survey!Cardinality(Survey!InBarrio(b))]
  OBVIOUS
<1>2. PICK P : P = [b \in B |-> Survey!InBarrio(b)]
  OBVIOUS
<1>3. \A b \in B : IsFiniteSet(P[b]) /\ h[b] = Cardinality(P[b])
  <2> SUFFICES ASSUME NEW b \in B PROVE IsFiniteSet(P[b]) /\ h[b] = Cardinality(P[b])
    OBVIOUS
  <2>1. P[b] \in SUBSET (DOMAIN answers)
    BY <1>2 DEF Survey!InBarrio
  <2>2. h[b] = Cardinality(P[b])
    BY <1>1, <1>2, SurveyCardinality
  <2> QED BY <2>1, <2>2, FS_Subset
<1>4. CountsParts(h, B, P)
  <2>1. \A x, y \in B : x # y => P[x] \cap P[y] = {}
    BY <1>2 DEF Survey!InBarrio
  <2> QED BY <1>3, <2>1 DEF CountsParts
<1>5. Together(B, P) = {i \in DOMAIN answers : answers[i].barrio \in B}
  BY <1>2 DEF Together, Survey!InBarrio
<1>6. Survey!SumFunction(h) = SumOver(h, B)
  <2>1. DOMAIN h = B
    BY <1>1
  <2> QED BY <2>1, SurveySum
<1> QED BY <1>1, <1>4, <1>5, <1>6, SumOfParts

\* The share of the contacts is a percentage, and is 100 when it is rounded to it.
LEMMA ShareIs ==
  ASSUME NEW part \in Nat, NEW total \in Nat, part <= total
  PROVE  /\ Survey!Porcentaje(part, total) \in 0..100
         /\ Survey!Porcentaje(part, total) = 100 => 200 * part >= 199 * total
<1>1. CASE total = 0
  BY <1>1 DEF Survey!Porcentaje
<1>2. CASE total > 0
  <2>1. PICK n \in Nat : n = 200 * part + total
    OBVIOUS
  <2>2. PICK d \in Nat : d = 2 * total /\ d > 0
    BY <1>2
  <2>3. PICK q : q = n \div d
    OBVIOUS
  <2>4. Survey!Porcentaje(part, total) = q
    BY <1>2, <2>1, <2>2, <2>3 DEF Survey!Porcentaje
  <2>5. q \in Int /\ d * q <= n /\ n < d * q + d
    BY <2>2, <2>3
  <2>6. q >= 0
    <3> SUFFICES ASSUME q < 0 PROVE FALSE
      BY <2>5
    <3>1. d * q <= d * (-1)
      BY <2>2, <2>5
    <3> QED BY <2>2, <2>5, <3>1
  <2>7. q <= 100
    <3> SUFFICES ASSUME q >= 101 PROVE FALSE
      BY <2>5
    <3>1. d * q >= d * 101
      BY <2>2, <2>5
    <3> QED BY <1>2, <2>1, <2>2, <2>5, <3>1
  <2>8. q = 100 => 200 * part >= 199 * total
    BY <2>1, <2>2, <2>5
  <2> QED BY <2>4, <2>5, <2>6, <2>7, <2>8
<1> QED BY <1>1, <1>2

\* What a report says is true: its parts, one by one.
AddsUpNow(h) ==
  /\ Len(h.found) = h.total
  /\ Survey!SumFunction(h.porBarrio) = h.total
  /\ h.porcentaje \in 0..100
  /\ h.porcentaje = 100 => 200 * h.contacto >= 199 * h.total
ListsTheMost(h) == \A v \in Survey!Votos : MostVoted(h.found, v, h.masVotados[v])
HasEveryComment(h) ==
  \A c \in Survey!Comentarios :
    Survey!Range(h.otros[c]) =
      {[id |-> e.id, comentario |-> e[c]] : e \in {x \in Survey!Range(h.found) : x[c] \notin Survey!Blank}}

\* What a report at work has counted, of rows that did not change since.
CountedNow(s, b, h) ==
  /\ s \in {"group", "find"} =>
       DOMAIN h = {"total", "porBarrio"} /\ h.total = Cardinality(Survey!Where(b))
  /\ s = "group" => b = "todos"
  /\ s = "find" => Survey!SumFunction(h.porBarrio) = h.total

ReportState(r) ==
  /\ r \notin dirty => CountedNow(surveyPc[r], BarrioOf[r], surveyHeld[r])
  /\ surveyPc[r] = "ok" => /\ r \notin dirty => AddsUpNow(surveyHeld[r])
                           /\ ListsTheMost(surveyHeld[r]) /\ HasEveryComment(surveyHeld[r])

ListsOfOptions ==
  /\ \A i \in DOMAIN answers : \A v \in Survey!Votos : answers[i][v] \in Seq(Options)
  /\ \A e \in Edits : Editing(e) => \A v \in Survey!Votos : surveyHeld[e][v] \in Seq(Options)

ReportInv == ListsOfOptions /\ \A r \in Reports : ReportState(r)

LEMMA SurveyPartition ==
  /\ \A r \in Reports : r \in Survey!Requests /\ r \notin Validations \cup Savings \cup Edits \cup Deletions
  /\ \A q \in Savings : DOMAIN DtoOf[q] = Survey!Campos
  /\ \A q \in Savings \cup Edits : \A v \in Survey!Votos :
       v \in DOMAIN DtoOf[q] => DtoOf[q][v] \in Seq(Options)
BY EncuestasHolds DEF Survey!EncuestasAssumption, Survey!Requests

LEMMA AnswersAreFinite ==
  ASSUME SurveyShape
  PROVE  IsFiniteSet(DOMAIN answers) /\ DOMAIN answers \subseteq Nat
<1>1. DOMAIN answers \in SUBSET (1..lastId) /\ lastId \in Nat
  BY DEF SurveyShape
<1>2. IsFiniteSet(1..lastId)
  <2>1. 1 \in Int /\ lastId \in Int
    BY <1>1
  <2> QED BY <2>1, FS_Interval
<1>3. \A i \in 1..lastId : i \in Nat
  BY <1>1
<1> QED BY <1>1, <1>2, <1>3, FS_Subset

LEMMA WhereIs ==
  ASSUME SurveyShape, NEW b
  PROVE  /\ Survey!Where(b) \subseteq DOMAIN answers /\ Survey!Where(b) \in SUBSET Nat
         /\ IsFiniteSet(Survey!Where(b)) /\ Cardinality(Survey!Where(b)) \in Nat
<1>1. Survey!Where(b) \in SUBSET (DOMAIN answers)
  BY DEF Survey!Where, Survey!InBarrio
<1>2. IsFiniteSet(Survey!Where(b))
  BY <1>1, AnswersAreFinite, FS_Subset
<1>3. Cardinality(Survey!Where(b)) \in Nat
  BY <1>2, FS_CardinalityType
<1> QED BY <1>1, <1>2, <1>3, AnswersAreFinite

\* A report that does nothing now.
LEMMA ReportRests ==
  ASSUME NEW r, ReportState(r), surveyPc'[r] = surveyPc[r], surveyHeld'[r] = surveyHeld[r],
         dirty \subseteq dirty',
         answers' = answers \/ (surveyPc[r] \in {"group", "find"} => r \in dirty')
  PROVE  ReportState(r)'
<1>1. PICK s, h : s = surveyPc[r] /\ h = surveyHeld[r]
  OBVIOUS
<1>2. s = surveyPc'[r] /\ h = surveyHeld'[r]
  BY <1>1
<1>3. r \notin dirty' => CountedNow(s, BarrioOf[r], h)'
  <2> SUFFICES ASSUME r \notin dirty' PROVE CountedNow(s, BarrioOf[r], h)'
    OBVIOUS
  <2>1. CountedNow(s, BarrioOf[r], h)
    BY <1>1 DEF ReportState
  <2>2. CASE answers' = answers
    BY <2>1, <2>2 DEF CountedNow, Survey!Where, Survey!InBarrio
  <2>3. CASE answers' # answers
    <3>1. s \notin {"group", "find"}
      BY <1>1, <2>3
    <3> QED BY <3>1 DEF CountedNow
  <2> QED BY <2>2, <2>3
<1>4. s = "ok" => /\ r \notin dirty' => AddsUpNow(h)
                  /\ ListsTheMost(h) /\ HasEveryComment(h)
  BY <1>1 DEF ReportState
<1>5. CountedNow(s, BarrioOf[r], h)' = CountedNow(surveyPc[r], BarrioOf[r], surveyHeld[r])'
  BY <1>2
<1>6. AddsUpNow(surveyHeld[r])' = AddsUpNow(h) /\ ListsTheMost(surveyHeld[r])' = ListsTheMost(h)
      /\ HasEveryComment(surveyHeld[r])' = HasEveryComment(h)
  BY <1>2 DEF AddsUpNow, ListsTheMost, HasEveryComment
<1> QED BY <1>2, <1>3, <1>4, <1>5, <1>6 DEF ReportState

\* A step of one report, which writes nothing but what the report holds.
LEMMA ReportMoves ==
  ASSUME SurveyShape, ReportInv, NEW r \in Reports, ReportState(r)',
         UNCHANGED <<answers, dirty>>,
         \A q \in Survey!Requests : q # r => surveyPc'[q] = surveyPc[q] /\ surveyHeld'[q] = surveyHeld[q]
  PROVE  ReportInv'
<1>1. ListsOfOptions'
  <2>1. \A e \in Edits : e # r /\ e \in Survey!Requests
    BY SurveyPartition, Endpoints
  <2>2. \A e \in Edits : (Editing(e)' <=> Editing(e)) /\ surveyHeld'[e] = surveyHeld[e]
    BY <2>1 DEF Editing
  <2> QED BY <2>2 DEF ReportInv, ListsOfOptions
<1>2. ASSUME NEW p \in Reports PROVE ReportState(p)'
  <2>1. CASE p = r
    BY <2>1
  <2>2. CASE p # r
    <3>1. p \in Survey!Requests /\ ReportState(p)
      BY SurveyPartition DEF ReportInv
    <3>2. surveyPc'[p] = surveyPc[p] /\ surveyHeld'[p] = surveyHeld[p]
      BY <2>2, <3>1
    <3> QED BY <3>1, <3>2, ReportRests
  <2> QED BY <2>1, <2>2
<1> QED BY <1>1, <1>2 DEF ReportInv

LEMMA CountKeeps ==
  ASSUME SurveyShape, ReportInv, NEW r \in Survey!Requests, Survey!Count(r)
  PROVE  ReportInv'
<1>1. PICK b : b = BarrioOf[r]
  OBVIOUS
<1>2. PICK n : n = Survey!Cardinality(Survey!Where(b))
  OBVIOUS
<1>3. PICK s : s = IF b = "todos" THEN "group" ELSE "find"
  OBVIOUS
<1>4. PICK m : m = [x \in {b} \ {"todos"} |-> n]
  OBVIOUS
<1>5. PICK h : h = [total |-> n, porBarrio |-> m]
  OBVIOUS
<1>6. /\ r \in Reports /\ surveyPc[r] = "new"
      /\ surveyPc' = [surveyPc EXCEPT ![r] = s] /\ surveyHeld' = [surveyHeld EXCEPT ![r] = h]
      /\ UNCHANGED <<answers, dirty>>
  BY <1>1, <1>2, <1>3, <1>4, <1>5 DEF Survey!Count, Survey!Goto, Survey!ghosts
<1>7. /\ surveyPc'[r] = s /\ surveyHeld'[r] = h
      /\ \A q \in Survey!Requests : q # r => surveyPc'[q] = surveyPc[q] /\ surveyHeld'[q] = surveyHeld[q]
  BY <1>6 DEF SurveyShape
<1>8. CountedNow(s, b, h)
  <2>1. DOMAIN h = {"total", "porBarrio"} /\ h.total = n /\ h.porBarrio = m
    BY <1>5
  <2>2. n = Cardinality(Survey!Where(b))
    BY <1>2, SurveyCardinality
  <2>3. s = "group" <=> b = "todos"
    BY <1>3
  <2>4. ASSUME b # "todos" PROVE Survey!SumFunction(m) = n
    <3>1. Survey!Where(b) = Survey!InBarrio(b) /\ {b} \ {"todos"} = {b}
      BY <2>4 DEF Survey!Where
    <3>2. m = [x \in {b} |-> Survey!Cardinality(Survey!InBarrio(x))]
      BY <1>2, <1>4, <3>1
    <3>3. IsFiniteSet({b})
      BY FS_Singleton
    <3>4. {i \in DOMAIN answers : answers[i].barrio \in {b}} = Survey!InBarrio(b)
      BY DEF Survey!InBarrio
    <3>5. Survey!SumFunction([x \in {b} |-> Survey!Cardinality(Survey!InBarrio(x))])
            = Cardinality({i \in DOMAIN answers : answers[i].barrio \in {b}})
      BY <3>3, AnswersAreFinite, BarriosAddUp
    <3> QED BY <2>2, <3>1, <3>2, <3>4, <3>5
  <2> QED BY <1>3, <2>1, <2>2, <2>3, <2>4 DEF CountedNow
<1>9. ReportState(r)'
  <2>1. CountedNow(s, b, h)'
    BY <1>6, <1>8 DEF CountedNow, Survey!Where, Survey!InBarrio
  <2>2. CountedNow(surveyPc[r], BarrioOf[r], surveyHeld[r])'
    BY <1>1, <1>7, <2>1
  <2>3. surveyPc'[r] # "ok"
    BY <1>3, <1>7
  <2> QED BY <2>2, <2>3 DEF ReportState
<1> QED BY <1>6, <1>7, <1>9, ReportMoves

LEMMA GroupByKeeps ==
  ASSUME SurveyShape, ReportInv, NEW r \in Survey!Requests, Survey!GroupBy(r)
  PROVE  ReportInv'
<1>1. PICK m : m = [x \in Survey!Barrios |-> Survey!Cardinality(Survey!InBarrio(x))]
  OBVIOUS
<1>2. /\ surveyPc[r] = "group"
      /\ surveyPc' = [surveyPc EXCEPT ![r] = "find"]
      /\ surveyHeld' = [surveyHeld EXCEPT ![r] = [@ EXCEPT !.porBarrio = m]]
      /\ UNCHANGED <<answers, dirty>>
  BY <1>1 DEF Survey!GroupBy, Survey!Goto, Survey!ghosts
<1>3. r \in Reports
  BY <1>2 DEF SurveyShape
<1>4. PICK h : h = surveyHeld'[r]
  OBVIOUS
<1>5. /\ surveyPc'[r] = "find" /\ h = [surveyHeld[r] EXCEPT !.porBarrio = m]
      /\ \A q \in Survey!Requests : q # r => surveyPc'[q] = surveyPc[q] /\ surveyHeld'[q] = surveyHeld[q]
  BY <1>2, <1>4 DEF SurveyShape
<1>6. ASSUME r \notin dirty PROVE CountedNow("find", BarrioOf[r], h)
  <2>1. /\ DOMAIN surveyHeld[r] = {"total", "porBarrio"} /\ BarrioOf[r] = "todos"
        /\ surveyHeld[r].total = Cardinality(Survey!Where(BarrioOf[r]))
    BY <1>2, <1>3, <1>6 DEF ReportInv, ReportState, CountedNow
  <2>2. DOMAIN h = {"total", "porBarrio"} /\ h.total = surveyHeld[r].total /\ h.porBarrio = m
    BY <1>5, <2>1
  <2>3. Survey!Where(BarrioOf[r]) = DOMAIN answers
    BY <2>1 DEF Survey!Where
  <2>4. IsFiniteSet(Survey!Barrios)
    <3> DEFINE f == [i \in DOMAIN answers |-> answers[i].barrio]
    <3>1. f \in Surjection(DOMAIN answers, Survey!Barrios)
      BY DEF Surjection, Survey!Barrios
    <3> HIDE DEF f
    <3> QED BY <3>1, AnswersAreFinite, FS_Surjection
  <2>5. {i \in DOMAIN answers : answers[i].barrio \in Survey!Barrios} = DOMAIN answers
    BY DEF Survey!Barrios
  <2>6. Survey!SumFunction([x \in Survey!Barrios |-> Survey!Cardinality(Survey!InBarrio(x))])
          = Cardinality({i \in DOMAIN answers : answers[i].barrio \in Survey!Barrios})
    BY <2>4, AnswersAreFinite, BarriosAddUp
  <2>7. Survey!SumFunction(m) = Cardinality(DOMAIN answers)
    BY <1>1, <2>5, <2>6
  <2> QED BY <2>1, <2>2, <2>3, <2>7 DEF CountedNow
<1>7. ReportState(r)'
  <2>1. r \notin dirty => CountedNow("find", BarrioOf[r], h)'
    BY <1>2, <1>6 DEF CountedNow, Survey!Where, Survey!InBarrio
  <2>2. r \notin dirty' => CountedNow(surveyPc[r], BarrioOf[r], surveyHeld[r])'
    BY <1>2, <1>4, <1>5, <2>1
  <2> QED BY <1>5, <2>2 DEF ReportState
<1> QED BY <1>2, <1>3, <1>5, <1>7, ReportMoves

\* The last query of a report finds answers, and the rest is computed from them.
LEMMA FindAllKeeps ==
  ASSUME SurveyShape, ReportInv, NEW r \in Survey!Requests, Survey!FindAll(r)
  PROVE  ReportInv'
<1> DEFINE W == Survey!Where(BarrioOf[r])
           ids == Survey!InOrder(W, <)
           F == [k \in DOMAIN ids |->
                   [c \in Survey!Campos \cup {"id"} |-> IF c = "id" THEN ids[k] ELSE answers[ids[k]][c]]]
           n == Survey!Cardinality({k \in DOMAIN F : F[k].quiereContacto})
           most == [v \in Survey!Votos |-> Survey!MasVotados(F, v)]
           others == [c \in Survey!Comentarios |-> Survey!Otros(F, c)]
           share == Survey!Porcentaje(n, surveyHeld[r].total)
           h == [total |-> surveyHeld[r].total, porBarrio |-> surveyHeld[r].porBarrio, found |-> F,
                 masVotados |-> most, contacto |-> n, porcentaje |-> share, otros |-> others]
<1>8. /\ surveyPc[r] = "find"
      /\ surveyPc' = [surveyPc EXCEPT ![r] = "ok"] /\ surveyHeld' = [surveyHeld EXCEPT ![r] = h]
      /\ UNCHANGED <<answers, dirty>>
  BY DEF Survey!FindAll, Survey!Goto, Survey!ghosts
<1>7. h = [total |-> surveyHeld[r].total, porBarrio |-> surveyHeld[r].porBarrio, found |-> F,
           masVotados |-> most, contacto |-> n, porcentaje |-> share, otros |-> others]
  OBVIOUS
<1> HIDE DEF h
<1>6. share = Survey!Porcentaje(n, surveyHeld[r].total)
  OBVIOUS
<1> HIDE DEF share
<1>5. /\ most = [v \in Survey!Votos |-> Survey!MasVotados(F, v)]
      /\ others = [c \in Survey!Comentarios |-> Survey!Otros(F, c)]
  OBVIOUS
<1> HIDE DEF most, others
<1>4. n = Survey!Cardinality({k \in DOMAIN F : F[k].quiereContacto})
  OBVIOUS
<1> HIDE DEF n
<1>3. F = [k \in DOMAIN ids |->
             [c \in Survey!Campos \cup {"id"} |-> IF c = "id" THEN ids[k] ELSE answers[ids[k]][c]]]
  OBVIOUS
<1> HIDE DEF F
<1>2. ids = Survey!InOrder(W, <)
  OBVIOUS
<1> HIDE DEF ids
<1>1. W = Survey!Where(BarrioOf[r])
  OBVIOUS
<1> HIDE DEF W
<1>9. r \in Reports
  BY <1>8 DEF SurveyShape
<1>10. /\ surveyPc'[r] = "ok" /\ surveyHeld'[r] = h
       /\ \A q \in Survey!Requests : q # r => surveyPc'[q] = surveyPc[q] /\ surveyHeld'[q] = surveyHeld[q]
  BY <1>8 DEF SurveyShape
<1>11. /\ W \subseteq DOMAIN answers /\ W \in SUBSET Nat /\ IsFiniteSet(W)
       /\ Cardinality(W) \in Nat /\ ids \in [1..Cardinality(W) -> W]
  <2>1. W \subseteq DOMAIN answers /\ W \in SUBSET Nat /\ IsFiniteSet(W) /\ Cardinality(W) \in Nat
    BY <1>1, WhereIs
  <2>2. Lists(W, Below(W), ids)
    BY <1>2, <2>1, NumbersAreListed
  <2> QED BY <2>1, <2>2 DEF Lists
<1>12. DOMAIN F = 1..Cardinality(W) /\ Found(F)
  <2>1. DOMAIN F = 1..Cardinality(W)
    BY <1>3, <1>11
  <2>2. ASSUME NEW k \in DOMAIN F, NEW v \in Survey!Votos PROVE F[k][v] \in Seq(Options)
    <3>1. ids[k] \in DOMAIN answers
      BY <1>11, <2>1
    <3>2. v \in Survey!Campos \cup {"id"} /\ v # "id"
      BY DEF Survey!Campos, Survey!Votos
    <3>3. F[k][v] = answers[ids[k]][v]
      BY <1>3, <3>2
    <3> QED BY <3>1, <3>3 DEF ReportInv, ListsOfOptions
  <2> QED BY <1>11, <2>1, <2>2 DEF Found
<1>13. ListsTheMost(h)
  <2>1. h.found = F /\ h.masVotados = most
    BY <1>7
  <2>2. \A v \in Survey!Votos : MostVoted(F, v, Survey!MasVotados(F, v))
    BY <1>12, MostVotedIs
  <2> QED BY <1>5, <2>1, <2>2 DEF ListsTheMost
<1>14. HasEveryComment(h)
  <2>1. h.found = F /\ h.otros = others
    BY <1>7
  <2>2. \A c \in Survey!Comentarios :
          Survey!Range(Survey!Otros(F, c)) =
            {[id |-> e.id, comentario |-> e[c]] : e \in {x \in Survey!Range(F) : x[c] \notin Survey!Blank}}
    BY <1>12, CommentsAreReported
  <2> QED BY <1>5, <2>1, <2>2 DEF HasEveryComment
<1>15. ASSUME r \notin dirty PROVE AddsUpNow(h)
  <2>1. /\ surveyHeld[r].total = Cardinality(W)
        /\ Survey!SumFunction(surveyHeld[r].porBarrio) = surveyHeld[r].total
    BY <1>1, <1>8, <1>9, <1>15 DEF ReportInv, ReportState, CountedNow
  <2>2. PICK t \in Nat : t = Cardinality(W)
    BY <1>11
  <2>3. n \in Nat /\ n <= t
    <3>1. {k \in DOMAIN F : F[k].quiereContacto} \in SUBSET (1..t)
      BY <1>12, <2>2
    <3>2. IsFiniteSet(1..t) /\ Cardinality(1..t) = t
      <4>1. 1 \in Int /\ t \in Int
        OBVIOUS
      <4>2. IsFiniteSet(1..t) /\ Cardinality(1..t) = IF 1 > t THEN 0 ELSE t - 1 + 1
        BY <4>1, FS_Interval
      <4> QED BY <4>2
    <3>3. /\ IsFiniteSet({k \in DOMAIN F : F[k].quiereContacto})
          /\ Cardinality({k \in DOMAIN F : F[k].quiereContacto}) <= t
      BY <3>1, <3>2, FS_Subset
    <3>4. Cardinality({k \in DOMAIN F : F[k].quiereContacto}) \in Nat
      BY <3>3, FS_CardinalityType
    <3> QED BY <1>4, <3>3, <3>4, SurveyCardinality
  <2>4. share \in 0..100 /\ (share = 100 => 200 * n >= 199 * t)
    BY <1>6, <2>1, <2>2, <2>3, ShareIs
  <2>5. /\ h.total = t /\ h.porBarrio = surveyHeld[r].porBarrio /\ h.found = F /\ h.contacto = n
        /\ h.porcentaje = share
    BY <1>7, <2>1, <2>2
  <2>6. Len(F) = t
    <3>1. F = [k \in 1..t |-> F[k]]
      <4>1. F = [k \in DOMAIN F |-> F[k]]
        BY <1>3
      <4> QED BY <1>12, <2>2, <4>1
    <3> QED BY <3>1
  <2> QED BY <2>1, <2>2, <2>4, <2>5, <2>6 DEF AddsUpNow
<1>16. ReportState(r)'
  <2>1. (AddsUpNow(surveyHeld[r])' <=> AddsUpNow(h)) /\ (ListsTheMost(surveyHeld[r])' <=> ListsTheMost(h))
        /\ (HasEveryComment(surveyHeld[r])' <=> HasEveryComment(h))
    BY <1>10 DEF AddsUpNow, ListsTheMost, HasEveryComment
  <2>2. CountedNow(surveyPc[r], BarrioOf[r], surveyHeld[r])'
    BY <1>10 DEF CountedNow
  <2> QED BY <1>8, <1>10, <1>13, <1>14, <1>15, <2>1, <2>2 DEF ReportState
<1> QED BY <1>8, <1>9, <1>10, <1>16, ReportMoves

\* A step of another request: a report at work hears of it when it changes a row.
LEMMA OthersMove ==
  ASSUME SurveyShape, ReportInv, NEW q \in Survey!Requests, q \notin Reports, ListsOfOptions',
         \A p \in Survey!Requests : p # q => surveyPc'[p] = surveyPc[p] /\ surveyHeld'[p] = surveyHeld[p],
         (answers' = answers /\ dirty' = dirty) \/ Survey!Watch
  PROVE  ReportInv'
<1>1. dirty \subseteq dirty'
      /\ (answers' = answers \/ \A r \in Reports : surveyPc[r] \in {"group", "find"} => r \in dirty')
  <2>1. CASE Survey!Watch
    <3>1. dirty' = dirty \cup (IF answers' = answers THEN {} ELSE {r \in Reports : Survey!AtWork(r)})
      BY <2>1 DEF Survey!Watch
    <3>2. \A r \in Reports : surveyPc[r] \in {"group", "find"} => Survey!AtWork(r)
      BY DEF Survey!AtWork, Survey!Final
    <3> QED BY <3>1, <3>2
  <2> QED BY <2>1
<1>2. ASSUME NEW r \in Reports PROVE ReportState(r)'
  <2>1. r \in Survey!Requests /\ r # q /\ ReportState(r)
    BY SurveyPartition DEF ReportInv
  <2>2. surveyPc'[r] = surveyPc[r] /\ surveyHeld'[r] = surveyHeld[r]
    BY <2>1
  <2> QED BY <1>1, <2>1, <2>2, ReportRests
<1> QED BY <1>2 DEF ReportInv

LEMMA QuietStepsKeep ==
  ASSUME SurveyShape, ReportInv, NEW q \in Survey!Requests,
         \/ Survey!Look(q) \/ Survey!Query(q) \/ Survey!SetCache(q) \/ Survey!Find(q)
         \/ Survey!LookUpDni(q)
  PROVE  ReportInv'
<1>1. answers' = answers /\ dirty' = dirty
  BY DEF Survey!Look, Survey!Query, Survey!SetCache, Survey!Find, Survey!LookUpDni, Survey!ghosts
<1>2. q \notin Reports
  <2>1. q \in Validations \cup Savings \cup Edits
    BY DEF Survey!Look, Survey!Query, Survey!SetCache, Survey!Find, Survey!LookUpDni, SurveyShape, Editing
  <2> QED BY <2>1, SurveyPartition
<1>3. \E s \in {"ok", "400", "409", "query", "setCache", "save", "put"} :
        surveyPc' = [surveyPc EXCEPT ![q] = s] /\ (s = "put" => Editing(q) /\ surveyHeld' = surveyHeld)
  BY DEF Survey!Look, Survey!Query, Survey!SetCache, Survey!Find, Survey!LookUpDni, Survey!Goto, Editing
<1>4. surveyHeld' = surveyHeld \/ \E h : surveyHeld' = [surveyHeld EXCEPT ![q] = h]
  BY DEF Survey!Look, Survey!Query, Survey!SetCache, Survey!Find, Survey!LookUpDni
<1>5. /\ \A p \in Survey!Requests : p # q => surveyPc'[p] = surveyPc[p] /\ surveyHeld'[p] = surveyHeld[p]
      /\ Editing(q)' => Editing(q) /\ surveyHeld' = surveyHeld
  BY <1>3, <1>4 DEF SurveyShape, Editing
<1>6. ListsOfOptions'
  <2>1. \A e \in Edits : Editing(e)' => Editing(e) /\ surveyHeld'[e] = surveyHeld[e]
    BY <1>5, Endpoints DEF Editing
  <2> QED BY <1>1, <2>1 DEF ReportInv, ListsOfOptions
<1> QED BY <1>1, <1>2, <1>5, <1>6, OthersMove

LEMMA SaveListsOptions ==
  ASSUME SurveyShape, ReportInv, NEW q \in Survey!Requests, Survey!Save(q)
  PROVE  ReportInv'
<1>1. q \in Savings /\ q \notin Reports
  BY SurveyPartition DEF Survey!Save, SurveyShape
<1>2. PICK row : row = [c \in Survey!Campos \cup {"dni"} |-> IF c = "dni" THEN Survey!Dni(q) ELSE DtoOf[q][c]]
  OBVIOUS
<1>3. /\ surveyHeld' = surveyHeld /\ Survey!Watch
      /\ \/ (answers' = answers /\ surveyPc' = [surveyPc EXCEPT ![q] = "500"])
         \/ /\ surveyPc' = [surveyPc EXCEPT ![q] = "ok"]
            /\ answers' = [i \in DOMAIN answers \cup {lastId'} |-> IF i = lastId' THEN row ELSE answers[i]]
  BY <1>2 DEF Survey!Save, Survey!Goto
<1>4. /\ \A p \in Survey!Requests : p # q => surveyPc'[p] = surveyPc[p] /\ surveyHeld'[p] = surveyHeld[p]
      /\ ~Editing(q)'
  BY <1>3 DEF SurveyShape, Editing
<1>5. ListsOfOptions'
  <2>1. \A e \in Edits : Editing(e)' => Editing(e) /\ surveyHeld'[e] = surveyHeld[e]
    BY <1>4, Endpoints DEF Editing
  <2>2. \A v \in Survey!Votos : row[v] \in Seq(Options)
    <3>1. \A v \in Survey!Votos : v \in Survey!Campos /\ v # "dni"
      BY DEF Survey!Campos, Survey!Votos
    <3>2. \A v \in Survey!Votos : row[v] = DtoOf[q][v] /\ v \in DOMAIN DtoOf[q]
      BY <1>1, <1>2, <3>1, SurveyPartition
    <3> QED BY <1>1, <3>2, SurveyPartition
  <2>3. \A i \in DOMAIN answers' : answers'[i] = row \/ (i \in DOMAIN answers /\ answers'[i] = answers[i])
    BY <1>3
  <2> QED BY <2>1, <2>2, <2>3 DEF ReportInv, ListsOfOptions
<1> QED BY <1>1, <1>3, <1>4, <1>5, OthersMove

LEMMA ReadListsOptions ==
  ASSUME SurveyShape, ReportInv, NEW e \in Survey!Requests, Survey!Read(e)
  PROVE  ReportInv'
<1>1. e \in Edits /\ e \notin Reports /\ answers' = answers /\ dirty' = dirty
  BY SurveyPartition DEF Survey!Read
<1>2. \/ surveyPc' = [surveyPc EXCEPT ![e] = "404"] /\ surveyHeld' = surveyHeld
      \/ /\ IdOf[e] \in DOMAIN answers /\ \E s : surveyPc' = [surveyPc EXCEPT ![e] = s]
         /\ surveyHeld' = [surveyHeld EXCEPT ![e] = Survey!Merged(e, answers[IdOf[e]])]
  BY DEF Survey!Read, Survey!Goto
<1>3. /\ \A p \in Survey!Requests : p # e => surveyPc'[p] = surveyPc[p] /\ surveyHeld'[p] = surveyHeld[p]
      /\ Editing(e)' => IdOf[e] \in DOMAIN answers /\ surveyHeld'[e] = Survey!Merged(e, answers[IdOf[e]])
  BY <1>2 DEF SurveyShape, Editing
<1>4. ASSUME Editing(e)', NEW v \in Survey!Votos PROVE surveyHeld'[e][v] \in Seq(Options)
  <2>1. PICK row : row = answers[IdOf[e]]
    OBVIOUS
  <2>2. row[v] \in Seq(Options) /\ surveyHeld'[e] = Survey!Merged(e, row)
    BY <1>3, <1>4, <2>1 DEF ReportInv, ListsOfOptions
  <2>3. v \in Survey!Campos \cup {"dni"}
    BY DEF Survey!Campos, Survey!Votos
  <2>4. surveyHeld'[e][v] = IF v \in DOMAIN DtoOf[e] THEN DtoOf[e][v] ELSE row[v]
    BY <2>2, <2>3 DEF Survey!Merged, Survey!Given
  <2> QED BY <1>1, <2>2, <2>4, SurveyPartition
<1>5. ListsOfOptions'
  <2>1. \A p \in Edits : p # e => (Editing(p)' <=> Editing(p)) /\ surveyHeld'[p] = surveyHeld[p]
    BY <1>3, Endpoints DEF Editing
  <2>2. ASSUME NEW p \in Edits, Editing(p)', NEW v \in Survey!Votos PROVE surveyHeld'[p][v] \in Seq(Options)
    BY <1>4, <2>1, <2>2 DEF ReportInv, ListsOfOptions
  <2> QED BY <1>1, <2>2 DEF ReportInv, ListsOfOptions
<1> QED BY <1>1, <1>3, <1>5, OthersMove

LEMMA WritesListOptions ==
  ASSUME SurveyShape, ReportInv, NEW q \in Survey!Requests, Survey!Put(q) \/ Survey!Delete(q)
  PROVE  ReportInv'
<1>1. /\ (q \in Edits /\ Editing(q)) \/ q \in Deletions
      /\ surveyHeld' = surveyHeld /\ Survey!Watch
      /\ \E s \in {"500", "404", "ok"} : surveyPc' = [surveyPc EXCEPT ![q] = s]
      /\ \/ answers' = answers
         \/ answers' = [i \in DOMAIN answers \ {IdOf[q]} |-> answers[i]]
         \/ /\ q \in Edits /\ Editing(q)
            /\ answers' = [i \in DOMAIN answers \cup {IdOf[q]} |->
                             IF i = IdOf[q] THEN surveyHeld[q] ELSE answers[i]]
  BY DEF Survey!Put, Survey!Delete, Survey!Goto, SurveyShape, Editing
<1>2. q \notin Reports
  BY <1>1, SurveyPartition
<1>3. /\ \A p \in Survey!Requests : p # q => surveyPc'[p] = surveyPc[p] /\ surveyHeld'[p] = surveyHeld[p]
      /\ ~Editing(q)'
  BY <1>1 DEF SurveyShape, Editing
<1>4. ListsOfOptions'
  <2>1. \A e \in Edits : Editing(e)' => Editing(e) /\ surveyHeld'[e] = surveyHeld[e]
    BY <1>3, Endpoints DEF Editing
  <2>2. \A i \in DOMAIN answers' : \/ i \in DOMAIN answers /\ answers'[i] = answers[i]
                                   \/ q \in Edits /\ Editing(q) /\ answers'[i] = surveyHeld[q]
    BY <1>1
  <2> QED BY <2>1, <2>2 DEF ReportInv, ListsOfOptions
<1> QED BY <1>1, <1>2, <1>3, <1>4, OthersMove

LEMMA TimeListsOptions ==
  ASSUME ReportInv, UNCHANGED <<answers, surveyPc, surveyHeld, dirty>>
  PROVE  ReportInv'
<1>1. ListsOfOptions'
  BY DEF ReportInv, ListsOfOptions, Editing
<1>2. \A r \in Reports : ReportState(r)'
  BY ReportRests DEF ReportInv
<1> QED BY <1>1, <1>2 DEF ReportInv

LEMMA ReportStarts == Survey!Init => ReportInv
<1> SUFFICES ASSUME Survey!Init PROVE ReportInv
  OBVIOUS
<1>1. answers = << >> /\ \A q \in Survey!Requests : surveyPc[q] = "new"
  BY DEF Survey!Init
<1>2. DOMAIN answers = {}
  BY <1>1
<1>3. ListsOfOptions
  BY <1>1, <1>2, Endpoints DEF ListsOfOptions, Editing
<1>4. \A r \in Reports : ReportState(r)
  BY <1>1, SurveyPartition DEF ReportState, CountedNow
<1> QED BY <1>3, <1>4 DEF ReportInv

LEMMA ReportFollows == ReportInv => ReportIsTrue
<1> SUFFICES ASSUME ReportInv PROVE ReportIsTrue
  OBVIOUS
<1>1. Survey!ReportAddsUp
  BY DEF ReportInv, ReportState, AddsUpNow, Survey!ReportAddsUp
<1>2. Survey!MostVotedAreListed
  <2> SUFFICES ASSUME NEW r \in Reports, surveyPc[r] = "ok", NEW v \in Survey!Votos
               PROVE  MostVoted(surveyHeld[r].found, v, surveyHeld[r].masVotados[v])
    BY DEF Survey!MostVotedAreListed, MostVoted, TimesOf
  <2> QED BY DEF ReportInv, ReportState, ListsTheMost
<1>3. Survey!EveryCommentIsReported
  BY DEF ReportInv, ReportState, HasEveryComment, Survey!EveryCommentIsReported
<1> QED BY <1>1, <1>2, <1>3 DEF ReportIsTrue

LEMMA ReportInductive == Survey!Spec => []ReportInv
<1>1. SurveyInv /\ ReportInv /\ Survey!Next => ReportInv'
  <2> SUFFICES ASSUME SurveyShape, ReportInv, Survey!Next PROVE ReportInv'
    BY DEF SurveyInv
  <2>1. CASE Survey!Expire
    BY <2>1, TimeListsOptions DEF Survey!Expire, Survey!ghosts
  <2>2. CASE Survey!Tick
    BY <2>2, TimeListsOptions DEF Survey!Tick, Survey!Watch
  <2>3. CASE \E q \in Survey!Requests : Survey!Serve(q)
    <3>1. PICK q \in Survey!Requests : Survey!Serve(q)
      BY <2>3
    <3>2. CASE Survey!ValidarDni(q)
      BY <3>2, QuietStepsKeep DEF Survey!ValidarDni
    <3>3. CASE Survey!GuardarEncuesta(q)
      BY <3>3, QuietStepsKeep, SaveListsOptions DEF Survey!GuardarEncuesta
    <3>4. CASE Survey!EditarEncuesta(q)
      BY <3>4, QuietStepsKeep, ReadListsOptions, WritesListOptions DEF Survey!EditarEncuesta
    <3>5. CASE Survey!Delete(q)
      BY <3>5, WritesListOptions
    <3>6. CASE Survey!ObtenerEstadisticas(q)
      BY <3>6, CountKeeps, GroupByKeeps, FindAllKeeps DEF Survey!ObtenerEstadisticas
    <3> QED BY <3>1, <3>2, <3>3, <3>4, <3>5, <3>6 DEF Survey!Serve
  <2> QED BY <2>1, <2>2, <2>3 DEF Survey!Next
<1>2. ReportInv /\ UNCHANGED Survey!vars => ReportInv'
  BY TimeListsOptions DEF Survey!vars, Survey!ghosts
<1> QED BY <1>1, <1>2, ReportStarts, SurveyInductive, PTL DEF Survey!Spec

----------------------------------------------------------------------------
(* Waste: what was said is what is kept, and a run goes through its rows    *)

Flags == [Waste!Tipos -> BOOLEAN]
Preference == [contact : Citizens, flags : Flags]
Start == [day : Nat, choice : [Citizens -> Flags], seccion : [Citizens -> Nat], given : SUBSET Sections]
RowSteps == {"humedoRow", "secoRow", "patioRow"}
Sending(r) == wastePc[r] \in RowSteps \cup {"humedo", "seco", "patio", "patioSend"}

\* Which requests wait for which step.
StepsAreTheirs ==
  /\ wastePc \in [Waste!Requests -> Waste!Steps]
  /\ \A q \in Waste!Requests : /\ wastePc[q] = "save" => q \in Updates /\ CitizenOf[q] \in Citizens
                               /\ wastePc[q] = "insert" => q \in Sections /\ CitizenOf[q] \in Citizens
                               /\ Sending(q) => q \in Runs

\* The shape of the state.
WasteShape ==
  /\ day \in FirstDay..LastDay /\ prefs \in Seq(Preference) /\ seccion \in [Citizens -> Nat]
  /\ StepsAreTheirs
  /\ wasteHeld \in [Updates -> [id : Nat, flags : Flags]]
  /\ read \in [Runs -> Seq(Preference)] /\ at \in [Runs -> Nat \ {0}]
  /\ sent \in [Runs -> Seq(WithPhone \X Waste!Tipos)]
  /\ avisos \in Seq([contact : Citizens, of : Runs \X Nat])
  /\ choice \in [Citizens -> Flags] /\ wasteMixed \in SUBSET Citizens
  /\ start \in [Runs -> Start]

\* The row an update found is one of its contact.
HeldIsThere ==
  \A q \in Updates : wasteHeld[q].id # 0 => /\ wasteHeld[q].id \in DOMAIN prefs
                                            /\ prefs[wasteHeld[q].id].contact = CitizenOf[q]

\* What an update leaves of the flags its contact had.
Given(q, old) == [t \in Waste!Tipos |-> IF t \in DOMAIN WasteDto[q] THEN WasteDto[q][t] ELSE old[t]]

\* Of a contact none of whose updates overlapped there is one row, with what it said ...
OneRowEach(rows, said) ==
  \A i \in DOMAIN rows : rows[i].contact \notin wasteMixed =>
    /\ rows[i].flags = said[rows[i].contact]
    /\ \A j \in DOMAIN rows : rows[j].contact = rows[i].contact => i = j
\* ... or none, and it has said nothing; the update under way is alone and knows which.
ChoiceIsKept ==
  /\ OneRowEach(prefs, choice)
  /\ \A u \in Citizens \ wasteMixed : Waste!RowsOf(u) = {} => choice[u] = [t \in Waste!Tipos |-> FALSE]
  /\ \A q \in Updates : wastePc[q] = "save" /\ CitizenOf[q] \notin wasteMixed =>
       /\ \A p \in Updates : wastePc[p] = "save" /\ CitizenOf[p] = CitizenOf[q] => p = q
       /\ wasteHeld[q].id = 0 => Waste!RowsOf(CitizenOf[q]) = {}
       /\ wasteHeld[q].flags = Given(q, choice[CitizenOf[q]])

\* The kinds of waste that have been decided for the row a run has come to.
Tried(step) == IF step \in {"new", "humedo"} THEN {}
               ELSE IF step \in {"humedoRow", "seco"} THEN {"humedo"}
               ELSE IF step \in {"secoRow", "patio", "patioSend"} THEN {"humedo", "seco"}
               ELSE Waste!Tipos

DueTo(r, p, t) == p.contact \in WithPhone /\ p.flags[t] /\ Waste!EsResiduo(start[r].day, t, 0)

\* Where a run is, and what it has told of the rows up to there.
Place(r) ==
  /\ wastePc[r] = "new" => sent[r] = << >> /\ at[r] = 1 /\ read[r] = << >>
  /\ Sending(r) => at[r] \in DOMAIN read[r] /\ start[r].day = day
  /\ Sending(r) /\ wastePc[r] # "humedo" => read[r][at[r]].contact \in WithPhone
  /\ wastePc[r] = "patioSend" => read[r][at[r]].flags["patio"]
  /\ wastePc[r] = "ok" => at[r] > Len(read[r])
DueIsSent(r) ==
  Sending(r) \/ wastePc[r] = "ok" =>
    \A k \in DOMAIN read[r] : \A t \in {"humedo", "seco"} :
      /\ DueTo(r, read[r][k], t)
      /\ k < at[r] \/ (k = at[r] /\ t \in Tried(wastePc[r]))
      => \E i \in DOMAIN sent[r] : sent[r][i] = <<read[r][k].contact, t>>
SentIsWanted(r) ==
  \A i \in DOMAIN sent[r] : \E k \in DOMAIN read[r] :
    /\ k <= at[r] /\ sent[r][i][1] = read[r][k].contact /\ read[r][k].flags[sent[r][i][2]]
    /\ k = at[r] => sent[r][i][2] \in Tried(wastePc[r])
SentOnce(r) == \A i, j \in DOMAIN sent[r] : sent[r][i] = sent[r][j] /\ sent[r][i][1] \notin wasteMixed => i = j
RunInv(r) == /\ Place(r) /\ DueIsSent(r) /\ SentIsWanted(r) /\ SentOnce(r)
             /\ OneRowEach(read[r], start[r].choice)

\* A message whose row is about to be written is the last of its run and has none yet.
RowIsDue ==
  \A r \in Runs : wastePc[r] \in RowSteps =>
    /\ Len(sent[r]) > 0 /\ sent[r][Len(sent[r])][1] = read[r][at[r]].contact
    /\ \A i \in DOMAIN avisos : avisos[i].of # <<r, Len(sent[r])>>

(* Garden waste.  The section of a contact is the one it had when a run began, unless a       *)
(* reminder of it was recorded or it was given another since; and the rows a run has passed   *)
(* were told of garden waste when it was due, but for those whom a reminder was recorded for. *)
NewSection(r, u) == \E q \in Waste!SectionsGiven \ start[r].given : CitizenOf[q] = u
SectionStands(r) ==
  /\ start[r].given \subseteq Waste!SectionsGiven
  /\ \A u \in Citizens : seccion[u] = start[r].seccion[u] \/ Waste!Reminded(u) \/ NewSection(r, u)
GardenTold(r, p) ==
  Waste!GardenIsDue(r, p) =>
    Waste!Reminded(p.contact) \/ \E i \in DOMAIN sent[r] : sent[r][i] = <<p.contact, "patio">>
GardenInv == \A r \in Runs :
  SectionStands(r) /\ \A k \in DOMAIN read[r] : k < at[r] => GardenTold(r, read[r][k])

WasteInv == /\ WasteShape /\ HeldIsThere /\ ChoiceIsKept /\ \A r \in Runs : RunInv(r)
            /\ RowIsDue /\ Waste!RowsFollowMessages

----------------------------------------------------------------------------
(* The invariant says what the property says *)

LEMMA WasteConstants ==
  /\ WithPhone \subseteq Citizens /\ Runs \cap (Updates \cup Sections) = {}
  /\ \A q \in Updates : \A t \in DOMAIN WasteDto[q] : WasteDto[q][t] \in BOOLEAN
  /\ \A q \in Sections : SeccionOf[q] \in Nat
  /\ FirstDay \in Nat \ {0} /\ LastDay \in Nat /\ FirstDay <= LastDay
BY NotificacionesHolds DEF Waste!NotificacionesAssumption

LEMMA WasteFollows == WasteInv /\ GardenInv => WasteIsAnnounced
<1> SUFFICES ASSUME WasteInv, GardenInv PROVE WasteIsAnnounced
  OBVIOUS
<1> USE WasteConstants
<1>1. Waste!TypeOK
  <2>1. \A i \in DOMAIN prefs : prefs[i].contact \in Citizens /\ prefs[i].flags \in Flags
    <3>1. prefs \in Seq(Preference)
      BY DEF WasteInv, WasteShape
    <3>2. \A i \in DOMAIN prefs : prefs[i] \in Preference
      BY <3>1
    <3> QED BY <3>2 DEF Preference
  <2>2. \A r \in Runs : \A i \in DOMAIN sent[r] : sent[r][i][1] \in WithPhone
    <3> SUFFICES ASSUME NEW r \in Runs, NEW i \in DOMAIN sent[r] PROVE sent[r][i][1] \in WithPhone
      OBVIOUS
    <3>1. sent[r] \in Seq(WithPhone \X Waste!Tipos)
      BY DEF WasteInv, WasteShape
    <3> QED BY <3>1
  <2>3. ASSUME NEW r \in Runs, at[r] > Len(read[r])
        PROVE  wastePc[r] \in Waste!Final
    <3>1. read[r] \in Seq(Preference)
      BY DEF WasteInv, WasteShape
    <3>2. ~Sending(r)
      BY <2>3, <3>1 DEF WasteInv, RunInv, Place
    <3>3. wastePc[r] \in Waste!Steps /\ r \in Waste!Requests
      BY DEF WasteInv, WasteShape, StepsAreTheirs, Waste!Requests
    <3>4. wastePc[r] # "save" /\ wastePc[r] # "insert"
      BY <3>3 DEF WasteInv, WasteShape, StepsAreTheirs
    <3> QED BY <3>2, <3>3, <3>4 DEF Waste!Steps, Sending, RowSteps
  <2> QED BY <2>1, <2>2, <2>3 DEF Waste!TypeOK, WasteInv, WasteShape, StepsAreTheirs, HeldIsThere, Flags
<1>2. Waste!EveryoneIsTried
  <2> SUFFICES ASSUME NEW r \in Runs, wastePc[r] = "ok", NEW p \in Waste!Range(read[r]),
                      NEW t \in {"humedo", "seco"}, DueTo(r, p, t)
               PROVE  <<p.contact, t>> \in Waste!Range(sent[r])
    BY DEF Waste!EveryoneIsTried, DueTo
  <2>0. PICK k \in DOMAIN read[r] : p = read[r][k]
    BY DEF Waste!Range
  <2>1. read[r] \in Seq(Preference) /\ at[r] \in Nat /\ at[r] > Len(read[r])
    BY DEF WasteInv, WasteShape, RunInv, Place
  <2>2. k < at[r]
    BY <2>1
  <2>3. DueIsSent(r)
    BY DEF WasteInv, RunInv
  <2>4. \E i \in DOMAIN sent[r] : sent[r][i] = <<p.contact, t>>
    BY <2>0, <2>2, <2>3 DEF DueIsSent
  <2> QED BY <2>4 DEF Waste!Range
<1>3. Waste!ChoiceIsRespected
  <2> SUFFICES ASSUME NEW r \in Runs, NEW i \in DOMAIN sent[r], NEW j \in DOMAIN sent[r],
                      sent[r][i][1] \notin wasteMixed
               PROVE  /\ start[r].choice[sent[r][i][1]][sent[r][i][2]]
                      /\ sent[r][i] = sent[r][j] => i = j
    BY DEF Waste!ChoiceIsRespected
  <2>1. PICK k \in DOMAIN read[r] : /\ sent[r][i][1] = read[r][k].contact
                                    /\ read[r][k].flags[sent[r][i][2]]
    BY DEF WasteInv, RunInv, SentIsWanted
  <2>2. read[r][k].flags = start[r].choice[read[r][k].contact]
    BY <2>1 DEF WasteInv, RunInv, OneRowEach
  <2>3. sent[r][i] = sent[r][j] => i = j
    BY DEF WasteInv, RunInv, SentOnce
  <2> QED BY <2>1, <2>2, <2>3
<1>4. Waste!GardenIsTried
  <2> SUFFICES ASSUME NEW r \in Runs, wastePc[r] = "ok", NEW p \in Waste!Range(read[r]),
                      Waste!GardenIsDue(r, p), ~Waste!Reminded(p.contact)
               PROVE  <<p.contact, "patio">> \in Waste!Range(sent[r])
    BY DEF Waste!GardenIsTried
  <2>1. PICK k \in DOMAIN read[r] : p = read[r][k]
    BY DEF Waste!Range
  <2>2. read[r] \in Seq(Preference) /\ at[r] \in Nat /\ at[r] > Len(read[r])
    BY DEF WasteInv, WasteShape, RunInv, Place
  <2>3. k < at[r]
    BY <2>2
  <2>4. \E i \in DOMAIN sent[r] : sent[r][i] = <<p.contact, "patio">>
    BY <2>1, <2>3 DEF GardenInv, GardenTold
  <2> QED BY <2>4 DEF Waste!Range
<1> QED BY <1>1, <1>2, <1>3, <1>4 DEF WasteIsAnnounced, WasteInv

----------------------------------------------------------------------------
(* What a step leaves alone *)

\* A run that stays where it is.
LEMMA RunKept ==
  ASSUME NEW r \in Runs, RunInv(r), wasteMixed \subseteq wasteMixed', wastePc'[r] = wastePc[r],
         UNCHANGED <<read[r], at[r], sent[r], start[r]>>, Sending(r) => UNCHANGED day
  PROVE  RunInv(r)'
<1>1. Place(r)'
  BY DEF RunInv, Place, Sending
<1>2. DueIsSent(r)'
  <2> SUFFICES ASSUME (Sending(r) \/ wastePc[r] = "ok")',
                      NEW k \in DOMAIN read'[r], NEW t \in {"humedo", "seco"}, DueTo(r, read[r][k], t)',
                      (k < at[r] \/ (k = at[r] /\ t \in Tried(wastePc[r])))'
               PROVE  (\E i \in DOMAIN sent[r] : sent[r][i] = <<read[r][k].contact, t>>)'
    BY DEF DueIsSent
  <2>1. /\ Sending(r) \/ wastePc[r] = "ok"
        /\ k \in DOMAIN read[r] /\ DueTo(r, read[r][k], t)
    BY DEF Sending, DueTo
  <2>2. k < at[r] \/ (k = at[r] /\ t \in Tried(wastePc[r]))
    BY DEF Tried
  <2>3. DueIsSent(r)
    BY DEF RunInv
  <2>4. \E i \in DOMAIN sent[r] : sent[r][i] = <<read[r][k].contact, t>>
    BY <2>1, <2>2, <2>3 DEF DueIsSent
  <2> QED BY <2>4
<1>3. SentIsWanted(r)' /\ SentOnce(r)'
  BY DEF RunInv, SentIsWanted, SentOnce, Tried
<1>4. OneRowEach(read[r], start[r].choice)'
  BY DEF RunInv, OneRowEach
<1> QED BY <1>1, <1>2, <1>3, <1>4 DEF RunInv

\* A run that fails or is cut off.
LEMMA RunStopped ==
  ASSUME NEW r \in Runs, RunInv(r), UNCHANGED wasteMixed, wastePc'[r] \in {"500", "cut"},
         at[r] \in Nat, \A i \in DOMAIN sent[r] : sent[r][i][2] \in Waste!Tipos,
         UNCHANGED <<read[r], at[r], sent[r], start[r]>>
  PROVE  RunInv(r)'
<1>1. Place(r)' /\ DueIsSent(r)'
  BY DEF Place, DueIsSent, Sending, RowSteps
<1>2. SentIsWanted(r)'
  BY DEF RunInv, SentIsWanted, Tried
<1>3. SentOnce(r)' /\ OneRowEach(read[r], start[r].choice)'
  BY DEF RunInv, SentOnce, OneRowEach
<1> QED BY <1>1, <1>2, <1>3 DEF RunInv

\* Steps that end no update and say nothing.
LEMMA ChoiceKept ==
  ASSUME HeldIsThere, ChoiceIsKept, UNCHANGED <<prefs, choice, wasteMixed, wasteHeld>>,
         \A q \in Updates : wastePc'[q] = "save" => wastePc[q] = "save"
  PROVE  HeldIsThere' /\ ChoiceIsKept'
<1>1. HeldIsThere'
  BY DEF HeldIsThere
<1>2. OneRowEach(prefs, choice)'
  BY DEF ChoiceIsKept, OneRowEach
<1>3. \A u : Waste!RowsOf(u)' = Waste!RowsOf(u)
  BY DEF Waste!RowsOf
<1> QED BY <1>1, <1>2, <1>3 DEF ChoiceIsKept

\* Steps that send and write no row.
LEMMA RowsKept ==
  ASSUME RowIsDue, Waste!RowsFollowMessages, UNCHANGED <<avisos, sent, read, at>>,
         \A r \in Runs :
           /\ wastePc'[r] \in RowSteps => wastePc[r] = wastePc'[r]
           /\ wastePc[r] \in RowSteps \cup {"500", "cut"} => wastePc'[r] \in RowSteps \cup {"500", "cut"}
  PROVE  RowIsDue' /\ Waste!RowsFollowMessages'
<1>1. RowIsDue'
  BY DEF RowIsDue
<1> QED BY <1>1 DEF Waste!RowsFollowMessages, RowSteps

\* A request that goes to a step of its own.
LEMMA WasteGoes ==
  ASSUME StepsAreTheirs, NEW q \in Waste!Requests, NEW s \in Waste!Steps, Waste!Goto(q, s),
         s = "save" => q \in Updates /\ CitizenOf[q] \in Citizens,
         s = "insert" => q \in Sections /\ CitizenOf[q] \in Citizens,
         s \in RowSteps \cup {"humedo", "seco", "patio", "patioSend"} => q \in Runs
  PROVE  /\ StepsAreTheirs' /\ wastePc'[q] = s
         /\ \A p \in Waste!Requests : p # q => wastePc'[p] = wastePc[p]
<1>1. /\ wastePc' \in [Waste!Requests -> Waste!Steps] /\ wastePc'[q] = s
      /\ \A p \in Waste!Requests : p # q => wastePc'[p] = wastePc[p]
  BY DEF StepsAreTheirs, Waste!Goto
<1> QED BY <1>1 DEF StepsAreTheirs, Sending

\* A request that no run is, that ends or goes on to save or insert: the runs and rows are kept.
LEMMA NoRunMoves ==
  ASSUME WasteInv, NEW q \in Updates \cup Sections, wasteMixed \subseteq wasteMixed',
         \A p \in Waste!Requests : p # q => wastePc'[p] = wastePc[p],
         UNCHANGED <<day, avisos, read, at, sent, start>>
  PROVE  (\A r \in Runs : RunInv(r)') /\ RowIsDue' /\ Waste!RowsFollowMessages'
<1>1. \A r \in Runs : r \in Waste!Requests /\ r # q
  BY WasteConstants DEF Waste!Requests
<1>2. \A r \in Runs : wastePc'[r] = wastePc[r]
  BY <1>1
<1>3. \A r \in Runs : RunInv(r)'
  BY <1>2, RunKept DEF WasteInv
<1> QED BY <1>2, <1>3, RowsKept DEF WasteInv

LEMMA FlagsGiven ==
  ASSUME NEW q \in Updates, NEW old \in Flags
  PROVE  Given(q, old) \in Flags
BY WasteConstants DEF Given, Flags

LEMMA FindKeeps ==
  ASSUME WasteInv, NEW q \in Waste!Requests, Waste!Find(q)
  PROVE  WasteInv'
<1> DEFINE u == CitizenOf[q]
           none == [t \in Waste!Tipos |-> FALSE]
<1>0. /\ WasteShape /\ HeldIsThere /\ ChoiceIsKept /\ q \in Updates /\ wastePc[q] = "new"
      /\ UNCHANGED <<day, prefs, seccion, avisos, read, at, sent, choice, start>>
  BY DEF WasteInv, Waste!Find
<1>1. CASE u \notin Citizens
  <2>1. Waste!Goto(q, "404") /\ UNCHANGED <<wasteHeld, wasteMixed>>
    BY <1>1 DEF Waste!Find
  <2>2. /\ StepsAreTheirs' /\ wastePc'[q] = "404"
        /\ \A p \in Waste!Requests : p # q => wastePc'[p] = wastePc[p]
    BY <1>0, <2>1, WasteGoes DEF WasteShape, Waste!Steps, Waste!Final, RowSteps
  <2>3. WasteShape'
    BY <1>0, <2>1, <2>2 DEF WasteShape
  <2>4. HeldIsThere' /\ ChoiceIsKept'
    BY <1>0, <2>1, <2>2, ChoiceKept DEF Waste!Requests
  <2> QED BY <1>0, <2>1, <2>2, <2>3, <2>4, NoRunMoves DEF WasteInv
<1>2. CASE u \in Citizens
  <2>1. PICK old \in Flags, i \in Nat :
          /\ wasteHeld' = [wasteHeld EXCEPT ![q] = [id |-> i, flags |-> Given(q, old)]]
          /\ \/ i = 0 /\ Waste!RowsOf(u) = {} /\ old = none
             \/ i \in Waste!RowsOf(u) /\ old = prefs[i].flags
    <3>1. CASE /\ Waste!RowsOf(u) = {}
               /\ wasteHeld' = [wasteHeld EXCEPT ![q] = [id |-> 0, flags |-> Given(q, none)]]
      <4>1. none \in Flags
        BY DEF Flags
      <4> QED BY <3>1, <4>1
    <3>2. ASSUME NEW i \in Waste!RowsOf(u),
                 wasteHeld' = [wasteHeld EXCEPT ![q] = [id |-> i, flags |-> Given(q, prefs[i].flags)]]
          PROVE  /\ prefs[i].flags \in Flags /\ i \in Nat
      <4>1. prefs \in Seq(Preference) /\ i \in DOMAIN prefs
        BY <1>0 DEF WasteShape, Waste!RowsOf
      <4>2. prefs[i] \in Preference /\ i \in Nat
        BY <4>1
      <4> QED BY <4>2 DEF Preference
    <3>3. \/ /\ Waste!RowsOf(u) = {}
             /\ wasteHeld' = [wasteHeld EXCEPT ![q] = [id |-> 0, flags |-> Given(q, none)]]
          \/ \E i \in Waste!RowsOf(u) :
               wasteHeld' = [wasteHeld EXCEPT ![q] = [id |-> i, flags |-> Given(q, prefs[i].flags)]]
      BY <1>2 DEF Waste!Find, Given
    <3> QED BY <3>1, <3>2, <3>3
  <2>2. Waste!Goto(q, "save")
    BY <1>2 DEF Waste!Find
  <2>3. /\ StepsAreTheirs' /\ wastePc'[q] = "save"
        /\ \A p \in Waste!Requests : p # q => wastePc'[p] = wastePc[p]
    BY <1>0, <1>2, <2>2, WasteGoes DEF WasteShape, Waste!Steps, RowSteps
  <2>4. /\ wasteMixed \subseteq wasteMixed' /\ wasteMixed' \subseteq Citizens
        /\ \A p \in Updates : CitizenOf[p] = u /\ wastePc[p] = "save" => u \in wasteMixed'
    BY <1>0, <1>2 DEF Waste!Find, WasteShape
  <2>5. [id |-> i, flags |-> Given(q, old)] \in [id : Nat, flags : Flags]
    BY <1>0, <2>1, FlagsGiven
  <2>6. /\ wasteHeld' \in [Updates -> [id : Nat, flags : Flags]]
        /\ wasteHeld'[q].id = i /\ wasteHeld'[q].flags = Given(q, old)
        /\ \A p \in Updates : p # q => wasteHeld'[p] = wasteHeld[p]
    BY <1>0, <2>1, <2>5 DEF WasteShape
  <2>7. WasteShape'
    BY <1>0, <2>3, <2>4, <2>6 DEF WasteShape
  <2>8. HeldIsThere'
    BY <1>0, <2>1, <2>6 DEF HeldIsThere, Waste!RowsOf
  <2>9. OneRowEach(prefs, choice)'
    BY <1>0, <2>4 DEF ChoiceIsKept, OneRowEach
  <2>10. \A v : Waste!RowsOf(v)' = Waste!RowsOf(v)
    BY <1>0 DEF Waste!RowsOf
  <2>11. ASSUME NEW p \in Updates, wastePc'[p] = "save", CitizenOf[p] \notin wasteMixed'
         PROVE  /\ \A o \in Updates : wastePc'[o] = "save" /\ CitizenOf[o] = CitizenOf[p] => o = p
                /\ wasteHeld'[p].id = 0 => Waste!RowsOf(CitizenOf[p]) = {}
                /\ wasteHeld'[p].flags = Given(p, choice[CitizenOf[p]])
    <3>1. \A o \in Updates : o # q => wastePc'[o] = wastePc[o]
      BY <2>3 DEF Waste!Requests
    <3>2. CASE p = q
      <4>1. old = choice[u]
        BY <1>0, <1>2, <2>1, <2>4, <2>11, <3>2 DEF ChoiceIsKept, OneRowEach, Waste!RowsOf
      <4>2. wasteHeld'[p].id = 0 => Waste!RowsOf(u) = {}
        <5>1. 0 \notin DOMAIN prefs
          BY <1>0 DEF WasteShape
        <5> QED BY <2>1, <2>6, <3>2, <5>1 DEF Waste!RowsOf
      <4> QED BY <2>4, <2>6, <2>11, <3>1, <3>2, <4>1, <4>2
    <3>3. CASE p # q
      <4>1. wastePc[p] = "save" /\ CitizenOf[p] # u /\ CitizenOf[p] \notin wasteMixed
        BY <2>4, <2>11, <3>1, <3>3
      <4> QED BY <1>0, <2>6, <3>1, <3>3, <4>1 DEF ChoiceIsKept
    <3> QED BY <3>2, <3>3
  <2>12. ChoiceIsKept'
    <3>1. \A v \in Citizens \ wasteMixed' : Waste!RowsOf(v) = {} => choice[v] = none
      BY <1>0, <2>4 DEF ChoiceIsKept
    <3>2. choice' = choice
      BY <1>0
    <3> QED BY <2>9, <2>10, <2>11, <3>1, <3>2 DEF ChoiceIsKept
  <2> QED BY <1>0, <2>3, <2>4, <2>7, <2>8, <2>12, NoRunMoves DEF WasteInv
<1> QED BY <1>1, <1>2

\* What is saved is of the contact, and the rows there were keep theirs.
LEMMA SaveWrites ==
  ASSUME WasteInv, NEW q \in Updates, wastePc[q] = "save", Waste!Save(q)
  PROVE  LET n == IF wasteHeld[q].id = 0 THEN Len(prefs) + 1 ELSE wasteHeld[q].id IN
         /\ prefs' \in Seq(Preference) /\ DOMAIN prefs' = DOMAIN prefs \cup {n}
         /\ prefs'[n].contact = CitizenOf[q] /\ prefs'[n].flags = wasteHeld[q].flags
         /\ \A i \in DOMAIN prefs : i # n => prefs'[i] = prefs[i]
         /\ n \in DOMAIN prefs => prefs[n].contact = CitizenOf[q]
<1> DEFINE n == IF wasteHeld[q].id = 0 THEN Len(prefs) + 1 ELSE wasteHeld[q].id
           new == [contact |-> CitizenOf[q], flags |-> wasteHeld[q].flags]
<1> SUFFICES /\ prefs' \in Seq(Preference) /\ DOMAIN prefs' = DOMAIN prefs \cup {n} /\ prefs'[n] = new
             /\ \A i \in DOMAIN prefs : i # n => prefs'[i] = prefs[i]
             /\ n \in DOMAIN prefs => prefs[n].contact = CitizenOf[q]
  OBVIOUS
<1> HIDE DEF n
<1>1. prefs \in Seq(Preference) /\ Len(prefs) \in Nat /\ DOMAIN prefs = 1..Len(prefs)
  BY DEF WasteInv, WasteShape
<1>2. new \in Preference /\ wasteHeld[q].flags \in Flags /\ CitizenOf[q] \in Citizens
  BY DEF WasteInv, WasteShape, StepsAreTheirs, Preference, Waste!Requests
<1>3. CASE wasteHeld[q].id = 0
  <2>1. prefs' = Append(prefs, new)
    BY <1>3 DEF Waste!Save
  <2> HIDE DEF new
  <2>2. /\ prefs' \in Seq(Preference) /\ Len(prefs') = Len(prefs) + 1
        /\ prefs'[Len(prefs) + 1] = new /\ \A i \in 1..Len(prefs) : prefs'[i] = prefs[i]
    BY <1>1, <1>2, <2>1, AppendProperties
  <2>3. DOMAIN prefs' = 1..Len(prefs) + 1
    BY <1>1, <2>2
  <2>4. n = Len(prefs) + 1
    BY <1>3 DEF n
  <2> QED BY <1>1, <2>2, <2>3, <2>4
<1>4. CASE wasteHeld[q].id # 0
  <2>1. PICK k : k = wasteHeld[q].id
    OBVIOUS
  <2>2. k \in DOMAIN prefs /\ prefs[k].contact = CitizenOf[q]
    BY <1>4, <2>1 DEF WasteInv, HeldIsThere
  <2>3. prefs' = [prefs EXCEPT ![k].flags = wasteHeld[q].flags]
    BY <1>4, <2>1 DEF Waste!Save
  <2>4. prefs[k] \in Preference
    BY <1>1, <2>2
  <2>5. [prefs[k] EXCEPT !.flags = wasteHeld[q].flags] = new
    BY <2>2, <2>4 DEF Preference
  <2>6. prefs' = [prefs EXCEPT ![k] = new]
    BY <2>3, <2>5
  <2> HIDE DEF new
  <2>7. /\ prefs' \in Seq(Preference) /\ DOMAIN prefs' = DOMAIN prefs /\ prefs'[k] = new
        /\ \A i \in DOMAIN prefs : i # k => prefs'[i] = prefs[i]
    BY <1>1, <1>2, <2>2, <2>6
  <2>8. n = k
    BY <1>4, <2>1 DEF n
  <2> QED BY <2>2, <2>7, <2>8
<1> QED BY <1>3, <1>4

LEMMA SavePrefsKeeps ==
  ASSUME WasteInv, NEW q \in Waste!Requests, Waste!Save(q)
  PROVE  WasteInv'
<1> DEFINE u == CitizenOf[q]
           n == IF wasteHeld[q].id = 0 THEN Len(prefs) + 1 ELSE wasteHeld[q].id
<1>0. /\ WasteShape /\ HeldIsThere /\ ChoiceIsKept
      /\ wastePc[q] = "save" /\ Waste!Goto(q, "ok") /\ q \in Updates /\ u \in Citizens
      /\ UNCHANGED <<day, seccion, avisos, wasteHeld, read, at, sent, start, wasteMixed>>
  BY DEF WasteInv, WasteShape, StepsAreTheirs, Waste!Save
<1>1. /\ prefs' \in Seq(Preference) /\ DOMAIN prefs' = DOMAIN prefs \cup {n}
      /\ prefs'[n].contact = u /\ prefs'[n].flags = wasteHeld[q].flags
      /\ \A i \in DOMAIN prefs : i # n => prefs'[i] = prefs[i]
      /\ n \in DOMAIN prefs => prefs[n].contact = u
  BY <1>0, SaveWrites
<1>2. /\ StepsAreTheirs' /\ wastePc'[q] = "ok"
      /\ \A p \in Waste!Requests : p # q => wastePc'[p] = wastePc[p]
  BY <1>0, WasteGoes DEF WasteShape, Waste!Steps, Waste!Final, RowSteps
<1>3. choice' \in [Citizens -> Flags] /\ choice'[u] = Given(q, choice[u])
      /\ \A v \in Citizens : v # u => choice'[v] = choice[v]
  <2>1. choice' = [choice EXCEPT ![u] = Given(q, choice[u])]
    BY DEF Waste!Save, Waste!Chosen, Given
  <2>2. choice \in [Citizens -> Flags] /\ choice[u] \in Flags
    BY <1>0 DEF WasteShape
  <2>3. Given(q, choice[u]) \in Flags
    BY <1>0, <2>2, FlagsGiven
  <2> QED BY <1>0, <2>1, <2>2, <2>3
<1>4. wasteHeld[q].id = 0 => n \notin DOMAIN prefs
  BY <1>0 DEF WasteShape
<1> HIDE DEF n
<1>5. WasteShape'
  BY <1>0, <1>1, <1>2, <1>3 DEF WasteShape
<1>6. HeldIsThere'
  <2> SUFFICES ASSUME NEW p \in Updates, wasteHeld[p].id # 0
               PROVE  /\ wasteHeld[p].id \in DOMAIN prefs'
                      /\ prefs'[wasteHeld[p].id].contact = CitizenOf[p]
    BY <1>0 DEF HeldIsThere
  <2> QED BY <1>0, <1>1 DEF HeldIsThere
<1>7. \A i \in DOMAIN prefs' : i # n => i \in DOMAIN prefs /\ prefs'[i] = prefs[i]
  BY <1>1
<1>8. u \notin wasteMixed => /\ wasteHeld[q].flags = choice'[u]
                             /\ \A i \in DOMAIN prefs : prefs[i].contact = u => i = n
  <2> SUFFICES ASSUME u \notin wasteMixed
               PROVE  /\ wasteHeld[q].flags = choice'[u]
                      /\ \A i \in DOMAIN prefs : prefs[i].contact = u => i = n
    OBVIOUS
  <2>1. /\ wasteHeld[q].id = 0 => Waste!RowsOf(u) = {}
        /\ wasteHeld[q].flags = Given(q, choice[u])
    BY <1>0 DEF ChoiceIsKept
  <2>2. ASSUME NEW i \in DOMAIN prefs, prefs[i].contact = u
        PROVE  i = n
    <3>1. wasteHeld[q].id # 0
      BY <2>1, <2>2 DEF Waste!RowsOf
    <3>2. n = wasteHeld[q].id /\ n \in DOMAIN prefs
      BY <1>0, <3>1 DEF n, HeldIsThere
    <3> QED BY <1>0, <1>1, <2>2, <3>2 DEF ChoiceIsKept, OneRowEach
  <2> QED BY <1>3, <2>1, <2>2
<1>9. OneRowEach(prefs, choice)'
  <2> SUFFICES ASSUME NEW i \in DOMAIN prefs', prefs'[i].contact \notin wasteMixed
               PROVE  /\ prefs'[i].flags = choice'[prefs'[i].contact]
                      /\ \A j \in DOMAIN prefs' : prefs'[j].contact = prefs'[i].contact => i = j
    BY <1>0 DEF OneRowEach
  <2>1. CASE prefs'[i].contact = u
    <3>1. i = n
      BY <1>7, <1>8, <2>1
    <3>2. \A j \in DOMAIN prefs' : prefs'[j].contact = u => j = n
      BY <1>7, <1>8, <2>1
    <3> QED BY <1>1, <1>8, <2>1, <3>1, <3>2
  <2>2. CASE prefs'[i].contact # u
    <3>1. i # n /\ i \in DOMAIN prefs /\ prefs'[i] = prefs[i]
      BY <1>1, <1>7, <2>2
    <3>2. prefs[i].contact \in Citizens
      <4>1. prefs[i] \in Preference
        BY <1>0, <3>1 DEF WasteShape
      <4> QED BY <4>1 DEF Preference
    <3>3. prefs[i].flags = choice'[prefs[i].contact]
      BY <1>0, <1>3, <2>2, <3>1, <3>2 DEF ChoiceIsKept, OneRowEach
    <3>4. ASSUME NEW j \in DOMAIN prefs', prefs'[j].contact = prefs'[i].contact
          PROVE  i = j
      <4>1. j # n
        BY <1>1, <2>2, <3>4
      <4>2. j \in DOMAIN prefs /\ prefs[j].contact = prefs[i].contact
        BY <1>7, <3>1, <3>4, <4>1
      <4> QED BY <1>0, <3>1, <4>2 DEF ChoiceIsKept, OneRowEach
    <3> QED BY <3>1, <3>3, <3>4
  <2> QED BY <2>1, <2>2
<1>10. /\ \A v : v # u => Waste!RowsOf(v)' = Waste!RowsOf(v)
       /\ n \in Waste!RowsOf(u)'
  BY <1>1 DEF Waste!RowsOf
<1>11. ChoiceIsKept'
  <2>1. ASSUME NEW v \in Citizens \ wasteMixed, Waste!RowsOf(v)' = {}
        PROVE  choice'[v] = [t \in Waste!Tipos |-> FALSE]
    BY <1>0, <1>3, <1>10, <2>1 DEF ChoiceIsKept
  <2>2. ASSUME NEW p \in Updates, wastePc'[p] = "save", CitizenOf[p] \notin wasteMixed
        PROVE  /\ \A o \in Updates : wastePc'[o] = "save" /\ CitizenOf[o] = CitizenOf[p] => o = p
               /\ wasteHeld[p].id = 0 => Waste!RowsOf(CitizenOf[p])' = {}
               /\ wasteHeld[p].flags = Given(p, choice'[CitizenOf[p]])
    <3>1. \A o \in Updates : wastePc'[o] = "save" => o # q /\ wastePc[o] = "save"
      BY <1>2 DEF Waste!Requests
    <3>2. CitizenOf[p] # u
      BY <1>0, <2>2, <3>1 DEF ChoiceIsKept
    <3>3. CitizenOf[p] \in Citizens
      BY <1>0, <2>2, <3>1 DEF WasteShape, StepsAreTheirs, Waste!Requests
    <3> QED BY <1>0, <1>3, <1>10, <2>2, <3>1, <3>2, <3>3 DEF ChoiceIsKept
  <2> QED BY <1>0, <1>9, <2>1, <2>2 DEF ChoiceIsKept
<1> QED BY <1>0, <1>2, <1>5, <1>6, <1>11, NoRunMoves DEF WasteInv

LEMMA SectionKeeps ==
  ASSUME WasteInv, NEW q \in Waste!Requests, Waste!FindContact(q) \/ Waste!Insert(q)
  PROVE  WasteInv'
<1>0. /\ WasteShape /\ HeldIsThere /\ ChoiceIsKept
      /\ UNCHANGED <<day, prefs, avisos, wasteHeld, read, at, sent, choice, start, wasteMixed>>
  BY DEF WasteInv, Waste!FindContact, Waste!Insert, Waste!ghosts
<1>1. q \in Sections
  BY <1>0 DEF WasteShape, StepsAreTheirs, Waste!FindContact, Waste!Insert
<1>2. PICK s \in {"insert", "404", "ok"} :
        Waste!Goto(q, s) /\ (s = "insert" => CitizenOf[q] \in Citizens)
  BY DEF Waste!FindContact, Waste!Insert
<1>3. /\ StepsAreTheirs' /\ wastePc'[q] = s
      /\ \A p \in Waste!Requests : p # q => wastePc'[p] = wastePc[p]
  BY <1>0, <1>1, <1>2, WasteGoes DEF WasteShape, Waste!Steps, Waste!Final, RowSteps
<1>4. seccion' \in [Citizens -> Nat]
  <2>1. CASE Waste!FindContact(q)
    BY <1>0, <2>1 DEF WasteShape, Waste!FindContact
  <2>2. CASE Waste!Insert(q)
    BY <1>0, <1>1, <2>2, WasteConstants DEF WasteShape, Waste!Insert
  <2> QED BY <2>1, <2>2
<1>5. WasteShape'
  BY <1>0, <1>3, <1>4 DEF WasteShape
<1>6. HeldIsThere' /\ ChoiceIsKept'
  BY <1>0, <1>2, <1>3, ChoiceKept DEF Waste!Requests
<1> QED BY <1>0, <1>1, <1>3, <1>5, <1>6, NoRunMoves DEF WasteInv

\* Failures, stops and nights: each request stays where it is, or ends.
LEMMA EndsKeep ==
  ASSUME WasteInv, wastePc' \in [Waste!Requests -> Waste!Steps],
         \A q \in Waste!Requests : wastePc'[q] = wastePc[q] \/ wastePc'[q] \in {"500", "cut"},
         \A q \in Waste!Requests : wastePc[q] \in {"500", "cut"} => wastePc'[q] \in {"500", "cut"},
         day' \in FirstDay..LastDay, (\E r \in Runs : Sending(r)) => UNCHANGED day,
         UNCHANGED <<prefs, seccion, avisos, wasteHeld, read, at, sent, choice, start, wasteMixed>>
  PROVE  WasteInv'
<1>1. \A q \in Waste!Requests :
        wastePc'[q] \in RowSteps \cup {"save", "insert", "humedo", "seco", "patio", "patioSend"}
          => wastePc[q] = wastePc'[q]
  BY DEF RowSteps
<1>2. StepsAreTheirs'
  BY <1>1 DEF WasteInv, WasteShape, StepsAreTheirs, Sending, RowSteps
<1>3. WasteShape'
  BY <1>2 DEF WasteInv, WasteShape
<1>4. HeldIsThere' /\ ChoiceIsKept'
  <2>1. \A q \in Updates : wastePc'[q] = "save" => wastePc[q] = "save"
    BY <1>1 DEF Waste!Requests
  <2> QED BY <2>1, ChoiceKept DEF WasteInv
<1>5. ASSUME NEW r \in Runs PROVE RunInv(r)'
  <2>1. r \in Waste!Requests /\ RunInv(r)
    BY DEF WasteInv, Waste!Requests
  <2>2. CASE wastePc'[r] = wastePc[r]
    BY <2>1, <2>2, RunKept
  <2>3. CASE wastePc'[r] \in {"500", "cut"}
    <3>1. sent[r] \in Seq(WithPhone \X Waste!Tipos) /\ at[r] \in Nat
      BY DEF WasteInv, WasteShape
    <3>2. \A i \in DOMAIN sent[r] : sent[r][i] \in WithPhone \X Waste!Tipos
      BY <3>1
    <3>3. \A i \in DOMAIN sent[r] : sent[r][i][2] \in Waste!Tipos
      BY <3>2
    <3> QED BY <2>1, <2>3, <3>1, <3>3, RunStopped
  <2> QED BY <2>1, <2>2, <2>3
<1>6. RowIsDue' /\ Waste!RowsFollowMessages'
  <2>1. \A r \in Runs :
          /\ wastePc'[r] \in RowSteps => wastePc[r] = wastePc'[r]
          /\ wastePc[r] \in RowSteps \cup {"500", "cut"} => wastePc'[r] \in RowSteps \cup {"500", "cut"}
    BY <1>1 DEF Waste!Requests
  <2> QED BY <2>1, RowsKept DEF WasteInv
<1> QED BY <1>3, <1>4, <1>5, <1>6 DEF WasteInv

LEMMA StopsKeep ==
  ASSUME WasteInv, (\E q \in Waste!Requests : Waste!Fail(q)) \/ Waste!Crash \/ Waste!NextDay
  PROVE  WasteInv'
<1>0. wastePc \in [Waste!Requests -> Waste!Steps] /\ day \in FirstDay..LastDay
  BY DEF WasteInv, WasteShape, StepsAreTheirs
<1>1. ASSUME NEW q \in Waste!Requests, Waste!Fail(q) PROVE WasteInv'
  <2>1. wastePc' = [wastePc EXCEPT ![q] = "500"]
    BY <1>1 DEF Waste!Fail, Waste!Goto
  <2>2. wastePc' \in [Waste!Requests -> Waste!Steps]
    BY <1>0, <2>1 DEF Waste!Steps, Waste!Final
  <2> QED BY <1>0, <1>1, <2>1, <2>2, EndsKeep DEF Waste!Fail, Waste!ghosts
<1>2. CASE Waste!Crash
  <2>1. wastePc' = [q \in Waste!Requests |-> IF wastePc[q] \in Waste!Final THEN wastePc[q] ELSE "cut"]
    BY <1>2 DEF Waste!Crash
  <2>2. wastePc' \in [Waste!Requests -> Waste!Steps]
    BY <1>0, <2>1 DEF Waste!Steps, Waste!Final
  <2>3. \A q \in Waste!Requests : wastePc[q] \in {"500", "cut"} => wastePc'[q] \in {"500", "cut"}
    BY <2>1
  <2> QED BY <1>0, <1>2, <2>1, <2>2, <2>3, EndsKeep DEF Waste!Crash, Waste!ghosts
<1>3. CASE Waste!NextDay
  <2>1. day' \in FirstDay..LastDay
    BY <1>0, <1>3, WasteConstants DEF Waste!NextDay
  <2>2. ~\E r \in Runs : Sending(r)
    BY <1>3 DEF Waste!NextDay, Sending, RowSteps, Waste!Final
  <2> QED BY <1>0, <1>3, <2>1, <2>2, EndsKeep DEF Waste!NextDay, Waste!ghosts
<1> QED BY <1>1, <1>2, <1>3

----------------------------------------------------------------------------
(* The steps of a run *)

\* When one run moves, the rest is kept but for what the run writes.
LEMMA OneRunMoves ==
  ASSUME WasteInv, NEW r \in Runs, NEW s \in {"ok", "humedo", "seco", "patio", "patioSend"} \cup RowSteps,
         Waste!Goto(r, s), UNCHANGED <<day, prefs, wasteHeld, choice, wasteMixed>>,
         \A p \in Runs : p # r => UNCHANGED <<read[p], at[p], sent[p], start[p]>>
  PROVE  /\ StepsAreTheirs' /\ HeldIsThere' /\ ChoiceIsKept'
         /\ wastePc'[r] = s /\ \A p \in Runs : p # r => wastePc'[p] = wastePc[p] /\ RunInv(p)'
<1>1. r \in Waste!Requests /\ s \in Waste!Steps /\ s \notin {"save", "insert"}
  BY DEF Waste!Requests, Waste!Steps, Waste!Final, RowSteps
<1>2. /\ StepsAreTheirs' /\ wastePc'[r] = s
      /\ \A p \in Waste!Requests : p # r => wastePc'[p] = wastePc[p]
  BY <1>1, WasteGoes DEF WasteInv, WasteShape
<1>3. HeldIsThere' /\ ChoiceIsKept'
  <2>1. \A q \in Updates : wastePc'[q] = "save" => wastePc[q] = "save"
    BY <1>1, <1>2 DEF Waste!Requests
  <2> QED BY <2>1, ChoiceKept DEF WasteInv
<1>4. ASSUME NEW p \in Runs, p # r
      PROVE  wastePc'[p] = wastePc[p] /\ RunInv(p)'
  <2>1. wastePc'[p] = wastePc[p]
    BY <1>2, <1>4 DEF Waste!Requests
  <2> QED BY <1>4, <2>1, RunKept DEF WasteInv
<1> QED BY <1>2, <1>3, <1>4

LEMMA BeginKeeps ==
  ASSUME WasteInv, NEW r \in Waste!Requests, Waste!Begin(r)
  PROVE  WasteInv'
<1> DEFINE rows == IF Waste!Dow(day) = 0 THEN << >> ELSE prefs
           s == IF rows = << >> THEN "ok" ELSE "humedo"
<1>0. /\ WasteShape /\ r \in Runs /\ wastePc[r] = "new" /\ RunInv(r) /\ Waste!Goto(r, s)
      /\ read' = [read EXCEPT ![r] = rows]
      /\ start' = [start EXCEPT ![r] = [day |-> day, choice |-> choice, seccion |-> seccion,
                                        given |-> Waste!SectionsGiven]]
      /\ UNCHANGED <<day, prefs, seccion, avisos, wasteHeld, at, sent, choice, wasteMixed>>
  BY DEF WasteInv, Waste!Begin
<1>1. rows \in Seq(Preference) /\ (rows # << >> => 1 \in DOMAIN rows)
  BY <1>0 DEF WasteShape
<1>2. OneRowEach(rows, choice)
  BY DEF WasteInv, ChoiceIsKept, OneRowEach
<1> HIDE DEF rows
<1>3. /\ read' \in [Runs -> Seq(Preference)] /\ read'[r] = rows
      /\ \A p \in Runs : p # r => read'[p] = read[p]
  BY <1>0, <1>1 DEF WasteShape
<1>4. PICK begun \in Start : /\ start' = [start EXCEPT ![r] = begun]
                             /\ begun.day = day /\ begun.choice = choice
  <2>1. day \in Nat /\ Waste!SectionsGiven \in SUBSET Sections
    BY <1>0, WasteConstants DEF WasteShape, Waste!SectionsGiven
  <2>2. [day |-> day, choice |-> choice, seccion |-> seccion, given |-> Waste!SectionsGiven] \in Start
    BY <1>0, <2>1 DEF WasteShape, Start
  <2> QED BY <1>0, <2>2
<1>5. /\ start' \in [Runs -> Start] /\ start'[r].day = day /\ start'[r].choice = choice
      /\ \A p \in Runs : p # r => start'[p] = start[p]
  BY <1>0, <1>4 DEF WasteShape
<1>6. /\ StepsAreTheirs' /\ HeldIsThere' /\ ChoiceIsKept'
      /\ wastePc'[r] = s /\ \A p \in Runs : p # r => wastePc'[p] = wastePc[p] /\ RunInv(p)'
  BY <1>0, <1>3, <1>5, OneRunMoves
<1>7. WasteShape'
  BY <1>0, <1>3, <1>5, <1>6 DEF WasteShape
<1>8. sent[r] = << >> /\ at[r] = 1
  BY <1>0 DEF RunInv, Place
<1>9. RunInv(r)'
  <2>1. Place(r)'
    BY <1>0, <1>1, <1>3, <1>5, <1>6, <1>8 DEF Place, Sending, RowSteps
  <2>2. DueIsSent(r)'
    <3> SUFFICES ASSUME NEW k \in DOMAIN rows, NEW t,
                        k < at[r] \/ (k = at[r] /\ t \in Tried(s))
                 PROVE  FALSE
      BY <1>0, <1>3, <1>6 DEF DueIsSent
    <3>1. k \in Nat \ {0} /\ rows # << >>
      BY <1>1
    <3> QED BY <1>8, <3>1 DEF Tried
  <2>3. SentIsWanted(r)' /\ SentOnce(r)'
    BY <1>0, <1>8 DEF SentIsWanted, SentOnce
  <2>4. OneRowEach(read[r], start[r].choice)'
    BY <1>0, <1>2, <1>3, <1>5 DEF OneRowEach
  <2> QED BY <2>1, <2>2, <2>3, <2>4 DEF RunInv
<1>10. \A p \in Runs : RunInv(p)'
  BY <1>6, <1>9
<1>11. RowIsDue'
  <2> SUFFICES ASSUME NEW p \in Runs, wastePc'[p] \in RowSteps
               PROVE  p # r
    BY <1>0, <1>3, <1>6 DEF WasteInv, RowIsDue
  <2> QED BY <1>6 DEF RowSteps
<1>12. Waste!RowsFollowMessages'
  <2>1. ASSUME NEW p \in Runs, NEW n \in DOMAIN sent[p]
        PROVE  wastePc'[p] = wastePc[p]
    BY <1>6, <1>8, <2>1
  <2> QED BY <1>0, <2>1 DEF WasteInv, Waste!RowsFollowMessages
<1> QED BY <1>6, <1>7, <1>10, <1>11, <1>12 DEF WasteInv

\* What a run holds while it is sending.
LEMMA RunShape ==
  ASSUME WasteInv, NEW r \in Runs, Sending(r)
  PROVE  /\ RunInv(r) /\ read[r] \in Seq(Preference) /\ at[r] \in DOMAIN read[r] /\ at[r] \in Nat \ {0}
         /\ read[r][at[r]] \in Preference /\ start[r].day = day
         /\ sent[r] \in Seq(WithPhone \X Waste!Tipos) /\ Len(sent[r]) \in Nat
         /\ DOMAIN sent[r] = 1..Len(sent[r])
         /\ wastePc[r] # "humedo" => read[r][at[r]].contact \in WithPhone
<1>1. /\ RunInv(r) /\ read[r] \in Seq(Preference) /\ at[r] \in Nat \ {0}
      /\ sent[r] \in Seq(WithPhone \X Waste!Tipos)
  BY DEF WasteInv, WasteShape
<1>2. /\ at[r] \in DOMAIN read[r] /\ start[r].day = day
      /\ wastePc[r] # "humedo" => read[r][at[r]].contact \in WithPhone
  BY <1>1 DEF RunInv, Place
<1> QED BY <1>1, <1>2

\* A run goes on with its row: what it has decided in passing was not due.
LEMMA PassesOn ==
  ASSUME WasteInv, NEW r \in Runs, Sending(r), wastePc'[r] \in {"seco", "patio", "patioSend"},
         UNCHANGED <<day, wasteMixed, read[r], at[r], sent[r], start[r]>>,
         read[r][at[r]].contact \in WithPhone, Tried(wastePc[r]) \subseteq Tried(wastePc'[r]),
         \A t \in {"humedo", "seco"} \cap Tried(wastePc'[r]) :
           t \notin Tried(wastePc[r]) => ~DueTo(r, read[r][at[r]], t),
         wastePc'[r] = "patioSend" => read[r][at[r]].flags["patio"]
  PROVE  RunInv(r)'
<1>0. RunInv(r) /\ at[r] \in DOMAIN read[r] /\ start[r].day = day
  BY RunShape
<1>1. Place(r)'
  BY <1>0 DEF Place
<1>2. DueIsSent(r)'
  <2> SUFFICES ASSUME NEW k \in DOMAIN read'[r], NEW t \in {"humedo", "seco"}, DueTo(r, read[r][k], t)',
                      (k < at[r] \/ (k = at[r] /\ t \in Tried(wastePc[r])))'
               PROVE  (\E i \in DOMAIN sent[r] : sent[r][i] = <<read[r][k].contact, t>>)'
    BY DEF DueIsSent
  <2>0. /\ k \in DOMAIN read[r] /\ read'[r] = read[r] /\ DueTo(r, read[r][k], t)
        /\ k < at[r] \/ (k = at[r] /\ t \in Tried(wastePc'[r]))
    BY DEF DueTo, Tried
  <2>1. k < at[r] \/ (k = at[r] /\ t \in Tried(wastePc[r]))
    BY <2>0
  <2>2. DueIsSent(r)
    BY <1>0 DEF RunInv
  <2>3. \E i \in DOMAIN sent[r] : sent[r][i] = <<read[r][k].contact, t>>
    BY <2>0, <2>1, <2>2 DEF DueIsSent
  <2> QED BY <2>3, <2>0
<1>3. SentIsWanted(r)'
  <2> SUFFICES ASSUME NEW i \in DOMAIN sent[r]
               PROVE  \E k \in DOMAIN read[r] :
                        /\ k <= at[r] /\ sent[r][i][1] = read[r][k].contact
                        /\ read[r][k].flags[sent[r][i][2]]
                        /\ k = at[r] => sent[r][i][2] \in Tried(wastePc'[r])
    BY DEF SentIsWanted, Tried
  <2> QED BY <1>0 DEF RunInv, SentIsWanted
<1>4. SentOnce(r)' /\ OneRowEach(read[r], start[r].choice)'
  BY <1>0 DEF RunInv, SentOnce, OneRowEach
<1> QED BY <1>1, <1>2, <1>3, <1>4 DEF RunInv

\* A run leaves its row, of no telephone or with what was due decided.
LEMMA GoesOn ==
  ASSUME WasteInv, NEW r \in Runs, Sending(r),
         UNCHANGED <<day, wasteMixed, read[r], sent[r], start[r]>>, at'[r] = at[r] + 1,
         wastePc'[r] = IF at[r] = Len(read[r]) THEN "ok" ELSE "humedo",
         \/ read[r][at[r]].contact \notin WithPhone
         \/ {"humedo", "seco"} \subseteq Tried(wastePc[r])
  PROVE  RunInv(r)'
<1>0. /\ RunInv(r) /\ read[r] \in Seq(Preference) /\ at[r] \in DOMAIN read[r] /\ at[r] \in Nat \ {0}
      /\ start[r].day = day
  BY RunShape
<1>1. Place(r)'
  BY <1>0 DEF Place, Sending, RowSteps
<1>2. DueIsSent(r)'
  <2> SUFFICES ASSUME NEW k \in DOMAIN read'[r], NEW t \in {"humedo", "seco"}, DueTo(r, read[r][k], t)',
                      (k < at[r] \/ (k = at[r] /\ t \in Tried(wastePc[r])))'
               PROVE  (\E i \in DOMAIN sent[r] : sent[r][i] = <<read[r][k].contact, t>>)'
    BY DEF DueIsSent
  <2>0. /\ k \in DOMAIN read[r] /\ read'[r] = read[r] /\ DueTo(r, read[r][k], t)
        /\ k < at[r] + 1 \/ (k = at[r] + 1 /\ t \in Tried(wastePc'[r]))
    BY DEF DueTo, Tried
  <2>1. Tried(wastePc'[r]) = {} \/ at[r] + 1 \notin DOMAIN read[r]
    BY <1>0 DEF Tried
  <2>2. k < at[r] \/ k = at[r]
    BY <1>0, <2>0, <2>1
  <2>3. k < at[r] \/ (k = at[r] /\ t \in Tried(wastePc[r]))
    BY <2>0, <2>2 DEF DueTo
  <2>4. DueIsSent(r)
    BY <1>0 DEF RunInv
  <2>5. \E i \in DOMAIN sent[r] : sent[r][i] = <<read[r][k].contact, t>>
    BY <2>0, <2>3, <2>4 DEF DueIsSent
  <2> QED BY <2>5, <2>0
<1>3. SentIsWanted(r)'
  <2> SUFFICES ASSUME NEW i \in DOMAIN sent[r]
               PROVE  \E k \in DOMAIN read[r] :
                        /\ k <= at[r] + 1 /\ sent[r][i][1] = read[r][k].contact
                        /\ read[r][k].flags[sent[r][i][2]]
                        /\ k # at[r] + 1
    BY DEF SentIsWanted, Tried
  <2>1. PICK k \in DOMAIN read[r] : /\ k <= at[r] /\ sent[r][i][1] = read[r][k].contact
                                    /\ read[r][k].flags[sent[r][i][2]]
    BY <1>0 DEF RunInv, SentIsWanted
  <2>2. k <= at[r] + 1 /\ k # at[r] + 1
    BY <1>0, <2>1
  <2> QED BY <2>1, <2>2
<1>4. SentOnce(r)' /\ OneRowEach(read[r], start[r].choice)'
  BY <1>0 DEF RunInv, SentOnce, OneRowEach
<1> QED BY <1>1, <1>2, <1>3, <1>4 DEF RunInv

\* A run tries the message of a kind that its row wants and that it had not come to.
LEMMA TellsKind ==
  ASSUME WasteInv, NEW r \in Runs, Sending(r), wastePc'[r] \in RowSteps, NEW t \in Waste!Tipos,
         UNCHANGED <<day, wasteMixed, read[r], at[r], start[r]>>,
         sent'[r] = Append(sent[r], <<read[r][at[r]].contact, t>>),
         read[r][at[r]].contact \in WithPhone, read[r][at[r]].flags[t],
         t \notin Tried(wastePc[r]), Tried(wastePc'[r]) = Tried(wastePc[r]) \cup {t}
  PROVE  RunInv(r)' /\ sent'[r] \in Seq(WithPhone \X Waste!Tipos)
<1> DEFINE u == read[r][at[r]].contact
           n == Len(sent[r]) + 1
<1>0. /\ RunInv(r) /\ read[r] \in Seq(Preference) /\ at[r] \in DOMAIN read[r] /\ at[r] \in Nat \ {0}
      /\ sent[r] \in Seq(WithPhone \X Waste!Tipos) /\ DOMAIN sent[r] = 1..Len(sent[r])
      /\ start[r].day = day /\ Len(sent[r]) \in Nat
  BY RunShape
<1>1. /\ sent'[r] \in Seq(WithPhone \X Waste!Tipos) /\ DOMAIN sent'[r] = 1..n
      /\ sent'[r][n] = <<u, t>> /\ \A i \in DOMAIN sent[r] : sent'[r][i] = sent[r][i]
  <2>1. PICK m \in WithPhone \X Waste!Tipos : m = <<u, t>>
    OBVIOUS
  <2>2. /\ Append(sent[r], m) \in Seq(WithPhone \X Waste!Tipos) /\ Len(Append(sent[r], m)) = n
        /\ Append(sent[r], m)[n] = m
        /\ \A i \in 1..Len(sent[r]) : Append(sent[r], m)[i] = sent[r][i]
    BY <1>0, AppendProperties
  <2> QED BY <1>0, <2>1, <2>2
<1> HIDE DEF u
<1>2. Place(r)'
  BY <1>0, <1>1 DEF Place, u, RowSteps
<1>3. DueIsSent(r)'
  <2> SUFFICES ASSUME NEW k \in DOMAIN read'[r], NEW x \in {"humedo", "seco"}, DueTo(r, read[r][k], x)',
                      (k < at[r] \/ (k = at[r] /\ x \in Tried(wastePc[r])))'
               PROVE  (\E i \in DOMAIN sent[r] : sent[r][i] = <<read[r][k].contact, x>>)'
    BY DEF DueIsSent
  <2>0. /\ k \in DOMAIN read[r] /\ read'[r] = read[r] /\ DueTo(r, read[r][k], x)
        /\ k < at[r] \/ (k = at[r] /\ x \in Tried(wastePc'[r]))
    BY DEF DueTo, Tried
  <2>1. CASE k = at[r] /\ x = t
    <3>1. n \in DOMAIN sent'[r]
      BY <1>0, <1>1
    <3>2. sent'[r][n] = <<read[r][k].contact, x>>
      BY <1>1, <2>1 DEF u
    <3> QED BY <2>0, <3>1, <3>2
  <2>2. CASE ~(k = at[r] /\ x = t)
    <3>1. k < at[r] \/ (k = at[r] /\ x \in Tried(wastePc[r]))
      BY <2>0, <2>2
    <3>2. PICK i \in DOMAIN sent[r] : sent[r][i] = <<read[r][k].contact, x>>
      BY <1>0, <2>0, <3>1 DEF RunInv, DueIsSent
    <3>3. i \in DOMAIN sent'[r] /\ sent'[r][i] = sent[r][i]
      BY <1>0, <1>1
    <3>4. \E j \in DOMAIN sent'[r] : sent'[r][j] = <<read[r][k].contact, x>>
      BY <3>2, <3>3
    <3> QED BY <2>0, <3>4
  <2> QED BY <2>1, <2>2
<1>4. SentIsWanted(r)'
  <2> SUFFICES ASSUME NEW i \in 1..n
               PROVE  \E k \in DOMAIN read[r] :
                        /\ k <= at[r] /\ sent'[r][i][1] = read[r][k].contact
                        /\ read[r][k].flags[sent'[r][i][2]]
                        /\ k = at[r] => sent'[r][i][2] \in Tried(wastePc'[r])
    <3>1. Tried(wastePc[r])' = Tried(wastePc'[r]) /\ DOMAIN sent'[r] = 1..n
      BY <1>1 DEF Tried
    <3> QED BY <3>1 DEF SentIsWanted
  <2>1. CASE i = n
    <3>1. sent'[r][i][1] = read[r][at[r]].contact /\ sent'[r][i][2] = t
      BY <1>1, <2>1 DEF u
    <3>2. at[r] <= at[r] /\ t \in Tried(wastePc'[r])
      BY <1>0
    <3> QED BY <1>0, <3>1, <3>2
  <2>2. CASE i # n
    <3>1. i \in DOMAIN sent[r] /\ sent'[r][i] = sent[r][i]
      BY <1>0, <1>1, <2>2
    <3>2. PICK k \in DOMAIN read[r] : /\ k <= at[r] /\ sent[r][i][1] = read[r][k].contact
                                      /\ read[r][k].flags[sent[r][i][2]]
                                      /\ k = at[r] => sent[r][i][2] \in Tried(wastePc[r])
      BY <1>0, <3>1 DEF RunInv, SentIsWanted
    <3> QED BY <3>1, <3>2
  <2> QED BY <2>1, <2>2
<1>5. ASSUME NEW i \in DOMAIN sent[r], u \notin wasteMixed PROVE sent[r][i] # <<u, t>>
  <2> SUFFICES ASSUME sent[r][i] = <<u, t>> PROVE FALSE
    OBVIOUS
  <2>1. PICK k \in DOMAIN read[r] : /\ u = read[r][k].contact
                                    /\ k = at[r] => t \in Tried(wastePc[r])
    BY <1>0 DEF RunInv, SentIsWanted
  <2> QED BY <1>0, <1>5, <2>1 DEF RunInv, OneRowEach, u
<1>6. SentOnce(r)'
  <2> SUFFICES ASSUME NEW i \in 1..n, NEW j \in 1..n, sent'[r][i] = sent'[r][j],
                      sent'[r][i][1] \notin wasteMixed
               PROVE  i = j
    BY <1>1 DEF SentOnce
  <2>1. CASE i = n /\ j # n
    <3>1. j \in DOMAIN sent[r] /\ sent[r][j] = <<u, t>> /\ u \notin wasteMixed
      BY <1>0, <1>1, <2>1
    <3> QED BY <1>5, <3>1
  <2>2. CASE j = n /\ i # n
    <3>1. i \in DOMAIN sent[r] /\ sent[r][i] = <<u, t>> /\ u \notin wasteMixed
      BY <1>0, <1>1, <2>2
    <3> QED BY <1>5, <3>1
  <2>3. CASE i # n /\ j # n
    <3>1. /\ i \in DOMAIN sent[r] /\ j \in DOMAIN sent[r]
          /\ sent[r][i] = sent[r][j] /\ sent[r][i][1] \notin wasteMixed
      BY <1>0, <1>1, <2>3
    <3> QED BY <1>0, <3>1 DEF RunInv, SentOnce
  <2> QED BY <2>1, <2>2, <2>3
<1>7. OneRowEach(read[r], start[r].choice)'
  BY <1>0 DEF RunInv, OneRowEach
<1> QED BY <1>1, <1>2, <1>3, <1>4, <1>6, <1>7 DEF RunInv

\* A message that has just been tried has no row; those before it have theirs.
LEMMA RowComesDue ==
  ASSUME WasteInv, NEW r \in Runs, wastePc[r] \in {"humedo", "seco", "patioSend"}, NEW t,
         wastePc'[r] \in RowSteps, \A p \in Runs : p # r => wastePc'[p] = wastePc[p],
         sent'[r] = Append(sent[r], <<read[r][at[r]].contact, t>>), t \in Waste!Tipos,
         read[r][at[r]].contact \in WithPhone,
         \A p \in Runs : p # r => sent'[p] = sent[p], UNCHANGED <<avisos, read, at>>
  PROVE  RowIsDue' /\ Waste!RowsFollowMessages'
<1> DEFINE m == <<read[r][at[r]].contact, t>>
           n == Len(sent[r]) + 1
<1>0. sent[r] \in Seq(WithPhone \X Waste!Tipos) /\ Len(sent[r]) \in Nat /\ DOMAIN sent[r] = 1..Len(sent[r])
  BY DEF WasteInv, WasteShape
<1>1. /\ DOMAIN sent'[r] = 1..n /\ Len(sent'[r]) = n /\ n > 0
      /\ sent'[r][n] = m /\ \A i \in DOMAIN sent[r] : sent'[r][i] = sent[r][i]
  <2>1. PICK e \in WithPhone \X Waste!Tipos : e = m
    OBVIOUS
  <2>2. /\ Append(sent[r], e) \in Seq(WithPhone \X Waste!Tipos) /\ Len(Append(sent[r], e)) = n
        /\ Append(sent[r], e)[n] = e
        /\ \A i \in 1..Len(sent[r]) : Append(sent[r], e)[i] = sent[r][i]
    BY <1>0, AppendProperties
  <2> QED BY <1>0, <2>1, <2>2
<1>2. m[1] = read[r][at[r]].contact
  OBVIOUS
<1> HIDE DEF m
<1>3. \A i \in DOMAIN avisos : \E p \in Runs : \E k \in DOMAIN sent[p] :
        avisos[i] = [contact |-> sent[p][k][1], of |-> <<p, k>>]
  BY DEF WasteInv, Waste!RowsFollowMessages
<1>4. ASSUME NEW i \in DOMAIN avisos
      PROVE  /\ \E p \in Runs : \E k \in DOMAIN sent'[p] :
                  avisos[i] = [contact |-> sent'[p][k][1], of |-> <<p, k>>]
             /\ avisos[i].of # <<r, n>>
  <2>0. PICK p \in Runs : \E k \in DOMAIN sent[p] : avisos[i] = [contact |-> sent[p][k][1], of |-> <<p, k>>]
    BY <1>3
  <2>1. PICK k \in DOMAIN sent[p] : avisos[i] = [contact |-> sent[p][k][1], of |-> <<p, k>>]
    BY <2>0
  <2>2. k \in DOMAIN sent'[p] /\ sent'[p][k] = sent[p][k]
    <3>1. CASE p = r
      <4>1. k \in DOMAIN sent[r] /\ k \in DOMAIN sent'[r]
        BY <1>0, <1>1, <3>1
      <4> QED BY <1>1, <3>1, <4>1
    <3>2. CASE p # r
      BY <3>2
    <3> QED BY <3>1, <3>2
  <2>3. avisos[i].of = <<p, k>> /\ (p = r => k # n)
    BY <1>0, <2>1
  <2>4. avisos[i].of # <<r, n>>
    BY <2>3
  <2>5. avisos[i] = [contact |-> sent'[p][k][1], of |-> <<p, k>>]
    BY <2>1, <2>2
  <2> QED BY <2>2, <2>4, <2>5
<1>5. ASSUME NEW p \in Runs, NEW k \in DOMAIN sent'[p]
      PROVE  \/ \E i \in DOMAIN avisos : avisos[i].of = <<p, k>>
             \/ k = Len(sent'[p]) /\ wastePc'[p] \in RowSteps \cup {"500", "cut"}
  <2>1. CASE p # r
    BY <2>1 DEF WasteInv, Waste!RowsFollowMessages, RowSteps
  <2>2. CASE p = r /\ k = n
    BY <1>1, <2>2
  <2>3. CASE p = r /\ k # n
    <3>1. k \in DOMAIN sent[r]
      BY <1>0, <1>1, <2>3
    <3> QED BY <2>3, <3>1 DEF WasteInv, Waste!RowsFollowMessages
  <2> QED BY <2>1, <2>2, <2>3
<1>6. Waste!RowsFollowMessages'
  <2>1. \A i, j \in DOMAIN avisos : avisos[i].of = avisos[j].of => i = j
    BY DEF WasteInv, Waste!RowsFollowMessages
  <2> QED BY <1>4, <1>5, <2>1 DEF Waste!RowsFollowMessages, RowSteps
<1>7. RowIsDue'
  <2> SUFFICES ASSUME NEW p \in Runs, wastePc'[p] \in RowSteps
               PROVE  /\ Len(sent'[p]) > 0 /\ sent'[p][Len(sent'[p])][1] = read[p][at[p]].contact
                      /\ \A i \in DOMAIN avisos : avisos[i].of # <<p, Len(sent'[p])>>
    BY DEF RowIsDue
  <2>1. CASE p = r
    BY <1>1, <1>2, <1>4, <2>1
  <2>2. CASE p # r
    BY <2>2 DEF WasteInv, RowIsDue
  <2> QED BY <2>1, <2>2
<1> QED BY <1>6, <1>7

\* The row of the last message of a run is written.
LEMMA RowWritten ==
  ASSUME WasteInv, NEW r \in Runs, wastePc[r] \in RowSteps, wastePc'[r] \notin RowSteps,
         \A p \in Runs : p # r => UNCHANGED <<wastePc[p], read[p], at[p]>>,
         avisos' = Append(avisos, [contact |-> read[r][at[r]].contact, of |-> <<r, Len(sent[r])>>]),
         UNCHANGED sent
  PROVE  /\ RowIsDue' /\ Waste!RowsFollowMessages'
         /\ avisos' \in Seq([contact : Citizens, of : Runs \X Nat])
<1> DEFINE n == Len(sent[r])
           row == [contact |-> read[r][at[r]].contact, of |-> <<r, n>>]
           z == Len(avisos) + 1
<1>0. /\ n \in Nat /\ n > 0 /\ n \in DOMAIN sent[r] /\ DOMAIN sent[r] = 1..n
      /\ sent[r][n][1] = read[r][at[r]].contact /\ \A i \in DOMAIN avisos : avisos[i].of # <<r, n>>
  <2>1. sent[r] \in Seq(WithPhone \X Waste!Tipos)
    BY DEF WasteInv, WasteShape
  <2>2. /\ Len(sent[r]) > 0 /\ sent[r][Len(sent[r])][1] = read[r][at[r]].contact
        /\ \A i \in DOMAIN avisos : avisos[i].of # <<r, Len(sent[r])>>
    BY DEF WasteInv, RowIsDue
  <2> QED BY <2>1, <2>2
<1>1. row \in [contact : Citizens, of : Runs \X Nat]
  <2>1. read[r][at[r]] \in Preference
    BY RunShape DEF Sending
  <2>2. <<r, n>> \in Runs \X Nat
    BY <1>0
  <2> QED BY <2>1, <2>2 DEF Preference
<1>2. avisos \in Seq([contact : Citizens, of : Runs \X Nat]) /\ DOMAIN avisos = 1..Len(avisos)
      /\ Len(avisos) \in Nat
  BY DEF WasteInv, WasteShape
<1>3. row = [contact |-> sent[r][n][1], of |-> <<r, n>>] /\ row.of = <<r, n>>
  BY <1>0
<1>4. avisos' = Append(avisos, row)
  OBVIOUS
<1> HIDE DEF row
<1>5. /\ avisos' \in Seq([contact : Citizens, of : Runs \X Nat]) /\ Len(avisos') = z
      /\ avisos'[z] = row /\ \A i \in 1..Len(avisos) : avisos'[i] = avisos[i]
  BY <1>1, <1>2, <1>4, AppendProperties
<1>6. DOMAIN avisos' = DOMAIN avisos \cup {z} /\ z \notin DOMAIN avisos /\ z \in DOMAIN avisos'
      /\ \A i \in DOMAIN avisos : avisos'[i] = avisos[i]
  BY <1>2, <1>5
<1> HIDE DEF z, n
<1>7. ASSUME NEW i \in DOMAIN avisos'
      PROVE  \E p \in Runs : \E k \in DOMAIN sent[p] :
               avisos'[i] = [contact |-> sent[p][k][1], of |-> <<p, k>>]
  <2>1. CASE i = z
    BY <1>0, <1>3, <1>5, <2>1
  <2>2. CASE i # z
    <3>1. i \in DOMAIN avisos /\ avisos'[i] = avisos[i]
      BY <1>6, <2>2
    <3>2. \E p \in Runs : \E k \in DOMAIN sent[p] :
            avisos[i] = [contact |-> sent[p][k][1], of |-> <<p, k>>]
      BY <3>1 DEF WasteInv, Waste!RowsFollowMessages
    <3> QED BY <3>1, <3>2
  <2> QED BY <2>1, <2>2
<1>8. \A i, j \in DOMAIN avisos' : avisos'[i].of = avisos'[j].of => i = j
  <2>1. \A i, j \in DOMAIN avisos : avisos[i].of = avisos[j].of => i = j
    BY DEF WasteInv, Waste!RowsFollowMessages
  <2>2. avisos'[z].of = <<r, n>>
    BY <1>3, <1>5
  <2>3. \A i \in DOMAIN avisos' : i # z =>
          i \in DOMAIN avisos /\ avisos'[i] = avisos[i] /\ avisos[i].of # <<r, n>>
    BY <1>0, <1>6
  <2> QED BY <2>1, <2>2, <2>3
<1>9. ASSUME NEW p \in Runs, NEW k \in DOMAIN sent[p]
      PROVE  \/ \E i \in DOMAIN avisos' : avisos'[i].of = <<p, k>>
             \/ k = Len(sent[p]) /\ wastePc'[p] \in RowSteps \cup {"500", "cut"}
  <2>1. \/ \E i \in DOMAIN avisos : avisos[i].of = <<p, k>>
        \/ k = Len(sent[p]) /\ wastePc[p] \in RowSteps \cup {"500", "cut"}
    BY DEF WasteInv, Waste!RowsFollowMessages, RowSteps
  <2>2. CASE \E i \in DOMAIN avisos : avisos[i].of = <<p, k>>
    BY <1>6, <2>2
  <2>3. CASE p = r /\ k = n
    BY <1>3, <1>5, <1>6, <2>3
  <2>4. CASE p # r
    BY <1>6, <2>1, <2>4
  <2> QED BY <2>1, <2>2, <2>3, <2>4 DEF n
<1>10. Waste!RowsFollowMessages'
  <2>1. \A p \in Runs : \A k \in DOMAIN sent'[p] :
          \/ \E i \in DOMAIN avisos' : avisos'[i].of = <<p, k>>
          \/ k = Len(sent'[p]) /\ wastePc'[p] \in RowSteps \cup {"500", "cut"}
    BY <1>9
  <2>2. \A i \in DOMAIN avisos' : \E p \in Runs : \E k \in DOMAIN sent'[p] :
          avisos'[i] = [contact |-> sent'[p][k][1], of |-> <<p, k>>]
    BY <1>7
  <2> QED BY <1>8, <2>1, <2>2 DEF Waste!RowsFollowMessages, RowSteps
<1>11. RowIsDue'
  <2> SUFFICES ASSUME NEW p \in Runs, wastePc'[p] \in RowSteps
               PROVE  /\ Len(sent[p]) > 0 /\ sent[p][Len(sent[p])][1] = read'[p][at'[p]].contact
                      /\ \A i \in DOMAIN avisos' : avisos'[i].of # <<p, Len(sent[p])>>
    BY DEF RowIsDue
  <2>1. p # r
    OBVIOUS
  <2>2. /\ Len(sent[p]) > 0 /\ sent[p][Len(sent[p])][1] = read[p][at[p]].contact
        /\ \A i \in DOMAIN avisos : avisos[i].of # <<p, Len(sent[p])>>
    BY <2>1 DEF WasteInv, RowIsDue
  <2>3. avisos'[z].of # <<p, Len(sent[p])>>
    BY <1>3, <1>5, <2>1
  <2>4. \A i \in DOMAIN avisos' : i # z => i \in DOMAIN avisos /\ avisos'[i] = avisos[i]
    BY <1>6
  <2>5. \A i \in DOMAIN avisos' : avisos'[i].of # <<p, Len(sent[p])>>
    BY <2>2, <2>3, <2>4
  <2> QED BY <2>1, <2>2, <2>5
<1> QED BY <1>5, <1>10, <1>11

LEMMA SkipKeeps ==
  ASSUME WasteInv, NEW r \in Waste!Requests, Waste!Skip(r)
  PROVE  WasteInv'
<1>0. /\ Sending(r) /\ r \in Runs /\ WasteShape /\ Waste!Advance(r)
      /\ UNCHANGED <<day, prefs, seccion, avisos, wasteHeld, read, sent, choice, start, wasteMixed>>
  BY DEF WasteInv, WasteShape, StepsAreTheirs, Waste!Skip, Sending, Waste!ghosts
<1>1. /\ at' \in [Runs -> Nat \ {0}] /\ at'[r] = at[r] + 1 /\ \A p \in Runs : p # r => at'[p] = at[p]
  BY <1>0 DEF WasteShape, Waste!Advance
<1>2. PICK s \in {"ok", "humedo"} : /\ Waste!Goto(r, s)
                                    /\ s = IF at[r] = Len(read[r]) THEN "ok" ELSE "humedo"
  BY <1>0 DEF Waste!Advance
<1>3. /\ StepsAreTheirs' /\ HeldIsThere' /\ ChoiceIsKept'
      /\ wastePc'[r] = s /\ \A p \in Runs : p # r => wastePc'[p] = wastePc[p] /\ RunInv(p)'
  BY <1>0, <1>1, <1>2, OneRunMoves
<1>4. RunInv(r)'
  BY <1>0, <1>1, <1>2, <1>3, GoesOn DEF Waste!Skip, Waste!User
<1>5. WasteShape'
  BY <1>0, <1>1, <1>3 DEF WasteShape
<1>6. RowIsDue' /\ Waste!RowsFollowMessages'
  <2>1. ASSUME NEW p \in Runs, wastePc'[p] \in RowSteps PROVE p # r
    BY <1>3, <2>1 DEF RowSteps
  <2>2. RowIsDue'
    BY <1>0, <1>1, <1>3, <2>1 DEF WasteInv, RowIsDue
  <2>3. wastePc[r] = "humedo"
    BY DEF Waste!Skip
  <2> QED BY <1>0, <1>3, <2>2, <2>3 DEF WasteInv, Waste!RowsFollowMessages
<1> QED BY <1>3, <1>4, <1>5, <1>6 DEF WasteInv

\* A message of the row a run has come to is tried.
LEMMA SendKeeps ==
  ASSUME WasteInv, NEW r \in Runs, wastePc[r] \in {"humedo", "seco", "patioSend"},
         NEW t \in Waste!Tipos, NEW s \in RowSteps, Waste!Send(r, t, s),
         Waste!User(r) \in WithPhone, Waste!Wants(r, t),
         t \notin Tried(wastePc[r]), Tried(s) = Tried(wastePc[r]) \cup {t},
         UNCHANGED <<day, prefs, seccion, avisos, wasteHeld, read, at, choice, start, wasteMixed>>
  PROVE  WasteInv'
<1>0. Sending(r) /\ WasteShape
  BY DEF WasteInv, Sending
<1>1. /\ sent' = [sent EXCEPT ![r] = Append(sent[r], <<read[r][at[r]].contact, t>>)] /\ Waste!Goto(r, s)
      /\ read[r][at[r]].contact \in WithPhone /\ read[r][at[r]].flags[t]
  BY DEF Waste!Send, Waste!User, Waste!Wants
<1>2. /\ sent'[r] = Append(sent[r], <<read[r][at[r]].contact, t>>)
      /\ \A p \in Runs : p # r => sent'[p] = sent[p]
  BY <1>0, <1>1 DEF WasteShape
<1>3. /\ StepsAreTheirs' /\ HeldIsThere' /\ ChoiceIsKept'
      /\ wastePc'[r] = s /\ \A p \in Runs : p # r => wastePc'[p] = wastePc[p] /\ RunInv(p)'
  BY <1>1, <1>2, OneRunMoves
<1>4. RunInv(r)' /\ sent'[r] \in Seq(WithPhone \X Waste!Tipos)
  BY <1>0, <1>1, <1>2, <1>3, TellsKind
<1>5. RowIsDue' /\ Waste!RowsFollowMessages'
  BY <1>1, <1>2, <1>3, RowComesDue
<1>6. sent' \in [Runs -> Seq(WithPhone \X Waste!Tipos)]
  BY <1>0, <1>1, <1>2, <1>4 DEF WasteShape
<1>7. WasteShape'
  BY <1>0, <1>3, <1>6 DEF WasteShape
<1> QED BY <1>3, <1>4, <1>5, <1>7 DEF WasteInv

\* A run that has nothing to say of a kind, or has found the section of its row, goes on.
LEMMA PassKeeps ==
  ASSUME WasteInv, NEW r \in Runs, wastePc[r] \in {"humedo", "seco", "patio"},
         NEW s \in {"seco", "patio", "patioSend"}, Waste!Goto(r, s), Waste!User(r) \in WithPhone,
         Tried(wastePc[r]) \subseteq Tried(s),
         \A t \in {"humedo", "seco"} \cap Tried(s) :
           t \notin Tried(wastePc[r]) => ~DueTo(r, read[r][at[r]], t),
         s = "patioSend" => Waste!Wants(r, "patio"),
         UNCHANGED <<day, prefs, seccion, avisos, wasteHeld, read, at, sent, choice, start, wasteMixed>>
  PROVE  WasteInv'
<1>0. Sending(r) /\ WasteShape /\ read[r][at[r]].contact \in WithPhone
  BY DEF WasteInv, Sending, Waste!User
<1>1. /\ StepsAreTheirs' /\ HeldIsThere' /\ ChoiceIsKept'
      /\ wastePc'[r] = s /\ \A p \in Runs : p # r => wastePc'[p] = wastePc[p] /\ RunInv(p)'
  BY OneRunMoves
<1>2. RunInv(r)'
  BY <1>0, <1>1, PassesOn DEF Waste!Wants
<1>3. WasteShape'
  BY <1>0, <1>1 DEF WasteShape
<1>4. RowIsDue' /\ Waste!RowsFollowMessages'
  <2>1. \A p \in Runs :
          /\ wastePc'[p] \in RowSteps => wastePc[p] = wastePc'[p]
          /\ wastePc[p] \in RowSteps \cup {"500", "cut"} => wastePc'[p] \in RowSteps \cup {"500", "cut"}
    BY <1>1 DEF RowSteps
  <2> QED BY <2>1, RowsKept DEF WasteInv
<1> QED BY <1>1, <1>2, <1>3, <1>4 DEF WasteInv

LEMMA KindsKeep ==
  ASSUME WasteInv, NEW r \in Waste!Requests, Waste!Humedo(r) \/ Waste!Seco(r) \/ Waste!PatioSend(r)
  PROVE  WasteInv'
<1>0. /\ r \in Runs /\ Sending(r) /\ start[r].day = day
      /\ UNCHANGED <<day, prefs, seccion, avisos, wasteHeld, read, at, choice, start, wasteMixed>>
  <2>1. /\ wastePc[r] \in {"humedo", "seco", "patioSend"}
        /\ UNCHANGED <<day, prefs, seccion, avisos, wasteHeld, read, at, choice, start, wasteMixed>>
    BY DEF Waste!Humedo, Waste!Seco, Waste!PatioSend, Waste!ghosts
  <2>2. r \in Runs /\ Sending(r)
    BY <2>1 DEF WasteInv, WasteShape, StepsAreTheirs, Sending
  <2> QED BY <2>1, <2>2, RunShape
<1>1. CASE Waste!Humedo(r)
  <2>1. wastePc[r] = "humedo" /\ Waste!User(r) \in WithPhone
    BY <1>1 DEF Waste!Humedo
  <2>2. Tried("humedo") = {} /\ Tried("humedoRow") = {"humedo"} /\ Tried("seco") = {"humedo"}
    BY DEF Tried
  <2>3. CASE Waste!Wants(r, "humedo") /\ Waste!EsResiduo(day, "humedo", 0)
    <3>1. Waste!Send(r, "humedo", "humedoRow")
      BY <1>1, <2>3 DEF Waste!Humedo
    <3> QED BY <1>0, <2>1, <2>2, <2>3, <3>1, SendKeeps DEF Waste!Tipos, RowSteps
  <2>4. CASE ~(Waste!Wants(r, "humedo") /\ Waste!EsResiduo(day, "humedo", 0))
    <3>1. Waste!Goto(r, "seco") /\ UNCHANGED sent
      BY <1>1, <2>4 DEF Waste!Humedo
    <3>2. ~DueTo(r, read[r][at[r]], "humedo")
      BY <1>0, <2>4 DEF DueTo, Waste!Wants
    <3> QED BY <1>0, <2>1, <2>2, <3>1, <3>2, PassKeeps
  <2> QED BY <2>3, <2>4
<1>2. CASE Waste!Seco(r)
  <2>1. wastePc[r] = "seco" /\ Waste!User(r) \in WithPhone
    BY <1>0, <1>2, RunShape DEF Waste!Seco, Waste!User
  <2>2. /\ Tried("seco") = {"humedo"} /\ Tried("secoRow") = {"humedo", "seco"}
        /\ Tried("patio") = {"humedo", "seco"}
    BY DEF Tried
  <2>3. CASE Waste!Wants(r, "seco") /\ Waste!EsResiduo(day, "seco", 0)
    <3>1. Waste!Send(r, "seco", "secoRow")
      BY <1>2, <2>3 DEF Waste!Seco
    <3> QED BY <1>0, <2>1, <2>2, <2>3, <3>1, SendKeeps DEF Waste!Tipos, RowSteps
  <2>4. CASE ~(Waste!Wants(r, "seco") /\ Waste!EsResiduo(day, "seco", 0))
    <3>1. Waste!Goto(r, "patio") /\ UNCHANGED sent
      BY <1>2, <2>4 DEF Waste!Seco
    <3>2. ~DueTo(r, read[r][at[r]], "seco")
      BY <1>0, <2>4 DEF DueTo, Waste!Wants
    <3> QED BY <1>0, <2>1, <2>2, <3>1, <3>2, PassKeeps
  <2> QED BY <2>3, <2>4
<1>3. CASE Waste!PatioSend(r)
  <2>1. wastePc[r] = "patioSend" /\ Waste!User(r) \in WithPhone /\ Waste!Wants(r, "patio")
    BY <1>0, <1>3, RunShape DEF RunInv, Place, Waste!PatioSend, Waste!User, Waste!Wants
  <2>2. Tried("patioSend") = {"humedo", "seco"} /\ Tried("patioRow") = {"humedo", "seco", "patio"}
    BY DEF Tried, Waste!Tipos
  <2>3. Waste!Send(r, "patio", "patioRow")
    BY <1>3 DEF Waste!PatioSend
  <2> QED BY <1>0, <2>1, <2>2, <2>3, SendKeeps DEF Waste!Tipos, RowSteps
<1> QED BY <1>1, <1>2, <1>3

LEMMA PatioKeeps ==
  ASSUME WasteInv, NEW r \in Waste!Requests, Waste!Patio(r)
  PROVE  WasteInv'
<1>0. /\ wastePc[r] = "patio" /\ r \in Runs /\ Sending(r) /\ WasteShape /\ Waste!User(r) \in WithPhone
      /\ UNCHANGED <<day, prefs, seccion, avisos, wasteHeld, read, sent, choice, start, wasteMixed>>
  <2>1. wastePc[r] = "patio" /\ Sending(r)
    BY DEF Waste!Patio, Sending
  <2>2. r \in Runs
    BY <2>1 DEF WasteInv, WasteShape, StepsAreTheirs
  <2> QED BY <2>1, <2>2, RunShape DEF WasteInv, Waste!Patio, Waste!User, Waste!ghosts
<1>1. Tried("patio") = {"humedo", "seco"} /\ Tried("patioSend") = {"humedo", "seco"}
  BY DEF Tried
<1>2. CASE Waste!Goto(r, "patioSend") /\ Waste!Wants(r, "patio") /\ UNCHANGED at
  BY <1>0, <1>1, <1>2, PassKeeps
<1>3. CASE Waste!Advance(r)
  <2>1. /\ at' \in [Runs -> Nat \ {0}] /\ at'[r] = at[r] + 1 /\ \A p \in Runs : p # r => at'[p] = at[p]
    BY <1>0, <1>3 DEF WasteShape, Waste!Advance
  <2>2. PICK s \in {"ok", "humedo"} : /\ Waste!Goto(r, s)
                                      /\ s = IF at[r] = Len(read[r]) THEN "ok" ELSE "humedo"
    BY <1>3 DEF Waste!Advance
  <2>3. /\ StepsAreTheirs' /\ HeldIsThere' /\ ChoiceIsKept'
        /\ wastePc'[r] = s /\ \A p \in Runs : p # r => wastePc'[p] = wastePc[p] /\ RunInv(p)'
    BY <1>0, <2>1, <2>2, OneRunMoves
  <2>4. RunInv(r)'
    BY <1>0, <1>1, <2>1, <2>2, <2>3, GoesOn
  <2>5. WasteShape'
    BY <1>0, <2>1, <2>3 DEF WasteShape
  <2>6. RowIsDue' /\ Waste!RowsFollowMessages'
    <3>1. ASSUME NEW p \in Runs, wastePc'[p] \in RowSteps PROVE p # r
      BY <2>3, <3>1 DEF RowSteps
    <3>2. RowIsDue'
      BY <1>0, <2>1, <2>3, <3>1 DEF WasteInv, RowIsDue
    <3> QED BY <1>0, <2>3, <3>2 DEF WasteInv, Waste!RowsFollowMessages
  <2> QED BY <2>3, <2>4, <2>5, <2>6 DEF WasteInv
<1> QED BY <1>2, <1>3 DEF Waste!Patio

LEMMA RegistrarKeeps ==
  ASSUME WasteInv, NEW r \in Waste!Requests, Waste!Registrar(r)
  PROVE  WasteInv'
<1>0. /\ wastePc[r] \in RowSteps /\ r \in Runs /\ Sending(r) /\ WasteShape
      /\ Waste!User(r) \in WithPhone /\ Waste!User(r) = read[r][at[r]].contact
      /\ UNCHANGED <<day, prefs, wasteHeld, read, sent, choice, start, wasteMixed>>
  <2>1. wastePc[r] \in RowSteps /\ Sending(r)
    BY DEF Waste!Registrar, Sending, RowSteps
  <2>2. r \in Runs
    BY <2>1 DEF WasteInv, WasteShape, StepsAreTheirs
  <2> QED BY <2>1, <2>2, RunShape DEF WasteInv, Waste!Registrar, Waste!User, Waste!ghosts, RowSteps
<1>1. seccion' \in [Citizens -> Nat]
  BY <1>0 DEF WasteShape, Waste!Registrar
<1>2. Tried("humedoRow") = Tried("seco") /\ Tried("secoRow") = Tried("patio")
      /\ Tried("patioRow") = Waste!Tipos /\ {"humedo", "seco"} \subseteq Waste!Tipos
  BY DEF Tried, Waste!Tipos
<1>3. PICK s \in {"seco", "patio", "ok", "humedo"} :
        /\ Waste!Goto(r, s)
        /\ \/ wastePc[r] = "humedoRow" /\ s = "seco" /\ UNCHANGED at
           \/ wastePc[r] = "secoRow" /\ s = "patio" /\ UNCHANGED at
           \/ /\ wastePc[r] = "patioRow" /\ at' = [at EXCEPT ![r] = at[r] + 1]
              /\ s = IF at[r] = Len(read[r]) THEN "ok" ELSE "humedo"
  BY <1>0 DEF Waste!Registrar, Waste!Advance, RowSteps
<1>4. at' \in [Runs -> Nat \ {0}] /\ \A p \in Runs : p # r => at'[p] = at[p]
  <2>1. at \in [Runs -> Nat \ {0}] /\ at[r] + 1 \in Nat \ {0}
    BY <1>0 DEF WasteShape
  <2>2. at' = at \/ at' = [at EXCEPT ![r] = at[r] + 1]
    BY <1>3
  <2> QED BY <1>0, <2>1, <2>2
<1>5. /\ StepsAreTheirs' /\ HeldIsThere' /\ ChoiceIsKept'
      /\ wastePc'[r] = s /\ \A p \in Runs : p # r => wastePc'[p] = wastePc[p] /\ RunInv(p)'
  BY <1>0, <1>3, <1>4, OneRunMoves
<1>6. RunInv(r)'
  <2>1. CASE s \in {"seco", "patio"} /\ UNCHANGED at /\ Tried(wastePc[r]) = Tried(s)
    BY <1>0, <1>5, <2>1, PassesOn
  <2>2. CASE wastePc[r] = "patioRow"
    <3>1. at'[r] = at[r] + 1 /\ wastePc'[r] = IF at[r] = Len(read[r]) THEN "ok" ELSE "humedo"
      BY <1>0, <1>3, <1>5, <2>2 DEF WasteShape
    <3> QED BY <1>0, <1>2, <2>2, <3>1, GoesOn
  <2> QED BY <1>2, <1>3, <2>1, <2>2
<1>7. /\ RowIsDue' /\ Waste!RowsFollowMessages'
      /\ avisos' \in Seq([contact : Citizens, of : Runs \X Nat])
  <2>1. avisos' = Append(avisos, [contact |-> read[r][at[r]].contact, of |-> <<r, Len(sent[r])>>])
    BY <1>0 DEF Waste!Registrar
  <2>2. wastePc'[r] \notin RowSteps
    BY <1>5 DEF RowSteps
  <2> QED BY <1>0, <1>4, <1>5, <2>1, <2>2, RowWritten
<1>8. WasteShape'
  BY <1>0, <1>1, <1>4, <1>5, <1>7 DEF WasteShape
<1> QED BY <1>5, <1>6, <1>7, <1>8 DEF WasteInv

LEMMA WasteInductive == Waste!Spec => []WasteInv
<1>1. Waste!Init => WasteInv
  <2> SUFFICES ASSUME Waste!Init PROVE WasteInv
    OBVIOUS
  <2>1. /\ day = FirstDay /\ prefs = << >> /\ seccion = [u \in Citizens |-> 0] /\ avisos = << >>
        /\ wastePc = [q \in Waste!Requests |-> "new"]
        /\ wasteHeld = [q \in Updates |-> [id |-> 0, flags |-> [t \in Waste!Tipos |-> FALSE]]]
        /\ read = [r \in Runs |-> << >>] /\ at = [r \in Runs |-> 1] /\ sent = [r \in Runs |-> << >>]
        /\ wasteMixed = {} /\ choice = [u \in Citizens |-> [t \in Waste!Tipos |-> FALSE]]
        /\ start = [r \in Runs |-> [day |-> FirstDay, choice |-> choice, seccion |-> seccion, given |-> {}]]
    BY DEF Waste!Init
  <2>2. StepsAreTheirs
    BY <2>1 DEF StepsAreTheirs, Sending, RowSteps, Waste!Steps, Waste!Final
  <2>3. [t \in Waste!Tipos |-> FALSE] \in Flags /\ choice \in [Citizens -> Flags]
    BY <2>1 DEF Flags
  <2>4. wasteHeld \in [Updates -> [id : Nat, flags : Flags]]
    BY <2>1, <2>3
  <2>5. start \in [Runs -> Start]
    <3>1. seccion \in [Citizens -> Nat]
      BY <2>1
    <3> QED BY <2>1, <2>3, <3>1, WasteConstants DEF Start
  <2>6. WasteShape
    <3>1. /\ << >> \in Seq(Preference) /\ << >> \in Seq(WithPhone \X Waste!Tipos)
          /\ << >> \in Seq([contact : Citizens, of : Runs \X Nat])
      OBVIOUS
    <3>2. /\ prefs \in Seq(Preference) /\ avisos \in Seq([contact : Citizens, of : Runs \X Nat])
          /\ read \in [Runs -> Seq(Preference)] /\ sent \in [Runs -> Seq(WithPhone \X Waste!Tipos)]
      BY <2>1, <3>1
    <3>3. day \in FirstDay..LastDay /\ seccion \in [Citizens -> Nat] /\ at \in [Runs -> Nat \ {0}]
      BY <2>1, WasteConstants
    <3> QED BY <2>1, <2>2, <2>3, <2>4, <2>5, <3>2, <3>3 DEF WasteShape
  <2>7. HeldIsThere
    BY <2>1 DEF HeldIsThere
  <2>8. ChoiceIsKept
    <3>1. \A q \in Updates : wastePc[q] # "save"
      BY <2>1 DEF Waste!Requests
    <3>2. \A u \in Citizens : choice[u] = [t \in Waste!Tipos |-> FALSE]
      BY <2>1
    <3>3. prefs = << >>
      BY <2>1
    <3>4. OneRowEach(prefs, choice)
      BY <3>3 DEF OneRowEach
    <3>5. \A u \in Citizens \ wasteMixed : Waste!RowsOf(u) = {} => choice[u] = [t \in Waste!Tipos |-> FALSE]
      BY <3>2
    <3> QED BY <3>1, <3>4, <3>5 DEF ChoiceIsKept
  <2>9. ASSUME NEW r \in Runs PROVE RunInv(r) /\ wastePc[r] \notin RowSteps
    <3>1. wastePc[r] = "new" /\ sent[r] = << >> /\ at[r] = 1 /\ read[r] = << >>
      BY <2>1 DEF Waste!Requests
    <3> QED BY <3>1 DEF RunInv, Place, DueIsSent, SentIsWanted, SentOnce, OneRowEach, Sending, RowSteps
  <2>10. RowIsDue /\ Waste!RowsFollowMessages
    BY <2>1, <2>9 DEF RowIsDue, Waste!RowsFollowMessages
  <2> QED BY <2>6, <2>7, <2>8, <2>9, <2>10 DEF WasteInv
<1>2. WasteInv /\ [Waste!Next]_(Waste!vars) => WasteInv'
  <2> SUFFICES ASSUME WasteInv, [Waste!Next]_(Waste!vars) PROVE WasteInv'
    OBVIOUS
  <2>1. ASSUME NEW q \in Waste!Requests, Waste!ActualizarPreferencias(q) PROVE WasteInv'
    BY <2>1, FindKeeps, SavePrefsKeeps DEF Waste!ActualizarPreferencias
  <2>2. ASSUME NEW q \in Waste!Requests, Waste!ActualizarSeccion(q) PROVE WasteInv'
    BY <2>2, SectionKeeps DEF Waste!ActualizarSeccion
  <2>3. ASSUME NEW q \in Waste!Requests, Waste!ProcesarDiarias(q) PROVE WasteInv'
    BY <2>3, BeginKeeps, SkipKeeps, KindsKeep, PatioKeeps, RegistrarKeeps DEF Waste!ProcesarDiarias
  <2>4. CASE (\E q \in Waste!Requests : Waste!Fail(q)) \/ Waste!Crash \/ Waste!NextDay
    BY <2>4, StopsKeep
  <2>5. CASE UNCHANGED Waste!vars
    <3>1. /\ UNCHANGED <<day, prefs, seccion, avisos, wastePc, wasteHeld, read, at, sent, choice, start, wasteMixed>>
      BY <2>5 DEF Waste!vars, Waste!ghosts
    <3>2. wastePc \in [Waste!Requests -> Waste!Steps] /\ day \in FirstDay..LastDay
      BY DEF WasteInv, WasteShape, StepsAreTheirs
    <3> QED BY <3>1, <3>2, EndsKeep
  <2> QED BY <2>1, <2>2, <2>3, <2>4, <2>5 DEF Waste!Next, Waste!Serve
<1> QED BY <1>1, <1>2, PTL DEF Waste!Spec

----------------------------------------------------------------------------
(* Waste: garden waste *)

\* A reminder, a section that was given and a message that was tried stay; a run passes a row
\* it has told of garden waste.
LEMMA GardenKept ==
  ASSUME NEW r \in Runs, SectionStands(r), at[r] \in Nat,
         \A k \in DOMAIN read[r] : k < at[r] => GardenTold(r, read[r][k]),
         UNCHANGED <<start[r], read[r]>>,
         \A u : Waste!Reminded(u) => Waste!Reminded(u)',
         Waste!SectionsGiven \subseteq Waste!SectionsGiven',
         \A u \in Citizens : seccion'[u] = seccion[u] \/ Waste!Reminded(u)' \/ NewSection(r, u)',
         \A i \in DOMAIN sent[r] : \E j \in DOMAIN sent'[r] : sent'[r][j] = sent[r][i],
         DOMAIN read[r] \subseteq Nat,
         at'[r] = at[r] \/ (at'[r] = at[r] + 1 /\ \A p : p = read[r][at[r]] => GardenTold(r, p)')
  PROVE  SectionStands(r)' /\ (\A k \in DOMAIN read[r] : k < at[r] => GardenTold(r, read[r][k]))'
<1>1. \A u : NewSection(r, u) => NewSection(r, u)'
  BY DEF NewSection
<1>2. SectionStands(r)'
  BY <1>1 DEF SectionStands
<1>3. ASSUME NEW k \in DOMAIN read[r], k < at'[r]
      PROVE  GardenTold(r, read[r][k])'
  <2>1. CASE k < at[r]
    <3> SUFFICES ASSUME Waste!GardenIsDue(r, read[r][k])', ~Waste!Reminded(read[r][k].contact)'
                 PROVE  \E i \in DOMAIN sent'[r] : sent'[r][i] = <<read[r][k].contact, "patio">>
      BY DEF GardenTold
    <3>1. Waste!GardenIsDue(r, read[r][k]) /\ ~Waste!Reminded(read[r][k].contact)
      BY DEF Waste!GardenIsDue
    <3>2. GardenTold(r, read[r][k])
      BY <2>1
    <3> QED BY <3>1, <3>2 DEF GardenTold
  <2>2. CASE k = at[r] /\ at'[r] = at[r] + 1
    <3>1. PICK p : p = read[r][k]
      OBVIOUS
    <3>2. GardenTold(r, p)'
      BY <2>2, <3>1
    <3> QED BY <3>1, <3>2 DEF GardenTold
  <2> QED BY <1>3, <2>1, <2>2
<1> QED BY <1>2, <1>3

\* What is answered stays answered.
LEMMA AnsweredStays ==
  ASSUME WasteInv, [Waste!Next]_(Waste!vars)
  PROVE  Waste!SectionsGiven \subseteq Waste!SectionsGiven'
<1>0. wastePc \in [Waste!Requests -> Waste!Steps]
  BY DEF WasteInv, WasteShape, StepsAreTheirs
<1>1. ASSUME NEW q \in Waste!Requests, NEW s, wastePc[q] # "ok", Waste!Goto(q, s)
      PROVE  \A p \in Waste!Requests : wastePc[p] = "ok" => wastePc'[p] = "ok"
  BY <1>0, <1>1 DEF Waste!Goto
<1>2. \A p \in Waste!Requests : wastePc[p] = "ok" => wastePc'[p] = "ok"
  <2>1. ASSUME NEW q \in Waste!Requests, Waste!ActualizarPreferencias(q) \/ Waste!ActualizarSeccion(q)
        PROVE  wastePc[q] # "ok" /\ \E s : Waste!Goto(q, s)
    BY <2>1 DEF Waste!ActualizarPreferencias, Waste!ActualizarSeccion, Waste!Find, Waste!Save,
                Waste!FindContact, Waste!Insert
  <2>2. ASSUME NEW q \in Waste!Requests, Waste!ProcesarDiarias(q)
        PROVE  wastePc[q] # "ok" /\ \E s : Waste!Goto(q, s)
    BY <2>2 DEF Waste!ProcesarDiarias, Waste!Begin, Waste!Skip, Waste!Humedo, Waste!Seco, Waste!Patio,
                Waste!PatioSend, Waste!Registrar, Waste!Send, Waste!Advance
  <2>3. ASSUME NEW q \in Waste!Requests, Waste!Fail(q)
        PROVE  wastePc[q] # "ok" /\ \E s : Waste!Goto(q, s)
    BY <2>3 DEF Waste!Fail
  <2>4. CASE Waste!Crash
    BY <2>4 DEF Waste!Crash, Waste!Final
  <2>5. CASE Waste!NextDay \/ UNCHANGED Waste!vars
    BY <2>5 DEF Waste!NextDay, Waste!vars
  <2> QED BY <1>1, <2>1, <2>2, <2>3, <2>4, <2>5 DEF Waste!Next, Waste!Serve
<1> QED BY <1>2 DEF Waste!SectionsGiven, Waste!Requests

\* Steps that leave the sections, the reminders and the places of the runs as they are.
LEMMA GardenAlone ==
  ASSUME WasteInv, GardenInv, Waste!SectionsGiven \subseteq Waste!SectionsGiven',
         UNCHANGED <<seccion, avisos, read, at, start>>,
         \A r \in Runs : \A i \in DOMAIN sent[r] : \E j \in DOMAIN sent'[r] : sent'[r][j] = sent[r][i]
  PROVE  GardenInv'
<1> SUFFICES ASSUME NEW r \in Runs
             PROVE  (SectionStands(r) /\ \A k \in DOMAIN read[r] : k < at[r] => GardenTold(r, read[r][k]))'
  BY DEF GardenInv
<1>1. at[r] \in Nat /\ read[r] \in Seq(Preference)
  BY DEF WasteInv, WasteShape
<1>2. DOMAIN read[r] \subseteq Nat
  BY <1>1
<1>3. \A u : Waste!Reminded(u) => Waste!Reminded(u)'
  BY DEF Waste!Reminded
<1> QED BY <1>1, <1>2, <1>3, GardenKept DEF GardenInv

\* A run tries a message: those it tried before stay.
LEMMA TriedStay ==
  ASSUME WasteInv, NEW r \in Runs, NEW m, sent' = [sent EXCEPT ![r] = Append(sent[r], m)]
  PROVE  \A p \in Runs : \A i \in DOMAIN sent[p] : \E j \in DOMAIN sent'[p] : sent'[p][j] = sent[p][i]
<1>1. sent \in [Runs -> Seq(WithPhone \X Waste!Tipos)]
  BY DEF WasteInv, WasteShape
<1>2. sent[r] \in Seq(WithPhone \X Waste!Tipos) /\ sent'[r] = Append(sent[r], m)
  BY <1>1
<1>3. DOMAIN sent[r] \subseteq DOMAIN sent'[r] /\ \A i \in DOMAIN sent[r] : sent'[r][i] = sent[r][i]
  BY <1>2
<1> QED BY <1>1, <1>3

\* A request for a section: its new row is the newest of its contact.
LEMMA GardenBySection ==
  ASSUME WasteInv, WasteInv', GardenInv, Waste!SectionsGiven \subseteq Waste!SectionsGiven',
         NEW q \in Waste!Requests, Waste!Insert(q)
  PROVE  GardenInv'
<1>1. /\ q \in Sections /\ q \in Waste!SectionsGiven' /\ q \notin Waste!SectionsGiven
  <2>1. wastePc[q] = "insert" /\ wastePc \in [Waste!Requests -> Waste!Steps] /\ q \in Sections
    BY DEF Waste!Insert, WasteInv, WasteShape, StepsAreTheirs
  <2>2. wastePc'[q] = "ok"
    BY <2>1 DEF Waste!Insert, Waste!Goto
  <2> QED BY <2>1, <2>2 DEF Waste!SectionsGiven
<1> SUFFICES ASSUME NEW r \in Runs
             PROVE  (SectionStands(r) /\ \A k \in DOMAIN read[r] : k < at[r] => GardenTold(r, read[r][k]))'
  BY DEF GardenInv
<1>2. at[r] \in Nat /\ read[r] \in Seq(Preference) /\ seccion \in [Citizens -> Nat]
  BY DEF WasteInv, WasteShape
<1>3. DOMAIN read[r] \subseteq Nat
  BY <1>2
<1>4. /\ UNCHANGED <<read, at, start, sent, avisos>>
      /\ \A u \in Citizens : u # CitizenOf[q] => seccion'[u] = seccion[u]
  BY <1>2 DEF Waste!Insert
<1>5. \A u : Waste!Reminded(u) => Waste!Reminded(u)'
  BY <1>4 DEF Waste!Reminded
<1>6. \A u \in Citizens : seccion'[u] = seccion[u] \/ NewSection(r, u)'
  <2>1. start'[r].given \subseteq Waste!SectionsGiven
    BY <1>4 DEF GardenInv, SectionStands
  <2> QED BY <1>1, <1>4, <2>1 DEF NewSection
<1> QED BY <1>2, <1>3, <1>4, <1>5, <1>6, GardenKept DEF GardenInv

\* A run begins with the sections as they are, and has passed no row.
LEMMA GardenBegins ==
  ASSUME WasteInv, WasteInv', GardenInv, Waste!SectionsGiven \subseteq Waste!SectionsGiven',
         NEW q \in Waste!Requests, Waste!Begin(q)
  PROVE  GardenInv'
<1>1. /\ q \in Runs /\ UNCHANGED <<seccion, avisos, sent, at>> /\ at[q] = 1
      /\ start' = [start EXCEPT ![q] = [day |-> day, choice |-> choice, seccion |-> seccion,
                                        given |-> Waste!SectionsGiven]]
      /\ \A p \in Runs : p # q => read'[p] = read[p]
  BY DEF Waste!Begin, WasteInv, WasteShape, RunInv, Place
<1>2. \A u : Waste!Reminded(u) => Waste!Reminded(u)'
  BY <1>1 DEF Waste!Reminded
<1>3. /\ start'[q].seccion = seccion /\ start'[q].given = Waste!SectionsGiven
      /\ \A p \in Runs : p # q => start'[p] = start[p]
  BY <1>1 DEF WasteInv, WasteShape
<1> SUFFICES ASSUME NEW r \in Runs
             PROVE  (SectionStands(r) /\ \A k \in DOMAIN read[r] : k < at[r] => GardenTold(r, read[r][k]))'
  BY DEF GardenInv
<1>4. CASE r = q
  <2>1. SectionStands(q)'
    BY <1>1, <1>3 DEF SectionStands
  <2>2. \A k \in DOMAIN read'[q] : ~(k < at'[q])
    <3>1. read'[q] \in Seq(Preference)
      BY <1>1 DEF WasteInv, WasteShape
    <3> QED BY <1>1, <3>1
  <2> QED BY <1>4, <2>1, <2>2
<1>5. CASE r # q
  <2>1. at[r] \in Nat /\ read[r] \in Seq(Preference)
    BY DEF WasteInv, WasteShape
  <2>2. DOMAIN read[r] \subseteq Nat
    BY <2>1
  <2>3. UNCHANGED <<start[r], read[r]>>
    BY <1>1, <1>3, <1>5
  <2> QED BY <1>1, <1>2, <2>1, <2>2, <2>3, GardenKept DEF GardenInv
<1> QED BY <1>4, <1>5

\* A run passes a row without garden waste, or to which it has told it, or for whose contact
\* a reminder is recorded.
LEMMA GardenPasses ==
  ASSUME WasteInv, GardenInv, Waste!SectionsGiven \subseteq Waste!SectionsGiven',
         NEW q \in Runs, UNCHANGED <<read, start, sent>>,
         at' = at \/ (at' = [at EXCEPT ![q] = at[q] + 1]
                     /\ \A p : p = read[q][at[q]] => GardenTold(q, p)'),
         \A u : Waste!Reminded(u) => Waste!Reminded(u)',
         \A u \in Citizens : seccion'[u] = seccion[u] \/ Waste!Reminded(u)'
  PROVE  GardenInv'
<1> SUFFICES ASSUME NEW r \in Runs
             PROVE  (SectionStands(r) /\ \A k \in DOMAIN read[r] : k < at[r] => GardenTold(r, read[r][k]))'
  BY DEF GardenInv
<1>1. at \in [Runs -> Nat \ {0}] /\ read[r] \in Seq(Preference)
  BY DEF WasteInv, WasteShape
<1>2. DOMAIN read[r] \subseteq Nat /\ at[r] \in Nat
  BY <1>1
<1>3. at'[r] = at[r] \/ (at'[r] = at[r] + 1 /\ \A p : p = read[r][at[r]] => GardenTold(r, p)')
  BY <1>1
<1> QED BY <1>2, <1>3, GardenKept DEF GardenInv

\* The steps of a run that pass a row: what was due of it was told, or its contact reminded.
LEMMA GardenByRun ==
  ASSUME WasteInv, GardenInv, Waste!SectionsGiven \subseteq Waste!SectionsGiven',
         NEW q \in Waste!Requests, Waste!Skip(q) \/ Waste!Patio(q) \/ Waste!Registrar(q)
  PROVE  GardenInv'
<1>0. q \in Runs /\ Sending(q) /\ UNCHANGED <<read, start, sent>>
  <2>1. Sending(q) /\ UNCHANGED <<read, start, sent>>
    BY DEF Waste!Skip, Waste!Patio, Waste!Registrar, Waste!ghosts, Sending, RowSteps
  <2> QED BY <2>1 DEF WasteInv, WasteShape, StepsAreTheirs
<1>1. PICK row \in Preference : row = read[q][at[q]] /\ Waste!User(q) = row.contact
  BY <1>0, RunShape DEF Waste!User
<1>2. CASE Waste!Skip(q)
  <2>1. /\ UNCHANGED <<seccion, avisos>> /\ row.contact \notin WithPhone
        /\ at' = [at EXCEPT ![q] = at[q] + 1]
    BY <1>1, <1>2 DEF Waste!Skip, Waste!Advance
  <2>2. GardenTold(q, row)'
    BY <2>1 DEF GardenTold, Waste!GardenIsDue
  <2>3. \A u : Waste!Reminded(u) => Waste!Reminded(u)'
    BY <2>1 DEF Waste!Reminded
  <2> QED BY <1>0, <1>1, <2>1, <2>2, <2>3, GardenPasses
<1>3. CASE Waste!Patio(q)
  <2>1. UNCHANGED <<seccion, avisos>>
    BY <1>3 DEF Waste!Patio
  <2>2. \A u : Waste!Reminded(u) => Waste!Reminded(u)'
    BY <2>1 DEF Waste!Reminded
  <2>3. CASE ~(Waste!Wants(q, "patio") /\ Waste!EsResiduo(day, "patio", seccion[Waste!User(q)]))
    <3>1. at' = [at EXCEPT ![q] = at[q] + 1]
      BY <1>3, <2>3 DEF Waste!Patio, Waste!Advance
    <3>2. SectionStands(q) /\ row.contact \in Citizens /\ start[q].day = day
      BY <1>0, RunShape DEF GardenInv, Preference
    <3>3. GardenTold(q, row)'
      <4> SUFFICES ASSUME Waste!GardenIsDue(q, row)' PROVE Waste!Reminded(row.contact)'
        BY DEF GardenTold
      <4>1. /\ row.flags["patio"]
            /\ Waste!EsResiduo(start[q].day, "patio", start[q].seccion[row.contact])
            /\ \A p \in Waste!SectionsGiven \ start[q].given : CitizenOf[p] # row.contact
        BY <1>0 DEF Waste!GardenIsDue
      <4>2. seccion[row.contact] # start[q].seccion[row.contact]
        BY <1>1, <2>3, <3>2, <4>1 DEF Waste!Wants
      <4>3. Waste!Reminded(row.contact)
        BY <3>2, <4>1, <4>2 DEF SectionStands, NewSection
      <4> QED BY <2>2, <4>3
    <3> QED BY <1>0, <1>1, <2>1, <2>2, <3>1, <3>3, GardenPasses
  <2>4. CASE UNCHANGED at
    BY <1>0, <2>1, <2>2, <2>4, GardenPasses
  <2> QED BY <1>3, <2>3, <2>4 DEF Waste!Patio
<1>4. CASE Waste!Registrar(q)
  <2>1. PICK a \in [contact : Citizens, of : Runs \X Nat] : a.contact = row.contact /\ avisos' = Append(avisos, a)
    <3>1. avisos' = Append(avisos, [contact |-> row.contact, of |-> <<q, Len(sent[q])>>])
      BY <1>1, <1>4 DEF Waste!Registrar
    <3>2. row.contact \in Citizens /\ Len(sent[q]) \in Nat
      BY <1>0, RunShape DEF Preference
    <3> QED BY <1>0, <3>1, <3>2
  <2>2. avisos \in Seq([contact : Citizens, of : Runs \X Nat]) /\ seccion \in [Citizens -> Nat]
    BY DEF WasteInv, WasteShape
  <2>3. /\ DOMAIN avisos \subseteq DOMAIN avisos' /\ \A i \in DOMAIN avisos : avisos'[i] = avisos[i]
        /\ Len(avisos) + 1 \in DOMAIN avisos' /\ avisos'[Len(avisos) + 1] = a
    BY <2>1, <2>2
  <2>4. (\A u : Waste!Reminded(u) => Waste!Reminded(u)') /\ Waste!Reminded(row.contact)'
    BY <2>1, <2>3 DEF Waste!Reminded
  <2>5. \A u \in Citizens : seccion'[u] = seccion[u] \/ Waste!Reminded(u)'
    BY <1>1, <1>4, <2>2, <2>4 DEF Waste!Registrar
  <2>6. GardenTold(q, row)'
    BY <2>4 DEF GardenTold
  <2>7. at' = at \/ at' = [at EXCEPT ![q] = at[q] + 1]
    BY <1>4 DEF Waste!Registrar, Waste!Advance
  <2> QED BY <1>0, <1>1, <2>4, <2>5, <2>6, <2>7, GardenPasses
<1> QED BY <1>2, <1>3, <1>4

LEMMA GardenInductive == Waste!Spec => []GardenInv
<1>1. Waste!Init => GardenInv
  <2> SUFFICES ASSUME Waste!Init, NEW r \in Runs
               PROVE  SectionStands(r) /\ \A k \in DOMAIN read[r] : k < at[r] => GardenTold(r, read[r][k])
    BY DEF GardenInv
  <2>1. read[r] = << >> /\ start[r].seccion = seccion /\ start[r].given = {}
    BY DEF Waste!Init
  <2> QED BY <2>1 DEF SectionStands
<1>2. WasteInv /\ WasteInv' /\ GardenInv /\ [Waste!Next]_(Waste!vars) => GardenInv'
  <2> SUFFICES ASSUME WasteInv, WasteInv', GardenInv, [Waste!Next]_(Waste!vars) PROVE GardenInv'
    OBVIOUS
  <2>0. Waste!SectionsGiven \subseteq Waste!SectionsGiven'
    BY AnsweredStays
  <2>1. CASE UNCHANGED <<seccion, avisos, read, at, start, sent>>
    BY <2>0, <2>1, GardenAlone
  <2>2. ASSUME NEW q \in Waste!Requests, Waste!ActualizarPreferencias(q) PROVE GardenInv'
    BY <2>1, <2>2 DEF Waste!ActualizarPreferencias, Waste!Find, Waste!Save
  <2>3. ASSUME NEW q \in Waste!Requests, Waste!ActualizarSeccion(q) PROVE GardenInv'
    <3>1. CASE Waste!FindContact(q)
      BY <2>1, <3>1 DEF Waste!FindContact, Waste!ghosts
    <3> QED BY <2>0, <2>3, <3>1, GardenBySection DEF Waste!ActualizarSeccion
  <2>4. ASSUME NEW q \in Waste!Requests, Waste!ProcesarDiarias(q) PROVE GardenInv'
    <3>1. CASE Waste!Humedo(q) \/ Waste!Seco(q) \/ Waste!PatioSend(q)
      <4>1. /\ q \in Runs /\ UNCHANGED <<seccion, avisos, read, at, start>>
            /\ UNCHANGED sent \/ \E m : sent' = [sent EXCEPT ![q] = Append(sent[q], m)]
        <5>1. Sending(q)
          BY <3>1 DEF Waste!Humedo, Waste!Seco, Waste!PatioSend, Sending
        <5>2. q \in Runs
          BY <5>1 DEF WasteInv, WasteShape, StepsAreTheirs
        <5> QED BY <3>1, <5>2 DEF Waste!Humedo, Waste!Seco, Waste!PatioSend, Waste!Send, Waste!ghosts
      <4> QED BY <2>0, <2>1, <4>1, TriedStay, GardenAlone
    <3>2. CASE Waste!Skip(q) \/ Waste!Patio(q) \/ Waste!Registrar(q)
      BY <2>0, <3>2, GardenByRun
    <3> QED BY <2>0, <2>4, <3>1, <3>2, GardenBegins DEF Waste!ProcesarDiarias
  <2>5. CASE (\E q \in Waste!Requests : Waste!Fail(q)) \/ Waste!Crash \/ Waste!NextDay \/ UNCHANGED Waste!vars
    BY <2>1, <2>5 DEF Waste!Fail, Waste!Crash, Waste!NextDay, Waste!vars, Waste!ghosts
  <2> QED BY <2>2, <2>3, <2>4, <2>5 DEF Waste!Next, Waste!Serve
<1> QED BY <1>1, <1>2, WasteInductive, PTL DEF Waste!Spec

----------------------------------------------------------------------------
(* Theorems *)

\* A behaviour of the instances is one of each component, which steps or stutters.
LEMMA RegisterIsAPart == CitizensSpec => Spec
<1>1. CitizensInit => Init
  BY DEF CitizensInit
<1>2. [CitizensNext]_<<active, vars, complaintVars, surveyVars, wasteVars, handoffVars>> => [Next]_vars
  BY DEF CitizensNext, RegisterStep, ComplaintStep, SurveyStep, WasteStep, HandoffStep
<1> QED BY <1>1, <1>2, PTL DEF CitizensSpec, Spec

LEMMA HandoffIsAPart == CitizensSpec => Handoffs!Spec
<1>1. CitizensInit => Handoffs!Init
  BY DEF CitizensInit
<1>2. [CitizensNext]_<<active, vars, complaintVars, surveyVars, wasteVars, handoffVars>>
        => [Handoffs!Next]_(Handoffs!vars)
  BY DEF CitizensNext, RegisterStep, ComplaintStep, SurveyStep, WasteStep, HandoffStep,
         handoffVars, Handoffs!vars
<1> QED BY <1>1, <1>2, PTL DEF CitizensSpec, Handoffs!Spec

LEMMA SurveyIsAPart == CitizensSpec => Survey!Spec
<1>1. CitizensInit => Survey!Init
  BY DEF CitizensInit
<1>2. [CitizensNext]_<<active, vars, complaintVars, surveyVars, wasteVars, handoffVars>>
        => [Survey!Next]_(Survey!vars)
  <2>1. SurveyStep => Survey!Next
    BY DEF SurveyStep, Survey!Next
  <2>2. UNCHANGED surveyVars => UNCHANGED Survey!vars
    BY DEF surveyVars, Survey!vars, Survey!ghosts
  <2> QED BY <2>1, <2>2 DEF CitizensNext, RegisterStep, ComplaintStep, WasteStep, HandoffStep
<1> QED BY <1>1, <1>2, PTL DEF CitizensSpec, Survey!Spec

LEMMA ComplaintsAreAPart == CitizensSpec => Complaints!Spec
<1>1. CitizensInit => Complaints!Init
  BY DEF CitizensInit
<1>2. [CitizensNext]_<<active, vars, complaintVars, surveyVars, wasteVars, handoffVars>>
        => [Complaints!Next]_(Complaints!vars)
  BY DEF CitizensNext, RegisterStep, ComplaintStep, SurveyStep, WasteStep, HandoffStep,
         complaintVars, Complaints!vars
<1> QED BY <1>1, <1>2, PTL DEF CitizensSpec, Complaints!Spec

LEMMA WasteIsAPart == CitizensSpec => Waste!Spec
<1>1. CitizensInit => Waste!Init
  BY DEF CitizensInit
<1>2. [CitizensNext]_<<active, vars, complaintVars, surveyVars, wasteVars, handoffVars>>
        => [Waste!Next]_(Waste!vars)
  <2>1. UNCHANGED wasteVars => UNCHANGED Waste!vars
    BY DEF wasteVars, Waste!vars, Waste!ghosts
  <2>2. WasteStep => Waste!Next
    BY DEF WasteStep, Waste!Next
  <2> QED BY <2>1, <2>2 DEF CitizensNext, RegisterStep, ComplaintStep, SurveyStep, HandoffStep
<1> QED BY <1>1, <1>2, PTL DEF CitizensSpec, Waste!Spec

\* What an import answered with success added is found until a replacement clears it.
THEOREM PromisedIsFoundHolds == Spec => [](TypeOK /\ PromisedIsFound)
<1>1. RegisterInv => TypeOK /\ PromisedIsFound
  BY RegisterFollows
<1> QED BY <1>1, RegisterInductive, PTL

\* Lists are in the register whole or not at all.
THEOREM ListsAreWholeHolds == Spec => []ListsAreWhole
<1>1. RegisterInv => ListsAreWhole
  BY RegisterFollows
<1> QED BY <1>1, RegisterInductive, PTL

(* Gaps are the doing of a replacement that emptied the register, and two  *)
(* registers at once are the doing of two that overlapped.                 *)
THEOREM OnlyReplacementsHarm == Spec => [](GapOnlyByReplacement /\ TwoRegistersOnlyByOverlap)
<1>1. RegisterInv => GapOnlyByReplacement /\ TwoRegistersOnlyByOverlap
  BY RegisterFollows
<1> QED BY <1>1, RegisterInductive, PTL

\* For any officials and contacts, with failures and stops: no entry of a history without what
\* it tells, no message told of and not delivered, and the mode of a conversation is the one its
\* history tells, unless handoffs of it overlapped or an entry was lost.
THEOREM HistoryIsTrueHolds ==
  (Handoffs!Spec => []HistoryIsTrue) /\ (CitizensSpec => []HistoryIsTrue)
<1>1. Handoffs!Spec => []HistoryIsTrue
  BY HandoffInductive, HistoryFollows, PTL
<1> QED BY <1>1, HandoffIsAPart, PTL

\* For any complaints, edits and values: the history explains the row when requests follow one
\* another and nothing fails, nobody is told of what was never stored, and no one twice of the
\* same estado without a change between.
THEOREM ComplaintsAreExplainedHolds ==
  (Complaints!Spec => []ComplaintsAreExplained) /\ (CitizensSpec => []ComplaintsAreExplained)
<1>1. Complaints!Spec => []ComplaintsAreExplained
  BY ComplaintInductive, ComplaintsFollow, PTL
<1> QED BY <1>1, ComplaintsAreAPart, PTL

\* For any requests and DNIs: what a validation answers, from the cache or not, was so at most
\* two hours before.
THEOREM AnswersAreRecentHolds ==
  (Survey!Spec => []AnswersAreRecent) /\ (CitizensSpec => []AnswersAreRecent)
<1>1. Survey!Spec => []AnswersAreRecent
  BY SurveyInductive, SurveyFollows, PTL
<1> QED BY <1>1, SurveyIsAPart, PTL

\* Nobody has two answers, and an answer stays as its citizen and the officials left it until it
\* is deleted, unless two edits of it overlap.
THEOREM AnswersAreKeptHolds ==
  (Survey!Spec => []AnswersAreKept) /\ (CitizensSpec => []AnswersAreKept)
<1>1. Survey!Spec => []AnswersAreKept
  BY SurveyInductive, SurveyFollows, PTL
<1> QED BY <1>1, SurveyIsAPart, PTL

\* For any contacts, preferences, requests, failures and stops: a run of the daily sending tries
\* what is due to the choice of each contact, once and nothing else, but for the garden waste of
\* those whom a reminder was ever recorded for, and leaves one row of each message.
THEOREM WasteIsAnnouncedHolds ==
  (Waste!Spec => []WasteIsAnnounced) /\ (CitizensSpec => []WasteIsAnnounced)
<1>1. Waste!Spec => []WasteIsAnnounced
  BY WasteInductive, GardenInductive, WasteFollows, PTL
<1> QED BY <1>1, WasteIsAPart, PTL

\* A report during which nothing changed adds up, every report lists the most voted options with
\* the votes its answers give them, and it has each of their comments.
THEOREM ReportIsTrueHolds ==
  (Survey!Spec => []ReportIsTrue) /\ (CitizensSpec => []ReportIsTrue)
<1>1. Survey!Spec => []ReportIsTrue
  BY ReportInductive, ReportFollows, PTL
<1> QED BY <1>1, SurveyIsAPart, PTL
=============================================================================
