------------------------- MODULE OfficialsProofs -------------------------
(***************************************************************************)
(* Six of the components officials keep, for any officials, names, keys,  *)
(* pharmacies, visitors, requests and readers.  The catalogue of kinds     *)
(* of complaint refuses the names it has and keeps its deleted rows deleted *)
(* (TiposReclamo).  A setting of the bot has one row with what was last    *)
(* said of it (BotConfig).  The log explains the duties, and an answered   *)
(* visit shows what was answered before it began, on a page that is whole  *)
(* (Farmacias).  The codes that were printed go on working (QrTracking).   *)
(* The summaries and timelines of the central log say what was logged      *)
(* (OpsEvents).  A walk through the pages of a list misses no row that was *)
(* there when it began, and counts what there is (Listados).               *)
(***************************************************************************)
EXTENDS MCOfficials, TLAPS, FiniteSetTheorems, SequenceTheorems

\* The requests under way, and the rows a renaming found.
Requesting(o) == req[o].step \in {"row", "name", "save"}
Asked == [step : {"row", "name", "save"}, id : Nat, name : Names]
ReqOK ==
  /\ last \in Nat
  /\ gone \subseteq 1..last
  /\ req = [o \in Officials |-> req[o]]
  /\ \A o \in Officials : At(o, "idle") \/ Requesting(o)
  /\ \A o \in Officials : Requesting(o) => req[o] \in Asked
  /\ \A o \in Officials :
       req[o].step \in {"name", "save"} /\ req[o].id # NoId =>
         req[o].id \in 1..last /\ req[o].id \notin gone

\* The name of a request about to save is free, unless another one saved it since it looked.
NameIsFree ==
  \A o \in Officials \ raced : At(o, "save") => Holders(req[o].name) \ {req[o].id} = {}

KindsInv == TypeOK /\ ReqOK /\ NameIsFree /\ RefusedNamesAreTaken /\ DeletedStaysDeleted

LEMMA EmptyTable == DOMAIN << >> = {}
OBVIOUS

\* A request that goes on or ends, while the sequence may only advance.
Moves(o) ==
  /\ \/ req' = [req EXCEPT ![o] = Idle]
     \/ /\ \E step \in {"name", "save"} : req' = [req EXCEPT ![o].step = step]
        /\ Requesting(o)
        /\ req[o].id # NoId => req[o].id \in 1..last /\ req[o].id \notin gone
  /\ UNCHANGED gone
  /\ last' \in Nat /\ last <= last'

LEMMA MovesReq ==
  ASSUME ReqOK, NEW o \in Officials, Moves(o)
  PROVE  ReqOK'
<1>1. gone' \subseteq 1..last' /\ last' \in Nat
  BY DEF ReqOK, Moves
<1>2. \A q \in Officials : q # o => req'[q] = req[q]
  BY DEF ReqOK, Moves
<1>3. req' = [q \in Officials |-> req'[q]]
  BY DEF ReqOK, Moves
<1>4. CASE req'[o] = Idle
  BY <1>1, <1>2, <1>3, <1>4 DEF ReqOK, Moves, Requesting, At, Idle
<1>5. CASE \E step \in {"name", "save"} :
             /\ req' = [req EXCEPT ![o].step = step] /\ Requesting(o)
             /\ req[o].id # NoId => req[o].id \in 1..last /\ req[o].id \notin gone
  <2>0. req[o] \in Asked
    BY <1>5 DEF ReqOK
  <2>1. req'[o].step \in {"name", "save"} /\ req'[o].id = req[o].id
    BY <1>5, <2>0 DEF ReqOK, Asked
  <2>2. req'[o] \in Asked
    BY <1>5, <2>0 DEF ReqOK, Asked
  <2>3. req'[o].id # NoId => req'[o].id \in 1..last' /\ req'[o].id \notin gone'
    BY <1>5, <2>1 DEF Moves, ReqOK
  <2>4. \A q \in Officials : At(q, "idle")' \/ Requesting(q)'
    BY <1>2, <2>1 DEF ReqOK, Requesting, At
  <2>5. \A q \in Officials : Requesting(q)' => req'[q] \in Asked
    BY <1>2, <2>1, <2>2 DEF ReqOK, Requesting
  <2>6. \A q \in Officials :
          req'[q].step \in {"name", "save"} /\ req'[q].id # NoId =>
            req'[q].id \in 1..last' /\ req'[q].id \notin gone'
    BY <1>2, <2>1, <2>3 DEF ReqOK, Moves
  <2> QED BY <1>1, <1>3, <2>4, <2>5, <2>6 DEF ReqOK
<1>6. req' = [req EXCEPT ![o] = Idle] => req'[o] = Idle
  BY DEF ReqOK
<1> QED BY <1>4, <1>5, <1>6 DEF Moves

\* What a save that the index accepts does to the table.
LEMMA SavedTable ==
  ASSUME KindsInv, NEW o \in Officials, At(o, "save")
  PROVE  LET id == SavedAs(req[o].id) IN
         /\ id \in 1..(last + 1) /\ id \notin gone
         /\ req[o].id # NoId => id = req[o].id /\ id \in 1..last
         /\ req[o].id = NoId => id = last + 1
<1>1. req[o].step \in {"name", "save"} /\ last \in Nat /\ gone \subseteq 1..last
  BY DEF KindsInv, ReqOK, At
<1>2. CASE req[o].id = NoId
  BY <1>1, <1>2 DEF SavedAs
<1>3. CASE req[o].id # NoId
  <2>1. req[o].id \in 1..last /\ req[o].id \notin gone
    BY <1>1, <1>3 DEF KindsInv, ReqOK
  <2> QED BY <1>1, <1>3, <2>1 DEF SavedAs
<1> QED BY <1>2, <1>3

LEMMA KindsInit == Init => KindsInv
BY EmptyTable DEF Init, KindsInv, TypeOK, ReqOK, NameIsFree, RefusedNamesAreTaken,
                  DeletedStaysDeleted, Ids, At, Requesting, Idle

LEMMA KindsNext == KindsInv /\ [Next]_vars => KindsInv'
<1> SUFFICES ASSUME KindsInv, [Next]_vars PROVE KindsInv'
  OBVIOUS
<1>0. TypeOK /\ ReqOK /\ NameIsFree /\ RefusedNamesAreTaken /\ DeletedStaysDeleted
  BY DEF KindsInv
<1>1. ASSUME NEW o \in Officials, NEW id \in 0..MaxIds, NEW n \in Names, Ask(o, id, n)
      PROVE  KindsInv'
  <2>1. UNCHANGED <<nombre, last, gone, raced>>
    BY <1>1 DEF Ask
  <2>2. TypeOK' /\ DeletedStaysDeleted'
    BY <1>0, <2>1 DEF TypeOK, DeletedStaysDeleted, Ids
  <2>3. RefusedNamesAreTaken'
    BY <1>0, <1>1 DEF Ask, RefusedNamesAreTaken
  <2>4. /\ req' = [q \in Officials |-> req'[q]]
        /\ \A q \in Officials : q # o => req'[q] = req[q]
        /\ req'[o] = [step |-> IF id = NoId THEN "name" ELSE "row", id |-> id, name |-> n]
    BY <1>0, <1>1 DEF Ask, ReqOK
  <2>5. /\ req'[o].step \in {"row", "name"} /\ req'[o] \in Asked
        /\ req'[o].step = "name" => req'[o].id = NoId
    BY <2>4 DEF Asked, NoId
  <2>6. ReqOK'
    <3>1. \A q \in Officials : At(q, "idle")' \/ Requesting(q)'
      BY <1>0, <2>4, <2>5 DEF ReqOK, Requesting, At
    <3>2. \A q \in Officials : Requesting(q)' => req'[q] \in Asked
      BY <1>0, <2>4, <2>5 DEF ReqOK, Requesting
    <3>3. \A q \in Officials :
            req'[q].step \in {"name", "save"} /\ req'[q].id # NoId =>
              req'[q].id \in 1..last /\ req'[q].id \notin gone
      BY <1>0, <2>4, <2>5 DEF ReqOK
    <3> QED BY <1>0, <2>1, <2>4, <3>1, <3>2, <3>3 DEF ReqOK
  <2>7. NameIsFree'
    BY <1>0, <2>1, <2>4, <2>5 DEF NameIsFree, At, Holders, Ids
  <2> QED BY <2>2, <2>3, <2>6, <2>7 DEF KindsInv
<1>2. ASSUME NEW o \in Officials, FindRow(o) PROVE KindsInv'
  <2>1. UNCHANGED <<nombre, last, gone, refused, raced>>
    BY <1>2 DEF FindRow
  <2>2. TypeOK' /\ DeletedStaysDeleted' /\ RefusedNamesAreTaken'
    BY <1>0, <2>1 DEF TypeOK, DeletedStaysDeleted, RefusedNamesAreTaken, Ids
  <2>3. Moves(o)
    <3>1. req[o].id \in Ids => req[o].id \in 1..last /\ req[o].id \notin gone
      BY <1>0 DEF TypeOK, DeletedStaysDeleted
    <3> QED BY <1>0, <1>2, <2>1, <3>1 DEF FindRow, Moves, Goto, End, ReqOK, Requesting, At
  <2>4. NameIsFree'
    <3>1. \A q \in Officials : q # o => req'[q] = req[q]
      BY <1>0, <2>3 DEF Moves, ReqOK
    <3>2. ~At(o, "save")'
      BY <1>0, <1>2 DEF FindRow, At, End, Goto, Idle, ReqOK, Requesting, Asked
    <3> QED BY <1>0, <2>1, <3>1, <3>2 DEF NameIsFree, At, Holders, Ids
  <2> QED BY <1>0, <2>2, <2>3, <2>4, MovesReq DEF KindsInv
<1>3. ASSUME NEW o \in Officials, FindName(o) PROVE KindsInv'
  <2>1. UNCHANGED <<nombre, last, gone>> /\ raced' = raced \ {o}
    BY <1>3 DEF FindName
  <2>2. TypeOK' /\ DeletedStaysDeleted'
    BY <1>0, <2>1 DEF TypeOK, DeletedStaysDeleted, Ids
  <2>3. RefusedNamesAreTaken'
    <3>1. \/ UNCHANGED refused
          \/ /\ Holders(req[o].name) \ {req[o].id} # {}
             /\ refused' = refused \cup {[by |-> o, id |-> req[o].id, status |-> 409,
                                          held |-> Holders(req[o].name), raced |-> o \in raced]}
      BY <1>3 DEF FindName, Collision, Refuse
    <3> QED BY <1>0, <3>1 DEF RefusedNamesAreTaken
  <2>4. Moves(o)
    <3>1. req[o].step = "name" /\ (End(o) \/ Goto(o, "save"))
      BY <1>3 DEF FindName, At
    <3> QED BY <1>0, <2>1, <3>1 DEF Moves, Goto, End, ReqOK, Requesting
  <2>5. NameIsFree'
    <3>1. \A q \in Officials : q # o => req'[q] = req[q]
      BY <1>0, <2>4 DEF Moves, ReqOK
    <3>2. At(o, "save")' => Holders(req[o].name) \ {req[o].id} = {}
      BY <1>0, <1>3 DEF FindName, At, End, Goto, Idle, ReqOK, Requesting, Asked, Collision
    <3>3. At(o, "save")' => req'[o].name = req[o].name /\ req'[o].id = req[o].id
      BY <1>0, <1>3 DEF FindName, At, End, Goto, Idle, ReqOK, Requesting, Asked
    <3>4. \A q \in Officials \ raced' : At(q, "save")' =>
             Holders(req'[q].name) \ {req'[q].id} = {}
      BY <1>0, <2>1, <3>1, <3>2, <3>3 DEF NameIsFree, At
    <3> QED BY <2>1, <3>4 DEF NameIsFree, Holders, Ids, At
  <2> QED BY <1>0, <2>2, <2>3, <2>4, <2>5, MovesReq DEF KindsInv
<1>4. ASSUME NEW o \in Officials, Save(o) PROVE KindsInv'
  <2> DEFINE id == SavedAs(req[o].id)
             n == req[o].name
  <2>1. /\ At(o, "save") /\ End(o) /\ UNCHANGED gone
        /\ last' = IF req[o].id = NoId THEN id ELSE last
        /\ \/ Holders(n) \ {id} # {} /\ Refuse(o, 500) /\ UNCHANGED <<nombre, raced>>
           \/ /\ Holders(n) \ {id} = {} /\ nombre' = With(id, n) /\ UNCHANGED refused
              /\ raced' = raced \cup {q \in Officials : At(q, "save") /\ req[q].name = n}
    BY <1>4 DEF Save
  <2>2. /\ id \in 1..(last + 1) /\ id \notin gone /\ n \in Names /\ last \in Nat
        /\ last' \in Nat /\ last <= last' /\ id \in 1..last'
    <3>1. n \in Names /\ last \in Nat
      BY <1>0, <2>1 DEF ReqOK, Requesting, At, Asked
    <3>2. last' = last \/ last' = last + 1
      BY <2>1, SavedTable
    <3>3. id \in 1..last'
      BY <2>1, SavedTable
    <3> QED BY <2>1, <3>1, <3>2, <3>3, SavedTable
  <2>3. Moves(o)
    BY <2>1, <2>2 DEF Moves, End
  <2>4. /\ req'[o] = Idle
        /\ \A q \in Officials : q # o => req'[q] = req[q]
    BY <1>0, <2>1 DEF End, ReqOK
  <2>5. CASE Holders(n) \ {id} # {} /\ Refuse(o, 500) /\ UNCHANGED <<nombre, raced>>
    <3>1. TypeOK' /\ DeletedStaysDeleted'
      BY <1>0, <2>1, <2>2, <2>5 DEF TypeOK, DeletedStaysDeleted, Ids
    <3>2. Holders(n) \ {req[o].id} # {}
      <4>1. CASE req[o].id = NoId
        <5>1. 0 \notin Ids
          BY <1>0, <2>2 DEF TypeOK
        <5>2. 0 \notin Holders(n)
          BY <5>1 DEF Holders
        <5>3. Holders(n) # {}
          BY <2>5
        <5> HIDE DEF n
        <5> QED BY <4>1, <5>2, <5>3 DEF NoId
      <4>2. CASE req[o].id # NoId
        BY <2>5, <4>2 DEF SavedAs
      <4> QED BY <4>1, <4>2
    <3>3. o \in raced
      BY <1>0, <2>1, <3>2 DEF NameIsFree
    <3>4. RefusedNamesAreTaken'
      <4>1. PICK x : x = [by |-> o, id |-> req[o].id, status |-> 500,
                          held |-> Holders(req[o].name), raced |-> o \in raced]
        OBVIOUS
      <4>2. x.held = Holders(n) /\ x.id = req[o].id /\ x.raced
        BY <3>3, <4>1
      <4>3. refused' = refused \cup {x}
        BY <2>5, <4>1 DEF Refuse
      <4> QED BY <1>0, <3>2, <4>2, <4>3 DEF RefusedNamesAreTaken
    <3>5. NameIsFree'
      BY <1>0, <2>4, <2>5 DEF NameIsFree, At, Idle, Holders, Ids
    <3> QED BY <1>0, <2>3, <3>1, <3>4, <3>5, MovesReq DEF KindsInv
  <2>6. CASE /\ Holders(n) \ {id} = {} /\ nombre' = With(id, n) /\ UNCHANGED refused
             /\ raced' = raced \cup {q \in Officials : At(q, "save") /\ req[q].name = n}
    <3> HIDE DEF id, n
    <3>1. /\ DOMAIN nombre' = Ids \cup {id} /\ nombre'[id] = n
          /\ \A i \in Ids : i # id => nombre'[i] = nombre[i]
      BY <2>6 DEF With
    <3>2. TypeOK'
      BY <1>0, <2>2, <3>1 DEF TypeOK, Ids
    <3>3. DeletedStaysDeleted'
      BY <1>0, <2>1, <2>2, <3>1 DEF DeletedStaysDeleted, Ids
    <3>4. RefusedNamesAreTaken'
      BY <1>0, <2>6 DEF RefusedNamesAreTaken
    <3>5. NameIsFree'
      <4> SUFFICES ASSUME NEW q \in Officials \ raced', At(q, "save")'
                   PROVE  (Holders(req[q].name))' \ {req'[q].id} = {}
        BY DEF NameIsFree
      <4>1. q # o /\ req'[q] = req[q] /\ At(q, "save")
        BY <2>4 DEF At, Idle
      <4>2. q \notin raced /\ req[q].name # n
        BY <2>6, <4>1
      <4>3. Holders(req[q].name) \ {req[q].id} = {}
        BY <1>0, <4>1, <4>2 DEF NameIsFree
      <4>4. (Holders(req[q].name))' \subseteq Holders(req[q].name)
        BY <3>1, <4>1, <4>2 DEF Holders, Ids
      <4> QED BY <4>1, <4>3, <4>4
    <3> QED BY <1>0, <2>3, <3>2, <3>3, <3>4, <3>5, MovesReq DEF KindsInv
  <2> QED BY <2>1, <2>5, <2>6
<1>5. ASSUME NEW id \in 1..MaxIds, Delete(id) PROVE KindsInv'
  <2>1. /\ id \in Ids /\ UNCHANGED <<req, last, refused, raced>>
        /\ DOMAIN nombre' = Ids \ {id}
        /\ \A i \in Ids \ {id} : nombre'[i] = nombre[i]
    BY <1>5 DEF Delete
  <2>2. /\ gone \subseteq gone' /\ gone' \subseteq gone \cup {id}
        /\ \A o \in Officials : Requesting(o) /\ req[o].id = id => gone' = gone
    BY <1>5 DEF Delete, Requesting, At
  <2>3. TypeOK'
    BY <1>0, <2>1 DEF TypeOK, Ids
  <2>4. NameIsFree'
    BY <1>0, <2>1 DEF NameIsFree, At, Holders, Ids
  <2>5. DeletedStaysDeleted'
    BY <1>0, <2>1, <2>2 DEF DeletedStaysDeleted, Ids
  <2>6. RefusedNamesAreTaken'
    BY <1>0, <2>1 DEF RefusedNamesAreTaken
  <2>7. ReqOK'
    <3>1. gone' \subseteq 1..last
      BY <1>0, <2>1, <2>2 DEF ReqOK, TypeOK
    <3>2. \A o \in Officials :
            req[o].step \in {"name", "save"} /\ req[o].id # NoId =>
              req[o].id \in 1..last /\ req[o].id \notin gone'
      BY <1>0, <2>2 DEF ReqOK, Requesting
    <3> QED BY <1>0, <2>1, <3>1, <3>2 DEF ReqOK, Requesting, At
  <2> QED BY <2>3, <2>4, <2>5, <2>6, <2>7 DEF KindsInv
<1>6. CASE UNCHANGED vars
  BY <1>0, <1>6 DEF vars, KindsInv, TypeOK, ReqOK, NameIsFree, RefusedNamesAreTaken,
                    DeletedStaysDeleted, Ids, At, Requesting, Holders
<1> QED BY <1>1, <1>2, <1>3, <1>4, <1>5, <1>6 DEF Next

LEMMA KindsInductive == Spec => []KindsInv
BY KindsInit, KindsNext, PTL DEF Spec

\* A name is refused only when another kind has it, with a 500 only to those that raced for it,
\* and a deleted kind comes back only through a renaming that was under way.
THEOREM KindsAreAnsweredHolds == Spec => []KindsAreAnswered
<1>1. KindsInv => KindsAreAnswered
  BY DEF KindsInv, KindsAreAnswered
<1> QED BY <1>1, KindsInductive, PTL

----------------------------------------------------------------------------
(* BotConfig: the settings of the bot. *)

Rows == [id : Nat, clave : Claves, valor : Values, expira : Dates \cup {Config!Null}]
Bodies == [step : {"find", "save"}, method : {"POST", "PUT"}, clave : Claves, valor : Values,
           expira : Dates \cup {Config!Unset, Config!Null}, row : Rows \cup {0}]

\* The rows are numbered as they were made, whoever wrote them last.
Numbered ==
  /\ IsFiniteSet(config) /\ config \subseteq Rows
  /\ \A x \in config : x.id \in 1..Cardinality(config)
  /\ \A x, y \in config : x.id = y.id => x = y
\* A request at work has a body; that of an update found a row that is still there, by its id.
\* Two requests of one key at a time are known.
Bodied ==
  /\ DOMAIN configReq = Officials /\ DOMAIN said = Claves
  /\ \A o \in Officials : configReq[o].step # "idle" => configReq[o] \in Bodies
  /\ \A o \in Officials : Config!At(o, "save") /\ configReq[o].method = "PUT" =>
       /\ configReq[o].row \in Rows /\ configReq[o].row.clave = configReq[o].clave
       /\ \E x \in config : x.id = configReq[o].row.id /\ x.clave = configReq[o].clave
  /\ \A o, p \in Officials :
       /\ o # p /\ configReq[o].step # "idle" /\ configReq[p].step # "idle"
       /\ configReq[o].clave = configReq[p].clave
       => configReq[o].clave \in together
\* What was found is so until it is saved, of a key whose requests take turns.
FoundIsSo ==
  \A o \in Officials : Config!At(o, "save") /\ configReq[o].clave \notin together =>
    IF configReq[o].method = "POST" THEN \A x \in config : x.clave # configReq[o].clave
    ELSE configReq[o].row \in config
\* One row of such a key, with the last value and expiration.
OneTrueRow ==
  \A k \in Claves \ together :
    /\ \A x, y \in config : x.clave = k /\ y.clave = k => x = y
    /\ \A x \in config : x.clave = k => x.valor = said[k].valor /\ x.expira = said[k].expira

ConfigInv == Numbered /\ Bodied /\ FoundIsSo /\ OneTrueRow

LEMMA ConfigInit == Config!Init => ConfigInv
<1> SUFFICES ASSUME Config!Init PROVE ConfigInv
  OBVIOUS
<1>1. IsFiniteSet({})
  BY FS_EmptySet
<1> QED BY <1>1 DEF Config!Init, Config!Idle, Config!At, ConfigInv, Numbered, Bodied, FoundIsSo,
                    OneTrueRow

LEMMA ConfigAsk ==
  ASSUME ConfigInv, NEW o \in Officials, NEW method \in {"POST", "PUT"}, NEW k \in Claves,
         NEW v \in Values, NEW e \in Dates \cup {Config!Unset, Config!Null},
         Config!Ask(o, method, k, v, e)
  PROVE  ConfigInv'
<1> DEFINE body == [step |-> "find", method |-> method, clave |-> k, valor |-> v,
                    expira |-> e, row |-> 0]
<1>1. /\ configReq[o].step = "idle" /\ UNCHANGED <<config, said>>
      /\ configReq' = [configReq EXCEPT ![o] = body]
      /\ together' = IF \E p \in Officials : configReq[p].step # "idle" /\ configReq[p].clave = k
                     THEN together \cup {k} ELSE together
  BY DEF Config!Ask, Config!At
<1>2. body \in Bodies
  BY DEF Bodies
<1>3. /\ DOMAIN configReq' = Officials /\ configReq'[o] = body
      /\ \A p \in Officials : p # o => configReq'[p] = configReq[p]
  BY <1>1 DEF ConfigInv, Bodied
<1> HIDE DEF body
<1>4. body.step = "find" /\ body.clave = k
  BY DEF body
<1>5. Numbered'
  BY <1>1 DEF ConfigInv, Numbered
<1>6. Bodied'
  <2>1. \A p \in Officials : configReq'[p].step # "idle" => configReq'[p] \in Bodies
    BY <1>2, <1>3 DEF ConfigInv, Bodied
  <2>2. \A p \in Officials : configReq'[p].step = "save" /\ configReq'[p].method = "PUT" =>
          /\ configReq'[p].row \in Rows /\ configReq'[p].row.clave = configReq'[p].clave
          /\ \E x \in config' : x.id = configReq'[p].row.id /\ x.clave = configReq'[p].clave
    BY <1>1, <1>3, <1>4 DEF ConfigInv, Bodied, Config!At
  <2>3. \A p, q \in Officials :
          /\ p # q /\ configReq'[p].step # "idle" /\ configReq'[q].step # "idle"
          /\ configReq'[p].clave = configReq'[q].clave
          => configReq'[p].clave \in together'
    BY <1>1, <1>3, <1>4 DEF ConfigInv, Bodied
  <2> QED BY <1>1, <1>3, <2>1, <2>2, <2>3 DEF ConfigInv, Bodied, Config!At
<1>7. FoundIsSo'
  BY <1>1, <1>3, <1>4 DEF ConfigInv, FoundIsSo, Config!At
<1>8. OneTrueRow'
  BY <1>1 DEF ConfigInv, OneTrueRow
<1> QED BY <1>5, <1>6, <1>7, <1>8 DEF ConfigInv

LEMMA ConfigFind ==
  ASSUME ConfigInv, NEW o \in Officials, Config!Find(o)
  PROVE  ConfigInv'
<1> DEFINE r == configReq[o]
<1>1. /\ r.step = "find" /\ UNCHANGED <<config, said, together>> /\ r \in Bodies
      /\ DOMAIN configReq' = Officials
      /\ \A p \in Officials : p # o => configReq'[p] = configReq[p]
  BY DEF Config!Find, Config!At, ConfigInv, Bodied
<1>2. \/ configReq'[o] = Config!Idle
      \/ /\ configReq'[o] = [r EXCEPT !.step = "save"] /\ r.method = "POST"
         /\ \A x \in config : x.clave # r.clave
      \/ \E x \in config : /\ x.clave = r.clave /\ r.method # "POST"
                           /\ configReq'[o] = [r EXCEPT !.step = "save", !.row = x]
  BY DEF Config!Find, Config!At, ConfigInv, Bodied, Config!Refused, Config!RowsOf
<1>3. Config!Idle.step = "idle"
  BY DEF Config!Idle
<1>4. \/ configReq'[o].step = "idle"
      \/ /\ configReq'[o] \in Bodies /\ configReq'[o].step = "save"
         /\ configReq'[o].clave = r.clave
         /\ configReq'[o].method = "POST" => \A x \in config : x.clave # r.clave
         /\ configReq'[o].method # "POST" =>
              configReq'[o].row \in config /\ configReq'[o].row.clave = r.clave
  <2>1. CASE /\ configReq'[o] = [r EXCEPT !.step = "save"] /\ r.method = "POST"
             /\ \A x \in config : x.clave # r.clave
    BY <1>1, <2>1 DEF Bodies
  <2>2. ASSUME NEW x \in config, x.clave = r.clave, r.method # "POST",
               configReq'[o] = [r EXCEPT !.step = "save", !.row = x]
        PROVE  /\ configReq'[o] \in Bodies /\ configReq'[o].step = "save"
               /\ configReq'[o].clave = r.clave
               /\ configReq'[o].method # "POST" /\ configReq'[o].row = x
    <3>1. x \in Rows
      BY DEF ConfigInv, Numbered
    <3> QED BY <1>1, <2>2, <3>1 DEF Bodies
  <2> QED BY <1>2, <1>3, <2>1, <2>2
<1> HIDE DEF r
<1>5. r.step # "idle" /\ r = configReq[o]
  BY <1>1 DEF r
<1>6. Numbered' /\ OneTrueRow'
  BY <1>1 DEF ConfigInv, Numbered, OneTrueRow
<1>7. Bodied'
  <2>1. \A p \in Officials : configReq'[p].step # "idle" => configReq'[p] \in Bodies
    BY <1>1, <1>4 DEF ConfigInv, Bodied
  <2>2. \A p \in Officials : configReq'[p].step = "save" /\ configReq'[p].method = "PUT" =>
          /\ configReq'[p].row \in Rows /\ configReq'[p].row.clave = configReq'[p].clave
          /\ \E x \in config' : x.id = configReq'[p].row.id /\ x.clave = configReq'[p].clave
    <3>1. \A p \in Officials \ {o} :
            configReq[p].step = "save" /\ configReq[p].method = "PUT" =>
              /\ configReq[p].row \in Rows /\ configReq[p].row.clave = configReq[p].clave
              /\ \E x \in config : x.id = configReq[p].row.id /\ x.clave = configReq[p].clave
      BY DEF ConfigInv, Bodied, Config!At
    <3>2. configReq'[o].step = "save" /\ configReq'[o].method = "PUT" =>
            configReq'[o].row \in config /\ configReq'[o].row.clave = configReq'[o].clave
      BY <1>4
    <3>3. config \subseteq Rows
      BY DEF ConfigInv, Numbered
    <3> QED BY <1>1, <3>1, <3>2, <3>3
  <2>3. \A p, q \in Officials :
          /\ p # q /\ configReq'[p].step # "idle" /\ configReq'[q].step # "idle"
          /\ configReq'[p].clave = configReq'[q].clave
          => configReq'[p].clave \in together'
    BY <1>1, <1>4, <1>5 DEF ConfigInv, Bodied
  <2> QED BY <1>1, <2>1, <2>2, <2>3 DEF ConfigInv, Bodied, Config!At
<1>8. FoundIsSo'
  <2>1. \A p \in Officials \ {o} :
          configReq[p].step = "save" /\ configReq[p].clave \notin together =>
            IF configReq[p].method = "POST" THEN \A x \in config : x.clave # configReq[p].clave
            ELSE configReq[p].row \in config
    BY DEF ConfigInv, FoundIsSo, Config!At
  <2> QED BY <1>1, <1>4, <2>1 DEF FoundIsSo, Config!At
<1> QED BY <1>6, <1>7, <1>8 DEF ConfigInv

LEMMA ConfigCardinality == \A S : Config!Cardinality(S) = Cardinality(S)
BY DEF Config!Cardinality, Cardinality

\* The row that an update writes takes the place of the one with its id.
LEMMA ReplacedRow ==
  ASSUME Numbered, NEW x \in config, NEW z \in Rows, z.id = x.id
  PROVE  LET after == {y \in config : y.id # x.id} \cup {z} IN
         /\ IsFiniteSet(after) /\ after \subseteq Rows
         /\ Cardinality(after) = Cardinality(config)
         /\ \A y \in after : y.id \in 1..Cardinality(config)
         /\ \A y, w \in after : y.id = w.id => y = w
<1> DEFINE others == config \ {x}
<1>1. {y \in config : y.id # x.id} = others
  BY DEF Numbered
<1>2. IsFiniteSet(others) /\ Cardinality(others) = Cardinality(config) - 1
  BY FS_RemoveElement DEF Numbered
<1>3. z \notin others
  BY DEF Numbered
<1>4. IsFiniteSet(others \cup {z}) /\ Cardinality(others \cup {z}) = Cardinality(others) + 1
  BY <1>2, <1>3, FS_AddElement
<1>5. Cardinality(config) \in Nat
  BY FS_CardinalityType DEF Numbered
<1>6. Cardinality(others \cup {z}) = Cardinality(config)
  BY <1>2, <1>4, <1>5
<1>7. \A y \in others \cup {z} : y.id \in 1..Cardinality(config)
  BY DEF Numbered
<1>8. \A y, w \in others \cup {z} : y.id = w.id => y = w
  BY DEF Numbered
<1>9. others \cup {z} \subseteq Rows
  BY DEF Numbered
<1> QED BY <1>1, <1>4, <1>6, <1>7, <1>8, <1>9

\* A row that is added has a number of its own.
LEMMA AddedRow ==
  ASSUME Numbered, NEW z \in Rows, z.id = Cardinality(config) + 1
  PROVE  LET after == config \cup {z} IN
         /\ IsFiniteSet(after) /\ after \subseteq Rows
         /\ \A y \in after : y.id \in 1..Cardinality(after)
         /\ \A y, w \in after : y.id = w.id => y = w
<1>1. Cardinality(config) \in Nat /\ IsFiniteSet(config)
  BY FS_CardinalityType DEF Numbered
<1>2. z \notin config
  BY <1>1 DEF Numbered
<1>3. IsFiniteSet(config \cup {z}) /\ Cardinality(config \cup {z}) = Cardinality(config) + 1
  BY <1>1, <1>2, FS_AddElement
<1>4. \A y \in config : y.id \in 1..(Cardinality(config) + 1) /\ y.id # z.id
  BY <1>1 DEF Numbered
<1>5. \A y \in config \cup {z} : y.id \in 1..(Cardinality(config) + 1)
  BY <1>1, <1>4
<1>6. \A y, w \in config \cup {z} : y.id = w.id => y = w
  BY <1>4 DEF Numbered
<1> QED BY <1>3, <1>5, <1>6 DEF Numbered

\* A save writes one row: a new one, or that of a row of its key.
LEMMA ConfigSave ==
  ASSUME ConfigInv, NEW o \in Officials, Config!Save(o)
  PROVE  ConfigInv'
<1> DEFINE r == configReq[o]
           k == r.clave
<1>1. /\ r.step = "save" /\ r \in Bodies /\ UNCHANGED together
      /\ DOMAIN configReq' = Officials /\ configReq'[o] = Config!Idle
      /\ \A p \in Officials : p # o => configReq'[p] = configReq[p]
  BY DEF Config!Save, Config!At, ConfigInv, Bodied
<1>2. Config!Idle.step = "idle"
  BY DEF Config!Idle
<1>3. r.valor \in Values /\ r.expira \in Dates \cup {Config!Unset, Config!Null} /\ k \in Claves
  BY <1>1 DEF Bodies
<1>4. DOMAIN said' = Claves /\ \A j \in Claves : j # k => said'[j] = said[j]
  BY DEF Config!Save, ConfigInv, Bodied
\* The row that is written, and what it replaces.
<1>5. \E z \in Rows :
        /\ z.clave = k
        /\ k \notin together => z.valor = said'[k].valor /\ z.expira = said'[k].expira
        /\ \/ /\ config' = config \cup {z} /\ z.id = Cardinality(config) + 1
              /\ k \notin together => \A x \in config : x.clave # k
           \/ /\ config' = {x \in config : x.id # z.id} \cup {z}
              /\ \E x \in config : x.id = z.id /\ x.clave = k
  <2>1. CASE r.method = "POST"
    <3> DEFINE z == [id |-> Cardinality(config) + 1, clave |-> k, valor |-> r.valor,
                     expira |-> Config!parseFechaExpiracion(r.expira)]
    <3>1. Config!parseFechaExpiracion(r.expira) \in Dates \cup {Config!Null}
      BY <1>3 DEF Config!parseFechaExpiracion
    <3>2. Cardinality(config) + 1 \in Nat
      BY FS_CardinalityType DEF ConfigInv, Numbered
    <3>3. z \in Rows
      BY <1>3, <3>1, <3>2 DEF Rows
    <3>4. config' = config \cup {z}
      <4>1. config' = IF r.method = "POST" THEN config \cup {z}
                      ELSE {x \in config : x.id # r.row.id} \cup
                           {[r.row EXCEPT !.valor = r.valor,
                                          !.expira = Config!Expiration(r.expira, r.row.expira)]}
        BY ConfigCardinality, Zenon DEF Config!Save
      <4> QED BY <2>1, <4>1
    <3>5. /\ said'[k].valor = r.valor
          /\ said'[k].expira = IF r.expira = Config!Unset THEN Config!Null ELSE r.expira
      BY <1>3, <2>1 DEF Config!Save, ConfigInv, Bodied
    <3>6. k \notin together => \A x \in config : x.clave # k
      BY <1>1, <2>1 DEF ConfigInv, FoundIsSo, Config!At
    <3> QED BY <3>3, <3>4, <3>5, <3>6 DEF Config!parseFechaExpiracion
  <2>2. CASE r.method = "PUT"
    <3> DEFINE z == [r.row EXCEPT !.valor = r.valor,
                                  !.expira = Config!Expiration(r.expira, r.row.expira)]
    <3>1. r.row \in Rows /\ r.row.clave = k /\ \E x \in config : x.id = r.row.id /\ x.clave = k
      BY <1>1, <2>2 DEF ConfigInv, Bodied, Config!At
    <3>2. Config!Expiration(r.expira, r.row.expira) \in Dates \cup {Config!Null}
      BY <1>3, <3>1 DEF Config!Expiration, Config!parseFechaExpiracion, Rows
    <3>3. /\ z \in Rows /\ z.id = r.row.id /\ z.clave = k /\ z.valor = r.valor
          /\ z.expira = Config!Expiration(r.expira, r.row.expira)
      BY <1>3, <3>1, <3>2 DEF Rows
    <3>4. config' = {x \in config : x.id # r.row.id} \cup {z}
      BY <2>2 DEF Config!Save
    <3>5. k \notin together => r.row \in config
      BY <1>1, <2>2 DEF ConfigInv, FoundIsSo, Config!At
    <3>6. /\ said'[k].valor = r.valor
          /\ said'[k].expira = IF r.expira = Config!Unset THEN said[k].expira ELSE r.expira
      BY <1>3, <2>2 DEF Config!Save, ConfigInv, Bodied
    <3>7. k \notin together => r.row.expira = said[k].expira
      BY <1>3, <3>1, <3>5 DEF ConfigInv, OneTrueRow
    <3> HIDE DEF z
    <3>8. k \notin together => z.valor = said'[k].valor /\ z.expira = said'[k].expira
      BY <3>3, <3>6, <3>7 DEF Config!Expiration, Config!parseFechaExpiracion
    <3> QED BY <3>1, <3>3, <3>4, <3>5, <3>8
  <2> QED BY <1>1, <2>1, <2>2 DEF Bodies
<1>6. PICK z \in Rows :
        /\ z.clave = k
        /\ k \notin together => z.valor = said'[k].valor /\ z.expira = said'[k].expira
        /\ \/ /\ config' = config \cup {z} /\ z.id = Cardinality(config) + 1
              /\ k \notin together => \A x \in config : x.clave # k
           \/ /\ config' = {x \in config : x.id # z.id} \cup {z}
              /\ \E x \in config : x.id = z.id /\ x.clave = k
  BY <1>5
<1>7. Numbered'
  <2>1. CASE config' = config \cup {z} /\ z.id = Cardinality(config) + 1
    BY <2>1, AddedRow DEF ConfigInv, Numbered
  <2>2. ASSUME NEW x \in config, x.id = z.id, config' = {y \in config : y.id # z.id} \cup {z}
        PROVE  Numbered'
    <3>1. z.id = x.id /\ config' = {y \in config : y.id # x.id} \cup {z} /\ Numbered
      BY <2>2 DEF ConfigInv
    <3>2. /\ IsFiniteSet(config') /\ config' \subseteq Rows
          /\ Cardinality(config') = Cardinality(config)
          /\ \A y \in config' : y.id \in 1..Cardinality(config)
          /\ \A y, w \in config' : y.id = w.id => y = w
      BY <3>1, ReplacedRow
    <3> QED BY <3>2 DEF Numbered
  <2> QED BY <1>6, <2>1, <2>2
<1>8. \A x \in config' : x # z => x \in config
  BY <1>6
<1>9. \A x \in config : \E y \in config' : y.id = x.id /\ y.clave = x.clave
  BY <1>6 DEF ConfigInv, Numbered
<1>10. OneTrueRow'
  <2>1. ASSUME NEW j \in Claves \ together, j # k
        PROVE  /\ \A x, y \in config' : x.clave = j /\ y.clave = j => x = y
               /\ \A x \in config' : x.clave = j => x.valor = said'[j].valor
                                                    /\ x.expira = said'[j].expira
    <3>1. \A x \in config' : x.clave = j => x \in config
      BY <1>6, <1>8, <2>1
    <3> QED BY <1>4, <2>1, <3>1 DEF ConfigInv, OneTrueRow
  <2>2. ASSUME k \notin together
        PROVE  \A x \in config' : x.clave = k => x = z
    <3>1. \A x, y \in config : x.clave = k /\ y.clave = k => x = y
      BY <1>3, <2>2 DEF ConfigInv, OneTrueRow
    <3> QED BY <1>6, <2>2, <3>1
  <2> QED BY <1>1, <1>6, <2>1, <2>2 DEF OneTrueRow
<1>11. Bodied'
  <2>1. \A p \in Officials : configReq'[p].step # "idle" => configReq'[p] \in Bodies
    BY <1>1, <1>2 DEF ConfigInv, Bodied
  <2>2. \A p \in Officials : configReq'[p].step = "save" /\ configReq'[p].method = "PUT" =>
          /\ configReq'[p].row \in Rows /\ configReq'[p].row.clave = configReq'[p].clave
          /\ \E x \in config' : x.id = configReq'[p].row.id /\ x.clave = configReq'[p].clave
    BY <1>1, <1>2, <1>9 DEF ConfigInv, Bodied, Config!At
  <2>3. \A p, q \in Officials :
          /\ p # q /\ configReq'[p].step # "idle" /\ configReq'[q].step # "idle"
          /\ configReq'[p].clave = configReq'[q].clave
          => configReq'[p].clave \in together'
    BY <1>1, <1>2 DEF ConfigInv, Bodied
  <2> QED BY <1>1, <1>4, <2>1, <2>2, <2>3 DEF Bodied, Config!At
<1>12. FoundIsSo'
  <2> SUFFICES ASSUME NEW p \in Officials, configReq'[p].step = "save",
                      configReq'[p].clave \notin together
               PROVE  IF configReq'[p].method = "POST"
                      THEN \A x \in config' : x.clave # configReq'[p].clave
                      ELSE configReq'[p].row \in config'
    BY <1>1 DEF FoundIsSo, Config!At
  <2>1. p # o /\ configReq'[p] = configReq[p]
    BY <1>1, <1>2
  <2>2. configReq[p].clave # k
    BY <1>1, <2>1 DEF ConfigInv, Bodied
  <2>3. IF configReq[p].method = "POST" THEN \A x \in config : x.clave # configReq[p].clave
        ELSE configReq[p].row \in config
    BY <2>1 DEF ConfigInv, FoundIsSo, Config!At
  <2>4. configReq[p].method # "POST" => configReq[p].row.clave = configReq[p].clave
    BY <2>1 DEF ConfigInv, Bodied, Config!At, Bodies
  <2>5. ASSUME configReq[p].method # "POST" PROVE configReq[p].row \in config'
    <3>1. configReq[p].row \in config /\ configReq[p].row.clave # k
      BY <2>2, <2>3, <2>4, <2>5
    <3>2. configReq[p].row.id # z.id \/ config' = config \cup {z}
      BY <1>6, <3>1 DEF ConfigInv, Numbered
    <3> QED BY <1>6, <3>1, <3>2
  <2> QED BY <1>6, <1>8, <2>1, <2>2, <2>3, <2>5
<1> QED BY <1>7, <1>10, <1>11, <1>12 DEF ConfigInv

LEMMA ConfigNext == ConfigInv /\ [Config!Next]_(Config!vars) => ConfigInv'
<1> SUFFICES ASSUME ConfigInv, [Config!Next]_(Config!vars) PROVE ConfigInv'
  OBVIOUS
<1>1. CASE UNCHANGED Config!vars
  BY <1>1 DEF Config!vars, ConfigInv, Numbered, Bodied, FoundIsSo, OneTrueRow, Config!At
<1>2. CASE Config!Next
  BY <1>2, ConfigAsk, ConfigFind, ConfigSave DEF Config!Next
<1> QED BY <1>1, <1>2

LEMMA ConfigSaysSo == ConfigInv => ConfigIsWhatWasSaid
<1> SUFFICES ASSUME ConfigInv PROVE ConfigIsWhatWasSaid
  OBVIOUS
<1>1. Config!TypeOK
  BY DEF Config!TypeOK, ConfigInv, Numbered, Rows
<1>2. Config!RowIsWhatWasSaid
  BY DEF Config!RowIsWhatWasSaid, Config!RowsOf, ConfigInv, OneTrueRow
<1>3. Config!OneRowPerKey
  <2> SUFFICES ASSUME NEW k \in Claves \ together PROVE Cardinality(Config!RowsOf(k)) <= 1
    BY ConfigCardinality DEF Config!OneRowPerKey
  <2>1. \A x, y \in Config!RowsOf(k) : x = y
    BY DEF Config!RowsOf, ConfigInv, OneTrueRow
  <2>2. CASE Config!RowsOf(k) = {}
    BY <2>2, FS_EmptySet
  <2>3. ASSUME NEW x \in Config!RowsOf(k) PROVE Cardinality(Config!RowsOf(k)) <= 1
    <3>1. Config!RowsOf(k) = {x}
      BY <2>1
    <3>2. Cardinality({x}) = 1
      BY FS_Singleton
    <3> QED BY <3>1, <3>2
  <2> QED BY <2>2, <2>3
<1> QED BY <1>1, <1>2, <1>3 DEF ConfigIsWhatWasSaid

\* The settings are a component of the officials' work: no other step touches them.
LEMMA ConfigIsAPart == OfficialsSpec => Config!Spec
<1>1. OfficialsInit => Config!Init
  BY DEF OfficialsInit
<1>2. [OfficialsNext]_<<active, vars, configVars, qrVars, dutyVars, calendarVars, listVars,
                        rangeVars, logVars>>
        => [Config!Next]_(Config!vars)
  BY DEF OfficialsNext, KindStep, ConfigStep, QrStep, DutyStep, CalendarStep, ListStep, RangeStep,
         LogStep, configVars, Config!vars
<1> QED BY <1>1, <1>2, PTL DEF OfficialsSpec, Config!Spec

\* A setting has one row, with what was last said of it, as long as its requests take turns:
\* the look-up before each save is enough then, and only then.
THEOREM ConfigIsWhatWasSaidHolds ==
  (Config!Spec => []ConfigIsWhatWasSaid) /\ (OfficialsSpec => []ConfigIsWhatWasSaid)
<1>1. Config!Spec => []ConfigIsWhatWasSaid
  BY ConfigInit, ConfigNext, ConfigSaysSo, PTL DEF Config!Spec
<1> QED BY <1>1, ConfigIsAPart, PTL

----------------------------------------------------------------------------
(* Farmacias: the duties, their log and their page. *)

Rests == {"new", "ok", "304", "404", "500", "cut"}
Busy(q) == dutyPc[q] \in {"existing", "save", "log"}
Named == [code : Codes, name : Codes \cup Renames]
Shows == Named \cup {Duty!NoRow}
Parts == Duty!Preview \cup {"rows"}

\* Every duty a page shows has its pharmacy there, and no code is there twice.
Whole(page) ==
  /\ \A r \in Duty!Range(Duty!Shown(page.parts)) \ {Duty!NoRow} :
       \E f \in page.pharmacies : f.code = r.code
  /\ \A f, g \in page.pharmacies : f.code = g.code => f = g
\* Every step is of a request that takes it, and what a visit read is what rows say.
Ledger == Nat \X (Codes \cup {Duty!None}) \X Codes
DutyShape ==
  /\ duty = [d \in DOMAIN duty |-> duty[d]]
  /\ DOMAIN duty \subseteq Nat /\ \A d \in DOMAIN duty : duty[d] \in Codes
  /\ name \in [Codes -> Codes \cup Renames]
  /\ today \in From..LastDay /\ revision \in Nat /\ faults \in Nat /\ restarts \in Nat
  /\ log \in Seq(Ledger)
  /\ dutyPc \in [Duty!Requests -> Duty!Steps]
  /\ DOMAIN held = Duty!Requests
  /\ \A q \in Duty!Requests :
       /\ Busy(q) => q \in Duties /\ CodeOf[q] \in Codes
       /\ dutyPc[q] \in {"save", "log"} => held[q] \in Codes \cup {Duty!None}
       /\ dutyPc[q] = "rename" => q \in Renames /\ CodeOf[q] \in Codes
       /\ dutyPc[q] = "reading" => q \in Visits
VisitShape ==
  /\ DOMAIN begun = Visits /\ DOMAIN copy = Duty!Visitors
  /\ \A q \in Visits : dutyPc[q] = "reading" =>
       /\ held[q].from \in Nat /\ DOMAIN held[q] = {"from", "parts"}
       /\ DOMAIN held[q].parts \subseteq Parts
       /\ \A x \in Duty!Preview \cap DOMAIN held[q].parts : held[q].parts[x] \in Shows
       /\ "rows" \in DOMAIN held[q].parts => \A d \in DOMAIN held[q].parts.rows :
            held[q].parts.rows[d] \in Shows
  /\ \A v \in Duty!Visitors : copy[v] # << >> => Whole(copy[v].page)

\* Two changes of one date at a time are known.
TurnsAreKnown ==
  \A p, q \in Duties : p # q /\ Busy(p) /\ Busy(q) /\ DateOf[p] = DateOf[q] =>
    DateOf[p] \in mixed
\* What a change saved is in the row until it is answered.
SavedIsThere ==
  \A q \in Duties : dutyPc[q] = "log" =>
    /\ DateOf[q] \in DOMAIN duty
    /\ DateOf[q] \notin mixed => duty[DateOf[q]] = CodeOf[q]

\* The last entry of a date is that of code c, if it has any.
Entries(l, d) == {i \in DOMAIN l : l[i][1] = d}
LastIs(l, d, c) ==
  \A i \in Entries(l, d) : (\A k \in Entries(l, d) : k <= i) => l[i][3] = c
Chained(l, d) ==
  \A i, j \in Entries(l, d) :
    i < j /\ (\A k \in Entries(l, d) : k <= i \/ j <= k) => l[i][3] = l[j][2]
\* The log has all that was saved but for the entry about to be added, whose request holds what
\* it replaced.
LogFollows ==
  faults + restarts = 0 => \A d \in Nat \ mixed :
    /\ Chained(log, d)
    /\ d \notin DOMAIN duty => Entries(log, d) = {}
    /\ d \in DOMAIN duty /\ (\A q \in Duties : DateOf[q] = d => dutyPc[q] # "log") =>
         LastIs(log, d, duty[d])
    /\ \A q \in Duties : DateOf[q] = d /\ dutyPc[q] = "log" => LastIs(log, d, held[q])
    /\ \A q \in Duties : DateOf[q] = d /\ dutyPc[q] = "save" =>
         held[q] = IF d \in DOMAIN duty THEN duty[d] ELSE Duty!None

\* A row is as the last answered change left it, or a change wrote it that was not answered.
AnsweredIsThere ==
  /\ DOMAIN answered = {"duty", "name"} /\ answered.name = name
  /\ DOMAIN answered.duty \subseteq DOMAIN duty
  /\ \A d \in DOMAIN answered.duty \ mixed :
       \/ duty[d] = answered.duty[d]
       \/ \E p \in Duties : /\ DateOf[p] = d /\ CodeOf[p] = duty[d]
                            /\ dutyPc[p] \in {"log", "cut"}
\* Code c of date d, and name n of code c, are not older than the visit q.
DutySince(q, d, c) ==
  \/ c = begun[q].duty[d]
  \/ \E p \in Duties \ begun[q].done :
       DateOf[p] = d /\ CodeOf[p] = c /\ dutyPc[p] \in {"log", "ok", "cut"}
NameSince(q, c, n) ==
  n = begun[q].name[c] \/ \E p \in Renames \ begun[q].done :
    p = n /\ CodeOf[p] = c /\ dutyPc[p] = "ok"
\* Neither the rows nor what a visit read of them are older than the visit.
VisitsAreCurrent ==
  \A q \in Visits : dutyPc[q] = "reading" =>
    /\ \A p \in begun[q].done : p \in Duty!Requests /\ dutyPc[p] = "ok"
    /\ DOMAIN begun[q].duty \subseteq DOMAIN duty
    /\ \A d \in DOMAIN begun[q].duty \ mixed : DutySince(q, d, duty[d])
    /\ \A c \in Codes : NameSince(q, c, name[c])
    /\ "rows" \in DOMAIN held[q].parts =>
         \A d \in DOMAIN begun[q].duty \cap From..To :
           /\ d \in DOMAIN held[q].parts.rows
           /\ d \notin mixed => DutySince(q, d, held[q].parts.rows[d].code)
           /\ NameSince(q, held[q].parts.rows[d].code, held[q].parts.rows[d].name)

DutyInv == /\ DutyShape /\ VisitShape /\ TurnsAreKnown /\ SavedIsThere /\ LogFollows
           /\ AnsweredIsThere /\ VisitsAreCurrent

LEMMA DutyInit == Duty!Init => DutyInv
<1> SUFFICES ASSUME Duty!Init PROVE DutyInv
  OBVIOUS
<1>0. From \in Nat /\ From \in From..LastDay /\ Codes # {}
  BY FarmaciasHolds DEF Duty!FarmaciasAssumption
<1>1. /\ DOMAIN duty = {From, From + 1} /\ duty = [d \in DOMAIN duty |-> duty[d]]
      /\ \A d \in DOMAIN duty : duty[d] \in Codes
      /\ name \in [Codes -> Codes \cup Renames]
      /\ today = From /\ revision = 0 /\ log = << >> /\ faults = 0 /\ restarts = 0 /\ mixed = {}
      /\ dutyPc = [q \in Duty!Requests |-> "new"] /\ DOMAIN held = Duty!Requests
      /\ DOMAIN begun = Visits /\ copy = [v \in Duty!Visitors |-> << >>]
      /\ answered = [duty |-> duty, name |-> name]
  BY <1>0 DEF Duty!Init
<1>2. DOMAIN log = {}
  BY <1>1
<1>3. DutyShape
  BY <1>0, <1>1 DEF DutyShape, Busy, Duty!Steps, Duty!Final, Ledger
<1>4. VisitShape /\ TurnsAreKnown /\ SavedIsThere /\ VisitsAreCurrent
  BY <1>1 DEF VisitShape, TurnsAreKnown, SavedIsThere, VisitsAreCurrent, Busy, Duty!Requests
<1>5. LogFollows
  BY <1>1, <1>2 DEF LogFollows, Entries, Chained, LastIs, Duty!Requests
<1>6. AnsweredIsThere
  BY <1>1 DEF AnsweredIsThere
<1> QED BY <1>3, <1>4, <1>5, <1>6 DEF DutyInv

\* What may become of a request in a step; what two changed at once stays known.
Onward ==
  /\ mixed \subseteq mixed'
  /\ DOMAIN dutyPc' = Duty!Requests
  /\ \A p \in Duty!Requests :
       /\ dutyPc[p] \in {"ok", "cut"} => dutyPc'[p] = dutyPc[p]
       /\ dutyPc[p] = "log" => dutyPc'[p] \in {"log", "ok", "cut"}

LEMMA OnwardStep ==
  ASSUME DutyShape, [Duty!Next]_(Duty!vars)
  PROVE  Onward
<1>1. dutyPc \in [Duty!Requests -> Duty!Steps]
  BY DEF DutyShape
<1>2. ASSUME NEW q \in Duty!Requests, Duty!Serve(q) PROVE Onward
  <2>1. /\ dutyPc[q] \notin {"ok", "cut"} /\ mixed \subseteq mixed'
        /\ \/ UNCHANGED dutyPc
           \/ \E s \in Duty!Steps : /\ dutyPc' = [dutyPc EXCEPT ![q] = s]
                                    /\ dutyPc[q] = "log" => s = "ok"
    <3>1. CASE Duty!UpdateDutyByDate(q)
      BY <3>1 DEF Duty!UpdateDutyByDate, Duty!FindPharmacy, Duty!FindExisting, Duty!SaveDuty,
                  Duty!LogDuty, Duty!Goto, Duty!Mix, Duty!ghosts, Duty!Steps, Duty!Final
    <3>2. CASE Duty!UpdatePharmacy(q)
      BY <3>2 DEF Duty!UpdatePharmacy, Duty!FindToRename, Duty!SavePharmacy, Duty!Goto, Duty!Mix,
                  Duty!Steps, Duty!Final
    <3>3. CASE Duty!GetDutyToday(q)
      BY <3>3 DEF Duty!GetDutyToday, Duty!GetToday, Duty!LogConsulted, Duty!Goto, Duty!ghosts,
                  Duty!Steps, Duty!Final
    <3>4. CASE Duty!GetBootstrap(q)
      BY <3>4 DEF Duty!GetBootstrap, Duty!BeginVisit, Duty!Read, Duty!Answer, Duty!Goto,
                  Duty!ghosts, Duty!Steps, Duty!Final
    <3>5. CASE Duty!Fail(q)
      BY <3>5 DEF Duty!Fail, Duty!Goto, Duty!ghosts, Duty!Steps, Duty!Final
    <3> QED BY <1>2, <3>1, <3>2, <3>3, <3>4, <3>5 DEF Duty!Serve
  <2> QED BY <1>1, <2>1 DEF Onward
<1>3. CASE Duty!Restart
  BY <1>1, <1>3 DEF Duty!Restart, Duty!ghosts, Duty!AtWork, Duty!Final, Onward
<1>4. CASE Duty!NextDay \/ UNCHANGED Duty!vars
  BY <1>1, <1>4 DEF Duty!NextDay, Duty!vars, Duty!ghosts, Onward
<1> QED BY <1>2, <1>3, <1>4 DEF Duty!Next

\* Where a request goes next, and what it holds then.
LEMMA DutyShapeStep ==
  ASSUME DutyShape, [Duty!Next]_(Duty!vars)
  PROVE  DutyShape'
<1> USE DEF DutyShape
<1>0. /\ \A q \in Duties : DateOf[q] \in Nat
      /\ today \in From..LastDay /\ From \in Nat /\ LastDay \in Nat
  BY FarmaciasHolds DEF Duty!FarmaciasAssumption
<1> DEFINE Rules(q, pc, h) ==
             /\ pc \in {"existing", "save", "log"} => q \in Duties /\ CodeOf[q] \in Codes
             /\ pc \in {"save", "log"} => h \in Codes \cup {Duty!None}
             /\ pc = "rename" => q \in Renames /\ CodeOf[q] \in Codes
             /\ pc = "reading" => q \in Visits
           Tables == /\ duty' = [d \in DOMAIN duty' |-> duty'[d]]
                     /\ DOMAIN duty' \subseteq Nat /\ \A d \in DOMAIN duty' : duty'[d] \in Codes
                     /\ name' \in [Codes -> Codes \cup Renames]
                     /\ today' \in From..LastDay /\ revision' \in Nat
                     /\ faults' \in Nat /\ restarts' \in Nat /\ log' \in Seq(Ledger)
<1>1. \A q \in Duty!Requests : Rules(q, dutyPc[q], held[q])
  BY DEF Busy
\* A request that moves, alone.
<1>2. ASSUME NEW q \in Duty!Requests, NEW s \in Duty!Steps, Tables,
             dutyPc' = [dutyPc EXCEPT ![q] = s],
             \/ UNCHANGED held
             \/ \E h : held' = [held EXCEPT ![q] = h],
             Rules(q, s, held'[q])
      PROVE  DutyShape'
  <2>1. dutyPc' \in [Duty!Requests -> Duty!Steps] /\ DOMAIN held' = Duty!Requests
    BY <1>2
  <2>2. \A p \in Duty!Requests : p # q => dutyPc'[p] = dutyPc[p] /\ held'[p] = held[p]
    BY <1>2
  <2>3. dutyPc'[q] = s
    BY <1>2
  <2>4. \A p \in Duty!Requests : Rules(p, dutyPc'[p], held'[p])
    BY <1>1, <1>2, <2>2, <2>3
  <2> QED BY <1>2, <2>1, <2>4 DEF Busy
<1>3. UNCHANGED <<duty, name, today, revision, log>> /\ faults' \in Nat /\ restarts' \in Nat
        => Tables
  OBVIOUS
<1>4. UNCHANGED faults \/ Duty!Fault => faults' \in Nat
  BY DEF Duty!Fault
<1>5. ASSUME NEW q \in Duty!Requests, Duty!FindPharmacy(q) PROVE DutyShape'
  <2>1. /\ UNCHANGED <<duty, name, today, revision, log, held, faults, restarts>> /\ q \in Duties
        /\ \E s \in {"existing", "404"} : /\ dutyPc' = [dutyPc EXCEPT ![q] = s]
                                          /\ s = "existing" => CodeOf[q] \in Codes
    BY <1>5 DEF Duty!FindPharmacy, Duty!Goto
  <2> QED BY <2>1, <1>2, <1>3 DEF Duty!Steps, Duty!Final
<1>6. ASSUME NEW q \in Duty!Requests, Duty!FindExisting(q) PROVE DutyShape'
  <2>1. /\ UNCHANGED <<duty, name, today, revision, log, faults, restarts>>
        /\ dutyPc' = [dutyPc EXCEPT ![q] = "save"] /\ dutyPc[q] = "existing"
        /\ held' = [held EXCEPT ![q] = IF DateOf[q] \in DOMAIN duty THEN duty[DateOf[q]]
                                       ELSE Duty!None]
    BY <1>6 DEF Duty!FindExisting, Duty!Goto
  <2>2. held'[q] \in Codes \cup {Duty!None}
    BY <2>1
  <2>3. \E h : held' = [held EXCEPT ![q] = h]
    BY <2>1
  <2> QED BY <2>1, <2>2, <2>3, <1>1, <1>2, <1>3 DEF Duty!Steps, Duty!Final
<1>7. ASSUME NEW q \in Duty!Requests, Duty!SaveDuty(q) PROVE DutyShape'
  <2>1. /\ UNCHANGED <<name, today, log, held, faults, restarts>> /\ revision' = revision + 1
        /\ dutyPc' = [dutyPc EXCEPT ![q] = "log"] /\ dutyPc[q] = "save"
        /\ duty' = [d \in DOMAIN duty \cup {DateOf[q]} |->
                      IF d = DateOf[q] THEN CodeOf[q] ELSE duty[d]]
    BY <1>7 DEF Duty!SaveDuty, Duty!Goto, Duty!ghosts
  <2>2. q \in Duties /\ CodeOf[q] \in Codes /\ held[q] \in Codes \cup {Duty!None}
    BY <2>1, <1>1
  <2>3. Tables
    BY <1>0, <2>1, <2>2
  <2> QED BY <2>1, <2>2, <2>3, <1>2 DEF Duty!Steps, Duty!Final
<1>8. ASSUME NEW q \in Duty!Requests, Duty!LogDuty(q) PROVE DutyShape'
  <2>1. /\ UNCHANGED <<duty, name, today, revision, held, restarts>>
        /\ dutyPc' = [dutyPc EXCEPT ![q] = "ok"] /\ dutyPc[q] = "log"
        /\ \/ log' = Append(log, <<DateOf[q], held[q], CodeOf[q]>>) /\ UNCHANGED faults
           \/ UNCHANGED log /\ Duty!Fault
    BY <1>8 DEF Duty!LogDuty, Duty!Goto
  <2>2. <<DateOf[q], held[q], CodeOf[q]>> \in Ledger
    BY <1>0, <1>1, <2>1 DEF Ledger
  <2>3. log' \in Seq(Ledger)
    <3>1. log \in Seq(Ledger)
      OBVIOUS
    <3>2. \A e \in Ledger : Append(log, e) \in Seq(Ledger)
      BY <3>1
    <3> QED BY <2>1, <2>2, <3>1, <3>2
  <2> QED BY <2>1, <2>3, <1>2, <1>4 DEF Duty!Steps, Duty!Final
<1>9. ASSUME NEW q \in Duty!Requests, Duty!FindToRename(q) PROVE DutyShape'
  <2>1. /\ UNCHANGED <<duty, name, today, revision, log, held, faults, restarts>> /\ q \in Renames
        /\ \E s \in {"rename", "404"} : /\ dutyPc' = [dutyPc EXCEPT ![q] = s]
                                        /\ s = "rename" => CodeOf[q] \in Codes
    BY <1>9 DEF Duty!FindToRename, Duty!Goto
  <2> QED BY <2>1, <1>2, <1>3 DEF Duty!Steps, Duty!Final
<1>10. ASSUME NEW q \in Duty!Requests, Duty!SavePharmacy(q) PROVE DutyShape'
  <2>1. /\ UNCHANGED <<duty, today, log, held, faults, restarts>> /\ revision' = revision + 1
        /\ dutyPc' = [dutyPc EXCEPT ![q] = "ok"] /\ dutyPc[q] = "rename"
        /\ name' = [name EXCEPT ![CodeOf[q]] = q]
    BY <1>10 DEF Duty!SavePharmacy, Duty!Goto
  <2>2. Tables
    BY <2>1, <1>1
  <2> QED BY <2>1, <2>2, <1>2 DEF Duty!Steps, Duty!Final
<1>11. ASSUME NEW q \in Duty!Requests, Duty!GetToday(q) \/ Duty!BeginVisit(q) PROVE DutyShape'
  <2>1. /\ UNCHANGED <<duty, name, today, revision, log, faults, restarts>>
        /\ \E s \in {"404", "consulted", "reading"} :
             dutyPc' = [dutyPc EXCEPT ![q] = s] /\ (s = "reading" => q \in Visits)
        /\ \E h : held' = [held EXCEPT ![q] = h]
    BY <1>11 DEF Duty!GetToday, Duty!BeginVisit, Duty!Goto, Duty!ghosts
  <2> QED BY <2>1, <1>2, <1>3 DEF Duty!Steps, Duty!Final
<1>12. ASSUME NEW q \in Duty!Requests, Duty!LogConsulted(q) \/ Duty!Answer(q) \/ Duty!Fail(q)
       PROVE  DutyShape'
  <2>1. /\ UNCHANGED <<duty, name, today, revision, log, held, restarts>>
        /\ UNCHANGED faults \/ Duty!Fault
        /\ \E s \in {"ok", "304", "500"} : dutyPc' = [dutyPc EXCEPT ![q] = s]
    BY <1>12 DEF Duty!LogConsulted, Duty!Answer, Duty!Fail, Duty!Goto, Duty!ghosts
  <2> QED BY <2>1, <1>2, <1>3, <1>4 DEF Duty!Steps, Duty!Final
<1>13. ASSUME NEW q \in Duty!Requests, Duty!Read(q) PROVE DutyShape'
  <2>1. /\ UNCHANGED <<duty, name, today, revision, log, dutyPc, faults, restarts>>
        /\ dutyPc[q] = "reading" /\ DOMAIN held' = DOMAIN held
        /\ \A p \in Duty!Requests : p # q => held'[p] = held[p]
    BY <1>13 DEF Duty!Read, Duty!ghosts
  <2>2. \A p \in Duty!Requests : Rules(p, dutyPc'[p], held'[p])
    BY <2>1, <1>1
  <2> QED BY <2>1, <2>2 DEF Busy
<1>14. CASE Duty!Restart
  <2>1. /\ UNCHANGED <<duty, name, today, log, held, faults>> /\ revision' = 0
        /\ restarts' = restarts + 1
        /\ dutyPc' = [q \in Duty!Requests |-> IF Duty!AtWork(q) THEN "cut" ELSE dutyPc[q]]
    BY <1>14 DEF Duty!Restart, Duty!ghosts
  <2>2. \A p \in Duty!Requests : dutyPc'[p] \in Duty!Final /\ dutyPc'[p] \in Duty!Steps
    BY <2>1 DEF Duty!AtWork, Duty!Final, Duty!Steps
  <2> QED BY <2>1, <2>2 DEF Busy, Duty!Final
<1>15. CASE Duty!NextDay
  <2>1. /\ UNCHANGED <<duty, name, revision, log, dutyPc, held, faults, restarts>>
        /\ today' \in From..LastDay
    BY <1>0, <1>15 DEF Duty!NextDay, Duty!ghosts
  <2> QED BY <2>1 DEF Busy
<1>16. CASE UNCHANGED Duty!vars
  BY <1>16 DEF Duty!vars, Busy
<1> QED BY <1>5, <1>6, <1>7, <1>8, <1>9, <1>10, <1>11, <1>12, <1>13, <1>14, <1>15, <1>16
        DEF Duty!Next, Duty!Serve, Duty!UpdateDutyByDate, Duty!UpdatePharmacy, Duty!GetDutyToday,
            Duty!GetBootstrap

\* A request begins to change a date: another one at work on it makes it a mixed one.
LEMMA TurnsStep ==
  ASSUME DutyShape, TurnsAreKnown, [Duty!Next]_(Duty!vars)
  PROVE  TurnsAreKnown'
<1>1. /\ dutyPc \in [Duty!Requests -> Duty!Steps] /\ mixed \subseteq mixed'
      /\ Duties \subseteq Duty!Requests
  BY OnwardStep DEF DutyShape, Onward, Duty!Requests
<1>2. CASE \A p \in Duties : Busy(p)' => Busy(p)
  BY <1>1, <1>2 DEF TurnsAreKnown
<1>3. ASSUME NEW q \in Duty!Requests, Duty!FindPharmacy(q) PROVE TurnsAreKnown'
  <2>1. CASE UNCHANGED mixed /\ dutyPc' = [dutyPc EXCEPT ![q] = "404"]
    BY <1>1, <2>1 DEF TurnsAreKnown, Busy
  <2>2. CASE Duty!Mix(q, Duties, DateOf, DateOf[q]) /\ dutyPc' = [dutyPc EXCEPT ![q] = "existing"]
    <3>1. \A p \in Duties \ {q} : Busy(p) /\ DateOf[p] = DateOf[q] => DateOf[q] \in mixed'
      BY <2>2 DEF Duty!Mix, Busy, Duty!AtWork, Duty!Final
    <3>2. \A p \in Duties \ {q} : Busy(p)' => Busy(p)
      BY <1>1, <2>2 DEF Busy
    <3> QED BY <1>1, <3>1, <3>2 DEF TurnsAreKnown
  <2> QED BY <1>3, <2>1, <2>2 DEF Duty!FindPharmacy, Duty!Goto
<1>4. ASSUME NEW q \in Duty!Requests,
             \/ Duty!FindExisting(q) \/ Duty!SaveDuty(q) \/ Duty!LogDuty(q)
             \/ Duty!UpdatePharmacy(q) \/ Duty!GetDutyToday(q) \/ Duty!Answer(q) \/ Duty!Fail(q)
             \/ Duty!BeginVisit(q)
      PROVE  \A p \in Duties : Busy(p)' => Busy(p)
  <2>1. \E s \in Duty!Steps : /\ dutyPc' = [dutyPc EXCEPT ![q] = s]
                              /\ s \in {"existing", "save", "log"} => Busy(q)
    BY <1>4 DEF Duty!FindExisting, Duty!SaveDuty, Duty!LogDuty, Duty!UpdatePharmacy,
         Duty!FindToRename, Duty!SavePharmacy, Duty!GetDutyToday, Duty!GetToday,
         Duty!LogConsulted, Duty!Answer, Duty!Fail, Duty!BeginVisit, Duty!Goto, Duty!Steps,
         Duty!Final, Busy
  <2> QED BY <1>1, <2>1 DEF Busy
<1>5. CASE Duty!Restart
  BY <1>1, <1>2, <1>5 DEF Duty!Restart, Duty!AtWork, Duty!Final, Busy
<1>6. CASE UNCHANGED dutyPc
  BY <1>2, <1>6 DEF Busy
<1> QED BY <1>2, <1>3, <1>4, <1>5, <1>6 DEF Duty!Next, Duty!Serve, Duty!UpdateDutyByDate,
        Duty!GetBootstrap, Duty!Read, Duty!NextDay, Duty!ghosts, Duty!vars

\* The steps that touch the duties or their log, and the others.
DutyKept ==
  /\ UNCHANGED <<duty, log>> /\ mixed \subseteq mixed'
  /\ \A q \in Duty!Requests :
       /\ dutyPc'[q] = "log" => dutyPc[q] = "log" /\ held'[q] = held[q]
       /\ dutyPc'[q] = "save" => dutyPc[q] = "save" /\ held'[q] = held[q]
       /\ dutyPc[q] = "log" => dutyPc'[q] = "log" \/ faults' + restarts' # 0
  /\ faults' + restarts' = 0 => faults + restarts = 0
LEMMA DutyMoves ==
  ASSUME DutyShape, [Duty!Next]_(Duty!vars)
  PROVE  \/ DutyKept
         \/ \E q \in Duty!Requests :
              \/ Duty!FindExisting(q) \/ Duty!SaveDuty(q)
              \/ Duty!LogDuty(q) /\ UNCHANGED faults
<1>1. /\ dutyPc \in [Duty!Requests -> Duty!Steps] /\ mixed \subseteq mixed'
      /\ DOMAIN held = Duty!Requests /\ faults \in Nat /\ restarts \in Nat
      /\ \A q \in Duty!Requests : dutyPc[q] = "reading" \/ dutyPc[q] \in Rests => ~Busy(q)
  BY OnwardStep DEF DutyShape, Onward, Busy, Rests
<1>2. \A n, m \in Nat : n + 1 + m # 0 /\ n + (m + 1) # 0
  OBVIOUS
<1>3. Duty!Fault => faults' + restarts # 0 /\ faults' = faults + 1
  BY <1>1, <1>2 DEF Duty!Fault
<1>4. ASSUME NEW q \in Duty!Requests,
             \/ Duty!FindPharmacy(q) \/ Duty!UpdatePharmacy(q) \/ Duty!GetToday(q)
             \/ Duty!BeginVisit(q) \/ Duty!Answer(q)
      PROVE  DutyKept
  <2>1. /\ UNCHANGED <<duty, log, faults, restarts>>
        /\ \E s \in Duty!Steps \ {"save", "log"} : dutyPc' = [dutyPc EXCEPT ![q] = s]
        /\ dutyPc[q] # "log" /\ (UNCHANGED held \/ \E h : held' = [held EXCEPT ![q] = h])
    BY <1>4 DEF Duty!FindPharmacy, Duty!UpdatePharmacy, Duty!FindToRename, Duty!SavePharmacy,
         Duty!GetToday, Duty!BeginVisit, Duty!Answer, Duty!Goto, Duty!ghosts, Duty!Steps, Duty!Final
  <2> QED BY <1>1, <2>1 DEF DutyKept
<1>5. ASSUME NEW q \in Duty!Requests,
             \/ Duty!LogConsulted(q) \/ Duty!Fail(q)
             \/ Duty!LogDuty(q) /\ ~UNCHANGED faults
      PROVE  DutyKept
  <2>1. /\ UNCHANGED <<duty, log, held, restarts>> /\ (UNCHANGED faults \/ Duty!Fault)
        /\ \E s \in {"ok", "500"} : dutyPc' = [dutyPc EXCEPT ![q] = s]
        /\ dutyPc[q] = "log" => Duty!Fault
    BY <1>5 DEF Duty!LogConsulted, Duty!Fail, Duty!LogDuty, Duty!Goto, Duty!ghosts
  <2> QED BY <1>1, <1>3, <2>1 DEF DutyKept
<1>6. ASSUME NEW q \in Duty!Requests, Duty!Read(q) PROVE DutyKept
  <2>1. /\ UNCHANGED <<duty, log, dutyPc, faults, restarts>> /\ dutyPc[q] = "reading"
        /\ \A p \in Duty!Requests : p # q => held'[p] = held[p]
    BY <1>1, <1>6 DEF Duty!Read, Duty!ghosts
  <2> QED BY <1>1, <2>1 DEF DutyKept
<1>7. CASE Duty!Restart
  <2>1. /\ UNCHANGED <<duty, log, held, faults>> /\ restarts' = restarts + 1
        /\ \A q \in Duty!Requests : dutyPc'[q] \in Duty!Final
    BY <1>7 DEF Duty!Restart, Duty!ghosts, Duty!AtWork, Duty!Final
  <2> QED BY <1>1, <1>2, <2>1 DEF DutyKept, Duty!Final
<1>8. CASE Duty!NextDay \/ UNCHANGED Duty!vars
  BY <1>1, <1>8 DEF Duty!NextDay, Duty!vars, Duty!ghosts, DutyKept
<1> QED BY <1>4, <1>5, <1>6, <1>7, <1>8 DEF Duty!Next, Duty!Serve, Duty!UpdateDutyByDate,
        Duty!GetDutyToday, Duty!GetBootstrap

LEMMA SavedStep ==
  ASSUME DutyShape, TurnsAreKnown, SavedIsThere, [Duty!Next]_(Duty!vars)
  PROVE  SavedIsThere'
<1>1. /\ dutyPc \in [Duty!Requests -> Duty!Steps] /\ mixed \subseteq mixed'
      /\ Duties \subseteq Duty!Requests
  BY OnwardStep DEF DutyShape, Onward, Duty!Requests
<1>2. CASE DutyKept
  BY <1>1, <1>2 DEF DutyKept, SavedIsThere
<1>3. ASSUME NEW q \in Duty!Requests, Duty!FindExisting(q) \/ Duty!LogDuty(q) PROVE SavedIsThere'
  <2>1. UNCHANGED duty /\ \E s \in {"save", "ok"} : dutyPc' = [dutyPc EXCEPT ![q] = s]
    BY <1>3 DEF Duty!FindExisting, Duty!LogDuty, Duty!Goto
  <2> QED BY <1>1, <2>1 DEF SavedIsThere
<1>4. ASSUME NEW q \in Duty!Requests, Duty!SaveDuty(q) PROVE SavedIsThere'
  <2>1. /\ dutyPc[q] = "save" /\ dutyPc' = [dutyPc EXCEPT ![q] = "log"] /\ UNCHANGED mixed
        /\ DOMAIN duty' = DOMAIN duty \cup {DateOf[q]} /\ duty'[DateOf[q]] = CodeOf[q]
        /\ \A d \in DOMAIN duty : d # DateOf[q] => duty'[d] = duty[d]
    BY <1>4 DEF Duty!SaveDuty, Duty!Goto, Duty!ghosts
  <2>2. q \in Duties /\ Busy(q)
    BY <2>1 DEF DutyShape, Busy
  <2>3. \A p \in Duties : p # q /\ dutyPc[p] = "log" /\ DateOf[p] = DateOf[q] => DateOf[p] \in mixed
    BY <2>2 DEF TurnsAreKnown, Busy
  <2> QED BY <1>1, <2>1, <2>2, <2>3 DEF SavedIsThere
<1> QED BY <1>2, <1>3, <1>4, DutyMoves

\* Each entry begins where the one before it ended.
LEMMA LogFollowsStep ==
  ASSUME DutyShape, TurnsAreKnown, SavedIsThere, LogFollows, [Duty!Next]_(Duty!vars)
  PROVE  LogFollows'
<1>1. /\ dutyPc \in [Duty!Requests -> Duty!Steps] /\ mixed \subseteq mixed'
      /\ Duties \subseteq Duty!Requests /\ log \in Seq(Ledger) /\ DOMAIN held = Duty!Requests
      /\ \A q \in Duties : DateOf[q] \in Nat
  BY OnwardStep, FarmaciasHolds DEF DutyShape, Onward, Duty!Requests, Duty!FarmaciasAssumption
<1>2. CASE DutyKept
  <2> SUFFICES ASSUME faults' + restarts' = 0, NEW d \in Nat \ mixed'
               PROVE  /\ Chained(log', d)
                      /\ d \notin DOMAIN duty' => Entries(log', d) = {}
                      /\ d \in DOMAIN duty' /\
                           (\A q \in Duties : DateOf[q] = d => dutyPc'[q] # "log")
                           => LastIs(log', d, duty'[d])
                      /\ \A q \in Duties : DateOf[q] = d /\ dutyPc'[q] = "log" =>
                           LastIs(log', d, held'[q])
                      /\ \A q \in Duties : DateOf[q] = d /\ dutyPc'[q] = "save" =>
                           held'[q] = IF d \in DOMAIN duty' THEN duty'[d] ELSE Duty!None
    BY DEF LogFollows
  <2>1. /\ d \in Nat \ mixed /\ faults + restarts = 0 /\ log' = log /\ duty' = duty
        /\ \A q \in Duties : /\ dutyPc'[q] = "log" <=> dutyPc[q] = "log"
                             /\ dutyPc'[q] = "log" => held'[q] = held[q]
                             /\ dutyPc'[q] = "save" => dutyPc[q] = "save" /\ held'[q] = held[q]
    BY <1>1, <1>2 DEF DutyKept
  <2>2. /\ Chained(log, d)
        /\ d \notin DOMAIN duty => Entries(log, d) = {}
        /\ d \in DOMAIN duty /\ (\A q \in Duties : DateOf[q] = d => dutyPc[q] # "log") =>
             LastIs(log, d, duty[d])
        /\ \A q \in Duties : DateOf[q] = d /\ dutyPc[q] = "log" => LastIs(log, d, held[q])
        /\ \A q \in Duties : DateOf[q] = d /\ dutyPc[q] = "save" =>
             held[q] = IF d \in DOMAIN duty THEN duty[d] ELSE Duty!None
    BY <2>1 DEF LogFollows
  <2> QED BY <2>1, <2>2 DEF Chained, Entries, LastIs
<1>3. ASSUME NEW q \in Duty!Requests, Duty!FindExisting(q) PROVE LogFollows'
  <2>1. /\ UNCHANGED <<duty, log, mixed, faults, restarts>>
        /\ dutyPc' = [dutyPc EXCEPT ![q] = "save"] /\ dutyPc[q] = "existing"
        /\ held' = [held EXCEPT ![q] = IF DateOf[q] \in DOMAIN duty THEN duty[DateOf[q]]
                                       ELSE Duty!None]
    BY <1>3 DEF Duty!FindExisting, Duty!Goto, Duty!ghosts
  <2>2. \A p \in Duties : /\ dutyPc'[p] = "log" <=> dutyPc[p] = "log"
                          /\ dutyPc'[p] = "log" => held'[p] = held[p]
                          /\ p # q => dutyPc'[p] = dutyPc[p] /\ held'[p] = held[p]
    BY <1>1, <2>1
  <2>3. held'[q] = IF DateOf[q] \in DOMAIN duty THEN duty[DateOf[q]] ELSE Duty!None
    BY <1>1, <2>1
  <2> QED BY <2>1, <2>2, <2>3 DEF LogFollows, Chained, Entries, LastIs
<1>4. ASSUME NEW q \in Duty!Requests, Duty!SaveDuty(q) PROVE LogFollows'
  <2>1. /\ dutyPc[q] = "save" /\ dutyPc' = [dutyPc EXCEPT ![q] = "log"]
        /\ UNCHANGED <<mixed, log, held, faults, restarts>>
        /\ DOMAIN duty' = DOMAIN duty \cup {DateOf[q]} /\ duty'[DateOf[q]] = CodeOf[q]
        /\ \A d \in DOMAIN duty : d # DateOf[q] => duty'[d] = duty[d]
    BY <1>4 DEF Duty!SaveDuty, Duty!Goto, Duty!ghosts
  <2>2. q \in Duties /\ Busy(q)
    BY <2>1 DEF DutyShape, Busy
  <2>3. \A p \in Duties : p # q => dutyPc'[p] = dutyPc[p]
    BY <1>1, <2>1
  <2> SUFFICES ASSUME faults + restarts = 0, NEW d \in Nat \ mixed
               PROVE  /\ Chained(log, d)
                      /\ d \notin DOMAIN duty' => Entries(log, d) = {}
                      /\ d \in DOMAIN duty' /\
                           (\A p \in Duties : DateOf[p] = d => dutyPc'[p] # "log")
                           => LastIs(log, d, duty'[d])
                      /\ \A p \in Duties : DateOf[p] = d /\ dutyPc'[p] = "log" =>
                           LastIs(log, d, held[p])
                      /\ \A p \in Duties : DateOf[p] = d /\ dutyPc'[p] = "save" =>
                           held[p] = IF d \in DOMAIN duty' THEN duty'[d] ELSE Duty!None
    BY <2>1 DEF LogFollows, Chained, Entries, LastIs
  <2>4. /\ Chained(log, d)
        /\ d \notin DOMAIN duty => Entries(log, d) = {}
        /\ d \in DOMAIN duty /\ (\A p \in Duties : DateOf[p] = d => dutyPc[p] # "log") =>
             LastIs(log, d, duty[d])
        /\ \A p \in Duties : DateOf[p] = d /\ dutyPc[p] = "log" => LastIs(log, d, held[p])
        /\ \A p \in Duties : DateOf[p] = d /\ dutyPc[p] = "save" =>
             held[p] = IF d \in DOMAIN duty THEN duty[d] ELSE Duty!None
    BY DEF LogFollows
  <2>5. CASE d # DateOf[q]
    BY <1>1, <2>1, <2>2, <2>3, <2>4, <2>5
  <2>6. CASE d = DateOf[q]
    <3>1. \A p \in Duties : DateOf[p] = d /\ p # q => ~Busy(p)
      BY <2>2, <2>6 DEF TurnsAreKnown
    <3>2. \A p \in Duties : DateOf[p] = d /\ p # q => dutyPc'[p] \notin {"save", "log"}
      BY <2>3, <3>1 DEF Busy
    <3>3. dutyPc'[q] = "log"
      BY <1>1, <2>1
    <3>4. LastIs(log, d, held[q])
      <4>1. CASE d \in DOMAIN duty
        <5>1. \A p \in Duties : DateOf[p] = d => dutyPc[p] # "log"
          BY <2>1, <3>1 DEF Busy
        <5> QED BY <2>1, <2>2, <2>4, <2>6, <4>1, <5>1
      <4>2. CASE d \notin DOMAIN duty
        BY <2>4, <4>2 DEF LastIs
      <4> QED BY <4>1, <4>2
    <3> QED BY <2>1, <2>2, <2>4, <2>6, <3>2, <3>3, <3>4
  <2> QED BY <2>5, <2>6
<1>5. ASSUME NEW q \in Duty!Requests, Duty!LogDuty(q), UNCHANGED faults PROVE LogFollows'
  <2> DEFINE e == <<DateOf[q], held[q], CodeOf[q]>>
  <2>0. faults \in Nat
    BY DEF DutyShape
  <2>1. /\ dutyPc[q] = "log" /\ dutyPc' = [dutyPc EXCEPT ![q] = "ok"] /\ log' = Append(log, e)
        /\ UNCHANGED <<mixed, duty, held, faults, restarts>>
    BY <1>5, <2>0 DEF Duty!LogDuty, Duty!Goto, Duty!Fault
  <2>2. q \in Duties /\ Busy(q)
    BY <2>1 DEF DutyShape, Busy
  <2>3. \A p \in Duties : p # q => dutyPc'[p] = dutyPc[p]
    BY <1>1, <2>1
  <2>4. /\ Len(log) \in Nat /\ DOMAIN log = 1..Len(log)
        /\ DOMAIN log' = 1..(Len(log) + 1) /\ log'[Len(log) + 1] = e
        /\ \A i \in DOMAIN log : log'[i] = log[i]
    <3>1. log \in Seq(Ledger)
      BY <1>1
    <3> HIDE DEF e
    <3> QED BY <2>1, <3>1
  <2>5. e[1] = DateOf[q] /\ e[2] = held[q] /\ e[3] = CodeOf[q]
    OBVIOUS
  <2> HIDE DEF e
  <2> SUFFICES ASSUME faults + restarts = 0, NEW d \in Nat \ mixed
               PROVE  /\ Chained(log', d)
                      /\ d \notin DOMAIN duty => Entries(log', d) = {}
                      /\ d \in DOMAIN duty /\
                           (\A p \in Duties : DateOf[p] = d => dutyPc'[p] # "log")
                           => LastIs(log', d, duty'[d])
                      /\ \A p \in Duties : DateOf[p] = d /\ dutyPc'[p] = "log" =>
                           LastIs(log', d, held'[p])
                      /\ \A p \in Duties : DateOf[p] = d /\ dutyPc'[p] = "save" =>
                           held[p] = IF d \in DOMAIN duty THEN duty[d] ELSE Duty!None
    BY <2>1 DEF LogFollows
  <2>6. /\ Chained(log, d)
        /\ d \notin DOMAIN duty => Entries(log, d) = {}
        /\ d \in DOMAIN duty /\ (\A p \in Duties : DateOf[p] = d => dutyPc[p] # "log") =>
             LastIs(log, d, duty[d])
        /\ \A p \in Duties : DateOf[p] = d /\ dutyPc[p] = "log" => LastIs(log, d, held[p])
        /\ \A p \in Duties : DateOf[p] = d /\ dutyPc[p] = "save" =>
             held[p] = IF d \in DOMAIN duty THEN duty[d] ELSE Duty!None
    BY DEF LogFollows
  <2>7. CASE d # DateOf[q]
    <3>1. Entries(log', d) = Entries(log, d)
      BY <2>4, <2>5, <2>7 DEF Entries
    <3>2. Entries(log, d) \subseteq DOMAIN log
      BY DEF Entries
    <3>3. Chained(log', d)
      BY <2>4, <2>6, <3>1, <3>2 DEF Chained
    <3>4. ASSUME NEW c, LastIs(log, d, c)
          PROVE  LastIs(log', d, c)
      <4>1. \A i \in Entries(log', d) : (\A k \in Entries(log', d) : k <= i) => log'[i][3] = c
        BY <2>4, <3>1, <3>2, <3>4 DEF LastIs
      <4> QED BY <4>1 DEF LastIs
    <3>5. d \in DOMAIN duty /\ (\A p \in Duties : DateOf[p] = d => dutyPc'[p] # "log")
             => LastIs(log', d, duty'[d])
      <4> SUFFICES ASSUME d \in DOMAIN duty, \A p \in Duties : DateOf[p] = d => dutyPc'[p] # "log"
                   PROVE  LastIs(log', d, duty[d])
        BY <2>1
      <4>1. LastIs(log, d, duty[d])
        BY <2>3, <2>6, <2>7
      <4> QED BY <3>4, <4>1
    <3>6. \A p \in Duties : DateOf[p] = d /\ dutyPc'[p] = "log" => LastIs(log', d, held'[p])
      BY <2>1, <2>3, <2>6, <2>7, <3>4
    <3>7. d \notin DOMAIN duty => Entries(log', d) = {}
      BY <2>6, <3>1
    <3>8. \A p \in Duties : DateOf[p] = d /\ dutyPc'[p] = "save" =>
            held[p] = IF d \in DOMAIN duty THEN duty[d] ELSE Duty!None
      BY <2>3, <2>6, <2>7
    <3> QED BY <3>3, <3>5, <3>6, <3>7, <3>8
  <2>8. CASE d = DateOf[q]
    <3>1. \A p \in Duties : DateOf[p] = d /\ p # q => dutyPc'[p] \notin {"save", "log"}
      BY <2>2, <2>3, <2>8 DEF TurnsAreKnown, Busy
    <3>2. dutyPc'[q] = "ok" /\ d \in DOMAIN duty /\ duty[d] = CodeOf[q]
      BY <1>1, <2>1, <2>2, <2>8 DEF SavedIsThere
    <3>3. /\ Entries(log', d) = Entries(log, d) \cup {Len(log) + 1}
          /\ Entries(log, d) \subseteq 1..Len(log)
      BY <2>4, <2>5, <2>8 DEF Entries
    <3>4. LastIs(log, d, held[q])
      BY <2>1, <2>2, <2>6, <2>8
    <3>5. Chained(log', d)
      <4> SUFFICES ASSUME NEW i \in Entries(log', d), NEW j \in Entries(log', d), i < j,
                          \A k \in Entries(log', d) : k <= i \/ j <= k
                   PROVE  log'[i][3] = log'[j][2]
        BY DEF Chained
      <4>1. i \in Entries(log, d) /\ i \in DOMAIN log /\ log'[i] = log[i]
        BY <2>4, <3>3
      <4>2. CASE j \in Entries(log, d)
        BY <2>4, <2>6, <3>3, <4>1, <4>2 DEF Chained
      <4>3. CASE j = Len(log) + 1
        <5>1. \A k \in Entries(log, d) : k <= i
          BY <2>4, <3>3, <4>3
        <5> QED BY <2>4, <2>5, <3>4, <4>1, <4>3, <5>1 DEF LastIs
      <4> QED BY <3>3, <4>2, <4>3
    <3>6. LastIs(log', d, duty'[d])
      <4>1. \A i \in Entries(log', d) : (\A k \in Entries(log', d) : k <= i) => i = Len(log) + 1
        BY <2>4, <3>3
      <4> QED BY <2>1, <2>4, <2>5, <3>2, <4>1 DEF LastIs
    <3> QED BY <3>1, <3>2, <3>5, <3>6
  <2> QED BY <2>7, <2>8
<1> QED BY <1>2, <1>3, <1>4, <1>5, DutyMoves

\* The duties and names as answered change with the rows, or after them.
LEMMA AnsweredStep ==
  ASSUME DutyShape, TurnsAreKnown, SavedIsThere, AnsweredIsThere, [Duty!Next]_(Duty!vars)
  PROVE  AnsweredIsThere'
<1>1. /\ dutyPc \in [Duty!Requests -> Duty!Steps] /\ mixed \subseteq mixed' /\ Onward
      /\ Duties \subseteq Duty!Requests
      /\ \A q \in Duty!Requests : dutyPc[q] = "log" => q \in Duties
  BY OnwardStep DEF DutyShape, Onward, Duty!Requests, Busy
<1> DEFINE Kept == /\ UNCHANGED <<duty, name, answered>>
                   /\ \A p \in Duties : dutyPc[p] = "log" => dutyPc'[p] # "ok"
<1>2. CASE Kept
  <2>1. \A p \in Duties : dutyPc[p] \in {"log", "cut"} => dutyPc'[p] \in {"log", "cut"}
    BY <1>1, <1>2 DEF Onward
  <2> QED BY <1>1, <1>2, <2>1 DEF AnsweredIsThere
<1>3. ASSUME NEW q \in Duty!Requests, Duty!SaveDuty(q) PROVE AnsweredIsThere'
  <2>1. /\ dutyPc[q] = "save" /\ dutyPc' = [dutyPc EXCEPT ![q] = "log"]
        /\ UNCHANGED <<mixed, name, answered>>
        /\ DOMAIN duty' = DOMAIN duty \cup {DateOf[q]} /\ duty'[DateOf[q]] = CodeOf[q]
        /\ \A d \in DOMAIN duty : d # DateOf[q] => duty'[d] = duty[d]
    BY <1>3 DEF Duty!SaveDuty, Duty!Goto, Duty!ghosts
  <2>2. q \in Duties /\ dutyPc'[q] = "log"
    BY <1>1, <2>1 DEF DutyShape, Busy
  <2>3. \A p \in Duties : dutyPc[p] \in {"log", "cut"} => dutyPc'[p] = dutyPc[p]
    BY <1>1, <2>1
  <2> QED BY <2>1, <2>2, <2>3 DEF AnsweredIsThere
<1>4. ASSUME NEW q \in Duty!Requests, Duty!LogDuty(q) PROVE AnsweredIsThere'
  <2>1. /\ dutyPc[q] = "log" /\ dutyPc' = [dutyPc EXCEPT ![q] = "ok"]
        /\ UNCHANGED <<mixed, name, duty>>
        /\ answered' = [answered EXCEPT !.duty =
                          [d \in DOMAIN answered.duty \cup {DateOf[q]} |->
                             IF d = DateOf[q] THEN CodeOf[q] ELSE answered.duty[d]]]
    BY <1>4 DEF Duty!LogDuty, Duty!Goto
  <2>2. /\ DOMAIN answered' = {"duty", "name"} /\ answered'.name = name
        /\ DOMAIN answered'.duty = DOMAIN answered.duty \cup {DateOf[q]}
        /\ answered'.duty[DateOf[q]] = CodeOf[q]
        /\ \A d \in DOMAIN answered.duty : d # DateOf[q] => answered'.duty[d] = answered.duty[d]
    BY <2>1 DEF AnsweredIsThere
  <2>3. /\ DateOf[q] \in DOMAIN duty /\ q \in Duties
        /\ DateOf[q] \notin mixed => duty[DateOf[q]] = CodeOf[q]
    BY <1>1, <2>1 DEF SavedIsThere
  <2>4. \A p \in Duties : p # q => dutyPc'[p] = dutyPc[p]
    BY <1>1, <2>1
  <2> QED BY <2>1, <2>2, <2>3, <2>4 DEF AnsweredIsThere
<1>5. ASSUME NEW q \in Duty!Requests, Duty!SavePharmacy(q) PROVE AnsweredIsThere'
  <2>1. /\ dutyPc[q] = "rename" /\ dutyPc' = [dutyPc EXCEPT ![q] = "ok"]
        /\ UNCHANGED <<mixed, duty>> /\ name' = [name EXCEPT ![CodeOf[q]] = q]
        /\ answered' = [answered EXCEPT !.name[CodeOf[q]] = q]
    BY <1>5 DEF Duty!SavePharmacy, Duty!Goto
  <2>2. DOMAIN answered' = {"duty", "name"} /\ answered'.name = name'
        /\ answered'.duty = answered.duty
    BY <2>1 DEF AnsweredIsThere
  <2>3. \A p \in Duties : dutyPc[p] \in {"log", "cut"} => dutyPc'[p] = dutyPc[p]
    BY <1>1, <2>1
  <2> QED BY <2>1, <2>2, <2>3 DEF AnsweredIsThere
<1>6. ASSUME NEW q \in Duty!Requests,
             \/ Duty!FindPharmacy(q) \/ Duty!FindExisting(q) \/ Duty!FindToRename(q)
             \/ Duty!GetDutyToday(q) \/ Duty!GetBootstrap(q) \/ Duty!Fail(q)
      PROVE  Kept
  <2>1. /\ UNCHANGED <<duty, name, answered>> /\ dutyPc[q] # "log"
        /\ UNCHANGED dutyPc \/ \E s : dutyPc' = [dutyPc EXCEPT ![q] = s]
    BY <1>6 DEF Duty!FindPharmacy, Duty!FindExisting, Duty!FindToRename, Duty!GetDutyToday,
         Duty!GetToday, Duty!LogConsulted, Duty!GetBootstrap, Duty!BeginVisit, Duty!Read,
         Duty!Answer, Duty!Fail, Duty!Goto, Duty!ghosts
  <2> QED BY <1>1, <2>1
<1>7. CASE Duty!Restart
  BY <1>1, <1>2, <1>7 DEF Duty!Restart, Duty!AtWork, Duty!Final, Duty!ghosts
<1>8. CASE Duty!NextDay \/ UNCHANGED Duty!vars
  BY <1>1, <1>2, <1>8 DEF Duty!NextDay, Duty!vars, Duty!ghosts
<1> QED BY <1>2, <1>3, <1>4, <1>5, <1>6, <1>7, <1>8 DEF Duty!Next, Duty!Serve,
        Duty!UpdateDutyByDate, Duty!UpdatePharmacy

\* What is not older than a visit does not become older.
LEMMA SinceStays ==
  ASSUME Onward, NEW q \in Visits, begun'[q] = begun[q], NEW d, NEW c, NEW n
  PROVE  /\ DutySince(q, d, c) => DutySince(q, d, c)'
         /\ NameSince(q, c, n) => NameSince(q, c, n)'
<1>1. \A p \in Duties : dutyPc[p] \in {"log", "ok", "cut"} => dutyPc'[p] \in {"log", "ok", "cut"}
  BY DEF Onward, Duty!Requests
<1>2. \A p \in Renames : dutyPc[p] = "ok" => dutyPc'[p] = "ok"
  BY DEF Onward, Duty!Requests
<1> QED BY <1>1, <1>2 DEF DutySince, NameSince

\* A visit reads one part, its last query that was missing.
LEMMA ReadsOne ==
  ASSUME DutyShape, VisitShape, NEW q \in Duty!Requests, Duty!Read(q)
  PROVE  /\ UNCHANGED <<duty, name, mixed, begun, dutyPc, copy>>
         /\ q \in Visits /\ dutyPc[q] = "reading"
         /\ \A p \in Duty!Requests : p # q => held'[p] = held[p]
         /\ DOMAIN held'[q] = {"from", "parts"} /\ held'[q].from = held[q].from
         /\ \E x \in Parts \ DOMAIN held[q].parts : \E r :
              /\ held'[q].parts = [y \in DOMAIN held[q].parts \cup {x} |->
                                     IF y = x THEN r ELSE held[q].parts[y]]
              /\ r = IF x = "rows" THEN [d \in DOMAIN duty \cap From..To |-> Duty!Row(d)]
                     ELSE Duty!Row(Duty!DateOfPart(q, x))
<1>1. DOMAIN held = Duty!Requests
  BY DEF DutyShape
<1>2. /\ UNCHANGED <<duty, name, mixed, begun, dutyPc, copy>> /\ dutyPc[q] = "reading"
      /\ \A p \in Duty!Requests : p # q => held'[p] = held[p]
  BY <1>1 DEF Duty!Read, Duty!ghosts
<1>3. q \in Visits /\ DOMAIN held[q] = {"from", "parts"}
  BY <1>2 DEF DutyShape, VisitShape
<1>4. PICK x \in Parts \ DOMAIN held[q].parts :
        LET read == IF x = "rows" THEN [d \in DOMAIN duty \cap From..To |-> Duty!Row(d)]
                    ELSE Duty!Row(Duty!DateOfPart(q, x)) IN
        held' = [held EXCEPT ![q].parts =
                   [y \in DOMAIN @ \cup {x} |-> IF y = x THEN read ELSE @[y]]]
  BY Zenon DEF Duty!Read, Parts
<1> DEFINE r == IF x = "rows" THEN [d \in DOMAIN duty \cap From..To |-> Duty!Row(d)]
                ELSE Duty!Row(Duty!DateOfPart(q, x))
<1>5. held' = [held EXCEPT ![q].parts = [y \in DOMAIN held[q].parts \cup {x} |->
                                           IF y = x THEN r ELSE held[q].parts[y]]]
  BY <1>4, Zenon
<1> HIDE DEF r
<1>7. /\ DOMAIN held'[q] = {"from", "parts"} /\ held'[q].from = held[q].from
      /\ held'[q].parts = [y \in DOMAIN held[q].parts \cup {x} |->
                              IF y = x THEN r ELSE held[q].parts[y]]
  BY <1>1, <1>3, <1>5
<1>8. r = IF x = "rows" THEN [d \in DOMAIN duty \cap From..To |-> Duty!Row(d)]
          ELSE Duty!Row(Duty!DateOfPart(q, x))
  BY Zenon DEF r
<1> QED BY <1>2, <1>3, <1>7, <1>8, Zenon

\* The rows of a step that changes neither them nor what the visits read of them.
VisitsKept ==
  /\ UNCHANGED <<duty, name>>
  /\ \A q \in Visits : dutyPc'[q] = "reading" =>
       /\ dutyPc[q] = "reading" /\ begun'[q] = begun[q]
       /\ "rows" \in DOMAIN held'[q].parts =>
            "rows" \in DOMAIN held[q].parts /\ held'[q].parts.rows = held[q].parts.rows
LEMMA VisitsMove ==
  ASSUME DutyShape, VisitShape, [Duty!Next]_(Duty!vars)
  PROVE  \/ VisitsKept
         \/ \E q \in Duty!Requests :
              \/ Duty!SaveDuty(q) \/ Duty!SavePharmacy(q) \/ Duty!BeginVisit(q)
              \/ /\ Duty!Read(q) /\ "rows" \notin DOMAIN held[q].parts
                 /\ "rows" \in DOMAIN held'[q].parts
<1>1. /\ dutyPc \in [Duty!Requests -> Duty!Steps] /\ Visits \subseteq Duty!Requests
      /\ DOMAIN held = Duty!Requests
  BY DEF DutyShape, Duty!Requests
<1>2. ASSUME NEW q \in Duty!Requests,
             \/ Duty!FindPharmacy(q) \/ Duty!FindExisting(q) \/ Duty!LogDuty(q)
             \/ Duty!FindToRename(q) \/ Duty!GetDutyToday(q) \/ Duty!Answer(q) \/ Duty!Fail(q)
      PROVE  VisitsKept
  <2>1. /\ UNCHANGED <<duty, name, begun>>
        /\ \E s : dutyPc' = [dutyPc EXCEPT ![q] = s] /\ s # "reading"
        /\ UNCHANGED held \/ \E h : held' = [held EXCEPT ![q] = h]
    BY <1>2 DEF Duty!FindPharmacy, Duty!FindExisting, Duty!LogDuty, Duty!FindToRename,
         Duty!GetDutyToday, Duty!GetToday, Duty!LogConsulted, Duty!Answer, Duty!Fail, Duty!Goto,
         Duty!ghosts
  <2> QED BY <1>1, <2>1 DEF VisitsKept
<1>3. ASSUME NEW q \in Duty!Requests, Duty!Read(q),
             "rows" \in DOMAIN held[q].parts \/ "rows" \notin DOMAIN held'[q].parts
      PROVE  VisitsKept
  <2>1. /\ UNCHANGED <<duty, name, begun, dutyPc>>
        /\ \A p \in Duty!Requests : p # q => held'[p] = held[p]
    BY <1>3, ReadsOne
  <2>2. PICK x \in Parts \ DOMAIN held[q].parts : \E r :
          /\ held'[q].parts = [y \in DOMAIN held[q].parts \cup {x} |->
                                 IF y = x THEN r ELSE held[q].parts[y]]
          /\ r = IF x = "rows" THEN [d \in DOMAIN duty \cap From..To |-> Duty!Row(d)]
                 ELSE Duty!Row(Duty!DateOfPart(q, x))
    BY <1>3, ReadsOne, Zenon
  <2> QED BY <1>1, <1>3, <2>1, <2>2 DEF VisitsKept
<1>4. CASE Duty!Restart
  BY <1>1, <1>4 DEF Duty!Restart, Duty!AtWork, Duty!Final, Duty!ghosts, VisitsKept
<1>5. CASE Duty!NextDay \/ UNCHANGED Duty!vars
  BY <1>1, <1>5 DEF Duty!NextDay, Duty!vars, Duty!ghosts, VisitsKept
<1> QED BY <1>2, <1>3, <1>4, <1>5 DEF Duty!Next, Duty!Serve, Duty!UpdateDutyByDate,
        Duty!UpdatePharmacy, Duty!GetBootstrap

\* A change that comes after the visit began is not one of those answered before it.
LEMMA VisitsStep ==
  ASSUME DutyShape, VisitShape, AnsweredIsThere, VisitsAreCurrent, [Duty!Next]_(Duty!vars)
  PROVE  VisitsAreCurrent'
<1>1. /\ dutyPc \in [Duty!Requests -> Duty!Steps] /\ mixed \subseteq mixed' /\ Onward
      /\ Visits \subseteq Duty!Requests /\ DOMAIN held = Duty!Requests /\ DOMAIN begun = Visits
      /\ DOMAIN name = Codes /\ \A d \in DOMAIN duty : duty[d] \in Codes
  BY OnwardStep DEF DutyShape, VisitShape, Onward, Duty!Requests
<1> DEFINE
  PDutySince(q, d, c) ==
    \/ c = begun'[q].duty[d]
    \/ \E p \in Duties \ begun'[q].done :
         DateOf[p] = d /\ CodeOf[p] = c /\ dutyPc'[p] \in {"log", "ok", "cut"}
  PNameSince(q, c, n) ==
    n = begun'[q].name[c] \/ \E p \in Renames \ begun'[q].done :
      p = n /\ CodeOf[p] = c /\ dutyPc'[p] = "ok"
  Current(q) ==
    /\ \A p \in begun'[q].done : p \in Duty!Requests /\ dutyPc'[p] = "ok"
    /\ DOMAIN begun'[q].duty \subseteq DOMAIN duty'
    /\ \A d \in DOMAIN begun'[q].duty \ mixed' : PDutySince(q, d, duty'[d])
    /\ \A c \in Codes : PNameSince(q, c, name'[c])
    /\ "rows" \in DOMAIN held'[q].parts =>
         \A d \in DOMAIN begun'[q].duty \cap From..To :
           /\ d \in DOMAIN held'[q].parts.rows
           /\ d \notin mixed' => PDutySince(q, d, held'[q].parts.rows[d].code)
           /\ PNameSince(q, held'[q].parts.rows[d].code, held'[q].parts.rows[d].name)
  Stays(q) == /\ dutyPc[q] = "reading" /\ begun'[q] = begun[q]
              /\ "rows" \in DOMAIN held'[q].parts =>
                   "rows" \in DOMAIN held[q].parts /\ held'[q].parts.rows = held[q].parts.rows
<1>2. (\A q \in Visits : dutyPc'[q] = "reading" => Current(q)) => VisitsAreCurrent'
  BY DEF VisitsAreCurrent, DutySince, NameSince
\* What is known of a visit that goes on.
<1>3. ASSUME NEW q \in Visits, dutyPc[q] = "reading", begun'[q] = begun[q]
      PROVE  /\ \A p \in begun'[q].done :
                  p \in Duty!Requests /\ dutyPc[p] = "ok" /\ dutyPc'[p] = "ok"
             /\ DOMAIN begun'[q].duty \subseteq DOMAIN duty
             /\ \A d \in DOMAIN begun'[q].duty \ mixed' : PDutySince(q, d, duty[d])
             /\ \A c \in Codes : PNameSince(q, c, name[c])
             /\ "rows" \in DOMAIN held[q].parts =>
                  \A d \in DOMAIN begun'[q].duty \cap From..To :
                    /\ d \in DOMAIN held[q].parts.rows
                    /\ d \notin mixed' => PDutySince(q, d, held[q].parts.rows[d].code)
                    /\ PNameSince(q, held[q].parts.rows[d].code, held[q].parts.rows[d].name)
  <2>1. \A d, c : DutySince(q, d, c) => PDutySince(q, d, c)
    BY <1>1, <1>3, SinceStays DEF DutySince
  <2>2. \A c, n : NameSince(q, c, n) => PNameSince(q, c, n)
    BY <1>1, <1>3, SinceStays DEF NameSince
  <2>3. /\ \A p \in begun[q].done : p \in Duty!Requests /\ dutyPc[p] = "ok"
        /\ DOMAIN begun[q].duty \subseteq DOMAIN duty
        /\ \A d \in DOMAIN begun[q].duty \ mixed : DutySince(q, d, duty[d])
        /\ \A c \in Codes : NameSince(q, c, name[c])
        /\ "rows" \in DOMAIN held[q].parts =>
             \A d \in DOMAIN begun[q].duty \cap From..To :
               /\ d \in DOMAIN held[q].parts.rows
               /\ d \notin mixed => DutySince(q, d, held[q].parts.rows[d].code)
               /\ NameSince(q, held[q].parts.rows[d].code, held[q].parts.rows[d].name)
    BY <1>3 DEF VisitsAreCurrent
  <2>4. \A p \in begun[q].done : dutyPc'[p] = "ok"
    BY <1>1, <2>3 DEF Onward
  <2> HIDE DEF PDutySince, PNameSince
  <2> QED BY <1>1, <1>3, <2>1, <2>2, <2>3, <2>4
<1>4. CASE VisitsKept
  <2> HIDE DEF PDutySince, PNameSince
  <2> QED BY <1>2, <1>3, <1>4 DEF VisitsKept
<1>5. ASSUME NEW w \in Duty!Requests, Duty!SaveDuty(w) PROVE VisitsAreCurrent'
  <2>1. /\ dutyPc[w] = "save" /\ dutyPc' = [dutyPc EXCEPT ![w] = "log"]
        /\ UNCHANGED <<name, held, begun>>
        /\ DOMAIN duty' = DOMAIN duty \cup {DateOf[w]} /\ duty'[DateOf[w]] = CodeOf[w]
        /\ \A d \in DOMAIN duty : d # DateOf[w] => duty'[d] = duty[d]
    BY <1>5 DEF Duty!SaveDuty, Duty!Goto, Duty!ghosts
  <2>2. w \in Duties /\ dutyPc'[w] = "log"
    BY <1>1, <2>1 DEF DutyShape, Busy
  <2> SUFFICES ASSUME NEW q \in Visits, dutyPc'[q] = "reading" PROVE Current(q)
    BY <1>2
  <2>3. dutyPc[q] = "reading" /\ w \notin begun'[q].done
    BY <1>1, <1>3, <2>1
  <2>4. PDutySince(q, DateOf[w], CodeOf[w])
    BY <2>2, <2>3
  <2> HIDE DEF PDutySince, PNameSince
  <2> QED BY <1>3, <2>1, <2>3, <2>4
<1>6. ASSUME NEW w \in Duty!Requests, Duty!SavePharmacy(w) PROVE VisitsAreCurrent'
  <2>1. /\ dutyPc[w] = "rename" /\ dutyPc' = [dutyPc EXCEPT ![w] = "ok"]
        /\ UNCHANGED <<duty, held, begun>> /\ name' = [name EXCEPT ![CodeOf[w]] = w]
    BY <1>6 DEF Duty!SavePharmacy, Duty!Goto
  <2>2. w \in Renames /\ dutyPc'[w] = "ok"
    BY <1>1, <2>1 DEF DutyShape
  <2> SUFFICES ASSUME NEW q \in Visits, dutyPc'[q] = "reading" PROVE Current(q)
    BY <1>2
  <2>3. dutyPc[q] = "reading" /\ w \notin begun'[q].done
    BY <1>1, <1>3, <2>1
  <2>4. PNameSince(q, CodeOf[w], w)
    BY <2>2, <2>3
  <2>5. \A c \in Codes : name'[c] = IF c = CodeOf[w] THEN w ELSE name[c]
    BY <1>1, <2>1
  <2> HIDE DEF PDutySince, PNameSince
  <2> QED BY <1>3, <2>1, <2>3, <2>4, <2>5
<1>7. ASSUME NEW w \in Duty!Requests, Duty!BeginVisit(w) PROVE VisitsAreCurrent'
  <2>1. /\ w \in Visits /\ UNCHANGED <<duty, name, answered, mixed>>
        /\ dutyPc[w] = "new" /\ dutyPc' = [dutyPc EXCEPT ![w] = "reading"]
        /\ held' = [held EXCEPT ![w] = [from |-> today, parts |-> << >>]]
        /\ begun' = [begun EXCEPT ![w] = [duty |-> answered.duty, name |-> answered.name,
                                done |-> {p \in Duties \cup Renames : dutyPc[p] = "ok"}]]
    BY <1>7 DEF Duty!BeginVisit, Duty!Goto
  <2>2. /\ begun'[w].duty = answered.duty /\ begun'[w].name = name
        /\ begun'[w].done = {p \in Duties \cup Renames : dutyPc[p] = "ok"}
    BY <1>1, <2>1 DEF AnsweredIsThere
  <2>3. DOMAIN held'[w].parts = {}
    <3>1. held'[w].parts = << >>
      BY <1>1, <2>1
    <3> QED BY <3>1, EmptyTable
  <2>4. Duties \subseteq Duty!Requests /\ Renames \subseteq Duty!Requests
    BY DEF Duty!Requests
  <2>5. \A d \in DOMAIN begun'[w].duty \ mixed' : PDutySince(w, d, duty'[d])
    <3> SUFFICES ASSUME NEW d \in DOMAIN answered.duty \ mixed, duty[d] # answered.duty[d]
                 PROVE  PDutySince(w, d, duty[d])
      BY <2>1, <2>2
    <3>1. PICK p \in Duties : /\ DateOf[p] = d /\ CodeOf[p] = duty[d]
                              /\ dutyPc[p] \in {"log", "cut"}
      BY DEF AnsweredIsThere
    <3>2. p \notin begun'[w].done /\ dutyPc'[p] \in {"log", "cut"}
      BY <1>1, <2>1, <2>2, <2>4, <3>1
    <3> QED BY <3>1, <3>2
  <2>6. Current(w)
    <3>1. \A p \in begun'[w].done : p \in Duty!Requests /\ dutyPc'[p] = "ok"
      BY <1>1, <2>1, <2>2, <2>4
    <3> QED BY <2>1, <2>2, <2>3, <2>5, <3>1 DEF AnsweredIsThere
  <2>7. \A q \in Visits : q # w /\ dutyPc'[q] = "reading" =>
          dutyPc[q] = "reading" /\ begun'[q] = begun[q] /\ held'[q] = held[q]
    BY <1>1, <2>1
  <2>8. UNCHANGED <<duty, name>>
    BY <2>1
  <2>9. \A q \in Visits : q # w /\ dutyPc'[q] = "reading" => Current(q)
    <3> HIDE DEF PDutySince, PNameSince
    <3> QED BY <1>3, <2>7, <2>8
  <2> HIDE DEF Current
  <2> QED BY <1>2, <2>6, <2>9
<1>8. ASSUME NEW w \in Duty!Requests, Duty!Read(w), "rows" \notin DOMAIN held[w].parts,
             "rows" \in DOMAIN held'[w].parts
      PROVE  VisitsAreCurrent'
  <2>1. /\ UNCHANGED <<duty, name, mixed, begun, dutyPc>> /\ dutyPc[w] = "reading"
        /\ \A p \in Duty!Requests : p # w => held'[p] = held[p]
    BY <1>8, ReadsOne
  <2>2. w \in Visits
    BY <1>8, ReadsOne
  <2>3. PICK x \in Parts \ DOMAIN held[w].parts : \E r :
          /\ held'[w].parts = [y \in DOMAIN held[w].parts \cup {x} |->
                                 IF y = x THEN r ELSE held[w].parts[y]]
          /\ r = IF x = "rows" THEN [d \in DOMAIN duty \cap From..To |-> Duty!Row(d)]
                 ELSE Duty!Row(Duty!DateOfPart(w, x))
    BY <1>8, ReadsOne, Zenon
  <2>4. x = "rows"
    BY <1>8, <2>3
  <2>5. held'[w].parts.rows = [d \in DOMAIN duty \cap From..To |-> Duty!Row(d)]
    BY <2>3, <2>4
  <2>6. \A d \in DOMAIN duty \cap From..To :
          held'[w].parts.rows[d].code = duty[d] /\ held'[w].parts.rows[d].name = name[duty[d]]
    BY <2>5 DEF Duty!Row
  <2>7. \A q \in Visits : q # w /\ dutyPc'[q] = "reading" =>
          dutyPc[q] = "reading" /\ begun'[q] = begun[q] /\ held'[q] = held[q]
    BY <1>1, <2>1
  <2> HIDE DEF PDutySince, PNameSince
  <2>8. Current(w)
    BY <1>1, <1>3, <2>1, <2>2, <2>5, <2>6
  <2> QED BY <1>2, <1>3, <2>1, <2>7, <2>8
<1> QED BY <1>4, <1>5, <1>6, <1>7, <1>8, VisitsMove

LEMMA LastOfMany ==
  ASSUME NEW n \in Nat, NEW I \in SUBSET (1..n), I # {}
  PROVE  \E i \in I : \A j \in I : j <= i
<1> DEFINE T == {n - i : i \in I}
           R == OpToRel(<, Nat)
<1>1. T \subseteq Nat /\ T # {}
  <2>1. \A i \in 1..n : n - i \in Nat
    OBVIOUS
  <2>2. PICK i \in I : TRUE
    OBVIOUS
  <2>3. n - i \in T
    OBVIOUS
  <2> QED BY <2>1, <2>3
<1>2. \A x, y \in Nat : y < x => <<y, x>> \in R
  BY DEF OpToRel
<1>3. PICK x \in T : \A y \in T : ~(<<y, x>> \in R)
  <2> HIDE DEF T, R
  <2>1. IsWellFoundedOn(R, Nat)
    BY NatLessThanWellFounded DEF R
  <2> QED BY <1>1, <2>1, WFMin
<1>4. PICK i \in I : x = n - i
  OBVIOUS
<1>5. \A j \in I : n - j \in T /\ ~(n - j < x)
  BY <1>1, <1>2, <1>3
<1>6. \A a, b \in 1..n : ~(n - b < n - a) => b <= a
  OBVIOUS
<1> QED BY <1>4, <1>5, <1>6

\* The page of a visit that read all its parts is whole, whatever they are.
LEMMA PageIsWholeOfParts ==
  ASSUME NEW parts, \A x \in Duty!Preview : parts[x] \in Shows,
         \A d \in DOMAIN parts.rows : parts.rows[d] \in Shows
  PROVE  Whole(Duty!Page(parts))
<1> DEFINE s == Duty!Shown(parts)
           n == To - From + 1
<1>1. From \in Nat /\ To \in Nat /\ n \in Nat /\ Duty!None \notin Codes
  BY FarmaciasHolds DEF Duty!FarmaciasAssumption
<1>2. s \in Seq(Shows)
  <2> DEFINE inRange == [k \in 1..n |->
                           IF From + k - 1 \in DOMAIN parts.rows THEN parts.rows[From + k - 1]
                           ELSE Duty!NoRow]
             preview == <<parts.today, parts.tomorrow, parts.dayAfterTomorrow>>
  <2>1. inRange \in [1..n -> Shows]
    BY DEF Shows
  <2>2. inRange \in Seq(Shows)
    BY <1>1, <2>1
  <2>3. preview \in Seq(Shows)
    BY DEF Duty!Preview
  <2>4. s = inRange \o preview
    BY DEF Duty!Shown
  <2> HIDE DEF inRange, preview, s
  <2> QED BY <2>2, <2>3, <2>4
<1> HIDE DEF s, n
<1>3. Len(s) \in Nat /\ DOMAIN s = 1..Len(s) /\ \A i \in DOMAIN s : s[i] \in Shows
  BY <1>2
<1> DEFINE fs == {s[i] : i \in {k \in DOMAIN s : /\ s[k] # Duty!NoRow
                               /\ \A j \in DOMAIN s : j > k => s[j].code # s[k].code}}
<1>4. Duty!Page(parts).parts = parts /\ Duty!Page(parts).pharmacies = fs
  BY DEF Duty!Page, Duty!Pharmacies, s
<1>5. ASSUME NEW i \in DOMAIN s, s[i] # Duty!NoRow
      PROVE  \E f \in fs : f.code = s[i].code
  <2>1. s[i].code \in Codes
    BY <1>3, <1>5 DEF Shows, Named
  <2> DEFINE I == {k \in DOMAIN s : s[k].code = s[i].code}
  <2>2. I \in SUBSET (1..Len(s)) /\ I # {}
    BY <1>3
  <2>3. PICK k \in I : \A j \in I : j <= k
    <3> HIDE DEF I
    <3> QED BY <1>3, <2>2, LastOfMany
  <2>4. s[k] # Duty!NoRow
    BY <1>1, <2>1, <2>3 DEF Duty!NoRow
  <2>5. \A j \in DOMAIN s : j > k => s[j].code # s[k].code
    BY <1>3, <2>3
  <2> QED BY <2>3, <2>4, <2>5
<1>6. ASSUME NEW f \in fs, NEW g \in fs, f.code = g.code PROVE f = g
  <2>1. PICK i \in DOMAIN s : f = s[i] /\ \A j \in DOMAIN s : j > i => s[j].code # s[i].code
    OBVIOUS
  <2>2. PICK j \in DOMAIN s : g = s[j] /\ \A k \in DOMAIN s : k > j => s[k].code # s[j].code
    OBVIOUS
  <2>3. ~(j > i) /\ ~(i > j)
    BY <1>6, <2>1, <2>2
  <2> QED BY <1>3, <2>1, <2>2, <2>3
<1> HIDE DEF fs
<1>7. \A r \in Duty!Range(s) \ {Duty!NoRow} : \E f \in fs : f.code = r.code
  BY <1>5 DEF Duty!Range
<1> QED BY <1>4, <1>6, <1>7 DEF Whole, s

\* What a visit holds is what rows say, and a page that is kept was whole.
LEMMA VisitShapeStep ==
  ASSUME DutyShape, VisitShape, [Duty!Next]_(Duty!vars)
  PROVE  VisitShape'
<1>1. /\ dutyPc \in [Duty!Requests -> Duty!Steps] /\ Visits \subseteq Duty!Requests
      /\ DOMAIN held = Duty!Requests /\ DOMAIN begun = Visits /\ DOMAIN copy = Duty!Visitors
      /\ today \in Nat
  <2>1. \A a, b \in Nat : \A n \in a..b : n \in Nat
    OBVIOUS
  <2>2. From \in Nat /\ LastDay \in Nat
    BY FarmaciasHolds DEF Duty!FarmaciasAssumption
  <2> QED BY <2>1, <2>2 DEF DutyShape, VisitShape, Duty!Requests
<1>2. \A d : Duty!Row(d) \in Shows
  BY DEF DutyShape, Duty!Row, Shows, Named
<1> DEFINE
  Formed(h) == /\ h.from \in Nat /\ DOMAIN h = {"from", "parts"} /\ DOMAIN h.parts \subseteq Parts
               /\ \A x \in Duty!Preview \cap DOMAIN h.parts : h.parts[x] \in Shows
               /\ "rows" \in DOMAIN h.parts => \A d \in DOMAIN h.parts.rows :
                    h.parts.rows[d] \in Shows
  Kept == /\ UNCHANGED copy /\ DOMAIN begun' = DOMAIN begun
          /\ \A q \in Visits : dutyPc'[q] = "reading" => dutyPc[q] = "reading" /\ held'[q] = held[q]
<1>3. /\ \A q \in Visits : dutyPc[q] = "reading" => Formed(held[q])
      /\ \A v \in Duty!Visitors : copy[v] # << >> => Whole(copy[v].page)
  BY DEF VisitShape
<1>4. ASSUME DOMAIN begun' = Visits, DOMAIN copy' = Duty!Visitors,
             \A q \in Visits : dutyPc'[q] = "reading" => Formed(held'[q]),
             \A v \in Duty!Visitors : copy'[v] # << >> => Whole(copy'[v].page)
      PROVE  VisitShape'
  BY <1>4 DEF VisitShape, Whole
<1>5. CASE Kept
  <2> HIDE DEF Formed
  <2> QED BY <1>1, <1>3, <1>4, <1>5
<1>6. ASSUME NEW q \in Duty!Requests,
             \/ Duty!UpdateDutyByDate(q) \/ Duty!UpdatePharmacy(q) \/ Duty!GetDutyToday(q)
             \/ Duty!Fail(q)
      PROVE  Kept
  <2>1. /\ UNCHANGED <<copy, begun>> /\ \E s : dutyPc' = [dutyPc EXCEPT ![q] = s] /\ s # "reading"
        /\ UNCHANGED held \/ \E h : held' = [held EXCEPT ![q] = h]
    BY <1>6 DEF Duty!UpdateDutyByDate, Duty!FindPharmacy, Duty!FindExisting, Duty!SaveDuty,
         Duty!LogDuty, Duty!UpdatePharmacy, Duty!FindToRename, Duty!SavePharmacy,
         Duty!GetDutyToday, Duty!GetToday, Duty!LogConsulted, Duty!Fail, Duty!Goto, Duty!ghosts
  <2> QED BY <1>1, <2>1
<1>7. ASSUME NEW q \in Duty!Requests, Duty!BeginVisit(q) PROVE VisitShape'
  <2>1. /\ UNCHANGED copy /\ DOMAIN begun' = Visits
        /\ dutyPc' = [dutyPc EXCEPT ![q] = "reading"]
        /\ held' = [held EXCEPT ![q] = [from |-> today, parts |-> << >>]]
    BY <1>1, <1>7 DEF Duty!BeginVisit, Duty!Goto
  <2>2. /\ held'[q].from = today /\ DOMAIN held'[q] = {"from", "parts"}
        /\ held'[q].parts = << >>
    BY <1>1, <2>1
  <2>3. DOMAIN held'[q].parts = {}
    BY <2>2, EmptyTable
  <2>4. Formed(held'[q])
    BY <1>1, <2>2, <2>3
  <2>5. \A p \in Visits : p # q /\ dutyPc'[p] = "reading" =>
          dutyPc[p] = "reading" /\ held'[p] = held[p]
    BY <1>1, <2>1
  <2> HIDE DEF Formed
  <2>6. \A p \in Visits : dutyPc'[p] = "reading" => Formed(held'[p])
    BY <1>3, <2>4, <2>5
  <2> QED BY <1>1, <1>3, <1>4, <2>1, <2>6
<1>8. ASSUME NEW q \in Duty!Requests, Duty!Read(q) PROVE VisitShape'
  <2>1. /\ UNCHANGED <<begun, dutyPc, copy>> /\ q \in Visits /\ dutyPc[q] = "reading"
        /\ \A p \in Duty!Requests : p # q => held'[p] = held[p]
        /\ DOMAIN held'[q] = {"from", "parts"} /\ held'[q].from = held[q].from
    BY <1>8, ReadsOne
  <2>2. PICK x \in Parts \ DOMAIN held[q].parts : \E r :
          /\ held'[q].parts = [y \in DOMAIN held[q].parts \cup {x} |->
                                 IF y = x THEN r ELSE held[q].parts[y]]
          /\ r = IF x = "rows" THEN [d \in DOMAIN duty \cap From..To |-> Duty!Row(d)]
                 ELSE Duty!Row(Duty!DateOfPart(q, x))
    BY <1>8, ReadsOne, Zenon
  <2>3. /\ DOMAIN held'[q].parts = DOMAIN held[q].parts \cup {x}
        /\ \A y \in DOMAIN held[q].parts : held'[q].parts[y] = held[q].parts[y]
        /\ x = "rows" => held'[q].parts[x] = [d \in DOMAIN duty \cap From..To |-> Duty!Row(d)]
        /\ x # "rows" => held'[q].parts[x] = Duty!Row(Duty!DateOfPart(q, x))
    BY <2>2
  <2>4. x = "rows" => \A d \in DOMAIN held'[q].parts.rows : held'[q].parts.rows[d] \in Shows
    BY <1>2, <2>3
  <2>5. Formed(held[q])
    BY <1>3, <2>1
  <2>6. "rows" \notin Duty!Preview
    BY DEF Duty!Preview
  <2>7. x # "rows" => held'[q].parts[x] \in Shows
    BY <1>2, <2>3
  <2>8. "rows" \in DOMAIN held[q].parts => held'[q].parts.rows = held[q].parts.rows
    BY <2>3
  <2>9. \A y \in Duty!Preview \cap DOMAIN held'[q].parts : held'[q].parts[y] \in Shows
    BY <2>3, <2>5, <2>6, <2>7
  <2>10. "rows" \in DOMAIN held'[q].parts => \A d \in DOMAIN held'[q].parts.rows :
           held'[q].parts.rows[d] \in Shows
    BY <2>3, <2>4, <2>5, <2>8
  <2>11. Formed(held'[q])
    BY <2>1, <2>3, <2>5, <2>9, <2>10
  <2> HIDE DEF Formed
  <2>12. \A p \in Visits : dutyPc'[p] = "reading" => Formed(held'[p])
    BY <1>1, <1>3, <2>1, <2>11
  <2> QED BY <1>1, <1>3, <1>4, <2>1, <2>12
<1>9. ASSUME NEW q \in Duty!Requests, Duty!Answer(q) PROVE VisitShape'
  <2> DEFINE v == VisitorOf[q]
             page == Duty!Page(held[q].parts)
  <2>1. /\ UNCHANGED <<held, begun>> /\ dutyPc[q] = "reading"
        /\ DOMAIN held[q].parts = Duty!Preview \cup {"rows"}
        /\ \E s \in {"ok", "304"} : dutyPc' = [dutyPc EXCEPT ![q] = s]
        /\ \/ UNCHANGED copy
           \/ copy' = [copy EXCEPT ![v] = [seed |-> revision, page |-> page]]
    <3> HIDE DEF page, v
    <3> QED BY <1>9 DEF Duty!Answer, Duty!Goto, Duty!ghosts, page, v
  <2>2. q \in Visits
    BY <2>1 DEF DutyShape
  <2>3. Whole(page)
    BY <1>3, <2>1, <2>2, PageIsWholeOfParts
  <2> HIDE DEF page, v
  <2>4. /\ DOMAIN copy' = DOMAIN copy
        /\ \A w \in Duty!Visitors : copy'[w] = copy[w] \/ copy'[w].page = page
    BY <1>1, <2>1
  <2>5. \A w \in Duty!Visitors : copy'[w] # << >> => Whole(copy'[w].page)
    BY <1>3, <2>3, <2>4
  <2>6. \A p \in Visits : dutyPc'[p] = "reading" => dutyPc[p] = "reading" /\ held'[p] = held[p]
    BY <1>1, <2>1
  <2> HIDE DEF Formed
  <2> QED BY <1>1, <1>3, <1>4, <2>1, <2>4, <2>5, <2>6
<1>10. CASE Duty!Restart
  BY <1>1, <1>5, <1>10 DEF Duty!Restart, Duty!AtWork, Duty!Final, Duty!ghosts
<1>11. CASE Duty!NextDay \/ UNCHANGED Duty!vars
  BY <1>1, <1>5, <1>11 DEF Duty!NextDay, Duty!vars, Duty!ghosts
<1> QED BY <1>5, <1>6, <1>7, <1>8, <1>9, <1>10, <1>11 DEF Duty!Next, Duty!Serve,
        Duty!GetBootstrap

LEMMA DutyNext == DutyInv /\ [Duty!Next]_(Duty!vars) => DutyInv'
BY DutyShapeStep, VisitShapeStep, TurnsStep, SavedStep, LogFollowsStep, AnsweredStep, VisitsStep
   DEF DutyInv

LEMMA DutyInductive == Duty!Spec => []DutyInv
BY DutyInit, DutyNext, PTL DEF Duty!Spec

LEMMA DutySaysSo == DutyInv => LogExplainsDuty
<1> SUFFICES ASSUME DutyInv PROVE LogExplainsDuty
  OBVIOUS
<1>1. Duty!TypeOK
  <2>1. /\ \A d \in DOMAIN duty : duty[d] \in Codes
        /\ DOMAIN name = Codes /\ today \in From..LastDay /\ revision \in Nat
        /\ dutyPc \in [Duty!Requests -> Duty!Steps] /\ log \in Seq(Ledger)
    BY DEF DutyInv, DutyShape
  <2>2. \A q \in Visits : dutyPc[q] = "reading" =>
          DOMAIN held[q].parts \subseteq Duty!Preview \cup {"rows"}
    BY DEF DutyInv, VisitShape, Parts
  <2>3. \A i \in DOMAIN log : log[i] \in Ledger
    BY <2>1
  <2>4. \A i \in DOMAIN log : log[i][3] \in Codes
    BY <2>3 DEF Ledger
  <2> QED BY <2>1, <2>2, <2>4 DEF Duty!TypeOK
<1>2. Duty!LogExplainsDuty
  <2> SUFFICES ASSUME faults + restarts = 0, NEW d \in DOMAIN duty \ mixed
               PROVE  /\ Chained(log, d)
                      /\ (\A q \in Duties : DateOf[q] = d => ~Duty!AtWork(q)) =>
                           LastIs(log, d, duty[d])
    BY DEF Duty!LogExplainsDuty, Chained, LastIs, Entries
  <2>1. d \in Nat \ mixed
    BY DEF DutyInv, DutyShape
  <2>2. \A q \in Duties : ~Duty!AtWork(q) => dutyPc[q] # "log"
    BY DEF Duty!AtWork, Duty!Final
  <2> QED BY <2>1, <2>2 DEF DutyInv, LogFollows
<1> QED BY <1>1, <1>2 DEF LogExplainsDuty

\* What an answered visit leaves at its visitor is the page it read, 304 or not.
LEMMA AnsweredPage ==
  ASSUME DutyInv, [Duty!Next]_(Duty!vars), NEW q \in Visits, dutyPc[q] = "reading",
         dutyPc'[q] \in {"ok", "304"}
  PROVE  /\ copy'[VisitorOf[q]].page.parts = held[q].parts
         /\ "rows" \in DOMAIN held[q].parts
<1>1. /\ dutyPc \in [Duty!Requests -> Duty!Steps] /\ q \in Duty!Requests
      /\ DOMAIN copy = Duty!Visitors /\ VisitorOf[q] \in Duty!Visitors
  BY DEF DutyInv, DutyShape, VisitShape, Duty!Requests, Duty!Visitors
<1>2. ASSUME NEW p \in Duty!Requests, Duty!Serve(p) PROVE p = q /\ Duty!Answer(q)
  <2>1. CASE p # q
    <3>1. UNCHANGED dutyPc \/ \E s : dutyPc' = [dutyPc EXCEPT ![p] = s]
      BY <1>2 DEF Duty!Serve, Duty!UpdateDutyByDate, Duty!FindPharmacy, Duty!FindExisting,
         Duty!SaveDuty, Duty!LogDuty, Duty!UpdatePharmacy, Duty!FindToRename,
         Duty!SavePharmacy, Duty!GetDutyToday, Duty!GetToday, Duty!LogConsulted,
         Duty!GetBootstrap, Duty!BeginVisit, Duty!Read, Duty!Answer, Duty!Fail, Duty!Goto
    <3> QED BY <1>1, <2>1, <3>1
  <2>2. CASE p = q
    <3>1. Duty!Read(q) \/ Duty!Answer(q)
      BY <1>2, <2>2 DEF Duty!Serve, Duty!UpdateDutyByDate, Duty!FindPharmacy,
         Duty!FindExisting, Duty!SaveDuty, Duty!LogDuty, Duty!UpdatePharmacy,
         Duty!FindToRename, Duty!SavePharmacy, Duty!GetDutyToday, Duty!GetToday,
         Duty!LogConsulted, Duty!GetBootstrap, Duty!BeginVisit, Duty!Fail
    <3>2. Duty!Read(q) => UNCHANGED dutyPc
      BY DEF Duty!Read
    <3> QED BY <2>2, <3>1, <3>2
  <2> QED BY <2>1, <2>2
<1>3. ~Duty!Restart
  BY <1>1 DEF Duty!Restart, Duty!AtWork, Duty!Final
<1>4. ~Duty!NextDay /\ ~UNCHANGED Duty!vars
  BY DEF Duty!NextDay, Duty!vars
<1>5. Duty!Answer(q)
  BY <1>2, <1>3, <1>4 DEF Duty!Next
<1> DEFINE v == VisitorOf[q]
           page == Duty!Page(held[q].parts)
<1>6. \/ UNCHANGED copy /\ Duty!Etag(copy[v].seed, copy[v].page) = Duty!Etag(revision, page)
      \/ copy' = [copy EXCEPT ![v] = [seed |-> revision, page |-> page]]
  <2> HIDE DEF v, page
  <2> QED BY <1>5 DEF Duty!Answer, v, page
<1>7. copy'[v].page = page
  <2> HIDE DEF page
  <2> QED BY <1>1, <1>6 DEF Duty!Etag
<1>8. page.parts = held[q].parts
  BY DEF Duty!Page
<1> QED BY <1>5, <1>7, <1>8 DEF Duty!Answer

LEMMA DutyShownStep ==
  DutyInv /\ DutyInv' /\ [Duty!Next]_(Duty!vars) => Duty!VisitIsCurrent /\ Duty!PageIsWhole'
<1> SUFFICES ASSUME DutyInv, DutyInv', [Duty!Next]_(Duty!vars)
             PROVE  Duty!VisitIsCurrent /\ Duty!PageIsWhole'
  OBVIOUS
<1>1. Duty!PageIsWhole'
  BY DEF DutyInv, VisitShape, Whole, Duty!PageIsWhole
<1>2. Duty!VisitIsCurrent
  <2> SUFFICES ASSUME NEW q \in Visits, dutyPc[q] = "reading", dutyPc'[q] \in {"ok", "304"},
                      NEW d \in DOMAIN begun[q].duty \cap From..To
               PROVE  LET page == copy'[VisitorOf[q]].page IN
                      /\ d \in DOMAIN page.parts.rows
                      /\ LET r == page.parts.rows[d] IN
                         /\ d \notin mixed => DutySince(q, d, r.code)
                         /\ NameSince(q, r.code, r.name)
    BY DEF Duty!VisitIsCurrent, DutySince, NameSince
  <2>1. /\ copy'[VisitorOf[q]].page.parts = held[q].parts
        /\ "rows" \in DOMAIN held[q].parts
    BY AnsweredPage
  <2>2. /\ d \in DOMAIN held[q].parts.rows
        /\ d \notin mixed => DutySince(q, d, held[q].parts.rows[d].code)
        /\ NameSince(q, held[q].parts.rows[d].code, held[q].parts.rows[d].name)
    BY <2>1 DEF DutyInv, VisitsAreCurrent
  <2> QED BY <2>1, <2>2
<1> QED BY <1>1, <1>2

\* The duties are a component of the officials' work as well.
LEMMA DutyIsAPart == OfficialsSpec => Duty!Spec
<1>1. OfficialsInit => Duty!Init
  BY DEF OfficialsInit
<1>2. [OfficialsNext]_<<active, vars, configVars, qrVars, dutyVars, calendarVars, listVars,
                        rangeVars, logVars>>
        => [Duty!Next]_(Duty!vars)
  <2>1. DutyStep => Duty!Next
    BY DEF DutyStep, Duty!Next
  <2>2. UNCHANGED dutyVars => UNCHANGED Duty!vars
    BY DEF dutyVars, Duty!vars, Duty!ghosts
  <2> QED BY <2>1, <2>2 DEF OfficialsNext, KindStep, ConfigStep, QrStep, CalendarStep, ListStep,
                            RangeStep, LogStep
<1> QED BY <1>1, <1>2, PTL DEF OfficialsSpec, Duty!Spec

\* Without failures and restarts the log explains every duty that no two requests changed at
\* once, for any requests and pharmacies: each entry begins where the one before it ended.
THEOREM LogExplainsDutyHolds ==
  (Duty!Spec => []LogExplainsDuty) /\ (OfficialsSpec => []LogExplainsDuty)
<1>1. Duty!Spec => []LogExplainsDuty
  BY DutyInductive, DutySaysSo, PTL
<1> QED BY <1>1, DutyIsAPart, PTL

\* An answered visit shows nothing older than what was answered before it began, across
\* restarts and failures too, and the page it leaves is whole.
THEOREM VisitorSeesChangesHolds ==
  (Duty!Spec => VisitorSeesChanges) /\ (OfficialsSpec => VisitorSeesChanges)
<1>1. DutyInv /\ DutyInv' /\ [Duty!Next]_(Duty!vars)
        => [Duty!VisitIsCurrent /\ Duty!PageIsWhole']_dutyVars
  BY DutyShownStep
<1>2. Duty!Spec => VisitorSeesChanges
  BY <1>1, DutyInductive, PTL DEF Duty!Spec, VisitorSeesChanges
<1> QED BY <1>2, DutyIsAPart, PTL

----------------------------------------------------------------------------
(* QrTracking: the slugs and the scans. *)

\* A literal is not known to the provers to be a member of STRING.
AWord == STRING \cup {"qr", "link"}
Slugs == {s \in Seq(AWord) : Len(s) \in 1..MaxLength}
Attempts == 0..MaxAttempts - 1
Prints == [slug : Slugs, target : Nat]
Code == [slug : Slugs, target : Nat, scans : Nat, scanned : Int, live : BOOLEAN]
Creation == [step : {"save"}, name : QrNames, attempt : Attempts, target : Nat]
Creates(o) == creating[o] # Qr!Idle
Redirect == [step : {"increment", "date"}, code : DOMAIN codes, at : 0..now, count : Nat]

QrShape ==
  /\ now \in Nat /\ lastCode \in Nat /\ deletes \in Nat
  /\ codes \in Seq(Code)
  /\ \A i \in DOMAIN codes : codes[i].scanned \in {Qr!Never} \cup 0..now
  /\ creating \in [Officials -> {Qr!Idle} \cup Creation]
  /\ scan \in [Scanners -> {Qr!Idle} \cup Redirect]
  /\ printed \in SUBSET Prints /\ IsFiniteSet(printed)
  /\ redirects \in Seq(Nat) /\ Len(redirects) = Len(codes)
  /\ refusedCodes \in SUBSET QrNames

\* What was printed is what the codes had, and no two that live share a slug.
PrintedIsMade ==
  /\ \A i \in DOMAIN codes : [slug |-> codes[i].slug, target |-> codes[i].target] \in printed
  /\ \A p \in printed : deletes = 0 =>
       \E i \in DOMAIN codes : codes[i].slug = p.slug /\ codes[i].target = p.target
  /\ deletes = 0 => \A i \in DOMAIN codes : codes[i].live
  /\ \A i, j \in Qr!Live : codes[i].slug = codes[j].slug => i = j

\* The slugs before the attempt a of a name were all printed.
Tried(n, a) == \A b \in 0..a - 1 : \E p \in printed : p.slug = Qr!Candidate(Qr!SlugBase(n), b)
AttemptsAreTried ==
  /\ \A o \in Officials : Creates(o) => Tried(creating[o].name, creating[o].attempt)
  /\ \A n \in refusedCodes : Tried(n, MaxAttempts)

\* The visitors that were counted and are not yet redirected.
Counted(i) == {v \in Scanners : scan[v].step = "date" /\ scan[v].code = i}
ScansAreCounted == \A i \in Qr!Live : codes[i].scans = redirects[i] + Cardinality(Counted(i))

QrInv == QrShape /\ PrintedIsMade /\ Qr!NoReservedSlug /\ AttemptsAreTried /\ ScansAreCounted

----------------------------------------------------------------------------
LEMMA QrCardinality == \A S : Qr!Cardinality(S) = Cardinality(S)
BY DEF Qr!Cardinality, Cardinality

LEMMA QrConstants ==
  /\ MaxLength \in Nat /\ MaxLength > 1 /\ MaxAttempts \in Nat \ {0}
  /\ \A n \in QrNames : Words[n] \in Seq(STRING) /\ Len(Words[n]) < MaxLength
  /\ \A i \in 1..MaxAttempts : Numeral[i] \in STRING \ {"link"}
  /\ \A i, j \in 1..MaxAttempts : Numeral[i] = Numeral[j] => i = j
  /\ \A r \in Reserved : Len(r) > 1 =>
       r[Len(r)] # "link" /\ \A i \in 1..MaxAttempts : r[Len(r)] # Numeral[i]
  /\ IsFiniteSet(Scanners)
BY QrTrackingHolds DEF Qr!WordsAssumption, Qr!LengthAssumption, Qr!NumeralAssumption,
   Qr!ReservedAssumption, Qr!VisitorsAssumption, Qr!IsFiniteSet, IsFiniteSet

\* A sequence that is cut keeps its beginning.
LEMMA Truncated ==
  ASSUME NEW s \in Seq(AWord), s # << >>, NEW n \in {0, 1}
  PROVE  LET t == Qr!Truncate(s, n) IN
         /\ t \in Seq(AWord) /\ t[1] = s[1]
         /\ Len(t) = IF Len(s) < MaxLength - n THEN Len(s) ELSE MaxLength - n
         /\ \A i \in 1..Len(t) : t[i] = s[i]
<1> DEFINE m == IF Len(s) < MaxLength - n THEN Len(s) ELSE MaxLength - n
<1>1. Len(s) \in Nat \ {0} /\ \A i \in 1..Len(s) : s[i] \in AWord
  OBVIOUS
<1>2. m \in 1..Len(s)
  BY <1>1, QrConstants
<1> HIDE DEF m
<1>3. \A i \in 1..m : s[i] \in AWord
  BY <1>1, <1>2
<1>4. /\ SubSeq(s, 1, m) \in Seq(AWord) /\ Len(SubSeq(s, 1, m)) = m
      /\ \A i \in 1..m : SubSeq(s, 1, m)[i] = s[i]
  BY <1>2, <1>3, SubSeqProperties
<1>5. Qr!Truncate(s, n) = SubSeq(s, 1, m)
  BY DEF Qr!Truncate, m
<1> QED BY <1>2, <1>4, <1>5 DEF m

\* The base of a slug fits, is no page of the site and leaves the word "link" only to them.
LEMMA Base ==
  ASSUME NEW n \in QrNames
  PROVE  LET b == Qr!SlugBase(n) IN
         /\ b \in Slugs /\ b \notin Reserved
         /\ Len(b) = MaxLength => b[Len(b)] = "link"
<1> DEFINE w == IF Words[n] = << >> THEN <<"qr">> ELSE Words[n]
<1>1. w \in Seq(AWord) /\ Len(w) \in 1..MaxLength - 1 /\ w # << >>
  <2>1. CASE Words[n] = << >>
    <3>1. "qr" \in AWord
      BY DEF AWord
    <3>2. <<"qr">> \in Seq(AWord) /\ Len(<<"qr">>) = 1 /\ <<"qr">> # << >>
      BY <3>1
    <3> QED BY <2>1, <3>2, QrConstants
  <2>2. CASE Words[n] # << >>
    <3>1. Words[n] \in Seq(AWord) /\ Len(Words[n]) < MaxLength /\ MaxLength \in Nat
      BY QrConstants DEF AWord
    <3>2. Len(Words[n]) \in Nat \ {0}
      BY <2>2, <3>1
    <3> QED BY <2>2, <3>1, <3>2
  <2> QED BY <2>1, <2>2
<1>2. Qr!SlugBase(n) = IF w \in Reserved THEN Qr!Truncate(Append(w, "link"), 0) ELSE w
  BY DEF Qr!SlugBase
<1> HIDE DEF w
<1>3. CASE w \notin Reserved
  BY <1>1, <1>2, <1>3, QrConstants DEF Slugs
<1>4. CASE w \in Reserved
  <2> DEFINE l == Append(w, "link")
             t == Qr!Truncate(l, 0)
  <2>1. l \in Seq(AWord) /\ l # << >> /\ Len(l) = Len(w) + 1 /\ l[Len(l)] = "link"
    BY <1>1, AppendProperties, "link" \in AWord DEF AWord
  <2> HIDE DEF l
  <2>2. t \in Seq(AWord) /\ Len(t) = Len(l) /\ \A i \in 1..Len(t) : t[i] = l[i]
    <3>1. /\ t \in Seq(AWord) /\ \A i \in 1..Len(t) : t[i] = l[i]
          /\ Len(t) = IF Len(l) < MaxLength - 0 THEN Len(l) ELSE MaxLength - 0
      BY <2>1, Truncated
    <3>2. Len(l) <= MaxLength /\ Len(l) \in Nat /\ MaxLength \in Nat
      BY <1>1, <2>1, QrConstants
    <3> QED BY <3>1, <3>2
  <2> HIDE DEF t
  <2>3. Len(t) \in 2..MaxLength /\ t[Len(t)] = "link"
    BY <1>1, <2>1, <2>2, QrConstants
  <2>4. t \notin Reserved
    BY <2>3, QrConstants
  <2>5. Qr!SlugBase(n) = t
    BY <1>2, <1>4 DEF t, l
  <2> QED BY <2>2, <2>3, <2>4, <2>5 DEF Slugs
<1> QED BY <1>3, <1>4

\* The slug of a later attempt is the beginning of the base and the number of the attempt.
LEMMA LaterCandidate ==
  ASSUME NEW b \in Slugs, NEW a \in 1..MaxAttempts - 1
  PROVE  LET c == Qr!Candidate(b, a) IN
         /\ c \in Slugs /\ c[1] = b[1] /\ Len(c) > 1
         /\ c[Len(c)] = Numeral[a + 1]
         /\ Len(c) = IF Len(b) < MaxLength THEN Len(b) + 1 ELSE MaxLength
<1> DEFINE t == Qr!Truncate(b, 1)
           num == Numeral[a + 1]
<1>1. b \in Seq(AWord) /\ Len(b) \in 1..MaxLength /\ b # << >>
  BY DEF Slugs
<1>2. /\ t \in Seq(AWord) /\ t[1] = b[1]
      /\ Len(t) = IF Len(b) < MaxLength - 1 THEN Len(b) ELSE MaxLength - 1
  BY <1>1, Truncated
<1>3. Len(t) >= 1 /\ Len(t) < MaxLength
  BY <1>1, <1>2, QrConstants
<1>4. num \in AWord
  BY QrConstants DEF AWord
<1>5. Qr!Candidate(b, a) = Append(t, num)
  BY DEF Qr!Candidate
<1> HIDE DEF t, num
<1>6. /\ Append(t, num) \in Seq(AWord) /\ Len(Append(t, num)) = Len(t) + 1
      /\ Append(t, num)[1] = t[1] /\ Append(t, num)[Len(t) + 1] = num
  <2>1. /\ Append(t, num) \in Seq(AWord) /\ Len(Append(t, num)) = Len(t) + 1
        /\ \A i \in 1..Len(t) : Append(t, num)[i] = t[i]
        /\ Append(t, num)[Len(t) + 1] = num
    BY <1>2, <1>4, AppendProperties
  <2>2. 1 \in 1..Len(t)
    BY <1>2, <1>3
  <2> QED BY <2>1, <2>2
<1>7. /\ Len(t) + 1 \in 1..MaxLength /\ Len(t) + 1 > 1
      /\ Len(t) + 1 = IF Len(b) < MaxLength THEN Len(b) + 1 ELSE MaxLength
  BY <1>1, <1>2, <1>3, QrConstants
<1> QED BY <1>2, <1>5, <1>6, <1>7 DEF Slugs, num

\* The slugs of a name fit, begin like its base, are no page of the site, and differ.
LEMMA Candidates ==
  ASSUME NEW n \in QrNames, NEW a \in Attempts
  PROVE  LET b == Qr!SlugBase(n)  c == Qr!Candidate(b, a) IN
         /\ c \in Slugs /\ Head(c) = Head(b) /\ c \notin Reserved
         /\ \A d \in Attempts : Qr!Candidate(b, d) = c => d = a
<1> DEFINE b == Qr!SlugBase(n)
           c(d) == Qr!Candidate(b, d)
<1>1. b \in Slugs /\ b \notin Reserved /\ (Len(b) = MaxLength => b[Len(b)] = "link")
  BY Base
<1>2. c(0) = b
  BY DEF Qr!Candidate
<1> HIDE DEF b
<1>3. \A d \in 1..MaxAttempts - 1 :
         /\ c(d) \in Slugs /\ c(d)[1] = b[1] /\ Len(c(d)) > 1
         /\ c(d)[Len(c(d))] = Numeral[d + 1]
         /\ Len(c(d)) = IF Len(b) < MaxLength THEN Len(b) + 1 ELSE MaxLength
  BY <1>1, LaterCandidate
<1> HIDE DEF c
<1>4. \A d \in Attempts : d = 0 \/ (d \in 1..MaxAttempts - 1 /\ d + 1 \in 1..MaxAttempts)
  BY QrConstants DEF Attempts
<1>5. \A d \in Attempts : c(d) \in Slugs /\ c(d)[1] = b[1] /\ c(d) \notin Reserved
  BY <1>1, <1>2, <1>3, <1>4, QrConstants
<1>6. \A s \in Slugs : Head(s) = s[1]
  BY DEF Slugs
<1>7. ASSUME NEW d \in 1..MaxAttempts - 1 PROVE c(d) # b
  <2>1. CASE Len(b) < MaxLength
    BY <1>1, <1>3, <2>1 DEF Slugs
  <2>2. CASE Len(b) = MaxLength
    <3>1. Numeral[d + 1] # "link"
      BY <1>4, QrConstants
    <3> QED BY <1>1, <1>3, <2>2, <3>1
  <2> QED BY <1>1, <2>1, <2>2, QrConstants DEF Slugs
<1>8. ASSUME NEW d \in 1..MaxAttempts - 1, NEW e \in 1..MaxAttempts - 1, c(d) = c(e)
      PROVE  d = e
  <2>1. Numeral[d + 1] = Numeral[e + 1]
    BY <1>3, <1>8
  <2>2. d + 1 \in 1..MaxAttempts /\ e + 1 \in 1..MaxAttempts
    BY QrConstants
  <2> QED BY <2>1, <2>2, QrConstants
<1>9. \A d \in Attempts : c(d) = c(a) => d = a
  BY <1>2, <1>4, <1>7, <1>8
<1>10. c(a) \in Slugs /\ Head(c(a)) = Head(b) /\ c(a) \notin Reserved
  BY <1>1, <1>5, <1>6
<1> QED BY <1>9, <1>10 DEF b, c

----------------------------------------------------------------------------
LEMMA QrInit == Qr!Init => QrInv
<1> SUFFICES ASSUME Qr!Init PROVE QrInv
  OBVIOUS
<1> USE DEF Qr!Init, Qr!Idle
<1>1. DOMAIN << >> = {} /\ << >> \in Seq(Code) /\ << >> \in Seq(Nat)
  OBVIOUS
<1>2. QrShape
  BY <1>1, FS_EmptySet DEF QrShape
<1>3. PrintedIsMade
  BY <1>1 DEF PrintedIsMade, Qr!Live
<1>4. Qr!NoReservedSlug
  BY DEF Qr!NoReservedSlug
<1>5. AttemptsAreTried
  BY DEF AttemptsAreTried, Creates
<1>6. ScansAreCounted
  BY <1>1 DEF ScansAreCounted, Qr!Live
<1> QED BY <1>2, <1>3, <1>4, <1>5, <1>6 DEF QrInv

\* Codes that keep their slugs, and what was printed, keep what relates them.
LEMMA CodesKept ==
  ASSUME PrintedIsMade, UNCHANGED <<printed, deletes>>, DOMAIN codes' = DOMAIN codes,
         \A i \in DOMAIN codes : /\ codes'[i].slug = codes[i].slug
                                 /\ codes'[i].target = codes[i].target
                                 /\ codes'[i].live = codes[i].live
  PROVE  PrintedIsMade'
<1>1. Qr!Live' = Qr!Live
  BY DEF Qr!Live
<1>2. \A i \in Qr!Live : i \in DOMAIN codes
  BY DEF Qr!Live
<1> QED BY <1>1, <1>2 DEF PrintedIsMade

\* What was tried of a name stays tried.
LEMMA StaysTried ==
  ASSUME printed \subseteq printed', NEW n, NEW a, Tried(n, a)
  PROVE  Tried(n, a)'
BY DEF Tried, Qr!Candidate, Qr!SlugBase, Qr!Truncate

LEMMA TriedOneMore ==
  ASSUME NEW n, NEW a \in Nat, Tried(n, a),
         \E p \in printed : p.slug = Qr!Candidate(Qr!SlugBase(n), a)
  PROVE  Tried(n, a + 1)
<1>1. \A b \in 0..a + 1 - 1 : b \in 0..a - 1 \/ b = a
  OBVIOUS
<1> QED BY <1>1 DEF Tried

LEMMA TriedKept ==
  ASSUME AttemptsAreTried, printed \subseteq printed', refusedCodes' = refusedCodes,
         \A o \in Officials : creating'[o] = creating[o] \/ creating'[o] = Qr!Idle
  PROVE  AttemptsAreTried'
BY StaysTried DEF AttemptsAreTried, Creates, Qr!Idle

LEMMA QrTick == ASSUME QrInv, Qr!Tick PROVE QrInv'
<1>0. QrShape /\ PrintedIsMade /\ Qr!NoReservedSlug /\ AttemptsAreTried /\ ScansAreCounted
  BY DEF QrInv
<1>1. /\ now' = now + 1 /\ now \in Nat
      /\ UNCHANGED <<codes, creating, scan, lastCode, deletes, redirects, printed, refusedCodes>>
  BY <1>0 DEF Qr!Tick, QrShape
<1>2. QrShape'
  <2>1. Redirect \subseteq Redirect'
    BY <1>1 DEF Redirect
  <2>2. 0..now \subseteq 0..now'
    BY <1>1
  <2> QED BY <1>0, <1>1, <2>1, <2>2 DEF QrShape
<1>3. PrintedIsMade'
  BY <1>0, <1>1, CodesKept
<1>4. Qr!NoReservedSlug' /\ AttemptsAreTried'
  BY <1>0, <1>1, TriedKept DEF Qr!NoReservedSlug
<1>5. ScansAreCounted'
  BY <1>0, <1>1 DEF ScansAreCounted, Counted, Qr!Live
<1> QED BY <1>2, <1>3, <1>4, <1>5 DEF QrInv

LEMMA QrCreate ==
  ASSUME QrInv, NEW o \in Officials, NEW n \in QrNames, Qr!Create(o, n)
  PROVE  QrInv'
<1>0. QrShape /\ PrintedIsMade /\ Qr!NoReservedSlug /\ AttemptsAreTried /\ ScansAreCounted
  BY DEF QrInv
<1> DEFINE c == [step |-> "save", name |-> n, attempt |-> 0, target |-> lastCode + 1]
<1>1. /\ lastCode' = lastCode + 1 /\ creating' = [creating EXCEPT ![o] = c]
      /\ UNCHANGED <<codes, scan, now, deletes, redirects, printed, refusedCodes>>
  BY DEF Qr!Create
<1>2. c \in Creation /\ c.name = n /\ c.attempt = 0
  BY <1>0, QrConstants DEF Creation, Attempts, QrShape
<1> HIDE DEF c
<1>3. QrShape'
  BY <1>0, <1>1, <1>2 DEF QrShape, Redirect
<1>4. PrintedIsMade'
  BY <1>0, <1>1, CodesKept
<1>5. AttemptsAreTried'
  <2>1. ASSUME NEW q \in Officials, Creates(q)'
        PROVE  Tried(creating[q].name, creating[q].attempt)'
    <3>1. CASE q = o
      <4>1. creating'[q] = c
        BY <1>0, <1>1, <3>1 DEF QrShape
      <4> QED BY <1>2, <4>1 DEF Tried
    <3>2. CASE q # o
      <4>1. creating'[q] = creating[q] /\ Creates(q)
        BY <1>0, <1>1, <2>1, <3>2 DEF QrShape, Creates
      <4> QED BY <1>0, <1>1, <4>1, StaysTried DEF AttemptsAreTried
    <3> QED BY <3>1, <3>2
  <2> QED BY <1>0, <1>1, <2>1, StaysTried DEF AttemptsAreTried
<1>6. Qr!NoReservedSlug' /\ ScansAreCounted'
  BY <1>0, <1>1 DEF Qr!NoReservedSlug, ScansAreCounted, Counted, Qr!Live
<1> QED BY <1>3, <1>4, <1>5, <1>6 DEF QrInv

\* A slug that nobody holds is saved with its code, and the answer prints it.
LEMMA QrSaved ==
  ASSUME QrInv, NEW o \in Officials, Creates(o),
         NEW slug, slug = Qr!Candidate(Qr!SlugBase(creating[o].name), creating[o].attempt),
         Qr!Holder(slug) = {},
         creating' = [creating EXCEPT ![o] = Qr!Idle],
         codes' = Append(codes, [slug |-> slug, target |-> creating[o].target, scans |-> 0,
                                 scanned |-> Qr!Never, live |-> TRUE]),
         redirects' = Append(redirects, 0),
         printed' = printed \cup {[slug |-> slug, target |-> creating[o].target]},
         UNCHANGED <<scan, now, lastCode, deletes, refusedCodes>>
  PROVE  QrInv'
<1>0. QrShape /\ PrintedIsMade /\ Qr!NoReservedSlug /\ AttemptsAreTried /\ ScansAreCounted
  BY DEF QrInv
<1> DEFINE n == Len(codes) + 1
           print == [slug |-> slug, target |-> creating[o].target]
           code == [slug |-> slug, target |-> creating[o].target, scans |-> 0,
                    scanned |-> Qr!Never, live |-> TRUE]
<1>1. creating[o] \in Creation
  BY <1>0 DEF QrShape, Creates
<1>2. slug \in Slugs /\ slug \notin Reserved
  BY <1>1, Candidates DEF Creation
<1>3. /\ print \in Prints /\ print.slug = slug /\ print.target = creating[o].target
      /\ code \in Code /\ code.slug = slug /\ code.target = creating[o].target
      /\ code.scans = 0 /\ code.scanned = Qr!Never /\ code.live = TRUE
  BY <1>1, <1>2 DEF Prints, Code, Creation, Qr!Never
<1>4. codes' = Append(codes, code) /\ printed' = printed \cup {print}
  OBVIOUS
<1> HIDE DEF print, code
<1>5. /\ codes' \in Seq(Code) /\ DOMAIN codes' = 1..n /\ DOMAIN codes = 1..n - 1 /\ n \in Nat \ {0}
      /\ Len(codes') = n
      /\ codes'[n] = code /\ \A i \in DOMAIN codes : codes'[i] = codes[i]
  <2>1. codes \in Seq(Code)
    BY <1>0 DEF QrShape
  <2>2. /\ Append(codes, code) \in Seq(Code) /\ Len(Append(codes, code)) = n
        /\ \A i \in 1..Len(codes) : Append(codes, code)[i] = codes[i]
        /\ Append(codes, code)[n] = code
    BY <1>3, <2>1, AppendProperties
  <2>3. Len(codes) \in Nat /\ DOMAIN codes = 1..Len(codes)
    BY <2>1
  <2>4. DOMAIN Append(codes, code) = 1..n
    BY <2>2
  <2> QED BY <1>4, <2>2, <2>3, <2>4
<1>6. /\ redirects' \in Seq(Nat) /\ Len(redirects') = n
      /\ redirects'[n] = 0 /\ \A i \in DOMAIN codes : redirects'[i] = redirects[i]
  <2>1. redirects \in Seq(Nat) /\ Len(redirects) = n - 1
    BY <1>0, <1>5 DEF QrShape
  <2>2. /\ Append(redirects, 0) \in Seq(Nat) /\ Len(Append(redirects, 0)) = n - 1 + 1
        /\ \A i \in 1..n - 1 : Append(redirects, 0)[i] = redirects[i]
        /\ Append(redirects, 0)[n - 1 + 1] = 0
    BY <2>1, AppendProperties
  <2> QED BY <1>5, <2>2
<1>7. QrShape'
  <2>1. creating' \in [Officials -> {Qr!Idle} \cup Creation]
    BY <1>0 DEF QrShape
  <2>2. scan' \in [Scanners -> {Qr!Idle} \cup Redirect']
    <3>1. Redirect \subseteq Redirect'
      BY <1>5 DEF Redirect
    <3> QED BY <1>0, <3>1 DEF QrShape
  <2>3. \A i \in DOMAIN codes' : codes'[i].scanned \in {Qr!Never} \cup 0..now'
    BY <1>0, <1>3, <1>5 DEF QrShape
  <2>4. printed' \in SUBSET Prints /\ IsFiniteSet(printed')
    BY <1>0, <1>3, <1>4, FS_AddElement DEF QrShape
  <2>5. now' \in Nat /\ lastCode' \in Nat /\ deletes' \in Nat /\ refusedCodes' \in SUBSET QrNames
    BY <1>0 DEF QrShape
  <2> QED BY <1>5, <1>6, <2>1, <2>2, <2>3, <2>4, <2>5 DEF QrShape
<1>8. Qr!Live' = Qr!Live \cup {n} /\ Qr!Live \subseteq DOMAIN codes /\ n \notin DOMAIN codes
  BY <1>3, <1>5 DEF Qr!Live
<1>9. PrintedIsMade'
  <2>1. \A i \in Qr!Live : codes[i].slug # slug
    BY DEF Qr!Holder
  <2>2. \A i \in DOMAIN codes' : [slug |-> codes'[i].slug, target |-> codes'[i].target] \in printed'
    BY <1>0, <1>3, <1>4, <1>5 DEF PrintedIsMade, print
  <2>3. ASSUME NEW p \in printed', deletes' = 0
        PROVE  \E i \in DOMAIN codes' : codes'[i].slug = p.slug /\ codes'[i].target = p.target
    <3>1. CASE p \in printed
      <4>1. PICK i \in DOMAIN codes : codes[i].slug = p.slug /\ codes[i].target = p.target
        BY <1>0, <2>3, <3>1 DEF PrintedIsMade
      <4>2. i \in DOMAIN codes' /\ codes'[i] = codes[i]
        BY <1>5
      <4> QED BY <4>1, <4>2
    <3>2. CASE p = print
      <4>1. n \in DOMAIN codes'
        BY <1>5
      <4> QED BY <1>3, <1>5, <3>2, <4>1
    <3> QED BY <1>4, <3>1, <3>2
  <2>4. deletes' = 0 => \A i \in DOMAIN codes' : codes'[i].live
    BY <1>0, <1>3, <1>5 DEF PrintedIsMade
  <2>5. \A i, j \in Qr!Live' : codes'[i].slug = codes'[j].slug => i = j
    <3>1. \A i \in Qr!Live : codes'[i] = codes[i]
      BY <1>5, <1>8
    <3> QED BY <1>0, <1>3, <1>5, <1>8, <2>1, <3>1 DEF PrintedIsMade
  <2> QED BY <2>2, <2>3, <2>4, <2>5 DEF PrintedIsMade
<1>10. Qr!NoReservedSlug'
  BY <1>0, <1>2, <1>3, <1>4 DEF Qr!NoReservedSlug
<1>11. AttemptsAreTried'
  <2>1. \A q \in Officials : creating'[q] = creating[q] \/ creating'[q] = Qr!Idle
    BY <1>0 DEF QrShape
  <2> QED BY <1>0, <2>1, TriedKept
<1>12. ScansAreCounted'
  <2>1. \A i : Counted(i)' = Counted(i)
    BY DEF Counted
  <2>2. Counted(n) = {}
    <3> SUFFICES ASSUME NEW v \in Scanners, scan[v].step = "date", scan[v].code = n PROVE FALSE
      BY DEF Counted
    <3>1. scan[v] \in Redirect
      BY <1>0 DEF QrShape, Qr!Idle
    <3> QED BY <1>8, <3>1 DEF Redirect
  <2>3. Cardinality(Counted(n)) = 0
    BY <2>2, FS_EmptySet
  <2> SUFFICES ASSUME NEW i \in Qr!Live'
               PROVE  codes'[i].scans = redirects'[i] + Cardinality(Counted(i)')
    BY DEF ScansAreCounted
  <2>4. CASE i \in Qr!Live
    BY <1>0, <1>5, <1>6, <1>8, <2>1, <2>4 DEF ScansAreCounted
  <2>5. CASE i = n
    BY <1>3, <1>5, <1>6, <2>1, <2>3, <2>5
  <2> QED BY <1>8, <2>4, <2>5
<1> QED BY <1>7, <1>9, <1>10, <1>11, <1>12 DEF QrInv

\* Where the slug is taken it was printed, and the next attempt is made or the name given up.
LEMMA QrSave == ASSUME QrInv, NEW o \in Officials, Qr!Save(o) PROVE QrInv'
<1>0. QrShape /\ PrintedIsMade /\ Qr!NoReservedSlug /\ AttemptsAreTried /\ ScansAreCounted
  BY DEF QrInv
<1> DEFINE c == creating[o]
<1>1. PICK slug : slug = Qr!Candidate(Qr!SlugBase(c.name), c.attempt)
  OBVIOUS
<1>2. Creates(o) /\ c \in Creation /\ UNCHANGED <<scan, now, lastCode, deletes, scans>>
  BY <1>0 DEF Qr!Save, Creates, QrShape
<1>3. CASE Qr!Holder(slug) = {}
  BY <1>1, <1>2, <1>3, QrSaved DEF Qr!Save
<1>4. CASE Qr!Holder(slug) # {}
  <2>1. /\ UNCHANGED <<codes, redirects, printed>>
        /\ \/ /\ c.attempt + 1 < MaxAttempts
              /\ creating' = [creating EXCEPT ![o].attempt = @ + 1]
              /\ UNCHANGED refusedCodes
           \/ /\ c.attempt + 1 = MaxAttempts
              /\ creating' = [creating EXCEPT ![o] = Qr!Idle]
              /\ refusedCodes' = refusedCodes \cup {c.name}
    BY <1>1, <1>4 DEF Qr!Save
  <2>2. PICK i \in DOMAIN codes : codes[i].slug = slug
    BY <1>4 DEF Qr!Holder, Qr!Live
  <2>3. \E p \in printed : p.slug = slug
    BY <1>0, <2>2 DEF PrintedIsMade
  <2>4. c.attempt \in Attempts /\ c.name \in QrNames /\ Tried(c.name, c.attempt)
    BY <1>0, <1>2 DEF Creation, AttemptsAreTried
  <2>5. Tried(c.name, c.attempt + 1)
    <3>1. \E p \in printed : p.slug = Qr!Candidate(Qr!SlugBase(c.name), c.attempt)
      BY <1>1, <2>3
    <3>2. c.attempt \in Nat
      BY <2>4, QrConstants DEF Attempts
    <3> QED BY <2>4, <3>1, <3>2, TriedOneMore
  <2>6. PrintedIsMade' /\ Qr!NoReservedSlug'
    BY <1>0, <1>2, <2>1, CodesKept DEF Qr!NoReservedSlug
  <2>7. ScansAreCounted'
    BY <1>0, <1>2, <2>1 DEF ScansAreCounted, Counted, Qr!Live
  <2>8. CASE c.attempt + 1 < MaxAttempts
    <3> DEFINE d == [c EXCEPT !.attempt = c.attempt + 1]
    <3>1. creating' = [creating EXCEPT ![o] = d] /\ UNCHANGED refusedCodes
      <4>1. c.attempt + 1 # MaxAttempts
        BY <2>4, <2>8, QrConstants DEF Attempts
      <4>2. creating' = [creating EXCEPT ![o].attempt = @ + 1] /\ UNCHANGED refusedCodes
        BY <2>1, <4>1
      <4> QED BY <4>2
    <3>2. d \in Creation /\ d.name = c.name /\ d.attempt = c.attempt + 1
      <4>1. c.attempt + 1 \in Attempts
        BY <2>4, <2>8, QrConstants DEF Attempts
      <4> QED BY <1>2, <4>1 DEF Creation
    <3> HIDE DEF d
    <3>3. QrShape'
      BY <1>0, <1>2, <2>1, <3>1, <3>2 DEF QrShape, Redirect
    <3>4. AttemptsAreTried'
      <4>1. ASSUME NEW q \in Officials, Creates(q)'
            PROVE  Tried(creating[q].name, creating[q].attempt)'
        <5>1. CASE q = o
          <6>1. creating'[q] = d
            BY <1>0, <3>1, <5>1 DEF QrShape
          <6> QED BY <2>1, <2>5, <3>2, <6>1, StaysTried
        <5>2. CASE q # o
          <6>1. creating'[q] = creating[q] /\ Creates(q)
            BY <1>0, <3>1, <4>1, <5>2 DEF QrShape, Creates
          <6> QED BY <1>0, <2>1, <6>1, StaysTried DEF AttemptsAreTried
        <5> QED BY <5>1, <5>2
      <4> QED BY <1>0, <2>1, <3>1, <4>1, StaysTried DEF AttemptsAreTried
    <3> QED BY <2>6, <2>7, <3>3, <3>4 DEF QrInv
  <2>9. CASE c.attempt + 1 = MaxAttempts
    <3>1. creating' = [creating EXCEPT ![o] = Qr!Idle] /\ refusedCodes' = refusedCodes \cup {c.name}
      <4>1. ~(c.attempt + 1 < MaxAttempts)
        BY <2>4, <2>9, QrConstants DEF Attempts
      <4> QED BY <2>1, <4>1
    <3>2. QrShape'
      BY <1>0, <1>2, <2>1, <2>4, <3>1 DEF QrShape, Redirect
    <3>3. AttemptsAreTried'
      <4>1. \A q \in Officials : creating'[q] = creating[q] \/ creating'[q] = Qr!Idle
        BY <1>0, <3>1 DEF QrShape
      <4>2. ASSUME NEW n \in refusedCodes' PROVE Tried(n, MaxAttempts)'
        BY <1>0, <2>1, <2>5, <2>9, <3>1, StaysTried DEF AttemptsAreTried
      <4>3. ASSUME NEW q \in Officials, Creates(q)'
            PROVE  Tried(creating[q].name, creating[q].attempt)'
        <5>1. creating'[q] = creating[q] /\ Creates(q)
          BY <4>1, <4>3 DEF Creates, Qr!Idle
        <5> QED BY <1>0, <2>1, <5>1, StaysTried DEF AttemptsAreTried
      <4> QED BY <4>2, <4>3 DEF AttemptsAreTried
    <3> QED BY <2>6, <2>7, <3>2, <3>3 DEF QrInv
  <2> QED BY <2>1, <2>8, <2>9
<1> QED BY <1>3, <1>4

\* A code changes in its place.
LEMMA ChangedCode ==
  ASSUME QrShape, NEW i \in DOMAIN codes, NEW e \in Code, codes' = [codes EXCEPT ![i] = e]
  PROVE  /\ codes' \in Seq(Code) /\ Len(codes') = Len(codes) /\ DOMAIN codes' = DOMAIN codes
         /\ codes'[i] = e /\ \A j \in DOMAIN codes : j # i => codes'[j] = codes[j]
<1>1. codes \in Seq(Code) /\ DOMAIN codes = 1..Len(codes)
  BY DEF QrShape
<1>2. /\ [codes EXCEPT ![i] = e] \in Seq(Code) /\ Len([codes EXCEPT ![i] = e]) = Len(codes)
      /\ \A j \in 1..Len(codes) : [codes EXCEPT ![i] = e][j] = IF j = i THEN e ELSE codes[j]
  BY <1>1, ExceptSeq
<1> QED BY <1>1, <1>2

LEMMA QrDelete == ASSUME QrInv, NEW i \in 1..MaxCodes, Qr!Delete(i) PROVE QrInv'
<1>0. QrShape /\ PrintedIsMade /\ Qr!NoReservedSlug /\ AttemptsAreTried /\ ScansAreCounted
  BY DEF QrInv
<1>1. /\ i \in Qr!Live /\ deletes' = deletes + 1
      /\ codes' = [codes EXCEPT ![i] = [codes[i] EXCEPT !.live = FALSE]]
      /\ UNCHANGED <<creating, scan, now, lastCode, redirects, printed, refusedCodes>>
  BY DEF Qr!Delete
<1>2. i \in DOMAIN codes /\ deletes \in Nat /\ \A j \in DOMAIN codes : codes[j] \in Code
  BY <1>0, <1>1 DEF Qr!Live, QrShape
<1>3. PICK e : e = [codes[i] EXCEPT !.live = FALSE]
  OBVIOUS
<1>4. /\ e \in Code /\ e.slug = codes[i].slug /\ e.target = codes[i].target
      /\ e.scans = codes[i].scans /\ e.scanned = codes[i].scanned /\ e.live = FALSE
  BY <1>2, <1>3 DEF Code
<1>5. /\ codes' \in Seq(Code) /\ Len(codes') = Len(codes) /\ DOMAIN codes' = DOMAIN codes
      /\ codes'[i] = e /\ \A j \in DOMAIN codes : j # i => codes'[j] = codes[j]
  BY <1>0, <1>1, <1>2, <1>3, <1>4, ChangedCode
<1>6. \A j \in DOMAIN codes :
        /\ codes'[j].slug = codes[j].slug /\ codes'[j].target = codes[j].target
        /\ codes'[j].scans = codes[j].scans /\ codes'[j].scanned = codes[j].scanned
        /\ codes'[j].live => codes[j].live
  BY <1>4, <1>5
<1>7. QrShape'
  BY <1>0, <1>1, <1>2, <1>5, <1>6 DEF QrShape, Redirect
<1>8. Qr!Live' \subseteq Qr!Live /\ \A j \in Qr!Live : j \in DOMAIN codes
  BY <1>5, <1>6 DEF Qr!Live
<1>9. PrintedIsMade'
  <2>1. deletes' # 0
    BY <1>1, <1>2
  <2>2. \A j \in DOMAIN codes' : [slug |-> codes'[j].slug, target |-> codes'[j].target] \in printed'
    BY <1>0, <1>1, <1>5, <1>6 DEF PrintedIsMade
  <2>3. \A j, k \in Qr!Live' : codes'[j].slug = codes'[k].slug => j = k
    BY <1>0, <1>6, <1>8 DEF PrintedIsMade
  <2> QED BY <2>1, <2>2, <2>3 DEF PrintedIsMade
<1>10. Qr!NoReservedSlug' /\ AttemptsAreTried'
  BY <1>0, <1>1, TriedKept DEF Qr!NoReservedSlug
<1>11. ScansAreCounted'
  <2>1. \A j : Counted(j)' = Counted(j)
    BY <1>1 DEF Counted
  <2> QED BY <1>0, <1>1, <1>6, <1>8, <2>1 DEF ScansAreCounted
<1> QED BY <1>7, <1>9, <1>10, <1>11 DEF QrInv

LEMMA QrFind == ASSUME QrInv, NEW v \in Scanners, NEW slug, Qr!Find(v, slug) PROVE QrInv'
<1>0. QrShape /\ PrintedIsMade /\ Qr!NoReservedSlug /\ AttemptsAreTried /\ ScansAreCounted
  BY DEF QrInv
<1>1. PICK i \in Qr!Holder(slug) :
        scan' = [scan EXCEPT ![v] = [step |-> "increment", code |-> i, at |-> now,
                                     count |-> codes[i].scans]]
  BY DEF Qr!Find
<1>2. /\ scan[v] = Qr!Idle
      /\ UNCHANGED <<codes, creating, now, lastCode, deletes, redirects, printed, refusedCodes>>
  BY DEF Qr!Find
<1>3. PICK s : s = [step |-> "increment", code |-> i, at |-> now, count |-> codes[i].scans]
  OBVIOUS
<1>4. s \in Redirect /\ s.step = "increment"
  <2>1. i \in DOMAIN codes /\ codes[i] \in Code /\ now \in 0..now
    BY <1>0 DEF Qr!Holder, Qr!Live, QrShape
  <2> QED BY <1>3, <2>1 DEF Redirect, Code
<1>5. scan' = [scan EXCEPT ![v] = s]
  BY <1>1, <1>3
<1>6. QrShape'
  BY <1>0, <1>2, <1>4, <1>5 DEF QrShape, Redirect
<1>7. \A j : Counted(j)' = Counted(j)
  <2>1. \A u \in Scanners : u # v => scan'[u] = scan[u]
    BY <1>0, <1>5 DEF QrShape
  <2>2. scan'[v].step # "date" /\ scan[v].step # "date"
    BY <1>0, <1>2, <1>4, <1>5 DEF QrShape, Qr!Idle
  <2> QED BY <2>1, <2>2 DEF Counted
<1>8. ScansAreCounted'
  BY <1>0, <1>2, <1>7 DEF ScansAreCounted, Qr!Live
<1>9. PrintedIsMade' /\ Qr!NoReservedSlug' /\ AttemptsAreTried'
  BY <1>0, <1>2, CodesKept, TriedKept DEF Qr!NoReservedSlug
<1> QED BY <1>6, <1>8, <1>9 DEF QrInv

\* A visitor who moves between two steps joins or leaves the counted of its code only.
LEMMA CountedMoves ==
  ASSUME QrShape, NEW v \in Scanners, NEW s, scan' = [scan EXCEPT ![v] = s],
         NEW i, scan[v].code = i, s.step = "date" => s.code = i
  PROVE  /\ \A j : j # i => Counted(j)' = Counted(j)
         /\ Counted(i)' = IF s.step = "date" THEN Counted(i) \cup {v} ELSE Counted(i) \ {v}
         /\ v \in Counted(i) <=> scan[v].step = "date"
         /\ IsFiniteSet(Counted(i))
<1>1. \A u \in Scanners : scan'[u] = IF u = v THEN s ELSE scan[u]
  BY DEF QrShape
<1>2. IsFiniteSet(Counted(i))
  <2>1. Counted(i) \in SUBSET Scanners /\ IsFiniteSet(Scanners)
    BY QrConstants DEF Counted
  <2> QED BY <2>1, FS_Subset
<1> QED BY <1>1, <1>2 DEF Counted

LEMMA QrIncrement == ASSUME QrInv, NEW v \in Scanners, Qr!Increment(v) PROVE QrInv'
<1>0. QrShape /\ PrintedIsMade /\ Qr!NoReservedSlug /\ AttemptsAreTried /\ ScansAreCounted
  BY DEF QrInv
<1>1. /\ scan[v].step = "increment" /\ scan' = [scan EXCEPT ![v].step = "date"]
      /\ codes' = IF codes[scan[v].code].live
                  THEN [codes EXCEPT ![scan[v].code].scans = codes[scan[v].code].scans + 1]
                  ELSE codes
      /\ UNCHANGED <<creating, now, lastCode, deletes, redirects, printed, refusedCodes>>
  BY DEF Qr!Increment, Qr!CountAfter
<1>2. scan[v] \in Redirect
  BY <1>0, <1>1 DEF QrShape, Qr!Idle
<1>3. PICK s : s = [scan[v] EXCEPT !.step = "date"]
  OBVIOUS
<1>4. /\ s \in Redirect /\ s.step = "date" /\ s.code = scan[v].code
      /\ scan' = [scan EXCEPT ![v] = s]
  BY <1>1, <1>2, <1>3 DEF Redirect
<1>5. PICK i : i = scan[v].code
  OBVIOUS
<1>6. i \in DOMAIN codes /\ \A j \in DOMAIN codes : codes[j] \in Code
  BY <1>0, <1>2, <1>5 DEF Redirect, QrShape
<1>7. /\ codes' \in Seq(Code) /\ Len(codes') = Len(codes) /\ DOMAIN codes' = DOMAIN codes
      /\ \A j \in DOMAIN codes :
            /\ codes'[j].slug = codes[j].slug /\ codes'[j].target = codes[j].target
            /\ codes'[j].scanned = codes[j].scanned /\ codes'[j].live = codes[j].live
            /\ codes'[j].scans = IF j = i /\ codes[j].live THEN codes[j].scans + 1
                                 ELSE codes[j].scans
  <2>1. CASE codes[i].live
    <3>1. PICK e : e = [codes[i] EXCEPT !.scans = codes[i].scans + 1]
      OBVIOUS
    <3>2. /\ e \in Code /\ e.slug = codes[i].slug /\ e.target = codes[i].target
          /\ e.scanned = codes[i].scanned /\ e.live = codes[i].live
          /\ e.scans = codes[i].scans + 1
      BY <1>6, <3>1 DEF Code
    <3>3. codes' = [codes EXCEPT ![i] = e]
      BY <1>1, <1>5, <2>1, <3>1
    <3> QED BY <1>0, <1>6, <2>1, <3>2, <3>3, ChangedCode
  <2>2. CASE ~codes[i].live
    BY <1>0, <1>1, <1>5, <2>2 DEF QrShape
  <2> QED BY <2>1, <2>2
<1>8. QrShape'
  <2>1. scan' \in [Scanners -> {Qr!Idle} \cup Redirect]
    BY <1>0, <1>4 DEF QrShape
  <2>2. Redirect' = Redirect
    BY <1>1, <1>7 DEF Redirect
  <2> QED BY <1>0, <1>1, <1>7, <2>1, <2>2 DEF QrShape
<1>9. PrintedIsMade' /\ Qr!NoReservedSlug' /\ AttemptsAreTried'
  BY <1>0, <1>1, <1>7, CodesKept, TriedKept DEF Qr!NoReservedSlug
<1>10. ScansAreCounted'
  <2>1. /\ \A j : j # i => Counted(j)' = Counted(j)
        /\ Counted(i)' = Counted(i) \cup {v} /\ v \notin Counted(i) /\ IsFiniteSet(Counted(i))
    <3>1. scan[v].code = i /\ s.step = "date" /\ s.code = i /\ scan[v].step # "date"
      BY <1>1, <1>4, <1>5
    <3> QED BY <1>0, <1>4, <3>1, CountedMoves
  <2>2. Cardinality(Counted(i)') = Cardinality(Counted(i)) + 1 /\ Cardinality(Counted(i)) \in Nat
    BY <2>1, FS_AddElement, FS_CardinalityType
  <2>3. Qr!Live' = Qr!Live
    BY <1>7 DEF Qr!Live
  <2> SUFFICES ASSUME NEW j \in Qr!Live
               PROVE  codes'[j].scans = redirects'[j] + Cardinality(Counted(j)')
    BY <2>3 DEF ScansAreCounted
  <2>4. /\ codes[j].scans = redirects[j] + Cardinality(Counted(j))
        /\ j \in DOMAIN codes /\ codes[j].live /\ redirects[j] \in Nat
    <3>1. j \in DOMAIN codes /\ codes[j].live
      BY DEF Qr!Live
    <3>2. j \in 1..Len(redirects) /\ redirects \in Seq(Nat)
      BY <1>0, <3>1 DEF QrShape
    <3>3. redirects[j] \in Nat
      BY <3>2
    <3> QED BY <1>0, <3>1, <3>3 DEF ScansAreCounted
  <2>5. CASE j = i
    <3>1. /\ codes'[j].scans = codes[j].scans + 1 /\ redirects' = redirects
          /\ Cardinality(Counted(j)') = Cardinality(Counted(j)) + 1
          /\ Cardinality(Counted(j)) \in Nat
      BY <1>1, <1>7, <2>2, <2>4, <2>5
    <3> QED BY <2>4, <3>1
  <2>6. CASE j # i
    BY <1>1, <1>7, <2>1, <2>4, <2>6
  <2> QED BY <2>5, <2>6
<1> QED BY <1>8, <1>9, <1>10 DEF QrInv

LEMMA QrDate == ASSUME QrInv, NEW v \in Scanners, Qr!Date(v) PROVE QrInv'
<1>0. QrShape /\ PrintedIsMade /\ Qr!NoReservedSlug /\ AttemptsAreTried /\ ScansAreCounted
  BY DEF QrInv
<1>1. /\ scan[v].step = "date" /\ scan' = [scan EXCEPT ![v] = Qr!Idle]
      /\ codes' = IF codes[scan[v].code].live
                  THEN [codes EXCEPT ![scan[v].code].scanned = scan[v].at]
                  ELSE codes
      /\ redirects' = [redirects EXCEPT ![scan[v].code] = @ + 1]
      /\ UNCHANGED <<creating, now, lastCode, deletes, printed, refusedCodes>>
  BY DEF Qr!Date
<1>2. scan[v] \in Redirect
  BY <1>0, <1>1 DEF QrShape, Qr!Idle
<1>3. PICK i : i = scan[v].code
  OBVIOUS
<1>4. /\ i \in DOMAIN codes /\ \A j \in DOMAIN codes : codes[j] \in Code
      /\ scan[v].at \in 0..now /\ now \in Nat
  BY <1>0, <1>2, <1>3 DEF Redirect, QrShape
<1>5. /\ codes' \in Seq(Code) /\ Len(codes') = Len(codes) /\ DOMAIN codes' = DOMAIN codes
      /\ \A j \in DOMAIN codes :
            /\ codes'[j].slug = codes[j].slug /\ codes'[j].target = codes[j].target
            /\ codes'[j].scans = codes[j].scans /\ codes'[j].live = codes[j].live
            /\ codes'[j].scanned \in {codes[j].scanned, scan[v].at}
  <2>1. CASE codes[i].live
    <3>1. PICK e : e = [codes[i] EXCEPT !.scanned = scan[v].at]
      OBVIOUS
    <3>2. /\ e \in Code /\ e.slug = codes[i].slug /\ e.target = codes[i].target
          /\ e.scans = codes[i].scans /\ e.live = codes[i].live /\ e.scanned = scan[v].at
      BY <1>4, <3>1 DEF Code
    <3>3. codes' = [codes EXCEPT ![i] = e]
      BY <1>1, <1>3, <2>1, <3>1
    <3> QED BY <1>0, <1>4, <3>2, <3>3, ChangedCode
  <2>2. CASE ~codes[i].live
    BY <1>0, <1>1, <1>3, <2>2 DEF QrShape
  <2> QED BY <2>1, <2>2
<1>6. /\ redirects' \in Seq(Nat) /\ Len(redirects') = Len(redirects)
      /\ \A j \in DOMAIN codes : /\ redirects[j] \in Nat
                               /\ redirects'[j] = IF j = i THEN redirects[j] + 1 ELSE redirects[j]
  <2>1. redirects \in Seq(Nat) /\ i \in 1..Len(redirects) /\ DOMAIN codes = 1..Len(redirects)
    BY <1>0, <1>4 DEF QrShape
  <2>2. redirects[i] + 1 \in Nat /\ redirects' = [redirects EXCEPT ![i] = redirects[i] + 1]
    BY <1>1, <1>3, <2>1
  <2>3. /\ redirects' \in Seq(Nat) /\ Len(redirects') = Len(redirects)
        /\ \A j \in 1..Len(redirects) :
              redirects'[j] = IF j = i THEN redirects[i] + 1 ELSE redirects[j]
    BY <2>1, <2>2, ExceptSeq
  <2> QED BY <2>1, <2>3
<1>7. QrShape'
  <2>1. scan' \in [Scanners -> {Qr!Idle} \cup Redirect]
    BY <1>0, <1>1 DEF QrShape
  <2>2. Redirect' = Redirect
    BY <1>1, <1>5 DEF Redirect
  <2>3. \A j \in DOMAIN codes' : codes'[j].scanned \in {Qr!Never} \cup 0..now'
    BY <1>0, <1>1, <1>4, <1>5 DEF QrShape
  <2> QED BY <1>0, <1>1, <1>5, <1>6, <2>1, <2>2, <2>3 DEF QrShape
<1>8. PrintedIsMade' /\ Qr!NoReservedSlug' /\ AttemptsAreTried'
  BY <1>0, <1>1, <1>5, CodesKept, TriedKept DEF Qr!NoReservedSlug
<1>9. ScansAreCounted'
  <2>1. Qr!Idle.step # "date"
    BY DEF Qr!Idle
  <2>2. /\ \A j : j # i => Counted(j)' = Counted(j)
        /\ Counted(i)' = Counted(i) \ {v} /\ v \in Counted(i) /\ IsFiniteSet(Counted(i))
    BY <1>0, <1>1, <1>3, <2>1, CountedMoves
  <2>3. Cardinality(Counted(i)') = Cardinality(Counted(i)) - 1 /\ Cardinality(Counted(i)) \in Nat
    BY <2>2, FS_RemoveElement, FS_CardinalityType
  <2>4. Qr!Live' = Qr!Live /\ \A j \in Qr!Live : j \in DOMAIN codes
    BY <1>5 DEF Qr!Live
  <2> SUFFICES ASSUME NEW j \in Qr!Live
               PROVE  codes'[j].scans = redirects'[j] + Cardinality(Counted(j)')
    BY <2>4 DEF ScansAreCounted
  <2>5. codes[j].scans = redirects[j] + Cardinality(Counted(j))
    BY <1>0 DEF ScansAreCounted
  <2>6. CASE j = i
    BY <1>5, <1>6, <2>3, <2>4, <2>5, <2>6
  <2>7. CASE j # i
    BY <1>5, <1>6, <2>2, <2>4, <2>5, <2>7
  <2> QED BY <2>6, <2>7
<1> QED BY <1>7, <1>8, <1>9 DEF QrInv

LEMMA QrInductive == Qr!Spec => []QrInv
<1>1. QrInv /\ [Qr!Next]_(Qr!vars) => QrInv'
  <2> SUFFICES ASSUME QrInv, [Qr!Next]_(Qr!vars) PROVE QrInv'
    OBVIOUS
  <2>1. CASE UNCHANGED Qr!vars
    <3>1. UNCHANGED <<codes, creating, scan, now, lastCode, deletes, redirects, printed, refusedCodes>>
      BY <2>1 DEF Qr!vars
    <3>2. QrShape'
      BY <3>1 DEF QrInv, QrShape, Redirect
    <3>4. PrintedIsMade' /\ AttemptsAreTried'
      BY <3>1, CodesKept, TriedKept DEF QrInv
    <3>3. Qr!NoReservedSlug' /\ ScansAreCounted'
      BY <3>1 DEF QrInv, Qr!NoReservedSlug, ScansAreCounted, Counted, Qr!Live
    <3> QED BY <3>2, <3>3, <3>4 DEF QrInv
  <2>2. CASE Qr!Next
    BY <2>2, QrTick, QrCreate, QrSave, QrDelete, QrFind, QrIncrement, QrDate DEF Qr!Next, Qr!Visit
  <2> QED BY <2>1, <2>2
<1> QED BY <1>1, QrInit, PTL DEF Qr!Spec

LEMMA QrSaysSo == QrInv => PrintedCodesWork
<1> SUFFICES ASSUME QrInv PROVE PrintedCodesWork
  OBVIOUS
<1>0. QrShape /\ PrintedIsMade /\ Qr!NoReservedSlug /\ AttemptsAreTried /\ ScansAreCounted
  BY DEF QrInv
<1>1. Qr!TypeOK
  <2>1. \A i \in DOMAIN codes : codes[i] \in Code
    BY <1>0 DEF QrShape
  <2>2. \A i \in DOMAIN codes : /\ Len(codes[i].slug) \in 1..MaxLength
                               /\ codes[i].scans \in Nat
                               /\ codes[i].scanned \in {Qr!Never} \cup 0..now
    BY <1>0, <2>1 DEF QrShape, Code, Slugs
  <2>3. ASSUME NEW o \in Officials, creating[o] # Qr!Idle PROVE creating[o].attempt < MaxAttempts
    <3>1. creating[o] \in Creation
      BY <1>0, <2>3 DEF QrShape
    <3>2. creating[o].attempt \in Attempts
      BY <3>1 DEF Creation
    <3> QED BY <3>2, QrConstants DEF Attempts
  <2> QED BY <2>2, <2>3 DEF Qr!TypeOK
<1>2. Qr!EveryScanCounts
  BY <1>0, QrCardinality DEF ScansAreCounted, Counted, Qr!EveryScanCounts
<1>3. Qr!PrintedCodeKeepsTarget
  <2> SUFFICES ASSUME deletes = 0, NEW p \in printed, NEW q \in printed, p.slug = q.slug
               PROVE  p.target = q.target
    BY DEF Qr!PrintedCodeKeepsTarget
  <2>1. PICK i \in DOMAIN codes : codes[i].slug = p.slug /\ codes[i].target = p.target
    BY <1>0 DEF PrintedIsMade
  <2>2. PICK j \in DOMAIN codes : codes[j].slug = q.slug /\ codes[j].target = q.target
    BY <1>0 DEF PrintedIsMade
  <2>3. i \in Qr!Live /\ j \in Qr!Live
    BY <1>0 DEF PrintedIsMade, Qr!Live
  <2> QED BY <1>0, <2>1, <2>2, <2>3 DEF PrintedIsMade
<1>4. Qr!RefusedOnlyWhenTaken
  <2> SUFFICES ASSUME NEW n \in refusedCodes
               PROVE  Cardinality({p.slug : p \in {q \in printed :
                                     Head(q.slug) = Head(Qr!SlugBase(n))}}) >= MaxAttempts
    BY QrCardinality DEF Qr!RefusedOnlyWhenTaken
  <2> DEFINE alike == {q \in printed : Head(q.slug) = Head(Qr!SlugBase(n))}
             taken == {p.slug : p \in alike}
             slugOf == [p \in alike |-> p.slug]
             tried == [a \in Attempts |-> Qr!Candidate(Qr!SlugBase(n), a)]
  <2>1. n \in QrNames /\ Tried(n, MaxAttempts)
    BY <1>0 DEF QrShape, AttemptsAreTried
  <2>2. IsFiniteSet(taken)
    <3>1. IsFiniteSet(alike)
      <4>1. alike \in SUBSET printed /\ IsFiniteSet(printed)
        BY <1>0 DEF QrShape
      <4> QED BY <4>1, FS_Subset
    <3>2. slugOf \in Surjection(alike, taken)
      BY DEF Surjection
    <3> HIDE DEF alike, taken, slugOf
    <3> QED BY <3>1, <3>2, FS_Surjection
  <2>3. \A a \in Attempts : tried[a] \in taken
    <3> SUFFICES ASSUME NEW a \in Attempts PROVE Qr!Candidate(Qr!SlugBase(n), a) \in taken
      OBVIOUS
    <3>1. a \in 0..MaxAttempts - 1
      BY DEF Attempts
    <3>2. PICK p \in printed : p.slug = Qr!Candidate(Qr!SlugBase(n), a)
      BY <2>1, <3>1 DEF Tried
    <3>3. Head(p.slug) = Head(Qr!SlugBase(n))
      BY <2>1, <3>2, Candidates
    <3> QED BY <3>2, <3>3
  <2>4. tried \in Injection(Attempts, taken)
    <3>1. \A a, b \in Attempts : tried[a] = tried[b] => a = b
      BY <2>1, Candidates
    <3> HIDE DEF taken
    <3> QED BY <2>3, <3>1 DEF Injection, IsInjective
  <2> HIDE DEF taken, tried
  <2>5. Cardinality(Attempts) <= Cardinality(taken)
    BY <2>2, <2>4, FS_Injection
  <2>6. Cardinality(Attempts) = MaxAttempts
    BY QrConstants, FS_Interval DEF Attempts
  <2>7. Cardinality(taken) \in Nat
    BY <2>2, FS_CardinalityType
  <2> QED BY <2>5, <2>6, <2>7, QrConstants DEF taken
<1> QED BY <1>0, <1>1, <1>2, <1>3, <1>4 DEF PrintedCodesWork

\* The codes are a component of the officials' work as well.
LEMMA QrIsAPart == OfficialsSpec => Qr!Spec
<1>1. OfficialsInit => Qr!Init
  BY DEF OfficialsInit
<1>2. [OfficialsNext]_<<active, vars, configVars, qrVars, dutyVars, calendarVars, listVars,
                        rangeVars, logVars>>
        => [Qr!Next]_(Qr!vars)
  <2>1. QrStep => Qr!Next
    <3> SUFFICES ASSUME QrStep PROVE Qr!Next
      OBVIOUS
    <3>1. QrScenario[active].names \subseteq QrNames
      BY DEF QrStep, QrScenario
    <3> QED BY <3>1 DEF QrStep, Qr!Next
  <2>2. UNCHANGED qrVars => UNCHANGED Qr!vars
    BY DEF qrVars, Qr!vars
  <2> QED BY <2>1, <2>2 DEF OfficialsNext, KindStep, ConfigStep, DutyStep, CalendarStep, ListStep,
                            RangeStep, LogStep
<1> QED BY <1>1, <1>2, PTL DEF OfficialsSpec, Qr!Spec

\* A printed code leads where it was made to lead and to no page of the site, no scan is lost,
\* and a name is refused only when as many slugs of it are taken as there are attempts; for any
\* names, officials, visitors, lengths and numbers of attempts.
THEOREM PrintedCodesWorkHolds ==
  (Qr!Spec => []PrintedCodesWork) /\ (OfficialsSpec => []PrintedCodesWork)
<1>1. Qr!Spec => []PrintedCodesWork
  BY QrInductive, QrSaysSo, PTL
<1> QED BY <1>1, QrIsAPart, PTL

----------------------------------------------------------------------------
\* In a finite set in order, as many elements come among the first n as there are, up to n.
LEMMA FirstOfOrder ==
  ASSUME NEW S, IsFiniteSet(S), NEW Ahead \in [S -> SUBSET S],
         \A i, j \in S : i # j => i \in Ahead[j] \/ j \in Ahead[i],
         \A i \in S : i \notin Ahead[i],
         \A i, j, k \in S : i \in Ahead[j] /\ j \in Ahead[k] => i \in Ahead[k],
         NEW n \in Nat, n <= Cardinality(S),
         NEW First \in SUBSET S, \A i \in S : i \in First <=> Cardinality(Ahead[i]) < n
  PROVE  Cardinality(First) = n
<1> DEFINE c == Cardinality(S)
           Rank == [i \in S |-> Cardinality(Ahead[i])]
<1>0. c \in Nat
  BY FS_CardinalityType
<1>1. \A i \in S : IsFiniteSet(Ahead[i]) /\ Cardinality(Ahead[i]) \in Nat /\ Cardinality(Ahead[i]) < c
  <2> SUFFICES ASSUME NEW i \in S
               PROVE  IsFiniteSet(Ahead[i]) /\ Cardinality(Ahead[i]) \in Nat /\ Cardinality(Ahead[i]) < c
    OBVIOUS
  <2>1. Ahead[i] \in SUBSET (S \ {i})
    OBVIOUS
  <2>2. IsFiniteSet(S \ {i}) /\ Cardinality(S \ {i}) = c - 1
    BY FS_RemoveElement
  <2> DEFINE A == Ahead[i]
             R == S \ {i}
  <2>3. IsFiniteSet(A) /\ Cardinality(A) <= c - 1
    <3>1. A \in SUBSET R /\ IsFiniteSet(R) /\ Cardinality(R) = c - 1
      BY <2>1, <2>2
    <3> HIDE DEF A, R
    <3>2. IsFiniteSet(A) /\ Cardinality(A) <= Cardinality(R)
      BY <3>1, FS_Subset
    <3> QED BY <3>1, <3>2
  <2>4. Cardinality(Ahead[i]) \in Nat
    BY <2>3, FS_CardinalityType
  <2> QED BY <1>0, <2>3, <2>4
<1>2. \A i, j \in S : i \in Ahead[j] => Cardinality(Ahead[i]) < Cardinality(Ahead[j])
  <2> SUFFICES ASSUME NEW i \in S, NEW j \in S, i \in Ahead[j]
               PROVE  Cardinality(Ahead[i]) < Cardinality(Ahead[j])
    OBVIOUS
  <2>1. Ahead[i] \cup {i} \in SUBSET Ahead[j] /\ i \notin Ahead[i]
    OBVIOUS
  <2>2. Cardinality(Ahead[i] \cup {i}) = Cardinality(Ahead[i]) + 1
    BY <1>1, <2>1, FS_AddElement
  <2>3. Cardinality(Ahead[i] \cup {i}) <= Cardinality(Ahead[j])
    BY <1>1, <2>1, FS_Subset
  <2> QED BY <1>1, <2>2, <2>3
<1>3. Rank \in Injection(S, 0..c - 1)
  <2>1. Rank \in [S -> 0..c - 1]
    BY <1>0, <1>1
  <2>2. ASSUME NEW i \in S, NEW j \in S, i # j PROVE Rank[i] # Rank[j]
    <3>1. Cardinality(Ahead[i]) < Cardinality(Ahead[j]) \/ Cardinality(Ahead[j]) < Cardinality(Ahead[i])
      BY <1>2, <2>2
    <3> QED BY <1>1, <3>1
  <2> QED BY <2>1, <2>2 DEF Injection, IsInjective
<1>4. Rank \in Surjection(S, 0..c - 1)
  <2> DEFINE T == 0..c - 1
  <2>1. IsFiniteSet(T) /\ Cardinality(T) = Cardinality(S)
    <3>1. c - 1 \in Int /\ 0 \in Int
      BY <1>0
    <3>2. IsFiniteSet(T) /\ Cardinality(T) = IF 0 > c - 1 THEN 0 ELSE c - 1 - 0 + 1
      BY <3>1, FS_Interval
    <3> QED BY <1>0, <3>2
  <2>2. Rank \in Injection(S, T)
    BY <1>3
  <2> HIDE DEF Rank, T
  <2>3. Rank \in Surjection(S, T)
    BY <2>1, <2>2, FS_Injection
  <2> QED BY <2>3 DEF T
<1>5. Cardinality(First) = Cardinality(0..n - 1)
  <2> DEFINE g == [i \in First |-> Rank[i]]
  <2>1. g \in Bijection(First, 0..n - 1)
    <3>1. g \in [First -> 0..n - 1]
      <4>1. \A i \in First : i \in S /\ Rank[i] \in 0..n - 1
        <5>1. \A i \in First : i \in S /\ Rank[i] = Cardinality(Ahead[i]) /\ Cardinality(Ahead[i]) < n
          OBVIOUS
        <5> HIDE DEF Rank
        <5> QED BY <1>1, <5>1
      <4> HIDE DEF Rank
      <4> QED BY <4>1
    <3>2. \A i, j \in First : g[i] = g[j] => i = j
      BY <1>3 DEF Injection, IsInjective
    <3>3. ASSUME NEW m \in 0..n - 1 PROVE \E i \in First : g[i] = m
      <4>1. m \in 0..c - 1
        BY <1>0
      <4>2. PICK i \in S : Rank[i] = m
        BY <1>4, <4>1 DEF Surjection
      <4>3. i \in First
        BY <4>2
      <4> QED BY <4>2, <4>3
    <3> HIDE DEF g
    <3> QED BY <3>1, <3>2, <3>3 DEF Bijection, Injection, IsInjective, Surjection
  <2>2. IsFiniteSet(First)
    <3>1. First \in SUBSET S
      OBVIOUS
    <3> QED BY <3>1, FS_Subset
  <2>3. ExistsBijection(First, 0..n - 1)
    BY <2>1 DEF ExistsBijection
  <2> QED BY <2>2, <2>3, FS_Bijection
<1>6. Cardinality(0..n - 1) = n
  BY FS_Interval
<1> QED BY <1>5, <1>6

----------------------------------------------------------------------------
(* OpsEvents: the summaries and the timelines of the central log. *)

LEMMA LogCardinality == \A S : Log!Cardinality(S) = Cardinality(S)
BY DEF Log!Cardinality, Cardinality

Sources == (Log!Scopes \ {Everything}) \cup {Unknown}
Event == {[kind |-> shape.kind, actor |-> shape.actor, domain |-> shape.domain,
           name |-> shape.name, status |-> shape.status, source |-> s, request |-> q,
           occurred |-> t] : shape \in Shapes, s \in Sources, q \in RequestIds \cup {NoRequest},
                             t \in 0..MaxLogTime}
EventSets == SUBSET Nat
Reading == [scope : Log!Scopes, since : Int, began : Nat, rows : Seq(EventSets)]
Payload == [of : Log!Scopes, rows : Seq(EventSets), since : Int, began : Nat, ended : Nat]

LogShape ==
  /\ events \in Seq(Event)
  /\ ingested \in 0..MaxLogTime /\ logFaults \in 0..MaxLogFaults
  /\ cache \in [Log!Keys -> {NoSummary} \cup [payload : Payload, expires : 1..MaxLogTime + Log!CacheTtl]]
  /\ reader \in [Readers -> {NoSummary} \cup Reading]
  /\ served \in {NoSummary} \cup [scope : Log!Scopes, payload : Payload]

\* The event on view and those of its timeline are in the log.
ViewShape == view # << >> => /\ view = [id |-> view.id, rows |-> view.rows]
                             /\ view.id \in DOMAIN events
                             /\ view.rows # << >> => view.rows[1] \subseteq DOMAIN events

\* The rows of a summary so far: of its source, each in the window that was fixed first but for
\* the total, and none of the breakdown that an earlier query saw is missing from it.
Told(scope, since, rowsOf) ==
  /\ Len(rowsOf) <= Len(Log!Queries)
  /\ \A k \in DOMAIN rowsOf : rowsOf[k] \subseteq Log!Scoped(scope)
  /\ \A k \in DOMAIN rowsOf : k > 1 => rowsOf[k] \subseteq Log!Since(scope, since)
  /\ 3 \in DOMAIN rowsOf => \A i \in rowsOf[3] : events[i].status = "failure"
  /\ 8 \in DOMAIN rowsOf => rowsOf[2] \subseteq rowsOf[8] /\ rowsOf[3] \subseteq rowsOf[8]

\* A summary is kept, and answered, under the key of the source it was counted for.
OfItsKey ==
  /\ \A key \in Log!Keys :
       cache[key] # NoSummary => Log!CacheKey(cache[key].payload.of) = key
  /\ served # NoSummary => Log!CacheKey(served.payload.of) = Log!CacheKey(served.scope)

\* The summaries that were answered or are kept, by the source they were counted for.
IsKept(scope, p) ==
  /\ p.of = scope
  /\ \/ served # NoSummary /\ served.payload = p
     \/ \E key \in Log!Keys : cache[key] # NoSummary /\ cache[key].payload = p

\* A total that was counted after another summary of its source had ended has its rows.
Follows(p, began, rowsOf) == p.ended < began => p.rows[1] \subseteq rowsOf[1]

KeptIsTold ==
  \A scope \in Log!Scopes, p \in Payload : IsKept(scope, p) =>
    /\ Told(scope, p.since, p.rows) /\ Len(p.rows) = Len(Log!Queries)
    /\ p.began <= p.ended /\ p.ended <= ingested
    /\ \A q \in Payload : IsKept(scope, q) => Follows(p, q.began, q.rows)
    /\ \A r \in Readers :
         reader[r] # NoSummary /\ reader[r].scope = scope /\ reader[r].rows # << >> =>
           Follows(p, reader[r].began, reader[r].rows)
ReadingIsTold ==
  \A r \in Readers : reader[r] # NoSummary =>
    Told(reader[r].scope, reader[r].since, reader[r].rows) /\ reader[r].began <= ingested

LogInv ==
  LogShape /\ ViewShape /\ OfItsKey /\ ReadingIsTold /\ KeptIsTold /\ Log!TimelineOfTheEvent

\* What the constants are.
LEMMA LogConstants ==
  /\ MaxLogTime \in Nat /\ MaxLogFaults \in Nat /\ Window \in Nat /\ TimelineLimit \in Nat \ {0}
  /\ LogDates \subseteq 0..MaxLogTime /\ Log!CacheTtl \in Nat
  /\ \A s \in Spellings : Canonical[s] # Everything
BY OpsEventsHolds DEF Log!LimitAssumption, Log!CanonicalAssumption, Log!CacheTtl

\* The fields of an event.
LEMMA EventFields ==
  ASSUME NEW e \in Event
  PROVE  e.source \in Sources /\ e.request \in RequestIds \cup {NoRequest} /\ e.occurred \in 0..MaxLogTime
BY DEF Event

\* Events are only added: what a query saw is there for a later one, and says the same.
LogGrows ==
  /\ DOMAIN events \subseteq DOMAIN events'
  /\ \A i \in DOMAIN events : events'[i] = events[i]

LEMMA MoreLater ==
  ASSUME LogGrows, NEW scope, NEW since
  PROVE  /\ Log!Scoped(scope) \subseteq Log!Scoped(scope)'
         /\ Log!Since(scope, since) \subseteq Log!Since(scope, since)'
         /\ \A rowsOf : Told(scope, since, rowsOf) => Told(scope, since, rowsOf)'
<1>1. /\ \A i \in Log!Scoped(scope) : i \in Log!Scoped(scope)'
      /\ \A i \in Log!Scoped(scope) : events'[i] = events[i]
  BY DEF LogGrows, Log!Scoped, Log!InScope
<1>2. \A i \in Log!Since(scope, since) : i \in Log!Since(scope, since)'
  BY <1>1 DEF Log!Since
<1>3. ASSUME NEW rowsOf, Told(scope, since, rowsOf) PROVE Told(scope, since, rowsOf)'
  <2>1. \A k \in DOMAIN rowsOf : rowsOf[k] \subseteq Log!Scoped(scope)'
    BY <1>1, <1>3 DEF Told
  <2>2. \A k \in DOMAIN rowsOf : k > 1 => rowsOf[k] \subseteq Log!Since(scope, since)'
    BY <1>2, <1>3 DEF Told
  <2>3. 3 \in DOMAIN rowsOf => \A i \in rowsOf[3] : events'[i].status = "failure"
    BY <1>1, <1>3 DEF Told
  <2> QED BY <1>3, <2>1, <2>2, <2>3 DEF Told, Log!Queries
<1> QED BY <1>1, <1>2, <1>3

\* A step that answers nothing new and begins summaries at most keeps what is told.
LEMMA NothingNewIsTold ==
  ASSUME LogInv, LogGrows, ingested' \in Nat, ingested <= ingested',
         \A scope \in Log!Scopes, p \in Payload : IsKept(scope, p)' => IsKept(scope, p),
         \A r \in Readers :
           \/ reader'[r] = reader[r]
           \/ reader'[r] = NoSummary
           \/ reader'[r].rows = << >> /\ reader'[r].began <= ingested'
  PROVE  ReadingIsTold' /\ KeptIsTold'
<1>0. /\ reader \in [Readers -> {NoSummary} \cup Reading] /\ ingested \in Nat
  BY DEF LogInv, LogShape
<1>1. ASSUME NEW r \in Readers, reader'[r] # NoSummary
      PROVE  (Told(reader[r].scope, reader[r].since, reader[r].rows) /\ reader[r].began <= ingested)'
  <2>1. CASE reader'[r] = reader[r]
    <3>1. reader[r] \in Reading /\ Told(reader[r].scope, reader[r].since, reader[r].rows)
          /\ reader[r].began <= ingested
      BY <1>0, <1>1, <2>1 DEF LogInv, ReadingIsTold
    <3>2. reader[r].began \in Nat
      BY <3>1 DEF Reading
    <3>3. PICK a : a = reader[r].scope
      OBVIOUS
    <3>4. PICK b : b = reader[r].since
      OBVIOUS
    <3>5. PICK c : c = reader[r].rows
      OBVIOUS
    <3>6. Told(a, b, c)'
      BY <3>1, <3>3, <3>4, <3>5, MoreLater
    <3> QED BY <1>0, <2>1, <3>1, <3>2, <3>3, <3>4, <3>5, <3>6 DEF Told, Log!Scoped, Log!Since
  <2>2. CASE reader'[r].rows = << >> /\ reader'[r].began <= ingested'
    BY <2>2 DEF Told, Log!Queries
  <2> QED BY <1>1, <2>1, <2>2
<1>2. ASSUME NEW scope \in Log!Scopes, NEW p \in Payload, IsKept(scope, p)'
      PROVE  /\ Told(scope, p.since, p.rows)' /\ Len(p.rows) = Len(Log!Queries)
             /\ p.began <= p.ended /\ p.ended <= ingested'
             /\ \A q \in Payload : IsKept(scope, q)' => Follows(p, q.began, q.rows)
             /\ \A r \in Readers :
                  reader'[r] # NoSummary /\ reader'[r].scope = scope /\ reader'[r].rows # << >> =>
                    Follows(p, reader'[r].began, reader'[r].rows)
  <2>1. /\ Told(scope, p.since, p.rows) /\ Len(p.rows) = Len(Log!Queries)
        /\ p.began <= p.ended /\ p.ended <= ingested
        /\ \A q \in Payload : IsKept(scope, q) => Follows(p, q.began, q.rows)
        /\ \A r \in Readers :
             reader[r] # NoSummary /\ reader[r].scope = scope /\ reader[r].rows # << >> =>
               Follows(p, reader[r].began, reader[r].rows)
    BY <1>2 DEF LogInv, KeptIsTold
  <2>2. Told(scope, p.since, p.rows)'
    <3>1. PICK b : b = p.since
      OBVIOUS
    <3>2. PICK c : c = p.rows
      OBVIOUS
    <3>3. Told(scope, b, c)'
      BY <2>1, <3>1, <3>2, MoreLater
    <3> QED BY <3>1, <3>2, <3>3 DEF Told, Log!Scoped, Log!Since
  <2>3. p.ended <= ingested'
    BY <1>0, <2>1 DEF Payload
  <2>4. \A q \in Payload : IsKept(scope, q)' => Follows(p, q.began, q.rows)
    BY <2>1
  <2>5. ASSUME NEW r \in Readers, reader'[r] # NoSummary, reader'[r].scope = scope,
               reader'[r].rows # << >>
        PROVE  Follows(p, reader'[r].began, reader'[r].rows)
    BY <2>1, <2>5
  <2> QED BY <2>1, <2>2, <2>3, <2>4, <2>5
<1>3. ReadingIsTold'
  BY <1>1 DEF ReadingIsTold
<1>4. KeptIsTold'
  BY <1>2 DEF KeptIsTold, Follows, Log!Queries, Log!Scopes, Log!Scope
<1> QED BY <1>3, <1>4

\* The detail on view does not change with the log.
LEMMA TimelineStays ==
  ASSUME LogInv, LogGrows, UNCHANGED view
  PROVE  Log!TimelineOfTheEvent' /\ ViewShape'
<1>1. ViewShape'
  BY DEF LogInv, ViewShape, LogGrows
<1>2. Log!TimelineOfTheEvent'
  <2> SUFFICES ASSUME view # << >>, view.rows # << >>
               PROVE  /\ \A j \in view.rows[1] : /\ events'[j].request = events'[view.id].request
                                                 /\ events'[j].source = events'[view.id].source
                      /\ view.id \notin view.rows[1] => /\ Log!Cardinality(view.rows[1]) = TimelineLimit
                                                        /\ \A j \in view.rows[1] : Log!Later(view.id, j)'
    BY DEF Log!TimelineOfTheEvent
  <2>1. /\ view.id \in DOMAIN events /\ events'[view.id] = events[view.id]
        /\ \A j \in view.rows[1] : j \in DOMAIN events /\ events'[j] = events[j]
    BY DEF LogInv, ViewShape, LogGrows
  <2>2. /\ \A j \in view.rows[1] : /\ events[j].request = events[view.id].request
                                   /\ events[j].source = events[view.id].source
        /\ view.id \notin view.rows[1] => /\ Log!Cardinality(view.rows[1]) = TimelineLimit
                                          /\ \A j \in view.rows[1] : Log!Later(view.id, j)
    BY DEF LogInv, Log!TimelineOfTheEvent
  <2>3. \A j \in view.rows[1] : Log!Later(view.id, j) => Log!Later(view.id, j)'
    BY <2>1 DEF Log!Later
  <2> QED BY <2>1, <2>2, <2>3
<1> QED BY <1>1, <1>2

LEMMA TickKeepsLog ==
  ASSUME LogInv, Log!Tick
  PROVE  LogInv'
<1>0. /\ ingested' = ingested + 1 /\ ingested' \in 0..MaxLogTime /\ ingested \in Nat /\ ingested' \in Nat
      /\ UNCHANGED <<events, reader, served, view, logFaults>>
  BY LogConstants DEF LogInv, LogShape, Log!Tick
<1>1. \A k \in Log!Keys : cache'[k] \in {NoSummary, cache[k]}
  BY DEF Log!Tick
<1>2. LogShape'
  <2>1. cache' \in [Log!Keys -> {NoSummary} \cup [payload : Payload, expires : 1..MaxLogTime + Log!CacheTtl]]
    <3>1. cache' = [k \in Log!Keys |-> cache'[k]]
      BY DEF Log!Tick
    <3>2. cache \in [Log!Keys -> {NoSummary} \cup [payload : Payload, expires : 1..MaxLogTime + Log!CacheTtl]]
      BY DEF LogInv, LogShape
    <3> QED BY <1>1, <3>1, <3>2
  <2> QED BY <1>0, <2>1 DEF LogInv, LogShape
<1>3. LogGrows
  BY <1>0 DEF LogGrows
<1>4. \A scope \in Log!Scopes, p \in Payload : IsKept(scope, p)' => IsKept(scope, p)
  BY <1>0, <1>1 DEF IsKept
<1>5. OfItsKey'
  BY <1>0, <1>1 DEF LogInv, OfItsKey, Log!CacheKey
<1> QED BY <1>0, <1>2, <1>3, <1>4, <1>5, NothingNewIsTold, TimelineStays DEF LogInv

LEMMA CreateKeepsLog ==
  ASSUME LogInv, NEW s \in Spellings, NEW shape \in Shapes, NEW q \in RequestIds \cup {NoRequest},
         NEW at \in {<< >>} \cup {<<t>> : t \in LogDates}, Log!CreateEvent(s, shape, q, at)
  PROVE  LogInv'
<1> DEFINE t == IF at = << >> THEN ingested ELSE at[1]
           e == [kind |-> shape.kind, actor |-> shape.actor, domain |-> shape.domain,
                 name |-> shape.name, status |-> shape.status,
                 source |-> Log!Source(s), request |-> q, occurred |-> t]
<1>0. /\ UNCHANGED <<ingested, cache, reader, served, view, logFaults>> /\ ingested \in 0..MaxLogTime
      /\ ingested \in Nat /\ events' = Append(events, e)
  BY LogConstants DEF LogInv, LogShape, Log!CreateEvent
<1>1. e \in Event
  <2>1. t \in 0..MaxLogTime
    BY <1>0, LogConstants
  <2>2. Log!Source(s) \in Sources
    BY LogConstants DEF Sources, Log!Source, Log!Scopes, Log!Scope
  <2> QED BY <2>1, <2>2 DEF Event
<1> HIDE DEF e
<1>2. /\ events \in Seq(Event) /\ DOMAIN events = 1..Len(events) /\ Len(events) \in Nat
  BY DEF LogInv, LogShape
<1>3. events' \in Seq(Event) /\ LogGrows
  <2>1. /\ events' \in Seq(Event) /\ Len(events') = Len(events) + 1
        /\ \A i \in 1..Len(events) : events'[i] = events[i]
    BY <1>0, <1>1, <1>2, AppendProperties
  <2> QED BY <1>2, <2>1 DEF LogGrows
<1>4. LogShape'
  BY <1>0, <1>3 DEF LogInv, LogShape
<1>5. \A scope \in Log!Scopes, p \in Payload : IsKept(scope, p)' => IsKept(scope, p)
  BY <1>0 DEF IsKept
<1>6. OfItsKey'
  BY <1>0 DEF LogInv, OfItsKey, Log!CacheKey
<1> QED BY <1>0, <1>3, <1>4, <1>5, <1>6, NothingNewIsTold, TimelineStays DEF LogInv

\* A summary is answered from what is kept, or begun.
LEMMA SummaryKeepsLog ==
  ASSUME LogInv, NEW r \in Readers, NEW s \in Spellings, Log!GetSummary(r, s)
  PROVE  LogInv'
<1> DEFINE scope == Log!Scope(s)
           key == Log!CacheKey(scope)
           fresh == [scope |-> scope, since |-> ingested - Window, began |-> ingested, rows |-> << >>]
<1>0. /\ UNCHANGED <<events, ingested, cache, view, logFaults>> /\ ingested \in Nat
      /\ \/ /\ cache[key] # NoSummary /\ UNCHANGED reader
            /\ served' = [scope |-> scope, payload |-> cache[key].payload]
         \/ /\ reader' = [reader EXCEPT ![r] = fresh] /\ UNCHANGED served
  BY LogConstants DEF LogInv, LogShape, Log!GetSummary
<1>1. scope \in Log!Scopes /\ key \in Log!Keys
  BY DEF Log!Scopes, Log!Keys
<1>10. OfItsKey'
  <2>1. CASE UNCHANGED served
    BY <1>0, <2>1 DEF LogInv, OfItsKey, Log!CacheKey
  <2>2. CASE cache[key] # NoSummary /\ served' = [scope |-> scope, payload |-> cache[key].payload]
    <3>1. Log!CacheKey(cache[key].payload.of) = key
      BY <1>1, <2>2 DEF LogInv, OfItsKey
    <3> QED BY <1>0, <2>2, <3>1 DEF LogInv, OfItsKey, Log!CacheKey
  <2> QED BY <1>0, <2>1, <2>2
<1>2. LogGrows
  BY <1>0 DEF LogGrows
<1>3. /\ reader \in [Readers -> {NoSummary} \cup Reading]
      /\ cache \in [Log!Keys -> {NoSummary} \cup [payload : Payload, expires : 1..MaxLogTime + Log!CacheTtl]]
  BY DEF LogInv, LogShape
<1>4. fresh \in Reading /\ fresh.rows = << >> /\ fresh.began <= ingested
  BY <1>0, <1>1, LogConstants DEF Reading
<1> HIDE DEF fresh, scope, key
<1>5. LogShape'
  <2>1. served' \in {NoSummary} \cup [scope : Log!Scopes, payload : Payload]
    BY <1>0, <1>1, <1>3 DEF LogInv, LogShape
  <2>2. reader' \in [Readers -> {NoSummary} \cup Reading]
    BY <1>0, <1>3, <1>4
  <2> QED BY <1>0, <2>1, <2>2 DEF LogInv, LogShape
<1>6. \A c \in Log!Scopes, p \in Payload : IsKept(c, p)' => IsKept(c, p)
  BY <1>0, <1>1 DEF IsKept
<1>7. \A x \in Readers : reader'[x] = reader[x] \/ (reader'[x].rows = << >> /\ reader'[x].began <= ingested')
  BY <1>0, <1>3, <1>4
<1>8. ingested <= ingested' /\ ingested' \in Nat /\ UNCHANGED view
  BY <1>0
<1>9. ReadingIsTold' /\ KeptIsTold'
  BY <1>2, <1>6, <1>7, <1>8, NothingNewIsTold
<1> QED BY <1>2, <1>5, <1>8, <1>9, <1>10, TimelineStays DEF LogInv

\* What a query answers is of the source and, but for the total, in the window; the breakdown
\* by status is all of the window, and the failures are failures.
LEMMA AnswersAre ==
  ASSUME LogInv, NEW scope \in Log!Scopes, NEW since, NEW k \in 1..Len(Log!Queries),
         NEW x \in Log!Answers(Log!Queries[k], scope, since)
  PROVE  /\ x \subseteq Log!Scoped(scope) /\ x \in EventSets
         /\ k = 1 => x = Log!Scoped(scope)
         /\ k > 1 => x \subseteq Log!Since(scope, since)
         /\ k = 3 => \A i \in x : events[i].status = "failure"
         /\ k = 8 => x = Log!Since(scope, since)
<1> DEFINE q == Log!Queries[k]
<1>0. /\ Log!Since(scope, since) \subseteq Log!Scoped(scope) /\ Log!Scoped(scope) \in EventSets
      /\ Log!Matching(q, scope, since) \subseteq Log!Since(scope, since)
  <2>1. DOMAIN events \subseteq Nat
    BY DEF LogInv, LogShape
  <2> QED BY <2>1 DEF Log!Since, Log!Scoped, Log!Matching, EventSets
<1>1. k \in 1..10 /\ (k = 1 <=> q = "totalEvents") /\ (k = 3 => q = "errorEvents24h")
      /\ (k = 8 => q = "statusBreakdown")
  BY DEF Log!Queries
<1> HIDE DEF q
<1>2. CASE k = 1
  BY <1>0, <1>1, <1>2 DEF Log!Answers, q
<1>3. CASE k # 1
  <2>1. x \subseteq Log!Matching(q, scope, since)
    BY <1>1, <1>3 DEF Log!Answers, Log!Newest, q
  <2>2. k = 3 => \A i \in x : events[i].status = "failure"
    <3> SUFFICES ASSUME k = 3 PROVE \A i \in x : events[i].status = "failure"
      OBVIOUS
    <3>1. \A i \in x : Log!Counts(q, events[i])
      BY <2>1 DEF Log!Matching
    <3>2. \A i \in x : events[i].status = "failure"
      BY <1>1, <3>1 DEF Log!Counts
    <3> QED BY <3>2
  <2>3. k = 8 => x = Log!Since(scope, since)
    <3> SUFFICES ASSUME k = 8 PROVE x = Log!Since(scope, since)
      OBVIOUS
    <3>1. \A e : Log!Counts(q, e)
      BY <1>1 DEF Log!Counts
    <3>2. x = Log!Matching(q, scope, since)
      BY <1>1 DEF Log!Answers, q
    <3>3. Log!Matching(q, scope, since) = Log!Since(scope, since)
      BY <3>1 DEF Log!Matching
    <3> QED BY <3>2, <3>3
  <2>4. x \subseteq Log!Since(scope, since) /\ x \subseteq Log!Scoped(scope) /\ x \in EventSets
    BY <1>0, <2>1 DEF EventSets
  <2> QED BY <1>3, <2>2, <2>3, <2>4
<1> QED BY <1>2, <1>3

LEMMA QueryKeepsLog ==
  ASSUME LogInv, NEW r \in Readers, Log!RunQuery(r)
  PROVE  LogInv'
<1> DEFINE scope == reader[r].scope
           since == reader[r].since
           seen == reader[r].rows
           k == Len(seen) + 1
<1>0. /\ UNCHANGED <<events, ingested, cache, served, view, logFaults>>
      /\ reader[r] # NoSummary /\ Len(seen) < Len(Log!Queries)
  BY DEF Log!RunQuery
<1>1. PICK x \in Log!Answers(Log!Queries[k], scope, since) :
        reader' = [reader EXCEPT ![r] = [reader[r] EXCEPT !.rows = Append(seen, x)]]
  BY DEF Log!RunQuery
<1>2. reader \in [Readers -> {NoSummary} \cup Reading] /\ reader[r] \in Reading
  BY <1>0 DEF LogInv, LogShape
<1>3. /\ scope \in Log!Scopes /\ seen \in Seq(EventSets) /\ Len(seen) \in Nat /\ DOMAIN seen = 1..Len(seen)
      /\ Told(scope, since, seen) /\ reader[r].began <= ingested
  BY <1>0, <1>2 DEF LogInv, ReadingIsTold, Reading
<1>4. k \in 1..Len(Log!Queries)
  BY <1>0, <1>3 DEF Log!Queries
<1> DEFINE a == Append(seen, x)
<1>5. /\ x \subseteq Log!Scoped(scope) /\ x \in EventSets
      /\ k = 1 => x = Log!Scoped(scope)
      /\ k > 1 => x \subseteq Log!Since(scope, since)
      /\ k = 3 => \A i \in x : events[i].status = "failure"
      /\ k = 8 => x = Log!Since(scope, since)
  <2>1. PICK c \in Log!Scopes : c = scope
    BY <1>3
  <2>2. PICK b : b = since
    OBVIOUS
  <2>3. PICK n \in 1..Len(Log!Queries) : n = k
    BY <1>4
  <2>4. x \in Log!Answers(Log!Queries[n], c, b)
    BY <1>1, <2>1, <2>2, <2>3
  <2> HIDE DEF scope, since, k
  <2>5. /\ x \subseteq Log!Scoped(c) /\ x \in EventSets
        /\ n = 1 => x = Log!Scoped(c)
        /\ n > 1 => x \subseteq Log!Since(c, b)
        /\ n = 3 => \A i \in x : events[i].status = "failure"
        /\ n = 8 => x = Log!Since(c, b)
    BY <2>4, AnswersAre
  <2> QED BY <2>1, <2>2, <2>3, <2>5
<1>6. /\ a \in Seq(EventSets) /\ Len(a) = k /\ DOMAIN a = 1..k /\ a[k] = x
      /\ \A j \in 1..Len(seen) : a[j] = seen[j]
  BY <1>3, <1>5, AppendProperties
<1>7. Told(scope, since, a)
  <2> HIDE DEF a, scope, since, seen, k
  <2>1. k \in Nat /\ DOMAIN seen = 1..k - 1 /\ \A j \in 1..k : j # k => j \in DOMAIN seen /\ a[j] = seen[j]
    BY <1>3, <1>6 DEF k
  <2>2. \A j \in 1..k : a[j] \subseteq Log!Scoped(scope)
    BY <1>3, <1>5, <1>6, <2>1 DEF Told
  <2>3. \A j \in 1..k : j > 1 => a[j] \subseteq Log!Since(scope, since)
    BY <1>3, <1>5, <1>6, <2>1 DEF Told
  <2>4. 3 \in 1..k => \A i \in a[3] : events[i].status = "failure"
    BY <1>3, <1>5, <1>6, <2>1 DEF Told
  <2>5. 8 \in 1..k => a[2] \subseteq a[8] /\ a[3] \subseteq a[8]
    <3>1. CASE k = 8
      BY <1>5, <1>6, <2>3, <3>1
    <3>2. CASE k # 8 /\ 8 \in 1..k
      BY <1>3, <2>1, <3>2 DEF Told
    <3> QED BY <3>1, <3>2
  <2> QED BY <1>4, <1>6, <2>2, <2>3, <2>4, <2>5 DEF Told
<1>8. /\ k = 1 => a[1] = Log!Scoped(scope)
      /\ k # 1 => seen # << >> /\ a[1] = seen[1]
  <2> HIDE DEF a
  <2>1. k # 1 => 1 \in 1..Len(seen)
    BY <1>3
  <2>2. k # 1 => seen # << >>
    BY <1>3
  <2> QED BY <1>5, <1>6, <2>1, <2>2
<1>9. /\ reader'[r] = [reader[r] EXCEPT !.rows = a] /\ \A y \in Readers : y # r => reader'[y] = reader[y]
      /\ reader'[r].rows = a /\ reader'[r].scope = scope /\ reader'[r].since = since
      /\ reader'[r].began = reader[r].began /\ reader'[r] \in Reading
  BY <1>1, <1>2, <1>6 DEF Reading
<1> HIDE DEF a
<1>10. LogShape'
  <2>1. reader' \in [Readers -> {NoSummary} \cup Reading]
    BY <1>1, <1>2, <1>9
  <2> QED BY <1>0, <2>1 DEF LogInv, LogShape
<1>11. ReadingIsTold'
  <2> SUFFICES ASSUME NEW y \in Readers, reader'[y] # NoSummary
               PROVE  (Told(reader[y].scope, reader[y].since, reader[y].rows) /\ reader[y].began <= ingested)'
    BY DEF ReadingIsTold
  <2>1. CASE y = r
    BY <1>0, <1>3, <1>7, <1>9, <2>1 DEF Told, Log!Scoped, Log!Since
  <2>2. CASE y # r
    <3>1. Told(reader[y].scope, reader[y].since, reader[y].rows) /\ reader[y].began <= ingested
      BY <1>9, <2>2 DEF LogInv, ReadingIsTold
    <3> QED BY <1>0, <1>9, <2>2, <3>1 DEF Told, Log!Scoped, Log!Since
  <2> QED BY <2>1, <2>2
<1>12. KeptIsTold'
  <2> SUFFICES ASSUME NEW c \in Log!Scopes, NEW p \in Payload, IsKept(c, p)
               PROVE  /\ Told(c, p.since, p.rows) /\ Len(p.rows) = Len(Log!Queries)
                      /\ p.began <= p.ended /\ p.ended <= ingested
                      /\ \A q \in Payload : IsKept(c, q) => Follows(p, q.began, q.rows)
                      /\ \A y \in Readers :
                           reader'[y] # NoSummary /\ reader'[y].scope = c /\ reader'[y].rows # << >> =>
                             Follows(p, reader'[y].began, reader'[y].rows)
    BY <1>0 DEF KeptIsTold, IsKept, Told, Follows, Log!Scoped, Log!Since
  <2>1. /\ Told(c, p.since, p.rows) /\ Len(p.rows) = Len(Log!Queries)
        /\ p.began <= p.ended /\ p.ended <= ingested
        /\ \A q \in Payload : IsKept(c, q) => Follows(p, q.began, q.rows)
        /\ \A y \in Readers :
             reader[y] # NoSummary /\ reader[y].scope = c /\ reader[y].rows # << >> =>
               Follows(p, reader[y].began, reader[y].rows)
    BY DEF LogInv, KeptIsTold
  <2>2. ASSUME scope = c PROVE Follows(p, reader[r].began, a)
    <3>1. CASE k = 1
      <4>1. p.rows[1] \subseteq Log!Scoped(c)
        BY <2>1 DEF Told, Log!Queries, Payload
      <4> QED BY <1>8, <2>2, <3>1, <4>1 DEF Follows
    <3>2. CASE k # 1
      BY <1>0, <1>3, <1>8, <2>1, <2>2, <3>2 DEF Follows
    <3> QED BY <3>1, <3>2
  <2>3. ASSUME NEW y \in Readers, reader'[y] # NoSummary, reader'[y].scope = c, reader'[y].rows # << >>
        PROVE  Follows(p, reader'[y].began, reader'[y].rows)
    <3>1. CASE y = r
      BY <1>9, <2>2, <2>3, <3>1
    <3>2. CASE y # r
      BY <1>9, <2>1, <2>3, <3>2
    <3> QED BY <3>1, <3>2
  <2> QED BY <2>1, <2>3
<1>13. LogGrows /\ UNCHANGED view
  BY <1>0 DEF LogGrows
<1>14. OfItsKey'
  BY <1>0 DEF LogInv, OfItsKey, Log!CacheKey
<1> QED BY <1>10, <1>11, <1>12, <1>13, <1>14, TimelineStays DEF LogInv

\* A summary that is stored has ended now, so none that began before follows it.
LEMMA StoreKeepsLog ==
  ASSUME LogInv, NEW r \in Readers, Log!StoreSummary(r)
  PROVE  LogInv'
<1> DEFINE scope == reader[r].scope
           key == Log!CacheKey(scope)
           p == [of |-> scope, rows |-> reader[r].rows, since |-> reader[r].since,
                 began |-> reader[r].began, ended |-> ingested]
<1>0. /\ reader[r] # NoSummary /\ Len(reader[r].rows) = Len(Log!Queries)
      /\ reader' = [reader EXCEPT ![r] = NoSummary]
      /\ UNCHANGED <<events, ingested, view>> /\ ingested \in Nat /\ ingested \in 0..MaxLogTime
  BY LogConstants DEF LogInv, LogShape, Log!StoreSummary
<1>1. /\ reader \in [Readers -> {NoSummary} \cup Reading] /\ reader[r] \in Reading
      /\ cache \in [Log!Keys -> {NoSummary} \cup [payload : Payload, expires : 1..MaxLogTime + Log!CacheTtl]]
  BY <1>0 DEF LogInv, LogShape
<1>2. /\ scope \in Log!Scopes /\ key \in Log!Keys
      /\ p \in Payload /\ Told(scope, p.since, p.rows) /\ p.began <= p.ended /\ p.of = scope
  BY <1>0, <1>1 DEF Reading, Payload, LogInv, ReadingIsTold, Log!Keys
<1>3. \/ /\ UNCHANGED logFaults /\ served' = [scope |-> scope, payload |-> p]
         /\ \/ UNCHANGED cache
            \/ /\ Log!CacheTtl > 0
               /\ cache' = [cache EXCEPT ![key] = [payload |-> p, expires |-> ingested + Log!CacheTtl]]
      \/ UNCHANGED <<cache, served>> /\ logFaults < MaxLogFaults /\ logFaults' = logFaults + 1
  BY DEF Log!StoreSummary
<1>4. /\ reader'[r] = NoSummary /\ \A y \in Readers : y # r => reader'[y] = reader[y]
      /\ reader' \in [Readers -> {NoSummary} \cup Reading]
  BY <1>0, <1>1
<1>5. /\ p.ended = ingested /\ p.began = reader[r].began /\ p.rows = reader[r].rows
      /\ Len(p.rows) = Len(Log!Queries) /\ p.rows # << >>
  <2>1. Len(Log!Queries) = 10
    BY DEF Log!Queries
  <2>2. reader[r].rows # << >>
    <3>1. Len(<< >>) # 10 /\ Len(reader[r].rows) = 10
      BY <1>0, <2>1
    <3> QED BY <3>1
  <2> QED BY <1>0, <2>2
<1>9. OfItsKey'
  <2>1. Log!CacheKey(p.of) = key
    OBVIOUS
  <2> HIDE DEF p, key
  <2>2. CASE UNCHANGED <<cache, served>>
    BY <1>0, <2>2 DEF LogInv, OfItsKey, Log!CacheKey
  <2>3. CASE served' = [scope |-> scope, payload |-> p]
    <3>1. \A k \in Log!Keys : cache'[k] = cache[k] \/ (k = key /\ cache'[k].payload = p)
      BY <1>1, <1>3
    <3>2. \A k \in Log!Keys : cache'[k] # NoSummary => Log!CacheKey(cache'[k].payload.of) = k
      BY <2>1, <3>1 DEF LogInv, OfItsKey
    <3>3. Log!CacheKey(p.of) = Log!CacheKey(scope)
      BY <1>2
    <3> QED BY <2>3, <3>2, <3>3 DEF OfItsKey, Log!CacheKey
  <2> QED BY <1>3, <2>2, <2>3
<1> HIDE DEF p, scope, key
<1>6. LogGrows /\ UNCHANGED <<ingested, view>>
  BY <1>0 DEF LogGrows
<1>7. CASE UNCHANGED <<cache, served>> /\ logFaults < MaxLogFaults /\ logFaults' = logFaults + 1
  <2>1. LogShape'
    BY <1>0, <1>4, <1>7, LogConstants DEF LogInv, LogShape
  <2>2. \A c \in Log!Scopes, q \in Payload : IsKept(c, q)' => IsKept(c, q)
    BY <1>7 DEF IsKept
  <2>3. ReadingIsTold' /\ KeptIsTold'
    BY <1>0, <1>4, <1>6, <2>2, NothingNewIsTold
  <2> QED BY <1>6, <1>9, <2>1, <2>3, TimelineStays DEF LogInv
<1>8. CASE /\ UNCHANGED logFaults /\ served' = [scope |-> scope, payload |-> p]
           /\ \/ UNCHANGED cache
              \/ /\ Log!CacheTtl > 0
                 /\ cache' = [cache EXCEPT ![key] = [payload |-> p, expires |-> ingested + Log!CacheTtl]]
  <2>1. LogShape'
    <3>1. served' \in {NoSummary} \cup [scope : Log!Scopes, payload : Payload]
      BY <1>2, <1>8
    <3>2. cache' \in [Log!Keys -> {NoSummary} \cup [payload : Payload, expires : 1..MaxLogTime + Log!CacheTtl]]
      <4>1. CASE UNCHANGED cache
        BY <1>1, <4>1
      <4>2. CASE /\ Log!CacheTtl > 0
                 /\ cache' = [cache EXCEPT ![key] = [payload |-> p, expires |-> ingested + Log!CacheTtl]]
        <5>1. ingested + Log!CacheTtl \in 1..MaxLogTime + Log!CacheTtl
          BY <1>0, <4>2, LogConstants
        <5>2. [payload |-> p, expires |-> ingested + Log!CacheTtl]
                \in [payload : Payload, expires : 1..MaxLogTime + Log!CacheTtl]
          BY <1>2, <5>1
        <5> QED BY <1>1, <4>2, <5>2
      <4> QED BY <1>8, <4>1, <4>2
    <3> QED BY <1>0, <1>4, <1>8, <3>1, <3>2 DEF LogInv, LogShape
  <2>2. \A c \in Log!Scopes, q \in Payload : IsKept(c, q)' => IsKept(c, q) \/ (c = scope /\ q = p)
    <3> SUFFICES ASSUME NEW c \in Log!Scopes, NEW q \in Payload, IsKept(c, q)', ~IsKept(c, q)
                 PROVE  c = scope /\ q = p
      OBVIOUS
    <3>0. q.of = c
      BY DEF IsKept
    <3>1. CASE served' # NoSummary /\ served'.payload = q
      BY <1>2, <1>8, <3>0, <3>1
    <3>2. CASE \E k \in Log!Keys : cache'[k] # NoSummary /\ cache'[k].payload = q
      <4>0. PICK k \in Log!Keys : cache'[k] # NoSummary /\ cache'[k].payload = q
        BY <3>2
      <4>1. cache'[k] # cache[k]
        BY <3>0, <4>0 DEF IsKept
      <4>2. cache' = [cache EXCEPT ![key] = [payload |-> p, expires |-> ingested + Log!CacheTtl]]
        BY <1>8, <4>1
      <4>3. q = p
        BY <1>1, <4>0, <4>1, <4>2
      <4> QED BY <1>2, <3>0, <4>3
    <3> QED BY <3>1, <3>2 DEF IsKept
  <2>3. ASSUME NEW c, NEW since, NEW rowsOf, Told(c, since, rowsOf) PROVE Told(c, since, rowsOf)'
    BY <1>6, <2>3, MoreLater
  <2>4. ReadingIsTold'
    <3> SUFFICES ASSUME NEW y \in Readers, reader'[y] # NoSummary
                 PROVE  (Told(reader[y].scope, reader[y].since, reader[y].rows) /\ reader[y].began <= ingested)'
      BY DEF ReadingIsTold
    <3>1. reader'[y] = reader[y] /\ Told(reader[y].scope, reader[y].since, reader[y].rows)
          /\ reader[y].began <= ingested
      BY <1>4 DEF LogInv, ReadingIsTold
    <3> QED BY <1>0, <3>1 DEF Told, Log!Scoped, Log!Since
  <2>5. KeptIsTold'
    <3> SUFFICES ASSUME NEW c \in Log!Scopes, NEW q \in Payload, IsKept(c, q)'
                 PROVE  /\ Told(c, q.since, q.rows) /\ Len(q.rows) = Len(Log!Queries)
                        /\ q.began <= q.ended /\ q.ended <= ingested
                        /\ \A o \in Payload : IsKept(c, o)' => Follows(q, o.began, o.rows)
                        /\ \A y \in Readers :
                             reader'[y] # NoSummary /\ reader'[y].scope = c /\ reader'[y].rows # << >> =>
                               Follows(q, reader'[y].began, reader'[y].rows)
      BY <1>0 DEF KeptIsTold, Told, Follows, Log!Scoped, Log!Since
    <3>1. ASSUME NEW o \in Payload, IsKept(c, o) PROVE o.ended <= ingested /\ o.began <= ingested
      <4>1. o.began <= o.ended /\ o.ended <= ingested
        BY <3>1 DEF LogInv, KeptIsTold
      <4> QED BY <1>0, <4>1 DEF Payload
    <3>2. CASE IsKept(c, q)
      <4>1. /\ Told(c, q.since, q.rows) /\ Len(q.rows) = Len(Log!Queries)
            /\ q.began <= q.ended /\ q.ended <= ingested
            /\ \A o \in Payload : IsKept(c, o) => Follows(q, o.began, o.rows)
            /\ \A y \in Readers :
                 reader[y] # NoSummary /\ reader[y].scope = c /\ reader[y].rows # << >> =>
                   Follows(q, reader[y].began, reader[y].rows)
        BY <3>2 DEF LogInv, KeptIsTold
      <4>2. c = scope => Follows(q, p.began, p.rows)
        BY <1>0, <1>5, <4>1 DEF scope
      <4>3. \A o \in Payload : IsKept(c, o)' => Follows(q, o.began, o.rows)
        BY <2>2, <4>1, <4>2
      <4>4. \A y \in Readers :
              reader'[y] # NoSummary /\ reader'[y].scope = c /\ reader'[y].rows # << >> =>
                Follows(q, reader'[y].began, reader'[y].rows)
        BY <1>4, <4>1
      <4> QED BY <4>1, <4>3, <4>4
    <3>3. CASE ~IsKept(c, q)
      <4>1. c = scope /\ q = p
        BY <2>2, <3>3
      <4>2. \A o \in Payload : IsKept(c, o)' => o.began <= ingested
        BY <1>0, <1>2, <1>5, <2>2, <3>1
      <4>3. \A o \in Payload : IsKept(c, o)' => Follows(q, o.began, o.rows)
        BY <1>0, <1>5, <4>1, <4>2 DEF Follows, Payload
      <4>4. \A y \in Readers : reader'[y] # NoSummary => reader'[y].began <= ingested
        BY <1>4 DEF LogInv, ReadingIsTold
      <4>5. \A y \in Readers :
              reader'[y] # NoSummary /\ reader'[y].scope = c /\ reader'[y].rows # << >> =>
                Follows(q, reader'[y].began, reader'[y].rows)
        <5>1. \A y \in Readers : reader'[y] # NoSummary => reader'[y].began \in Nat
          BY <1>4 DEF Reading
        <5> QED BY <1>0, <1>5, <4>1, <4>4, <5>1 DEF Follows
      <4> QED BY <1>0, <1>2, <1>5, <4>1, <4>3, <4>5
    <3> QED BY <3>2, <3>3
  <2> QED BY <1>6, <1>9, <2>1, <2>4, <2>5, TimelineStays DEF LogInv
<1> QED BY <1>3, <1>7, <1>8

\* The first of the timeline: its request's, oldest first, and a full page when the event is not there.
LEMMA ViewKeepsLog ==
  ASSUME LogInv, (\E i \in Viewed : Log!GetEvent(i)) \/ Log!GetTimeline
  PROVE  LogInv'
<1>0. UNCHANGED <<events, ingested, cache, reader, served, logFaults>>
  BY DEF Log!GetEvent, Log!GetTimeline
<1>1. LogShape' /\ LogGrows /\ OfItsKey'
  BY <1>0 DEF LogInv, LogShape, LogGrows, OfItsKey, Log!CacheKey
<1>2. ReadingIsTold' /\ KeptIsTold'
  <2>1. ingested \in Nat /\ ingested' = ingested
    BY <1>0, LogConstants DEF LogInv, LogShape
  <2>2. \A c \in Log!Scopes, q \in Payload : IsKept(c, q)' => IsKept(c, q)
    BY <1>0 DEF IsKept
  <2> QED BY <1>0, <1>1, <2>1, <2>2, NothingNewIsTold
<1>3. CASE \E i \in Viewed : Log!GetEvent(i)
  <2>1. PICK i \in Viewed : Log!GetEvent(i)
    BY <1>3
  <2>2. view'.id \in DOMAIN events' /\ view'.rows = << >> /\ view' = [id |-> view'.id, rows |-> view'.rows]
    BY <2>1, <1>0 DEF Log!GetEvent
  <2>3. ViewShape' /\ Log!TimelineOfTheEvent'
    BY <2>2 DEF ViewShape, Log!TimelineOfTheEvent
  <2> QED BY <1>1, <1>2, <2>3 DEF LogInv
<1>4. CASE Log!GetTimeline
  <2> DEFINE i == view.id
             S == Log!OfRequestOf(i)
             x == IF events[i].request = NoRequest THEN {i} ELSE Log!Oldest(S, TimelineLimit)
  <2>1. view # << >> /\ view' = [view EXCEPT !.rows = <<x>>]
    BY <1>4 DEF Log!GetTimeline
  <2>2. /\ i \in DOMAIN events /\ view'.id = i /\ view'.rows = <<x>> /\ view'.rows[1] = x
        /\ view' = [id |-> view'.id, rows |-> view'.rows]
    <3>1. i \in DOMAIN events /\ view = [id |-> i, rows |-> view.rows]
      BY <2>1 DEF LogInv, ViewShape
    <3> HIDE DEF x
    <3>2. view' = [id |-> i, rows |-> <<x>>]
      BY <2>1, <3>1
    <3> QED BY <3>1, <3>2
  <2>3. /\ events \in Seq(Event) /\ DOMAIN events = 1..Len(events) /\ Len(events) \in Nat
        /\ \A j \in DOMAIN events : events[j].occurred \in Int
    <3>1. events \in Seq(Event)
      BY DEF LogInv, LogShape
    <3>2. \A j \in DOMAIN events : events[j].occurred \in 0..MaxLogTime
      BY <3>1, EventFields
    <3> QED BY <3>1, <3>2, LogConstants
  <2>4. S \subseteq DOMAIN events /\ i \in S /\ IsFiniteSet(S)
    <3>1. S \in SUBSET (1..Len(events)) /\ i \in S
      BY <2>2, <2>3 DEF Log!OfRequestOf
    <3>2. IsFiniteSet(1..Len(events))
      <4>1. 1 \in Int /\ Len(events) \in Int
        BY <2>3
      <4> QED BY <4>1, FS_Interval
    <3> QED BY <2>3, <3>1, <3>2, FS_Subset
  <2>5. \A j \in S : events[j].request = events[i].request /\ events[j].source = events[i].source
    BY DEF Log!OfRequestOf
  <2> HIDE DEF S
  <2>6. x \subseteq S
    BY <2>4 DEF Log!Oldest
  <2>7. ASSUME i \notin x PROVE Log!Cardinality(x) = TimelineLimit /\ \A j \in x : Log!Later(i, j)
    <3> DEFINE Ahead(j) == {m \in S : Log!Later(j, m)}
    <3>1. x = {j \in S : Cardinality(Ahead(j)) < TimelineLimit}
      BY <2>7, LogCardinality DEF Log!Oldest
    <3>2. \A j, m \in S : j # m => Log!Later(j, m) \/ Log!Later(m, j)
      BY <2>3, <2>4 DEF Log!Later
    <3>3. \A j \in S : ~Log!Later(j, j)
      BY <2>3, <2>4 DEF Log!Later
    <3>4. \A j, m, n \in S : Log!Later(j, m) /\ Log!Later(m, n) => Log!Later(j, n)
      BY <2>3, <2>4 DEF Log!Later
    <3>5. Cardinality(Ahead(i)) >= TimelineLimit /\ IsFiniteSet(Ahead(i)) /\ Cardinality(Ahead(i)) \in Nat
          /\ Cardinality(Ahead(i)) <= Cardinality(S) /\ Cardinality(S) \in Nat
      <4>1. Ahead(i) \in SUBSET S
        OBVIOUS
      <4>2. IsFiniteSet(Ahead(i)) /\ Cardinality(Ahead(i)) <= Cardinality(S)
        BY <2>4, <4>1, FS_Subset
      <4>3. Cardinality(Ahead(i)) \in Nat /\ Cardinality(S) \in Nat
        BY <2>4, <4>2, FS_CardinalityType
      <4>4. ~(Cardinality(Ahead(i)) < TimelineLimit)
        BY <2>4, <2>7, <3>1
      <4> HIDE DEF Ahead
      <4> QED BY <4>2, <4>3, <4>4, LogConstants
    <3>6. Cardinality(x) = TimelineLimit
      <4>1. TimelineLimit \in Nat /\ TimelineLimit <= Cardinality(S)
        BY <3>5, LogConstants
      <4>2. PICK A : A = [j \in S |-> Ahead(j)]
        OBVIOUS
      <4>3. /\ A \in [S -> SUBSET S]
            /\ \A j, m \in S : m \in A[j] <=> Log!Later(j, m)
        BY <4>2
      <4>4. x \in SUBSET S /\ \A j \in S : j \in x <=> Cardinality(A[j]) < TimelineLimit
        BY <3>1, <4>2
      <4>5. /\ \A j, m \in S : j # m => j \in A[m] \/ m \in A[j]
            /\ \A j \in S : j \notin A[j]
        BY <3>2, <3>3, <4>3
      <4>6. \A j, m, k \in S : j \in A[m] /\ m \in A[k] => j \in A[k]
        BY <3>4, <4>3
      <4> HIDE DEF Ahead, x
      <4> QED BY <2>4, <4>1, <4>3, <4>4, <4>5, <4>6, FirstOfOrder
    <3>7. ASSUME NEW j \in x PROVE Log!Later(i, j)
      <4> SUFFICES ASSUME ~Log!Later(i, j) PROVE FALSE
        OBVIOUS
      <4>1. j \in S /\ Cardinality(Ahead(j)) < TimelineLimit /\ j # i
        BY <2>7, <3>1, <3>7
      <4>2. Log!Later(j, i)
        BY <2>4, <3>2, <4>1
      <4>3. Ahead(i) \in SUBSET Ahead(j) /\ Ahead(j) \in SUBSET S
        BY <2>4, <3>4, <4>1, <4>2
      <4>4. IsFiniteSet(Ahead(j))
        BY <2>4, <4>3, FS_Subset
      <4>5. Cardinality(Ahead(i)) <= Cardinality(Ahead(j)) /\ Cardinality(Ahead(j)) \in Nat
        BY <4>3, <4>4, FS_Subset, FS_CardinalityType
      <4> HIDE DEF Ahead
      <4> QED BY <3>5, <4>1, <4>5, LogConstants
    <3> QED BY <3>6, <3>7, LogCardinality
  <2> HIDE DEF x
  <2>8. ViewShape'
    BY <1>0, <2>2, <2>4, <2>6 DEF ViewShape
  <2>9. \A j \in x : events[j].request = events[i].request /\ events[j].source = events[i].source
    BY <2>5, <2>6
  <2>10. Log!TimelineOfTheEvent'
    <3> QED BY <1>0, <2>2, <2>7, <2>9 DEF Log!TimelineOfTheEvent, Log!Later
  <2> QED BY <1>1, <1>2, <2>8, <2>10 DEF LogInv
<1> QED BY <1>3, <1>4

LEMMA LogStarts == Log!Init => LogInv
<1> SUFFICES ASSUME Log!Init PROVE LogInv
  OBVIOUS
<1>1. LogShape
  BY LogConstants DEF Log!Init, LogShape
<1>2. ViewShape /\ OfItsKey /\ ReadingIsTold /\ KeptIsTold /\ Log!TimelineOfTheEvent
  BY DEF Log!Init, ViewShape, OfItsKey, ReadingIsTold, KeptIsTold, IsKept, Log!TimelineOfTheEvent
<1> QED BY <1>1, <1>2 DEF LogInv

LEMMA LogStep1 == LogInv /\ [Log!Next]_(Log!vars) => LogInv'
<1> SUFFICES ASSUME LogInv, [Log!Next]_(Log!vars) PROVE LogInv'
  OBVIOUS
<1>1. CASE Log!Next
  BY <1>1, TickKeepsLog, CreateKeepsLog, SummaryKeepsLog, QueryKeepsLog, StoreKeepsLog, ViewKeepsLog
     DEF Log!Next
<1>2. CASE UNCHANGED Log!vars
  <2>1. UNCHANGED <<events, ingested, cache, reader, served, view, logFaults>>
    BY <1>2 DEF Log!vars
  <2>2. LogShape' /\ LogGrows /\ OfItsKey'
    BY <2>1 DEF LogInv, LogShape, LogGrows, OfItsKey, Log!CacheKey
  <2>3. ingested \in Nat
    BY LogConstants DEF LogInv, LogShape
  <2>4. \A c \in Log!Scopes, q \in Payload : IsKept(c, q)' => IsKept(c, q)
    BY <2>1 DEF IsKept
  <2>5. ReadingIsTold' /\ KeptIsTold'
    BY <2>1, <2>2, <2>3, <2>4, NothingNewIsTold
  <2> QED BY <2>1, <2>2, <2>5, TimelineStays DEF LogInv
<1> QED BY <1>1, <1>2

LEMMA LogInductive == Log!Spec => []LogInv
BY LogStarts, LogStep1, PTL DEF Log!Spec

\* The invariant says of what is answered what it says of what is kept.
LEMMA ServedIsTold ==
  ASSUME LogInv, served # NoSummary
  PROVE  /\ served.scope \in Log!Scopes /\ served.payload \in Payload
         /\ Told(served.payload.of, served.payload.since, served.payload.rows)
         /\ Len(served.payload.rows) = 10 /\ DOMAIN served.payload.rows = 1..10
         /\ \A k \in 1..10 : IsFiniteSet(served.payload.rows[k])
<1>1. served.scope \in Log!Scopes /\ served.payload \in Payload
  BY DEF LogInv, LogShape
<1>2. /\ Told(served.payload.of, served.payload.since, served.payload.rows)
      /\ Len(served.payload.rows) = Len(Log!Queries)
  <2>1. PICK p \in Payload : p = served.payload
    BY <1>1
  <2>2. p.of \in Log!Scopes /\ IsKept(p.of, p)
    BY <2>1 DEF IsKept, Payload
  <2>3. Told(p.of, p.since, p.rows) /\ Len(p.rows) = Len(Log!Queries)
    BY <2>2 DEF LogInv, KeptIsTold
  <2> QED BY <2>1, <2>3
<1>3. Len(Log!Queries) = 10
  BY DEF Log!Queries
<1>4. DOMAIN served.payload.rows = 1..10
  <2>1. served.payload.rows \in Seq(EventSets)
    BY <1>1 DEF Payload
  <2> QED BY <1>2, <1>3, <2>1
<1>5. ASSUME NEW k \in 1..10 PROVE IsFiniteSet(served.payload.rows[k])
  <2>1. DOMAIN events = 1..Len(events) /\ Len(events) \in Nat
    BY DEF LogInv, LogShape
  <2>2. served.payload.rows[k] \in SUBSET (1..Len(events))
    BY <1>2, <1>4, <2>1 DEF Told, Log!Scoped
  <2>3. IsFiniteSet(1..Len(events))
    <3>1. 1 \in Int /\ Len(events) \in Int
      BY <2>1
    <3> QED BY <3>1, FS_Interval
  <2> QED BY <2>2, <2>3, FS_Subset
<1> QED BY <1>1, <1>2, <1>3, <1>4, <1>5

LEMMA AnsweredAre ==
  ASSUME NEW p
  PROVE  /\ Log!Answered(p, "totalEvents") = p.rows[1]
         /\ Log!Answered(p, "events24h") = p.rows[2]
         /\ Log!Answered(p, "errorEvents24h") = p.rows[3]
         /\ Log!Answered(p, "statusBreakdown") = p.rows[8]
<1>1. /\ (CHOOSE k \in DOMAIN Log!Queries : Log!Queries[k] = "totalEvents") = 1
      /\ (CHOOSE k \in DOMAIN Log!Queries : Log!Queries[k] = "events24h") = 2
      /\ (CHOOSE k \in DOMAIN Log!Queries : Log!Queries[k] = "errorEvents24h") = 3
      /\ (CHOOSE k \in DOMAIN Log!Queries : Log!Queries[k] = "statusBreakdown") = 8
  BY DEF Log!Queries
<1> QED BY <1>1 DEF Log!Answered

LEMMA LogIsWhole ==
  ASSUME LogInv
  PROVE  Log!TypeOK /\ Log!SummaryOfItsSource /\ Log!TimelineOfTheEvent /\ Log!LaterQueriesCoverEarlier
<1>1. Log!TypeOK
  <2>1. ASSUME NEW i \in DOMAIN events
        PROVE  /\ events[i].source \in (Log!Scopes \ {Everything}) \cup {Unknown}
               /\ events[i].occurred \in 0..MaxLogTime
               /\ events[i].request \in RequestIds \cup {NoRequest}
    <3>1. events[i] \in Event
      BY DEF LogInv, LogShape
    <3> QED BY <3>1, EventFields DEF Sources
  <2>2. \A k \in Log!Keys : cache[k] # NoSummary => cache[k].expires \in 1..MaxLogTime + Log!CacheTtl
    BY DEF LogInv, LogShape
  <2>3. \A r \in Readers : reader[r] # NoSummary => Len(reader[r].rows) <= Len(Log!Queries)
    BY DEF LogInv, ReadingIsTold, Told
  <2>4. ingested \in 0..MaxLogTime /\ logFaults \in 0..MaxLogFaults
    BY DEF LogInv, LogShape
  <2> QED BY <2>1, <2>2, <2>3, <2>4 DEF Log!TypeOK
<1>2. Log!SummaryOfItsSource
  <2> SUFFICES ASSUME served # NoSummary
               PROVE  LET of == served.payload.of
                      IN  /\ of = served.scope \/ {of, served.scope} = {Everything, All}
                          /\ \A k \in DOMAIN Log!Queries :
                               served.payload.rows[k] \subseteq Log!Scoped(of)
    BY DEF Log!SummaryOfItsSource
  <2> DEFINE of == served.payload.of
  <2>1. DOMAIN Log!Queries = 1..10
    BY DEF Log!Queries
  <2>2. /\ Told(of, served.payload.since, served.payload.rows)
        /\ DOMAIN served.payload.rows = 1..10
    BY ServedIsTold
  <2>3. Log!CacheKey(of) = Log!CacheKey(served.scope)
    BY DEF LogInv, OfItsKey
  <2>4. of = served.scope \/ {of, served.scope} = {Everything, All}
    BY <2>3 DEF Log!CacheKey
  <2> QED BY <2>1, <2>2, <2>4 DEF Told
<1>3. Log!LaterQueriesCoverEarlier
  <2> SUFFICES ASSUME served # NoSummary
               PROVE  LET p == served.payload
                          failed == {i \in Log!Answered(p, "statusBreakdown") : events[i].status = "failure"}
                      IN  /\ Log!Count(p, "events24h") <= Log!Count(p, "statusBreakdown")
                          /\ Log!Count(p, "errorEvents24h") <= Log!Cardinality(failed)
    BY DEF Log!LaterQueriesCoverEarlier
  <2> DEFINE a == served.payload.rows
             failed == {i \in a[8] : events[i].status = "failure"}
  <2>0. /\ Told(served.payload.of, served.payload.since, a) /\ DOMAIN a = 1..10
        /\ IsFiniteSet(a[8])
    BY ServedIsTold
  <2>1. /\ a[2] \in SUBSET a[8] /\ a[3] \in SUBSET failed /\ IsFiniteSet(a[8])
    <3> HIDE DEF a
    <3> QED BY <2>0 DEF Told
  <2>2. Cardinality(a[2]) <= Cardinality(a[8])
    BY <2>1, FS_Subset
  <2>3. failed \in SUBSET a[8]
    OBVIOUS
  <2>4. IsFiniteSet(failed)
    BY <2>1, <2>3, FS_Subset
  <2>5. Cardinality(a[3]) <= Cardinality(failed)
    BY <2>1, <2>4, FS_Subset
  <2> QED BY <2>2, <2>5, AnsweredAre, LogCardinality DEF Log!Count
<1> QED BY <1>1, <1>2, <1>3 DEF LogInv

LEMMA TotalStaysStep ==
  ASSUME LogInv, LogInv', [Log!Next]_(Log!vars)
  PROVE  Log!TotalIsKept
<1> SUFFICES ASSUME served # NoSummary, served' # NoSummary,
                    served'.payload.of = served.payload.of,
                    served.payload.ended < served'.payload.began
             PROVE  Log!Count(served.payload, "totalEvents") <= Log!Count(served'.payload, "totalEvents")
  BY DEF Log!TotalIsKept
<1> DEFINE p == served.payload
           q == served'.payload
<1>1. /\ p.of \in Log!Scopes /\ p \in Payload /\ IsKept(p.of, p) /\ p.rows # << >>
  BY ServedIsTold DEF IsKept, Payload
<1>2. Follows(p, q.began, q.rows)
  <2>0. \A o \in Payload : IsKept(p.of, o) => Follows(p, o.began, o.rows)
    BY <1>1 DEF LogInv, KeptIsTold
  <2>1. q \in Payload
    BY DEF LogInv, LogShape
  <2>2. CASE UNCHANGED served
    BY <1>1, <2>0, <2>2
  <2>3. CASE \E r \in Readers, s \in Spellings : Log!GetSummary(r, s) /\ ~UNCHANGED served
    <3>1. PICK r \in Readers, s \in Spellings : Log!GetSummary(r, s) /\ ~UNCHANGED served
      BY <2>3
    <3> DEFINE key == Log!CacheKey(Log!Scope(s))
    <3>2. /\ cache[key] # NoSummary /\ key \in Log!Keys
          /\ served' = [scope |-> Log!Scope(s), payload |-> cache[key].payload]
      BY <3>1 DEF Log!GetSummary, Log!Keys, Log!Scopes
    <3> HIDE DEF key
    <3>3. IsKept(p.of, q)
      BY <1>1, <3>2 DEF IsKept
    <3> QED BY <2>0, <2>1, <3>3
  <2>4. CASE \E r \in Readers : Log!StoreSummary(r) /\ ~UNCHANGED served
    <3>1. PICK r \in Readers : Log!StoreSummary(r) /\ ~UNCHANGED served
      BY <2>4
    <3>2. /\ reader[r] # NoSummary /\ Len(reader[r].rows) = Len(Log!Queries)
          /\ q.of = reader[r].scope /\ q.began = reader[r].began /\ q.rows = reader[r].rows
      BY <3>1 DEF Log!StoreSummary
    <3>3. reader[r].rows # << >>
      <4>1. Len(<< >>) # Len(Log!Queries)
        BY DEF Log!Queries
      <4> QED BY <3>2, <4>1
    <3>4. Follows(p, reader[r].began, reader[r].rows)
      BY <1>1, <3>2, <3>3 DEF LogInv, KeptIsTold
    <3> QED BY <3>2, <3>4
  <2> QED BY <2>2, <2>3, <2>4 DEF Log!Next, Log!vars, Log!Tick, Log!CreateEvent, Log!RunQuery,
                                  Log!GetEvent, Log!GetTimeline
<1>3. p.rows[1] \in SUBSET q.rows[1]
  BY <1>2 DEF Follows
<1>4. IsFiniteSet(q.rows[1])
  <2>1. PICK c \in Log!Scopes : c = q.of
    BY DEF LogInv, LogShape, Payload
  <2>2. PICK o \in Payload : o = q
    BY DEF LogInv, LogShape
  <2>3. Told(c, o.since, o.rows)' /\ Len(o.rows) = Len(Log!Queries)
    <3>1. IsKept(c, o)'
      BY <2>1, <2>2 DEF IsKept
    <3> QED BY <3>1 DEF LogInv, KeptIsTold
  <2>4. 1 \in DOMAIN o.rows
    <3>1. o.rows \in Seq(EventSets) /\ Len(Log!Queries) = 10
      BY DEF Payload, Log!Queries
    <3> QED BY <2>3, <3>1
  <2>5. DOMAIN events' = 1..Len(events') /\ Len(events') \in Nat
    BY DEF LogInv, LogShape
  <2>6. o.rows[1] \in SUBSET (1..Len(events'))
    BY <2>3, <2>4, <2>5 DEF Told, Log!Scoped
  <2>7. IsFiniteSet(1..Len(events'))
    <3>1. 1 \in Int /\ Len(events') \in Int
      BY <2>5
    <3> QED BY <3>1, FS_Interval
  <2>8. IsFiniteSet(o.rows[1])
    BY <2>6, <2>7, FS_Subset
  <2> QED BY <2>2, <2>8
<1>5. Cardinality(p.rows[1]) <= Cardinality(q.rows[1])
  BY <1>3, <1>4, FS_Subset
<1> QED BY <1>5, AnsweredAre, LogCardinality DEF Log!Count

\* The central log is a component of the officials' work as well.
LEMMA LogIsAPart == OfficialsSpec => Log!Spec
<1>1. OfficialsInit => Log!Init
  BY DEF OfficialsInit
<1>2. [OfficialsNext]_<<active, vars, configVars, qrVars, dutyVars, calendarVars, listVars,
                        rangeVars, logVars>>
        => [Log!Next]_(Log!vars)
  <2>1. LogStep => Log!Next
    <3> SUFFICES ASSUME LogStep PROVE Log!Next
      OBVIOUS
    <3>1. CASE Log!Tick \/ Log!GetTimeline \/ \E i \in Viewed : Log!GetEvent(i)
      BY <3>1 DEF Log!Next
    <3>2. CASE \E s \in Spellings, shape \in Shapes, q \in RequestIds \cup {NoRequest},
                 at \in {<< >>} \cup {<<t>> : t \in LogDates} : Log!CreateEvent(s, shape, q, at)
      BY <3>2 DEF Log!Next
    <3>3. CASE \E r \in Readers : \/ \E s \in Spellings : Log!GetSummary(r, s)
                                  \/ Log!RunQuery(r) \/ Log!StoreSummary(r)
      BY <3>3 DEF Log!Next
    <3> QED BY <3>1, <3>2, <3>3 DEF LogStep
  <2>2. UNCHANGED logVars => UNCHANGED Log!vars
    BY DEF logVars, Log!vars
  <2> QED BY <2>1, <2>2 DEF OfficialsNext, KindStep, ConfigStep, QrStep, DutyStep, CalendarStep,
                            ListStep, RangeStep
<1> QED BY <1>1, <1>2, PTL DEF OfficialsSpec, Log!Spec

\* A summary of the central log, kept or not, is of its source (or of every source, for one named
\* 'all', and the other way round), its later queries cover its earlier ones and the total never
\* drops from one summary of a source to the next; a timeline is of the
\* request of its event and lacks that event only when a page of older ones is full; for any
\* sources, dates, readers and limits.
THEOREM LogIsReportedHolds ==
  (Log!Spec => LogIsReported) /\ (OfficialsSpec => LogIsReported)
<1>1. Log!Spec => [](/\ Log!TypeOK /\ Log!SummaryOfItsSource /\ Log!TimelineOfTheEvent
                     /\ Log!LaterQueriesCoverEarlier)
  BY LogIsWhole, LogInductive, PTL
<1>2. LogInv /\ LogInv' /\ [Log!Next]_(Log!vars) => [Log!TotalIsKept]_logVars
  BY TotalStaysStep
<1>3. Log!Spec => LogIsReported
  BY <1>1, <1>2, LogInductive, PTL DEF Log!Spec, LogIsReported
<1> QED BY <1>3, LogIsAPart, PTL

-----------------------------------------------------------------------------
\* The lists that are read page by page (Listados).

Least(a, b) == IF a < b THEN a ELSE b
Elements(s) == {s[k] : k \in DOMAIN s}

\* A sequence has the elements of a set in an order, given by what comes ahead of each.
InOrder(S, Ahead, s) ==
  /\ s \in Seq(S) /\ Len(s) = Cardinality(S)
  /\ \A a, b \in DOMAIN s : s[a] \in Ahead[s[b]] <=> a < b

\* Each element has as many ahead as there are places before its own.
InPlace(S, Ahead, s) ==
  /\ \A i \in S : \E k \in DOMAIN s : s[k] = i
  /\ \A k \in DOMAIN s : Cardinality(Ahead[s[k]]) = k - 1
\* A page has the elements of its places.
PageOf(s, skip, next) == SubSeq(s, skip + 1, Least(next, Len(s)))
IsPage(S, Ahead, t, skip, next) ==
  /\ t \in Seq(S) /\ Len(t) = Least(next, Cardinality(S)) - Least(skip, Cardinality(S))
  /\ Elements(t) \subseteq S
  /\ \A i \in S :
       i \in Elements(t) <=> skip <= Cardinality(Ahead[i]) /\ Cardinality(Ahead[i]) < next

\* In a sequence that has the elements of a set in order, each is at its place.
LEMMA PlaceInOrder ==
  ASSUME NEW S, IsFiniteSet(S), NEW Ahead \in [S -> SUBSET S],
         NEW s, InOrder(S, Ahead, s)
  PROVE  InPlace(S, Ahead, s)
<1> DEFINE c == Cardinality(S)
<1>0. c \in Nat /\ s \in [1..c -> S] /\ \A a, b \in 1..c : s[a] \in Ahead[s[b]] <=> a < b
  <2>1. c \in Nat
    BY FS_CardinalityType
  <2> QED BY <2>1 DEF InOrder
<1>1. \A a, b \in 1..c : s[a] = s[b] => a = b
  BY <1>0
<1>2. \A i \in S : \E k \in 1..c : s[k] = i
  <2> DEFINE D == 1..c
  <2>1. IsFiniteSet(D) /\ Cardinality(D) = c
    <3>1. 1 \in Int /\ c \in Int
      BY <1>0
    <3> QED BY <1>0, <3>1, FS_Interval
  <2>2. s \in Injection(D, S)
    BY <1>0, <1>1 DEF Injection, IsInjective
  <2>3. s \in [D -> S]
    BY <1>0
  <2> HIDE DEF D
  <2>4. s \in Surjection(D, S)
    BY <2>1, <2>2, FS_Injection
  <2> QED BY <2>4 DEF Surjection, D
<1>3. ASSUME NEW k \in 1..c PROVE Cardinality(Ahead[s[k]]) = k - 1
  <2> DEFINE D == 1..k - 1
             A == Ahead[s[k]]
             g == [j \in D |-> s[j]]
  <2>1. IsFiniteSet(D) /\ Cardinality(D) = k - 1
    <3>1. PICK b \in Int : b = k - 1
      OBVIOUS
    <3> 1 \in Int /\ b \in Int
      OBVIOUS
    <3>2. IsFiniteSet(1..b) /\ Cardinality(1..b) = IF 1 > b THEN 0 ELSE b - 1 + 1
      BY FS_Interval
    <3> QED BY <3>1, <3>2
  <2>2. g \in [D -> A]
    BY <1>0
  <2>3. \A j, m \in D : g[j] = g[m] => j = m
    BY <1>0, <1>1
  <2>4. ASSUME NEW i \in A PROVE \E j \in D : g[j] = i
    <3>0. i \in S /\ i \in Ahead[s[k]]
      BY <1>0
    <3>1. PICK j \in 1..c : s[j] = i
      BY <1>2, <3>0
    <3>2. j < k
      BY <1>0, <3>0, <3>1
    <3>3. j \in D
      BY <1>0, <3>2
    <3> QED BY <3>1, <3>3
  <2> HIDE DEF A, D, g
  <2>5. g \in Bijection(D, A)
    BY <2>2, <2>3, <2>4 DEF Bijection, Injection, IsInjective, Surjection
  <2>6. ExistsBijection(D, A)
    BY <2>5 DEF ExistsBijection
  <2>7. Cardinality(A) = Cardinality(D)
    BY <2>1, <2>6, FS_Bijection
  <2> QED BY <2>1, <2>7 DEF A
<1> QED BY <1>0, <1>2, <1>3 DEF InPlace

\* A page of it has the elements of its places.
LEMMA PageOfOrder ==
  ASSUME NEW S, IsFiniteSet(S), NEW Ahead \in [S -> SUBSET S],
         NEW s, InOrder(S, Ahead, s), NEW skip \in Nat, NEW next \in Nat, skip <= next
  PROVE  IsPage(S, Ahead, PageOf(s, skip, next), skip, next)
<1> DEFINE c == Cardinality(S)
           t == PageOf(s, skip, next)
           n == Least(next, c)
           m == skip + 1
<1>0. c \in Nat /\ s \in [1..c -> S] /\ Len(s) = c
  <2>1. c \in Nat
    BY FS_CardinalityType
  <2> QED BY <2>1 DEF InOrder
<1>1. /\ \A i \in S : \E k \in 1..c : s[k] = i
      /\ \A k \in 1..c : Cardinality(Ahead[s[k]]) = k - 1
  <2>1. InPlace(S, Ahead, s)
    BY PlaceInOrder
  <2> QED BY <1>0, <2>1 DEF InPlace
<1>2. m \in Int /\ n \in Int /\ \A i \in m..n : s[i] \in S
  <2>1. m \in Int /\ n \in Int /\ m >= 1 /\ n <= c
    BY <1>0 DEF Least
  <2> HIDE DEF m, n
  <2>2. \A i \in m..n : i \in 1..c
    BY <1>0, <2>1
  <2> QED BY <1>0, <2>1, <2>2
<1>3. /\ t \in Seq(S)
      /\ Len(t) = IF m <= n THEN n - m + 1 ELSE 0
      /\ \A i \in 1..n - m + 1 : t[i] = s[m + i - 1]
  <2> SUFFICES /\ SubSeq(s, m, n) \in Seq(S)
               /\ Len(SubSeq(s, m, n)) = IF m <= n THEN n - m + 1 ELSE 0
               /\ \A i \in 1..n - m + 1 : SubSeq(s, m, n)[i] = s[m + i - 1]
    BY <1>0 DEF PageOf
  <2> HIDE DEF m, n
  <2> QED BY <1>2, SubSeqProperties
<1> HIDE DEF t
<1>4. Len(t) = Least(next, c) - Least(skip, c)
  BY <1>0, <1>3 DEF Least
<1>5. ASSUME NEW k \in DOMAIN t
      PROVE  t[k] \in S /\ skip <= Cardinality(Ahead[t[k]]) /\ Cardinality(Ahead[t[k]]) < next
  <2>0. k \in 1..Len(t) /\ m \in Int /\ n \in Int
    BY <1>2, <1>3
  <2>1. k \in 1..n - m + 1 /\ t[k] = s[m + k - 1]
    <3> HIDE DEF m, n
    <3> QED BY <1>3, <2>0
  <2>2. m + k - 1 \in 1..c /\ skip <= m + k - 2 /\ m + k - 2 < next
    BY <1>0, <2>1 DEF Least
  <2> DEFINE j == m + k - 1
  <2>3. j \in 1..c /\ t[k] = s[j] /\ skip <= j - 1 /\ j - 1 < next
    BY <2>1, <2>2
  <2> HIDE DEF j
  <2>4. Cardinality(Ahead[s[j]]) = j - 1 /\ s[j] \in S
    BY <1>0, <1>1, <2>3
  <2> QED BY <2>3, <2>4
<1>6. ASSUME NEW i \in S, skip <= Cardinality(Ahead[i]), Cardinality(Ahead[i]) < next
      PROVE  \E k \in DOMAIN t : t[k] = i
  <2>1. PICK k \in 1..c : s[k] = i
    BY <1>1
  <2>2. Cardinality(Ahead[i]) = k - 1
    BY <1>1, <2>1
  <2>3. k - skip \in 1..n - m + 1 /\ m + (k - skip) - 1 = k
    BY <1>0, <1>6, <2>2 DEF Least
  <2> DEFINE j == k - skip
  <2>4. m \in Int /\ n \in Int /\ j \in 1..n - m + 1 /\ m + j - 1 = k
    BY <1>2, <2>3
  <2>5. j \in DOMAIN t /\ t[j] = i
    <3> HIDE DEF m, n, j
    <3>1. j \in 1..Len(t) /\ t[j] = s[m + j - 1]
      BY <1>3, <2>4
    <3> QED BY <1>3, <2>1, <2>4, <3>1
  <2> QED BY <2>5
<1>7. IsPage(S, Ahead, t, skip, next)
  BY <1>3, <1>4, <1>5, <1>6 DEF IsPage, Elements
<1> QED BY <1>7 DEF t

----------------------------------------------------------------------------
(* Listados: the walk of a client through the pages of a list. *)

\* What comes ahead of each row of a set in the order of the list, and how much of it does.
Ahead(S, asc) == [i \in S |-> {j \in S : IF asc THEN j < i ELSE i < j}]
Rank(S, asc, i) == Cardinality(Ahead(S, asc)[i])

Walk == [state : {"ask", "items", "count", "done"}, list : Walks!ListNames, sort : Sorts,
         dir : {"ASC", "DESC"}, filter : Filters, page : Nat \ {0}, items : Seq(Nat),
         total : Nat, seen : Seq(Nat), late : BOOLEAN, shrunk : BOOLEAN,
         first : SUBSET Nat, before : Nat]

WalkShape ==
  /\ rows \subseteq 1..lastRow /\ lastRow \in 0..MaxRows
  /\ estado \in [rows -> Estados] /\ changes \in 0..MaxChanges
  /\ walk \in {Walks!NoWalk} \cup Walk
  /\ walk # Walks!NoWalk =>
       /\ walk.page <= MaxPages + 1 /\ (walk.state # "done" => walk.page <= MaxPages)
       /\ Len(walk.items) <= Limit
       /\ walk.first \subseteq 1..lastRow /\ walk.before <= changes

\* The page that was read and not yet answered, what was read, and the rows that were not.
Holding == walk.state = "count" /\ walk.list # "events"
InHand == IF Holding THEN Elements(walk.items) ELSE {}
Fetched == IF Holding THEN Walks!Skip(walk.page + 1) ELSE Walks!Skip(walk.page)
Unseen == {i \in walk.first \cap Walks!Matching(walk) : i \notin Walks!Seen \cup InHand}

Upward == Walks!Direction(walk.list, walk.dir) = "ASC"
RankOf(i) == Rank(Walks!Matching(walk), Upward, i)
Steady == ~Walks!Ties /\ ~walk.shrunk /\ (Walks!Quiet \/ walk.filter.estado = << >>)
Still == ~Walks!Ties /\ Walks!Quiet /\ walk.first = rows

\* A row that was there at the start and was not read is not ahead of where the reading is.
UnseenIsAhead ==
  Steady => walk.first \subseteq rows /\ \A i \in Unseen : Fetched <= RankOf(i)

\* Where a walk may end there is no such row.
NothingIsLeft ==
  Steady =>
    /\ Walks!Done /\ ~(walk.list = "events" /\ walk.late) => Unseen = {}
    /\ Holding /\ walk.list = "conversation" /\ walk.items = << >> => Unseen = {}

\* The list of events counts first: its count is that of the page unless something came.
CountIsExact ==
  walk.list = "events" /\ walk.state = "items" /\ ~walk.late =>
    walk.total = Cardinality(Walks!Matching(walk))

\* While nothing changes the pages read so far are the rows of the first places.
ReadSoFar ==
  Still =>
    LET c == Cardinality(Walks!Matching(walk)) IN
    /\ ~walk.late
    /\ Len(walk.seen) = Least(Walks!Skip(walk.page), c)
    /\ Walks!Seen = {i \in Walks!Matching(walk) : RankOf(i) < Walks!Skip(walk.page)}
    /\ Holding =>
         /\ Len(walk.items) = Least(Walks!Skip(walk.page + 1), c) - Least(Walks!Skip(walk.page), c)
         /\ Elements(walk.items) = {i \in Walks!Matching(walk) :
              Walks!Skip(walk.page) <= RankOf(i) /\ RankOf(i) < Walks!Skip(walk.page + 1)}
    /\ Walks!Done /\ walk.list # "conversation" => c <= Walks!Skip(walk.page)

WalkInv ==
  /\ WalkShape
  /\ walk # Walks!NoWalk => UnseenIsAhead /\ NothingIsLeft /\ CountIsExact /\ ReadSoFar

LEMMA WalkConstants ==
  /\ Limit \in Nat \ {0} /\ MaxRows \in Nat /\ MaxChanges \in Nat /\ MaxPages \in Nat \ {0}
  /\ MaxRows <= MaxPages * Limit /\ Lists \subseteq Walks!ListNames
BY ListadosHolds DEF Walks!ListsAssumption, Walks!LimitAssumption, Walks!PagesAssumption

LEMMA WalkCardinality == \A S : Walks!Cardinality(S) = Cardinality(S)
BY DEF Walks!Cardinality, Cardinality

\* How many rows the pages before one have.
LEMMA SkipIs ==
  /\ Walks!Skip(1) = 0
  /\ \A p \in Nat \ {0} : /\ Walks!Skip(p) \in Nat /\ Walks!Skip(p + 1) \in Nat
                          /\ Walks!Skip(p + 1) = Walks!Skip(p) + Limit
<1>1. Limit \in Nat
  BY WalkConstants
<1>2. ASSUME NEW p \in Nat \ {0} PROVE (p - 1) * Limit \in Nat /\ (p + 1 - 1) * Limit = (p - 1) * Limit + Limit
  <2>1. PICK q \in Nat : q = p - 1
    OBVIOUS
  <2>2. q * Limit \in Nat /\ (q + 1) * Limit = q * Limit + Limit
    BY <1>1
  <2> QED BY <2>1, <2>2
<1> QED BY <1>1, <1>2 DEF Walks!Skip

\* The last page, by the count or by the bound, leaves no row.
LEMMA LastPage ==
  ASSUME NEW p \in Nat \ {0}, NEW c \in Nat, NEW total \in Nat, c <= total,
         ~(p < Walks!Pages(total))
  PROVE  c <= Walks!Skip(p + 1)
<1>1. Limit \in Nat \ {0}
  BY WalkConstants
<1> DEFINE q == (total + Limit - 1) \div Limit
           r == (total + Limit - 1) % Limit
<1>2. q \in Int /\ r \in 0..Limit - 1 /\ total + Limit - 1 = Limit * q + r
  BY <1>1
<1>3. q <= p
  BY <1>2 DEF Walks!Pages
<1> HIDE DEF q, r
<1>4. Limit * q <= Limit * p
  <2>1. PICK d \in Nat : p = q + d
    BY <1>2, <1>3
  <2>2. Limit * d >= 0
    BY <1>1
  <2> QED BY <1>1, <1>2, <2>1, <2>2
<1>5. Limit * p = Walks!Skip(p + 1)
  BY <1>1 DEF Walks!Skip
<1>6. Limit * p \in Int /\ Limit * q \in Int
  BY <1>1, <1>2
<1> QED BY <1>1, <1>2, <1>4, <1>5, <1>6

LEMMA LastOfTheBound ==
  ASSUME NEW p \in Nat \ {0}, NEW c \in Nat, c <= MaxRows, ~(p < MaxPages)
  PROVE  c <= Walks!Skip(p + 1)
<1>1. Limit \in Nat \ {0} /\ MaxRows \in Nat /\ MaxPages \in Nat \ {0} /\ MaxRows <= MaxPages * Limit
  BY WalkConstants
<1>2. MaxPages * Limit <= p * Limit /\ p * Limit \in Int /\ MaxPages * Limit \in Int
  <2>1. PICK d \in Nat : p = MaxPages + d
    BY <1>1
  <2>2. d * Limit >= 0
    BY <1>1
  <2> QED BY <1>1, <2>1, <2>2
<1>3. p * Limit = Walks!Skip(p + 1)
  BY <1>1 DEF Walks!Skip
<1> QED BY <1>1, <1>2, <1>3

\* A rank is a number below that of the rows, and rows that are added do not lower it.
LEMMA RankIs ==
  ASSUME NEW S, IsFiniteSet(S), S \subseteq Nat, NEW asc
  PROVE  /\ Ahead(S, asc) \in [S -> SUBSET S]
         /\ \A i \in S : Rank(S, asc, i) \in Nat /\ Rank(S, asc, i) < Cardinality(S)
<1>1. Ahead(S, asc) \in [S -> SUBSET S]
  BY DEF Ahead
<1>2. ASSUME NEW i \in S PROVE Rank(S, asc, i) \in Nat /\ Rank(S, asc, i) < Cardinality(S)
  <2>1. PICK A : A = Ahead(S, asc)[i]
    OBVIOUS
  <2>2. A \in SUBSET S /\ i \in S /\ i \notin A
    BY <2>1 DEF Ahead
  <2>3. IsFiniteSet(A) /\ Cardinality(A) \in Nat /\ Cardinality(S) \in Nat /\ Cardinality(A) <= Cardinality(S)
        /\ (Cardinality(S) = Cardinality(A) => S = A)
    BY <2>2, FS_Subset, FS_CardinalityType
  <2> QED BY <2>1, <2>2, <2>3 DEF Rank
<1> QED BY <1>1, <1>2

LEMMA RankGrows ==
  ASSUME NEW T, IsFiniteSet(T), T \subseteq Nat, NEW S \in SUBSET T, NEW asc, NEW i \in S
  PROVE  Rank(S, asc, i) <= Rank(T, asc, i)
<1>1. PICK A : A = Ahead(S, asc)[i]
  OBVIOUS
<1>2. PICK B : B = Ahead(T, asc)[i]
  OBVIOUS
<1>3. A \in SUBSET B /\ B \in SUBSET T
  BY <1>1, <1>2 DEF Ahead
<1>4. IsFiniteSet(B)
  BY <1>3, FS_Subset
<1>5. Cardinality(A) <= Cardinality(B)
  BY <1>3, <1>4, FS_Subset
<1> QED BY <1>1, <1>2, <1>5 DEF Rank

\* The rows of a list.
LEMMA MatchingIs ==
  ASSUME WalkShape
  PROVE  /\ Walks!Matching(walk) \subseteq rows /\ Walks!Matching(walk) \subseteq Nat
         /\ IsFiniteSet(Walks!Matching(walk))
         /\ Cardinality(Walks!Matching(walk)) \in Nat /\ Cardinality(Walks!Matching(walk)) <= MaxRows
<1>1. lastRow \in Nat /\ lastRow <= MaxRows /\ MaxRows \in Nat
  BY WalkConstants DEF WalkShape
<1>2. PICK M : M = Walks!Matching(walk)
  OBVIOUS
<1>3. M \subseteq rows /\ M \in SUBSET (1..lastRow)
  BY <1>2 DEF Walks!Matching, WalkShape
<1>4. IsFiniteSet(1..lastRow) /\ Cardinality(1..lastRow) = lastRow
  <2>1. 1 \in Int /\ lastRow \in Int
    BY <1>1
  <2> QED BY <1>1, <2>1, FS_Interval
<1>5. IsFiniteSet(M) /\ Cardinality(M) <= Cardinality(1..lastRow) /\ Cardinality(M) \in Nat
  BY <1>3, <1>4, FS_Subset, FS_CardinalityType
<1>6. M \subseteq Nat
  BY <1>1, <1>3
<1> QED BY <1>1, <1>2, <1>3, <1>4, <1>5, <1>6

\* A page that is read has the rows of its places, when the column of the order has no ties.
LEMMA SortedIs ==
  ASSUME WalkShape, NEW s \in Walks!Sorted(walk)
  PROVE  /\ s \in Seq(Walks!Matching(walk)) /\ Len(s) = Cardinality(Walks!Matching(walk))
         /\ ~Walks!Ties => InOrder(Walks!Matching(walk), Ahead(Walks!Matching(walk), Upward), s)
<1>1. PICK M : M = Walks!Matching(walk)
  OBVIOUS
<1>2. PICK c \in Nat : c = Cardinality(M)
  BY <1>1, MatchingIs
<1>3. s \in [1..c -> M] /\ \A a, b \in 1..c : a # b => s[a] # s[b]
  BY <1>1, <1>2, WalkCardinality DEF Walks!Sorted, Walks!SetToSeqs
<1>4. s \in Seq(M) /\ Len(s) = c /\ DOMAIN s = 1..c
  BY <1>3
<1>5. ASSUME ~Walks!Ties PROVE InOrder(M, Ahead(M, Upward), s)
  <2>1. \A i : Walks!Key(walk, i) = i
    BY <1>5 DEF Walks!Key, Walks!SortField, Walks!Ties
  <2>2. \A a, b \in 1..c : a < b => IF Upward THEN s[a] <= s[b] ELSE s[a] >= s[b]
    BY <1>4, <2>1 DEF Walks!Sorted, Walks!Ordered, Upward
  <2>3. M \subseteq Nat
    BY <1>1, MatchingIs
  <2>4. ASSUME NEW a \in 1..c, NEW b \in 1..c
        PROVE  s[a] \in Ahead(M, Upward)[s[b]] <=> a < b
    <3>1. s[a] \in M /\ s[b] \in M /\ s[a] \in Nat /\ s[b] \in Nat
      BY <1>3, <2>3
    <3>2. s[a] \in Ahead(M, Upward)[s[b]] <=> IF Upward THEN s[a] < s[b] ELSE s[b] < s[a]
      BY <3>1 DEF Ahead
    <3>3. CASE a < b
      <4>1. s[a] # s[b] /\ IF Upward THEN s[a] <= s[b] ELSE s[a] >= s[b]
        BY <1>3, <2>2, <3>3
      <4> QED BY <3>1, <3>2, <3>3, <4>1
    <3>4. CASE b < a
      <4>1. IF Upward THEN s[b] <= s[a] ELSE s[b] >= s[a]
        BY <2>2, <3>4
      <4> QED BY <3>1, <3>2, <3>4, <4>1
    <3>5. CASE a = b
      BY <3>1, <3>2, <3>5
    <3> QED BY <3>3, <3>4, <3>5
  <2> QED BY <1>2, <1>4, <2>4 DEF InOrder
<1> QED BY <1>1, <1>2, <1>4, <1>5

LEMMA PageIs ==
  ASSUME WalkShape, walk \in Walk, NEW s \in Walks!Sorted(walk),
         NEW t, t = Walks!TakePage(s, walk.page),
         NEW c, c = Cardinality(Walks!Matching(walk))
  PROVE  /\ t \in Seq(Nat) /\ Len(t) <= Limit
         /\ ~Walks!Ties =>
              /\ Len(t) = Least(Walks!Skip(walk.page + 1), c) - Least(Walks!Skip(walk.page), c)
              /\ Elements(t) = {i \in Walks!Matching(walk) :
                   Walks!Skip(walk.page) <= RankOf(i) /\ RankOf(i) < Walks!Skip(walk.page + 1)}
<1>0. walk.page \in Nat \ {0}
  BY DEF Walk
<1>1. PICK M : M = Walks!Matching(walk)
  OBVIOUS
<1>2. PICK skip \in Nat : skip = Walks!Skip(walk.page)
  BY <1>0, SkipIs
<1>3. PICK next \in Nat : next = Walks!Skip(walk.page + 1)
  BY <1>0, SkipIs
<1>4. next = skip + Limit /\ Limit \in Nat
  BY <1>0, <1>2, <1>3, SkipIs, WalkConstants
<1>5. M \subseteq Nat /\ IsFiniteSet(M) /\ c \in Nat /\ c = Cardinality(M)
  BY <1>1, MatchingIs
<1>6. s \in Seq(M) /\ Len(s) = c
  BY <1>1, SortedIs
<1>7. t = SubSeq(s, skip + 1, Least(next, c))
  BY <1>2, <1>4, <1>6 DEF Walks!TakePage, Least
<1>8. t \in Seq(Nat) /\ Len(t) <= Limit
  <2>1. PICK m \in Int : m = skip + 1
    OBVIOUS
  <2>2. PICK n \in Int : n = Least(next, c)
    BY <1>5 DEF Least
  <2>3. \A i \in m..n : s[i] \in Nat
    <3>1. \A i \in m..n : i \in 1..c
      BY <1>5, <2>1, <2>2 DEF Least
    <3>2. \A i \in 1..c : s[i] \in M
      BY <1>5, <1>6
    <3> QED BY <1>5, <3>1, <3>2
  <2>4. SubSeq(s, m, n) \in Seq(Nat) /\ Len(SubSeq(s, m, n)) = IF m <= n THEN n - m + 1 ELSE 0
    BY <2>3, SubSeqProperties
  <2>5. n <= skip + Limit
    BY <1>4, <1>5, <2>2 DEF Least
  <2> QED BY <1>4, <1>7, <2>1, <2>2, <2>4, <2>5
<1>9. ASSUME ~Walks!Ties
      PROVE  /\ Len(t) = Least(next, c) - Least(skip, c)
             /\ Elements(t) = {i \in M : skip <= RankOf(i) /\ RankOf(i) < next}
  <2>1. PICK A : A = Ahead(M, Upward)
    OBVIOUS
  <2>2. InOrder(M, A, s) /\ A \in [M -> SUBSET M] /\ skip <= next
    BY <1>1, <1>4, <1>5, <1>9, <2>1, SortedIs, RankIs
  <2>3. IsPage(M, A, PageOf(s, skip, next), skip, next)
    BY <1>5, <2>2, PageOfOrder
  <2>4. \A i \in M : RankOf(i) = Cardinality(A[i])
    BY <1>1, <2>1 DEF RankOf, Rank
  <2>5. t = PageOf(s, skip, next)
    BY <1>6, <1>7 DEF PageOf
  <2> QED BY <1>5, <2>3, <2>4, <2>5 DEF IsPage
<1> QED BY <1>1, <1>2, <1>3, <1>8, <1>9

\* A walk that began is a record, and has the fields it began with.
LEMMA WalkIs ==
  ASSUME WalkShape
  PROVE  /\ walk # Walks!NoWalk <=> walk \in Walk
         /\ walk.state # "none" <=> walk \in Walk
BY DEF WalkShape, Walk, Walks!NoWalk

SameWalk ==
  /\ walk' \in Walk /\ walk'.list = walk.list /\ walk'.sort = walk.sort /\ walk'.dir = walk.dir
  /\ walk'.filter = walk.filter /\ walk'.first = walk.first /\ walk'.shrunk = walk.shrunk
  /\ walk'.before = walk.before

\* While the rows stay the same, so do what the list has, its order and what the walk may claim.
LEMMA SameList ==
  ASSUME SameWalk, UNCHANGED <<rows, estado, changes>>
  PROVE  /\ Walks!Matching(walk)' = Walks!Matching(walk) /\ Upward' = Upward
         /\ \A i : RankOf(i)' = RankOf(i)
         /\ Steady' = Steady /\ Still' = Still
<1>1. Walks!Matching(walk)' = Walks!Matching(walk)
  BY DEF SameWalk, Walks!Matching, Walks!Matches
<1>2. Upward' = Upward
  BY DEF SameWalk, Upward
<1>3. Walks!Ties' = Walks!Ties /\ Walks!Quiet' = Walks!Quiet
  BY DEF SameWalk, Walks!Ties, Walks!Quiet
<1> QED BY <1>1, <1>2, <1>3 DEF SameWalk, RankOf, Steady, Still

LEMMA ElementsOfBoth ==
  ASSUME NEW S, NEW s \in Seq(S), NEW t \in Seq(S)
  PROVE  /\ s \o t \in Seq(S) /\ Len(s \o t) = Len(s) + Len(t)
         /\ Elements(s \o t) = Elements(s) \cup Elements(t)
<1>1. s \o t \in Seq(S) /\ Len(s \o t) = Len(s) + Len(t) /\ Len(s) \in Nat /\ Len(t) \in Nat
  OBVIOUS
<1>2. ASSUME NEW k \in 1..Len(s) PROVE k \in 1..Len(s) + Len(t) /\ (s \o t)[k] = s[k]
  BY <1>1
<1>3. ASSUME NEW k \in 1..Len(t)
      PROVE  Len(s) + k \in 1..Len(s) + Len(t) /\ (s \o t)[Len(s) + k] = t[k]
  BY <1>1
<1>4. ASSUME NEW k \in 1..Len(s) + Len(t), k \notin 1..Len(s)
      PROVE  k - Len(s) \in 1..Len(t) /\ (s \o t)[k] = t[k - Len(s)]
  BY <1>1, <1>4
<1>5. DOMAIN s = 1..Len(s) /\ DOMAIN t = 1..Len(t) /\ DOMAIN (s \o t) = 1..Len(s) + Len(t)
  BY <1>1
<1>6. Elements(s \o t) \subseteq Elements(s) \cup Elements(t)
  BY <1>2, <1>4, <1>5 DEF Elements
<1>7. Elements(s) \subseteq Elements(s \o t) /\ Elements(t) \subseteq Elements(s \o t)
  BY <1>2, <1>3, <1>5 DEF Elements
<1> QED BY <1>1, <1>6, <1>7

\* The answer to a request leaves the reading where the page ends, and ends it when nothing is
\* left.
LEMMA AnsweredKeeps ==
  ASSUME WalkInv, walk \in Walk, walk.state \in {"items", "count"},
         NEW items \in Seq(Nat), Len(items) <= Limit, NEW total \in Nat,
         UNCHANGED <<rows, estado, lastRow, changes>>,
         walk' = Walks!Answered([walk EXCEPT !.items = items, !.total = total]),
         Steady => \A i \in walk.first \cap Walks!Matching(walk) :
           i \notin Walks!Seen \cup Elements(items) => Walks!Skip(walk.page + 1) <= RankOf(i),
         Steady /\ walk.list = "conversation" /\ items = << >> =>
           walk.first \cap Walks!Matching(walk) \subseteq Walks!Seen,
         ~(walk.list = "events" /\ walk.late) => total = Cardinality(Walks!Matching(walk)),
         NEW c, c = Cardinality(Walks!Matching(walk)),
         Still =>
           /\ Len(items) = Least(Walks!Skip(walk.page + 1), c) - Least(Walks!Skip(walk.page), c)
           /\ Elements(items) = {i \in Walks!Matching(walk) :
                Walks!Skip(walk.page) <= RankOf(i) /\ RankOf(i) < Walks!Skip(walk.page + 1)}
  PROVE  WalkInv'
<1>0. WalkShape /\ UnseenIsAhead /\ NothingIsLeft /\ CountIsExact /\ ReadSoFar
  BY WalkIs DEF WalkInv
<1>1. PICK state \in {"ask", "done"} :
        /\ walk' = [walk EXCEPT !.items = items, !.total = total, !.seen = walk.seen \o items,
                                !.page = walk.page + 1, !.state = state]
        /\ state = "ask" => walk.page < MaxPages
        /\ state = "done" => \/ walk.list = "conversation" /\ items = << >>
                             \/ ~(walk.page < Walks!Pages(total))
                             \/ ~(walk.page < MaxPages)
  <2> DEFINE empty == walk.list = "conversation" /\ items = << >>
             pages == IF empty THEN 0 ELSE Walks!Pages(total)
             state == IF walk.page < pages /\ walk.page < MaxPages THEN "ask" ELSE "done"
  <2>1. walk' = [walk EXCEPT !.items = items, !.total = total, !.seen = walk.seen \o items,
                             !.page = walk.page + 1, !.state = state]
    BY DEF Walk, Walks!Answered
  <2>2. state \in {"ask", "done"} /\ (state = "ask" => walk.page < MaxPages)
    OBVIOUS
  <2>3. state = "done" => \/ walk.list = "conversation" /\ items = << >>
                          \/ ~(walk.page < Walks!Pages(total))
                          \/ ~(walk.page < MaxPages)
    OBVIOUS
  <2> QED BY <2>1, <2>2, <2>3
<1>2. walk.page \in Nat \ {0} /\ walk.seen \in Seq(Nat) /\ walk.first \subseteq Nat
  BY DEF Walk
<1>3. walk.seen \o items \in Seq(Nat) /\ Len(walk.seen \o items) = Len(walk.seen) + Len(items)
      /\ Elements(walk.seen \o items) = Walks!Seen \cup Elements(items)
  <2>1. Elements(walk.seen) = Walks!Seen
    BY DEF Elements, Walks!Seen
  <2> QED BY <1>2, <2>1, ElementsOfBoth
<1>4. /\ SameWalk /\ walk'.late = walk.late /\ walk'.items = items /\ walk'.total = total
      /\ walk'.page = walk.page + 1 /\ walk'.state = state /\ walk'.seen = walk.seen \o items
  <2>1. PICK seen \in Seq(Nat) : seen = walk.seen \o items
    BY <1>3
  <2>2. PICK page \in Nat \ {0} : page = walk.page + 1
    BY <1>2
  <2>3. walk' = [walk EXCEPT !.items = items, !.total = total, !.seen = seen, !.page = page,
                             !.state = state]
    BY <1>1, <2>1, <2>2
  <2>4. /\ SameWalk /\ walk'.late = walk.late /\ walk'.items = items /\ walk'.total = total
        /\ walk'.page = page /\ walk'.state = state /\ walk'.seen = seen
    <3>1. walk' \in Walk
      BY <2>3 DEF Walk
    <3>2. /\ walk'.late = walk.late /\ walk'.items = items /\ walk'.total = total
          /\ walk'.page = page /\ walk'.state = state /\ walk'.seen = seen
          /\ walk'.list = walk.list /\ walk'.sort = walk.sort /\ walk'.dir = walk.dir
      BY <2>3 DEF Walk
    <3>3. /\ walk'.filter = walk.filter /\ walk'.first = walk.first
          /\ walk'.shrunk = walk.shrunk /\ walk'.before = walk.before
      BY <2>3 DEF Walk
    <3> QED BY <3>1, <3>2, <3>3 DEF SameWalk
  <2> QED BY <2>1, <2>2, <2>4
<1>5. /\ Walks!Matching(walk)' = Walks!Matching(walk) /\ \A i : RankOf(i)' = RankOf(i)
      /\ Steady' = Steady /\ Still' = Still
  BY <1>4, SameList
<1>6. /\ Walks!Seen' = Walks!Seen \cup Elements(items) /\ ~Holding' /\ InHand' = {}
      /\ Fetched' = Walks!Skip(walk.page + 1)
  <2>1. Walks!Seen' = Elements(walk'.seen)
    BY DEF Elements, Walks!Seen
  <2>2. ~Holding'
    BY <1>4 DEF Holding
  <2> QED BY <1>3, <1>4, <2>1, <2>2 DEF InHand, Fetched
<1>7. Unseen' = {i \in walk.first \cap Walks!Matching(walk) : i \notin Walks!Seen \cup Elements(items)}
  BY <1>4, <1>5, <1>6 DEF Unseen, SameWalk
<1>8. WalkShape'
  <2>1. walk.page <= MaxPages /\ MaxPages \in Nat
    BY <1>0, WalkConstants, WalkIs DEF WalkShape
  <2>2. walk'.page <= MaxPages + 1 /\ (walk'.state # "done" => walk'.page <= MaxPages)
    BY <1>1, <1>2, <1>4, <2>1
  <2>3. /\ rows' \subseteq 1..lastRow' /\ lastRow' \in 0..MaxRows
        /\ estado' \in [rows' -> Estados] /\ changes' \in 0..MaxChanges
    BY <1>0 DEF WalkShape
  <2>4. walk' \in Walk /\ walk'.first = walk.first /\ walk'.before = walk.before
    BY <1>4 DEF SameWalk
  <2>5. walk.first \subseteq 1..lastRow /\ walk.before <= changes
    BY <1>0, WalkIs DEF WalkShape
  <2>6. Len(walk'.items) <= Limit
    BY <1>4
  <2> QED BY <2>2, <2>3, <2>4, <2>5, <2>6 DEF WalkShape
<1>9. UnseenIsAhead'
  <2> SUFFICES ASSUME Steady
               PROVE  /\ walk.first \subseteq rows
                      /\ \A i \in Unseen' : Walks!Skip(walk.page + 1) <= RankOf(i)
    <3> HIDE DEF Unseen
    <3> QED BY <1>4, <1>5, <1>6 DEF UnseenIsAhead, SameWalk
  <2> QED BY <1>0, <1>7 DEF UnseenIsAhead
<1>10. c \in Nat /\ c <= MaxRows /\ \A i \in Walks!Matching(walk) : RankOf(i) \in Nat /\ RankOf(i) < c
  BY <1>0, MatchingIs, RankIs DEF RankOf
<1>11. ASSUME state = "done", ~(walk.list = "conversation" /\ items = << >>),
              ~(walk.list = "events" /\ walk.late)
       PROVE  c <= Walks!Skip(walk.page + 1)
  <2>1. CASE ~(walk.page < Walks!Pages(total))
    BY <1>2, <1>10, <1>11, <2>1, LastPage
  <2>2. CASE ~(walk.page < MaxPages)
    BY <1>2, <1>10, <2>2, LastOfTheBound
  <2> QED BY <1>1, <1>11, <2>1, <2>2
<1>12. NothingIsLeft'
  <2> SUFFICES ASSUME Steady, state = "done", ~(walk.list = "events" /\ walk.late), NEW i \in Unseen'
               PROVE  FALSE
    BY <1>4, <1>5, <1>6 DEF NothingIsLeft, Walks!Done, SameWalk
  <2>1. i \in walk.first \cap Walks!Matching(walk) /\ i \notin Walks!Seen \cup Elements(items)
    BY <1>7
  <2>2. ~(walk.list = "conversation" /\ items = << >>)
    BY <2>1
  <2>3. c <= Walks!Skip(walk.page + 1) /\ Walks!Skip(walk.page + 1) <= RankOf(i) /\ RankOf(i) < c
    BY <1>10, <1>11, <2>1, <2>2
  <2> QED BY <1>2, <1>10, <2>1, <2>3, SkipIs
<1>13. CountIsExact'
  BY <1>4 DEF CountIsExact
<1>14. ReadSoFar'
  <2> SUFFICES ASSUME Still PROVE ReadSoFar'
    BY <1>5 DEF ReadSoFar
  <2>1. PICK skip \in Nat : skip = Walks!Skip(walk.page)
    BY <1>2, SkipIs
  <2>2. PICK next \in Nat : next = Walks!Skip(walk.page + 1) /\ skip <= next
    BY <1>2, <2>1, SkipIs, WalkConstants
  <2>3. /\ ~walk.late /\ Len(walk.seen) = Least(skip, c)
        /\ Walks!Seen = {i \in Walks!Matching(walk) : RankOf(i) < skip}
    BY <1>0, <2>1 DEF ReadSoFar
  <2>4. /\ Len(items) = Least(next, c) - Least(skip, c)
        /\ Elements(items) = {i \in Walks!Matching(walk) : skip <= RankOf(i) /\ RankOf(i) < next}
    BY <2>1, <2>2
  <2>5. Len(walk'.seen) = Least(next, c)
    BY <1>3, <1>4, <1>10, <2>3, <2>4 DEF Least
  <2>6. Walks!Seen' = {i \in Walks!Matching(walk) : RankOf(i) < next}
    BY <1>6, <1>10, <2>2, <2>3, <2>4
  <2>7. state = "done" /\ walk.list # "conversation" => c <= next
    BY <1>11, <2>2, <2>3
  <2>8. /\ walk'.page = walk.page + 1 /\ ~walk'.late /\ walk'.state = state /\ walk'.list = walk.list
    BY <1>4, <2>3 DEF SameWalk
  <2> QED BY <1>5, <1>6, <2>2, <2>5, <2>6, <2>7, <2>8 DEF ReadSoFar, Walks!Done
<1> QED BY <1>8, <1>9, <1>12, <1>13, <1>14 DEF WalkInv

LEMMA InsertKeeps ==
  ASSUME WalkInv, NEW e \in Estados, Walks!Insert(e)
  PROVE  WalkInv'
<1>0. WalkShape /\ lastRow \in Nat /\ lastRow < MaxRows /\ MaxRows \in Nat
  BY WalkConstants DEF WalkInv, WalkShape, Walks!Insert
<1>1. /\ lastRow' = lastRow + 1 /\ rows' = rows \cup {lastRow + 1} /\ changes' = changes
      /\ estado' = [i \in rows' |-> IF i = lastRow + 1 THEN e ELSE estado[i]]
  BY DEF Walks!Insert
<1>2. lastRow + 1 \notin rows /\ rows' \subseteq 1..lastRow' /\ lastRow' \in 0..MaxRows
  BY <1>0, <1>1 DEF WalkShape
<1>3. estado' \in [rows' -> Estados] /\ \A i \in rows : estado'[i] = estado[i]
  BY <1>0, <1>1, <1>2 DEF WalkShape
<1>4. CASE walk = Walks!NoWalk
  <2>1. walk' = walk
    BY <1>4 DEF Walks!Insert, Walks!Walking, Walks!NoWalk
  <2> QED BY <1>0, <1>1, <1>2, <1>3, <1>4, <2>1 DEF WalkInv, WalkShape
<1>5. CASE walk # Walks!NoWalk
  <2>0. walk \in Walk /\ UnseenIsAhead /\ NothingIsLeft /\ CountIsExact /\ ReadSoFar
    BY <1>0, <1>5, WalkIs DEF WalkInv
  <2>1. PICK late \in BOOLEAN :
          /\ walk' = [walk EXCEPT !.late = late]
          /\ walk.state \in {"items", "count"} => late
          /\ walk.state = "done" => late = walk.late
    <3>1. walk = [walk EXCEPT !.late = walk.late] /\ walk.late \in BOOLEAN
      BY <2>0 DEF Walk
    <3>2. CASE Walks!Walking
      BY <2>0, <3>1, <3>2 DEF Walks!Insert, Walks!Walking
    <3>3. CASE ~Walks!Walking
      BY <2>0, <3>1, <3>3 DEF Walks!Insert, Walks!Walking
    <3> QED BY <3>2, <3>3
  <2>2. /\ SameWalk /\ walk'.late = late /\ walk'.items = walk.items /\ walk'.total = walk.total
        /\ walk'.page = walk.page /\ walk'.state = walk.state /\ walk'.seen = walk.seen
    BY <2>0, <2>1 DEF Walk, SameWalk
  <2>3. WalkShape'
    <3>1. walk.first \subseteq 1..lastRow /\ walk.before <= changes
          /\ walk.page <= MaxPages + 1 /\ (walk.state # "done" => walk.page <= MaxPages)
          /\ Len(walk.items) <= Limit
      BY <1>0, <1>5 DEF WalkShape
    <3>2. walk.first \subseteq 1..lastRow + 1
      BY <1>0, <3>1
    <3> QED BY <1>0, <1>1, <1>2, <1>3, <2>2, <3>1, <3>2 DEF WalkShape, SameWalk
  <2>4. lastRow + 1 \notin walk.first
    BY <1>0, <1>5 DEF WalkShape
  <2>5. \A i \in rows : Walks!Matches(walk.list, i, walk.filter)' <=> Walks!Matches(walk.list, i, walk.filter)
    BY <1>3, <2>2 DEF Walks!Matches, SameWalk
  <2>6. Walks!Matching(walk) \subseteq Walks!Matching(walk)'
        /\ Walks!Matching(walk)' \subseteq Walks!Matching(walk) \cup {lastRow + 1}
    BY <1>1, <2>2, <2>5 DEF Walks!Matching, SameWalk
  <2>7. Upward' = Upward /\ Steady' = Steady /\ ~Still'
    <3>1. Upward' = Upward /\ Steady' = Steady
      BY <1>1, <2>2 DEF Upward, Steady, Walks!Ties, Walks!Quiet, SameWalk
    <3>2. ~Still'
      BY <1>1, <2>2, <2>4 DEF Still, SameWalk
    <3> QED BY <3>1, <3>2
  <2>8. Holding' = Holding /\ InHand' = InHand /\ Fetched' = Fetched /\ Walks!Seen' = Walks!Seen
    BY <2>2 DEF Holding, InHand, Fetched, Walks!Seen, SameWalk
  <2>9. Unseen' = Unseen
    BY <2>2, <2>4, <2>6, <2>8 DEF Unseen, SameWalk
  <2>10. ASSUME NEW i \in Unseen
         PROVE  RankOf(i) \in Nat /\ RankOf(i)' \in Nat /\ RankOf(i) <= RankOf(i)'
    <3>1. PICK S : S = Walks!Matching(walk)
      OBVIOUS
    <3>2. PICK T : T = Walks!Matching(walk)'
      OBVIOUS
    <3>3. IsFiniteSet(T) /\ T \subseteq Nat
      <4>1. PICK n \in Nat : n = lastRow'
        BY <1>0, <1>1
      <4>2. T \subseteq rows'
        BY <3>2 DEF Walks!Matching
      <4>3. T \in SUBSET (1..n) /\ 1 \in Int /\ n \in Int
        BY <1>2, <4>1, <4>2
      <4>4. IsFiniteSet(1..n)
        BY <4>3, FS_Interval
      <4>5. IsFiniteSet(T)
        BY <4>3, <4>4, FS_Subset
      <4> QED BY <4>3, <4>5
    <3>4. S \in SUBSET T /\ IsFiniteSet(S) /\ S \subseteq Nat /\ i \in S
      BY <1>0, <2>6, <3>1, <3>2, MatchingIs DEF Unseen
    <3>5. PICK asc : asc = Upward
      OBVIOUS
    <3>6. Rank(S, asc, i) \in Nat /\ Rank(T, asc, i) \in Nat /\ Rank(S, asc, i) <= Rank(T, asc, i)
      BY <3>3, <3>4, RankIs, RankGrows
    <3> QED BY <2>7, <3>1, <3>2, <3>5, <3>6 DEF RankOf
  <2>11. UnseenIsAhead'
    <3> SUFFICES ASSUME Steady
                 PROVE  walk.first \subseteq rows' /\ \A i \in Unseen : Fetched <= RankOf(i)'
      BY <2>2, <2>7, <2>8, <2>9 DEF UnseenIsAhead, SameWalk
    <3>1. walk.first \subseteq rows /\ \A i \in Unseen : Fetched <= RankOf(i)
      BY <2>0 DEF UnseenIsAhead
    <3>2. Fetched \in Nat
      BY <2>0, SkipIs DEF Fetched, Walk
    <3> QED BY <1>1, <2>10, <3>1, <3>2
  <2>12. NothingIsLeft'
    BY <2>0, <2>1, <2>2, <2>7, <2>8, <2>9 DEF NothingIsLeft, Walks!Done, SameWalk
  <2>13. CountIsExact' /\ ReadSoFar'
    BY <2>1, <2>2, <2>7 DEF CountIsExact, ReadSoFar
  <2> QED BY <2>3, <2>11, <2>12, <2>13 DEF WalkInv
<1> QED BY <1>4, <1>5

LEMMA ChangeKeeps ==
  ASSUME WalkInv, NEW r, NEW e \in Estados, Walks!Change(r, e)
  PROVE  WalkInv'
<1>0. WalkShape
  BY DEF WalkInv
<1>1. /\ rows' = rows /\ lastRow' = lastRow /\ walk' = walk /\ changes < MaxChanges
      /\ changes' = changes + 1 /\ estado' = [estado EXCEPT ![r] = e]
      /\ walk # Walks!NoWalk => walk.list \in Walks!Managed
  BY DEF Walks!Change
<1>2. WalkShape'
  <2>1. estado' \in [rows -> Estados] /\ changes' \in 0..MaxChanges
    <3>1. MaxChanges \in Nat
      BY WalkConstants
    <3>2. changes' \in 0..MaxChanges
      BY <1>0, <1>1, <3>1 DEF WalkShape
    <3>3. estado' \in [rows -> Estados]
      BY <1>0, <1>1 DEF WalkShape
    <3> QED BY <3>2, <3>3
  <2>2. walk # Walks!NoWalk => walk.before <= changes'
    BY <1>0, <1>1, WalkIs DEF WalkShape, Walk
  <2> QED BY <1>0, <1>1, <2>1, <2>2 DEF WalkShape
<1>3. CASE walk = Walks!NoWalk
  BY <1>1, <1>2, <1>3 DEF WalkInv
<1>4. CASE walk # Walks!NoWalk
  <2>0. walk \in Walk /\ UnseenIsAhead /\ NothingIsLeft /\ CountIsExact /\ ReadSoFar
    BY <1>0, <1>4, WalkIs DEF WalkInv
  <2>1. ~Walks!Quiet' /\ ~Still'
    <3>1. walk.before \in Nat /\ walk.before <= changes /\ changes \in Nat
      BY <1>0, <1>4, <2>0 DEF WalkShape, Walk
    <3> QED BY <1>1, <3>1 DEF Walks!Quiet, Still
  <2>2. CountIsExact' /\ ReadSoFar'
    BY <1>1, <1>4, <2>1 DEF CountIsExact, ReadSoFar, Walks!Managed
  <2>3. CASE ~Steady'
    BY <1>2, <2>2, <2>3 DEF WalkInv, UnseenIsAhead, NothingIsLeft
  <2>4. CASE Steady'
    <3>1. walk.filter.estado = << >> /\ Steady
      BY <1>1, <2>1, <2>4 DEF Steady, Walks!Ties
    <3>2. Walks!Matching(walk)' = Walks!Matching(walk)
      BY <1>1, <1>4, <3>1 DEF Walks!Matching, Walks!Matches, Walks!Managed
    <3>3. Unseen' = Unseen /\ Fetched' = Fetched /\ Holding' = Holding /\ \A i : RankOf(i)' = RankOf(i)
      BY <1>1, <3>2 DEF Unseen, Fetched, Holding, RankOf, Upward, InHand, Walks!Seen
    <3> QED BY <1>1, <1>2, <2>0, <2>2, <3>1, <3>3 DEF WalkInv, UnseenIsAhead, NothingIsLeft, Walks!Done
  <2> QED BY <2>3, <2>4
<1> QED BY <1>3, <1>4

LEMMA DeleteKeeps ==
  ASSUME WalkInv, NEW r, Walks!Delete(r)
  PROVE  WalkInv'
<1>0. WalkShape
  BY DEF WalkInv
<1>1. /\ rows' = rows \ {r} /\ lastRow' = lastRow /\ changes < MaxChanges
      /\ changes' = changes + 1 /\ estado' = [j \in rows' |-> estado[j]]
      /\ walk # Walks!NoWalk => walk.list = "encuestas"
      /\ walk' = IF walk = Walks!NoWalk THEN walk ELSE [walk EXCEPT !.shrunk = TRUE]
  BY DEF Walks!Delete
<1>2. rows' \subseteq 1..lastRow' /\ estado' \in [rows' -> Estados] /\ changes' \in 0..MaxChanges
  <2>1. MaxChanges \in Nat
    BY WalkConstants
  <2> QED BY <1>0, <1>1, <2>1 DEF WalkShape
<1>3. CASE walk = Walks!NoWalk
  BY <1>0, <1>1, <1>2, <1>3 DEF WalkInv, WalkShape
<1>4. CASE walk # Walks!NoWalk
  <2>0. walk \in Walk
    BY <1>0, <1>4, WalkIs
  <2>1. walk.before \in Nat /\ walk.before <= changes /\ changes \in Nat
    BY <1>0, <1>4, <2>0 DEF WalkShape, Walk
  <2>2. /\ walk' \in Walk /\ walk'.shrunk /\ walk'.before = walk.before /\ walk'.list = "encuestas"
        /\ walk'.page = walk.page /\ walk'.items = walk.items /\ walk'.first = walk.first
        /\ walk'.state = walk.state
    BY <1>1, <1>4, <2>0 DEF Walk
  <2>3. WalkShape'
    <3>1. walk'.before <= changes'
      BY <1>1, <2>1, <2>2
    <3> QED BY <1>0, <1>1, <1>2, <1>4, <2>2, <3>1 DEF WalkShape
  <2>4. ~Steady' /\ ~Still'
    BY <1>1, <2>1, <2>2 DEF Steady, Still, Walks!Quiet
  <2> QED BY <2>2, <2>3, <2>4 DEF WalkInv, UnseenIsAhead, NothingIsLeft, CountIsExact, ReadSoFar
<1> QED BY <1>3, <1>4

LEMMA OpenKeeps ==
  ASSUME WalkInv, NEW list \in Lists, NEW sort \in Sorts, NEW dir \in {"ASC", "DESC"},
         NEW f \in Filters, Walks!Open(list, sort, dir, f)
  PROVE  WalkInv'
<1>0. WalkShape
  BY DEF WalkInv
<1>1. /\ UNCHANGED <<rows, estado, lastRow, changes>>
      /\ walk' = [state |-> "ask", list |-> list, sort |-> sort, dir |-> dir, filter |-> f,
                  page |-> 1, items |-> << >>, total |-> 0, seen |-> << >>, late |-> FALSE,
                  shrunk |-> FALSE, first |-> rows, before |-> changes]
  BY DEF Walks!Open
<1>2. walk' \in Walk
  <2>1. list \in Walks!ListNames
    BY WalkConstants
  <2>2. rows \in SUBSET Nat /\ changes \in Nat
    BY <1>0, WalkConstants DEF WalkShape
  <2>3. << >> \in Seq(Nat)
    OBVIOUS
  <2> QED BY <1>1, <2>1, <2>2, <2>3 DEF Walk
<1>3. WalkShape'
  <2>1. 1 <= MaxPages /\ 1 <= MaxPages + 1 /\ Len(<< >>) <= Limit
    BY WalkConstants
  <2>2. changes <= changes
    BY <1>0 DEF WalkShape
  <2> QED BY <1>0, <1>1, <1>2, <2>1, <2>2 DEF WalkShape
<1>4. Walks!Seen' = {} /\ ~Holding' /\ Fetched' = 0
  BY <1>1, SkipIs DEF Walks!Seen, Holding, Fetched
<1>5. /\ Cardinality(Walks!Matching(walk))' \in Nat
      /\ \A i \in Walks!Matching(walk)' : RankOf(i)' \in Nat
  <2>1. PICK M : M = Walks!Matching(walk)'
    OBVIOUS
  <2>2. PICK asc : asc = Upward'
    OBVIOUS
  <2>3. lastRow \in Nat /\ rows \subseteq 1..lastRow
    BY <1>0, WalkConstants DEF WalkShape
  <2>4. M \in SUBSET (1..lastRow)
    <3>1. M \subseteq rows'
      BY <2>1 DEF Walks!Matching
    <3> QED BY <1>1, <2>3, <3>1
  <2>5. IsFiniteSet(M) /\ M \subseteq Nat
    <3>1. 1 \in Int /\ lastRow \in Int
      BY <2>3
    <3>2. IsFiniteSet(1..lastRow)
      BY <3>1, FS_Interval
    <3>3. IsFiniteSet(M)
      BY <2>4, <3>2, FS_Subset
    <3> QED BY <2>3, <2>4, <3>3
  <2>6. Cardinality(M) \in Nat /\ \A i \in M : Rank(M, asc, i) \in Nat
    BY <2>5, RankIs, FS_CardinalityType
  <2> QED BY <2>1, <2>2, <2>6 DEF RankOf
<1>6. UnseenIsAhead'
  <2>1. \A i \in Unseen' : i \in Walks!Matching(walk)'
    BY DEF Unseen
  <2>2. walk'.first \subseteq rows' /\ \A i \in Unseen' : 0 <= RankOf(i)'
    <3>1. \A n \in Nat : 0 <= n
      OBVIOUS
    <3> HIDE DEF Unseen
    <3> QED BY <1>1, <1>5, <2>1, <3>1
  <2> QED BY <1>4, <2>2 DEF UnseenIsAhead
<1>7. NothingIsLeft' /\ CountIsExact'
  <2>1. walk'.state = "ask"
    BY <1>1
  <2> QED BY <1>4, <2>1 DEF NothingIsLeft, CountIsExact, Walks!Done
<1>8. ReadSoFar'
  <2>1. PICK n : n = Cardinality(Walks!Matching(walk))'
    OBVIOUS
  <2>2. n \in Nat
    BY <1>5, <2>1
  <2>3. Least(0, n) = 0
    BY <2>2 DEF Least
  <2>4. walk'.seen = << >> /\ walk'.page = 1 /\ walk'.late = FALSE /\ walk'.state = "ask"
    BY <1>1
  <2>5. \A i \in Walks!Matching(walk)' : ~(RankOf(i)' < 0)
    BY <1>5
  <2> QED BY <1>4, <2>1, <2>3, <2>4, <2>5, SkipIs DEF ReadSoFar, Walks!Done
<1> QED BY <1>3, <1>6, <1>7, <1>8 DEF WalkInv

LEMMA RequestKeeps ==
  ASSUME WalkInv, Walks!Request
  PROVE  WalkInv'
<1>0. WalkShape /\ walk \in Walk /\ UnseenIsAhead /\ NothingIsLeft /\ CountIsExact /\ ReadSoFar
  BY WalkIs DEF WalkInv, Walks!Request
<1>1. PICK state \in {"items", "count"} :
        /\ walk' = [walk EXCEPT !.state = state, !.items = << >>, !.total = 0, !.late = FALSE]
        /\ state = "count" <=> walk.list = "events"
  BY DEF Walks!Request, Walks!CountsFirst
<1>2. UNCHANGED <<rows, estado, lastRow, changes>> /\ walk.state = "ask"
  BY DEF Walks!Request
<1>3. /\ SameWalk /\ ~walk'.late /\ walk'.items = << >> /\ walk'.page = walk.page
      /\ walk'.state = state /\ walk'.seen = walk.seen
  <2>1. << >> \in Seq(Nat)
    OBVIOUS
  <2>2. walk' \in Walk
    BY <1>0, <1>1, <2>1 DEF Walk
  <2> QED BY <1>0, <1>1, <2>2 DEF Walk, SameWalk
<1>4. WalkShape'
  <2>1. Len(<< >>) <= Limit
    BY WalkConstants
  <2> QED BY <1>0, <1>2, <1>3, <2>1, WalkIs DEF WalkShape, SameWalk
<1>5. /\ Walks!Matching(walk)' = Walks!Matching(walk) /\ \A i : RankOf(i)' = RankOf(i)
      /\ Steady' = Steady /\ Still' = Still
  BY <1>2, <1>3, SameList
<1>6. /\ Walks!Seen' = Walks!Seen /\ ~Holding /\ ~Holding' /\ InHand' = {} /\ InHand = {}
      /\ Fetched' = Fetched
  BY <1>1, <1>2, <1>3 DEF Walks!Seen, Holding, InHand, Fetched, SameWalk
<1>7. Unseen' = Unseen
  BY <1>3, <1>5, <1>6 DEF Unseen, SameWalk
<1>8. UnseenIsAhead'
  BY <1>0, <1>2, <1>3, <1>5, <1>6, <1>7 DEF UnseenIsAhead, SameWalk
<1>9. NothingIsLeft' /\ CountIsExact'
  BY <1>1, <1>3, <1>6 DEF NothingIsLeft, CountIsExact, Walks!Done, SameWalk
<1>10. ReadSoFar'
  BY <1>0, <1>2, <1>3, <1>5, <1>6 DEF ReadSoFar, Walks!Done
<1> QED BY <1>4, <1>8, <1>9, <1>10 DEF WalkInv

\* What a page says of the rows not yet seen.
LEMMA PageTells ==
  ASSUME WalkInv, walk \in Walk, walk.state = "items", NEW s \in Walks!Sorted(walk),
         NEW t, t = Walks!TakePage(s, walk.page)
  PROVE  /\ Steady => \A i \in walk.first \cap Walks!Matching(walk) :
              i \notin Walks!Seen \cup Elements(t) => Walks!Skip(walk.page + 1) <= RankOf(i)
         /\ Steady /\ t = << >> => walk.first \cap Walks!Matching(walk) \subseteq Walks!Seen
<1>0. WalkShape /\ UnseenIsAhead /\ walk.page \in Nat \ {0}
  BY WalkIs DEF WalkInv, Walk
<1>1. PICK skip \in Nat : skip = Walks!Skip(walk.page)
  BY <1>0, SkipIs
<1>2. PICK next \in Nat : next = Walks!Skip(walk.page + 1)
  BY <1>0, SkipIs
<1>3. next = skip + Limit /\ Limit \in Nat \ {0}
  BY <1>0, <1>1, <1>2, SkipIs, WalkConstants
<1>4. PICK c \in Nat : c = Cardinality(Walks!Matching(walk))
  BY <1>0, MatchingIs
<1>5. \A i \in Walks!Matching(walk) : RankOf(i) \in Nat /\ RankOf(i) < c
  BY <1>0, <1>4, MatchingIs, RankIs DEF RankOf
<1>6. ASSUME Steady
      PROVE  /\ Len(t) = Least(next, c) - Least(skip, c)
             /\ Elements(t) = {i \in Walks!Matching(walk) : skip <= RankOf(i) /\ RankOf(i) < next}
  BY <1>0, <1>1, <1>2, <1>4, <1>6, PageIs DEF Steady
<1>7. ASSUME Steady, NEW i \in walk.first \cap Walks!Matching(walk), i \notin Walks!Seen
      PROVE  skip <= RankOf(i)
  <2>1. ~Holding /\ InHand = {} /\ Fetched = skip
    BY <1>1 DEF Holding, InHand, Fetched
  <2>2. i \in Unseen
    BY <1>7, <2>1 DEF Unseen
  <2> QED BY <1>0, <1>7, <2>1, <2>2 DEF UnseenIsAhead
<1>8. ASSUME Steady, NEW i \in walk.first \cap Walks!Matching(walk),
             i \notin Walks!Seen \cup Elements(t)
      PROVE  next <= RankOf(i)
  <2>1. skip <= RankOf(i) /\ RankOf(i) \in Nat /\ ~(skip <= RankOf(i) /\ RankOf(i) < next)
    BY <1>5, <1>6, <1>7, <1>8
  <2> QED BY <2>1
<1>9. ASSUME Steady, t = << >>, NEW i \in walk.first \cap Walks!Matching(walk), i \notin Walks!Seen
      PROVE  FALSE
  <2>1. i \notin Elements(t)
    BY <1>9 DEF Elements
  <2>2. next <= RankOf(i) /\ RankOf(i) < c /\ RankOf(i) \in Nat
    BY <1>5, <1>8, <1>9, <2>1
  <2>3. Len(t) = 0 /\ Len(t) = Least(next, c) - Least(skip, c)
    BY <1>6, <1>9
  <2> QED BY <1>3, <2>2, <2>3 DEF Least
<1> QED BY <1>2, <1>8, <1>9

LEMMA FetchItemsKeeps ==
  ASSUME WalkInv, Walks!FetchItems
  PROVE  WalkInv'
<1>0. /\ WalkShape /\ walk \in Walk /\ UnseenIsAhead /\ NothingIsLeft /\ CountIsExact /\ ReadSoFar
      /\ walk.state = "items" /\ UNCHANGED <<rows, estado, lastRow, changes>>
  BY WalkIs DEF WalkInv, Walks!FetchItems
<1>1. PICK s \in Walks!Sorted(walk) :
        LET w == [walk EXCEPT !.items = Walks!TakePage(s, walk.page)]
        IN  walk' = IF Walks!CountsFirst(walk.list) THEN Walks!Answered(w)
                    ELSE [w EXCEPT !.state = "count"]
  BY DEF Walks!FetchItems
<1>2. PICK t : t = Walks!TakePage(s, walk.page)
  OBVIOUS
<1>3. PICK c : c = Cardinality(Walks!Matching(walk))
  OBVIOUS
<1>4. /\ t \in Seq(Nat) /\ Len(t) <= Limit
      /\ Still =>
           /\ Len(t) = Least(Walks!Skip(walk.page + 1), c) - Least(Walks!Skip(walk.page), c)
           /\ Elements(t) = {i \in Walks!Matching(walk) :
                Walks!Skip(walk.page) <= RankOf(i) /\ RankOf(i) < Walks!Skip(walk.page + 1)}
  BY <1>0, <1>2, <1>3, PageIs DEF Still
<1>5. /\ Steady => \A i \in walk.first \cap Walks!Matching(walk) :
           i \notin Walks!Seen \cup Elements(t) => Walks!Skip(walk.page + 1) <= RankOf(i)
      /\ Steady /\ t = << >> => walk.first \cap Walks!Matching(walk) \subseteq Walks!Seen
  BY <1>0, <1>2, PageTells
<1>6. CASE walk.list = "events"
  <2>1. PICK total \in Nat : total = walk.total
    BY <1>0 DEF Walk
  <2>2. [walk EXCEPT !.items = t] = [walk EXCEPT !.items = t, !.total = total]
    BY <1>0, <2>1 DEF Walk
  <2>3. walk' = Walks!Answered([walk EXCEPT !.items = t, !.total = total])
    BY <1>1, <1>2, <1>6, <2>2 DEF Walks!CountsFirst
  <2>4. ~(walk.list = "events" /\ walk.late) => total = Cardinality(Walks!Matching(walk))
    BY <1>0, <1>6, <2>1 DEF CountIsExact
  <2> QED BY <1>0, <1>3, <1>4, <1>5, <2>3, <2>4, AnsweredKeeps
<1>7. CASE walk.list # "events"
  <2>1. walk' = [walk EXCEPT !.items = t, !.state = "count"]
    BY <1>1, <1>2, <1>7 DEF Walks!CountsFirst
  <2>2. /\ SameWalk /\ walk'.late = walk.late /\ walk'.items = t /\ walk'.page = walk.page
        /\ walk'.state = "count" /\ walk'.seen = walk.seen
    <3>1. walk' \in Walk
      BY <1>0, <1>4, <2>1 DEF Walk
    <3> QED BY <1>0, <2>1, <3>1 DEF Walk, SameWalk
  <2>3. /\ Walks!Matching(walk)' = Walks!Matching(walk) /\ \A i : RankOf(i)' = RankOf(i)
        /\ Steady' = Steady /\ Still' = Still
    BY <1>0, <2>2, SameList
  <2>4. Walks!Seen' = Walks!Seen /\ Holding' /\ InHand' = Elements(t)
        /\ Fetched' = Walks!Skip(walk.page + 1)
    BY <1>7, <2>2 DEF Walks!Seen, Holding, InHand, Fetched, SameWalk
  <2>5. Unseen' = {i \in walk.first \cap Walks!Matching(walk) : i \notin Walks!Seen \cup Elements(t)}
    BY <2>2, <2>3, <2>4 DEF Unseen, SameWalk
  <2>6. WalkShape'
    BY <1>0, <1>4, <2>2, WalkIs DEF WalkShape, SameWalk
  <2>7. UnseenIsAhead'
    <3> SUFFICES ASSUME Steady
                 PROVE  /\ walk.first \subseteq rows
                        /\ \A i \in Unseen' : Walks!Skip(walk.page + 1) <= RankOf(i)
      <4> HIDE DEF Unseen
      <4> QED BY <1>0, <2>2, <2>3, <2>4 DEF UnseenIsAhead, SameWalk
    <3> QED BY <1>0, <1>5, <2>5 DEF UnseenIsAhead
  <2>8. NothingIsLeft'
    <3>1. Steady /\ t = << >> => Unseen' = {}
      BY <1>5, <2>5
    <3> HIDE DEF Unseen
    <3> QED BY <2>2, <2>3, <3>1 DEF NothingIsLeft, Walks!Done
  <2>9. CountIsExact' /\ ReadSoFar'
    <3>1. CountIsExact'
      BY <2>2 DEF CountIsExact
    <3>2. Still => /\ ~walk.late /\ Len(walk.seen) = Least(Walks!Skip(walk.page), c)
                   /\ Walks!Seen = {i \in Walks!Matching(walk) : RankOf(i) < Walks!Skip(walk.page)}
      BY <1>0, <1>3 DEF ReadSoFar
    <3> QED BY <1>3, <1>4, <2>2, <2>3, <2>4, <3>1, <3>2 DEF ReadSoFar, Walks!Done
  <2> QED BY <2>6, <2>7, <2>8, <2>9 DEF WalkInv
<1> QED BY <1>6, <1>7

LEMMA FetchCountKeeps ==
  ASSUME WalkInv, Walks!FetchCount
  PROVE  WalkInv'
<1>0. /\ WalkShape /\ walk \in Walk /\ UnseenIsAhead /\ NothingIsLeft /\ CountIsExact /\ ReadSoFar
      /\ walk.state = "count" /\ UNCHANGED <<rows, estado, lastRow, changes>>
  BY WalkIs DEF WalkInv, Walks!FetchCount
<1>1. PICK c \in Nat : c = Cardinality(Walks!Matching(walk))
  BY <1>0, MatchingIs
<1>2. walk' = IF walk.list = "events" THEN [walk EXCEPT !.total = c, !.state = "items"]
              ELSE Walks!Answered([walk EXCEPT !.total = c])
  BY <1>1, WalkCardinality DEF Walks!FetchCount, Walks!CountsFirst
<1>3. CASE walk.list = "events"
  <2>1. walk' = [walk EXCEPT !.total = c, !.state = "items"]
    BY <1>2, <1>3
  <2>2. /\ SameWalk /\ walk'.late = walk.late /\ walk'.items = walk.items /\ walk'.page = walk.page
        /\ walk'.state = "items" /\ walk'.seen = walk.seen /\ walk'.total = c
    <3>1. walk' \in Walk
      BY <1>0, <2>1 DEF Walk
    <3> QED BY <1>0, <2>1, <3>1 DEF Walk, SameWalk
  <2>3. /\ Walks!Matching(walk)' = Walks!Matching(walk) /\ \A i : RankOf(i)' = RankOf(i)
        /\ Steady' = Steady /\ Still' = Still
    BY <1>0, <2>2, SameList
  <2>4. /\ Walks!Seen' = Walks!Seen /\ ~Holding /\ ~Holding' /\ InHand' = {} /\ InHand = {}
        /\ Fetched' = Fetched
    BY <1>3, <2>2 DEF Walks!Seen, Holding, InHand, Fetched, SameWalk
  <2>5. Unseen' = Unseen
    BY <2>2, <2>3, <2>4 DEF Unseen, SameWalk
  <2>6. WalkShape'
    BY <1>0, <2>2, WalkIs DEF WalkShape, SameWalk
  <2>7. UnseenIsAhead'
    BY <1>0, <2>2, <2>3, <2>4, <2>5 DEF UnseenIsAhead, SameWalk
  <2>8. NothingIsLeft' /\ CountIsExact'
    BY <1>1, <2>2, <2>3, <2>4 DEF NothingIsLeft, CountIsExact, Walks!Done
  <2>9. ReadSoFar'
    BY <1>0, <2>2, <2>3, <2>4 DEF ReadSoFar, Walks!Done
  <2> QED BY <2>6, <2>7, <2>8, <2>9 DEF WalkInv
<1>4. CASE walk.list # "events"
  <2>1. PICK t \in Seq(Nat) : t = walk.items
    BY <1>0 DEF Walk
  <2>2. [walk EXCEPT !.total = c] = [walk EXCEPT !.items = t, !.total = c]
    BY <1>0, <2>1 DEF Walk
  <2>3. walk' = Walks!Answered([walk EXCEPT !.items = t, !.total = c])
    BY <1>2, <1>4, <2>2
  <2>4. Holding /\ InHand = Elements(t) /\ Fetched = Walks!Skip(walk.page + 1) /\ Len(t) <= Limit
    BY <1>0, <1>4, <2>1, WalkIs DEF Holding, InHand, Fetched, WalkShape
  <2>5. Steady => \A i \in walk.first \cap Walks!Matching(walk) :
          i \notin Walks!Seen \cup Elements(t) => Walks!Skip(walk.page + 1) <= RankOf(i)
    BY <1>0, <2>4 DEF UnseenIsAhead, Unseen
  <2>6. Steady /\ walk.list = "conversation" /\ t = << >> =>
          walk.first \cap Walks!Matching(walk) \subseteq Walks!Seen
    <3>1. t = << >> => Elements(t) = {}
      BY DEF Elements
    <3>2. Steady /\ walk.list = "conversation" /\ t = << >> => Unseen = {}
      BY <1>0, <2>1, <2>4 DEF NothingIsLeft
    <3> QED BY <2>4, <3>1, <3>2 DEF Unseen
  <2>7. Still =>
          /\ Len(t) = Least(Walks!Skip(walk.page + 1), c) - Least(Walks!Skip(walk.page), c)
          /\ Elements(t) = {i \in Walks!Matching(walk) :
               Walks!Skip(walk.page) <= RankOf(i) /\ RankOf(i) < Walks!Skip(walk.page + 1)}
    BY <1>0, <1>1, <2>1, <2>4 DEF ReadSoFar
  <2> QED BY <1>0, <1>1, <2>3, <2>4, <2>5, <2>6, <2>7, AnsweredKeeps
<1> QED BY <1>3, <1>4

LEMMA WalkStarts == Walks!Init => WalkInv
<1> SUFFICES ASSUME Walks!Init PROVE WalkInv
  OBVIOUS
<1>1. MaxRows \in Nat /\ MaxChanges \in Nat
  BY WalkConstants
<1>2. PICK n \in 0..MaxRows : rows = 1..n
  BY DEF Walks!Init
<1>3. lastRow = n
  <2>1. n \in Nat /\ 1 \in Int /\ n \in Int
    BY <1>1
  <2>2. Cardinality(1..n) = n
    BY <2>1, FS_Interval
  <2> QED BY <1>2, <2>2, WalkCardinality DEF Walks!Init
<1>4. WalkShape
  BY <1>1, <1>2, <1>3 DEF Walks!Init, WalkShape
<1> QED BY <1>4 DEF Walks!Init, WalkInv

LEMMA WalkInductive == Walks!Spec => []WalkInv
<1>1. Walks!Init => WalkInv
  BY WalkStarts
<1>2. WalkInv /\ [Walks!Next]_(Walks!vars) => WalkInv'
  <2> SUFFICES ASSUME WalkInv, [Walks!Next]_(Walks!vars) PROVE WalkInv'
    OBVIOUS
  <2>1. CASE UNCHANGED Walks!vars
    <3>1. UNCHANGED <<rows, estado, lastRow, changes, walk>>
      BY <2>1 DEF Walks!vars
    <3>2. Walks!Matching(walk)' = Walks!Matching(walk)
      BY <3>1 DEF Walks!Matching, Walks!Matches
    <3>3. WalkShape'
      BY <3>1 DEF WalkInv, WalkShape
    <3>4. Unseen' = Unseen /\ Fetched' = Fetched /\ Holding' = Holding
          /\ Upward' = Upward /\ Steady' = Steady /\ Still' = Still /\ Walks!Seen' = Walks!Seen
          /\ \A i : RankOf(i)' = RankOf(i)
      BY <3>1, <3>2 DEF Unseen, Fetched, Holding, InHand, Upward, Steady, Still, Walks!Seen, RankOf,
                        Walks!Ties, Walks!Quiet
    <3> QED BY <3>1, <3>2, <3>3, <3>4 DEF WalkInv, UnseenIsAhead, NothingIsLeft, CountIsExact,
                                          ReadSoFar, Walks!Done
  <2>2. CASE \E e \in Estados : Walks!Insert(e)
    BY <2>2, InsertKeeps
  <2>3. CASE \E i \in 1..MaxRows : \E e \in Estados : Walks!Change(i, e)
    BY <2>3, ChangeKeeps
  <2>4. CASE \E i \in 1..MaxRows : Walks!Delete(i)
    BY <2>4, DeleteKeeps
  <2>5. CASE \E list \in Lists, sort \in Sorts, dir \in {"ASC", "DESC"}, f \in Filters :
               Walks!Open(list, sort, dir, f)
    BY <2>5, OpenKeeps
  <2>6. CASE Walks!Request \/ Walks!FetchItems \/ Walks!FetchCount
    BY <2>6, RequestKeeps, FetchItemsKeeps, FetchCountKeeps
  <2> QED BY <2>1, <2>2, <2>3, <2>4, <2>5, <2>6 DEF Walks!Next
<1> QED BY <1>1, <1>2, PTL DEF Walks!Spec

LEMMA WalkIsWhole == WalkInv => WalkMissesNothing
<1> SUFFICES ASSUME WalkInv PROVE WalkMissesNothing
  OBVIOUS
<1>0. WalkShape
  BY DEF WalkInv
<1>1. Walks!TypeOK
  <2>1. walk # Walks!NoWalk => walk.page \in 1..MaxPages + 1 /\ Len(walk.items) <= Limit
    BY <1>0, WalkIs, WalkConstants DEF WalkShape, Walk
  <2> QED BY <1>0, <2>1 DEF Walks!TypeOK, WalkShape
<1>2. ASSUME Walks!Done
      PROVE  /\ walk \in Walk /\ UnseenIsAhead /\ NothingIsLeft /\ ReadSoFar
             /\ InHand = {}
  BY <1>0, <1>2, WalkIs DEF WalkInv, Walks!Done, Walks!NoWalk, InHand, Holding
<1>3. Walks!WalkMissesNothing
  <2> SUFFICES ASSUME Walks!Done, Steady, ~(walk.list = "events" /\ walk.late),
                      NEW i \in walk.first, Walks!Matches(walk.list, i, walk.filter)
               PROVE  i \in Walks!Seen
    BY DEF Walks!WalkMissesNothing, Steady
  <2>1. i \in Walks!Matching(walk)
    BY <1>2 DEF UnseenIsAhead, Walks!Matching
  <2>2. Unseen = {}
    BY <1>2 DEF NothingIsLeft
  <2> QED BY <1>2, <2>1, <2>2 DEF Unseen
<1>4. Walks!QuietWalkIsExact
  <2> SUFFICES ASSUME Walks!Done, Still, Walks!Filtered
               PROVE  Walks!Seen = Walks!Wanted /\ Len(walk.seen) = Walks!Cardinality(Walks!Wanted)
    BY DEF Walks!QuietWalkIsExact, Still
  <2>1. Walks!Wanted = Walks!Matching(walk)
    <3>1. walk.first = rows
      BY DEF Still
    <3>2. \A i : Walks!Matches(walk.list, i, walk.filter) <=>
                   /\ walk.filter.estado = << >> \/ estado[i] = walk.filter.estado[1]
                   /\ walk.filter.from = << >> \/ walk.filter.from[1] <= Walks!Day(i)
                   /\ walk.filter.to = << >> \/ Walks!Day(i) <= walk.filter.to[1]
      BY DEF Walks!Matches, Walks!Between, Walks!Filtered
    <3> QED BY <3>1, <3>2 DEF Walks!Wanted, Walks!Matching
  <2>2. PICK c \in Nat : c = Cardinality(Walks!Matching(walk))
    BY <1>0, MatchingIs
  <2>3. PICK skip \in Nat : skip = Walks!Skip(walk.page)
    BY <1>2, SkipIs DEF Walk
  <2>4. /\ Len(walk.seen) = Least(skip, c) /\ c <= skip
        /\ Walks!Seen = {i \in Walks!Matching(walk) : RankOf(i) < skip}
    BY <1>2, <2>2, <2>3 DEF ReadSoFar, Walks!Filtered
  <2>5. \A i \in Walks!Matching(walk) : RankOf(i) \in Nat /\ RankOf(i) < c
    BY <1>0, <2>2, MatchingIs, RankIs DEF RankOf
  <2>6. Walks!Seen = Walks!Matching(walk) /\ Len(walk.seen) = c
    BY <2>4, <2>5 DEF Least
  <2> QED BY <2>1, <2>2, <2>6, WalkCardinality
<1> QED BY <1>1, <1>3, <1>4 DEF WalkMissesNothing

\* The lists are a component of the officials' work as well.
LEMMA WalksAreAPart == OfficialsSpec => Walks!Spec
<1>1. OfficialsInit => Walks!Init
  BY DEF OfficialsInit
<1>2. [OfficialsNext]_<<active, vars, configVars, qrVars, dutyVars, calendarVars, listVars,
                        rangeVars, logVars>>
        => [Walks!Next]_(Walks!vars)
  <2>1. ListStep => Walks!Next
    BY DEF ListStep, Walks!Next
  <2>2. UNCHANGED listVars => UNCHANGED Walks!vars
    BY DEF listVars, Walks!vars
  <2> QED BY <2>1, <2>2 DEF OfficialsNext, KindStep, ConfigStep, QrStep, DutyStep, CalendarStep,
                            RangeStep, LogStep
<1> QED BY <1>1, <1>2, PTL DEF OfficialsSpec, Walks!Spec

\* A client that walks the pages of a list misses no row that was there when it began, but for
\* what the property names, and while nothing changes it sees each once; for any rows, filters,
\* sizes of a page and numbers of changes.
THEOREM WalkMissesNothingHolds ==
  (Walks!Spec => []WalkMissesNothing) /\ (OfficialsSpec => []WalkMissesNothing)
<1>1. Walks!Spec => []WalkMissesNothing
  BY WalkInductive, WalkIsWhole, PTL
<1> QED BY <1>1, WalksAreAPart, PTL
=============================================================================
