--------------------------- MODULE ServicesProofs ---------------------------
(***************************************************************************)
(* What the components that answer with other services keep: the turns of  *)
(* Amelia and the messages about them, for any bookings, webhooks, edits   *)
(* and retries, however they overlap, fail and are cut off; the reading of *)
(* a webhook, for any list of bookings; the summaries of the dashboard,    *)
(* for any readers, tables and breaks of Redis; and the bills of the       *)
(* municipal server, for any callers.                                      *)
(***************************************************************************)
EXTENDS MCServices, FiniteSetTheorems, SequenceTheorems, WellFoundedInduction, TLAPS

----------------------------------------------------------------------------
(* AmeliaTurnos *)

Working(r) == pc[r] \notin Final

----------------------------------------------------------------------------
(* The inductive invariant: what requests hold *)

\* The steps of a webhook, of an edit and of a retry.
Role(r) ==
  /\ r \in Hooks => pc[r] \in Final \cup {"insert", "update", "created", "changed", "confirm",
                                          "mark", "error", "cancel"}
  /\ r \in Edits => pc[r] \in Final \cup {"set", "edited"}
  /\ r \in Retries => pc[r] \in Final \cup {"confirm", "mark", "error"}
  /\ pc[r] = "cancel" => Wanted(r) = "CANCELADO"

\* A copy is of a version of the row that there was.
Copied(r) ==
  \A b \in DOMAIN copies[r] :
    b \in Bookings /\ copies[r][b] \in RowType /\ copies[r][b].at <= version[b]

\* A request at work deals with each of its bookings once, and has copies of their rows.
Holding(r) ==
  /\ todo[r] \in Seq(Bookings) /\ Range(todo[r]) \subseteq DOMAIN copies[r]
  /\ Working(r) =>
       /\ todo[r] # << >> /\ IsInjective(todo[r])
       /\ r \notin Retries => todo[r] = <<BookingOf[r]>>
       /\ pc[r] = "insert" => copies[r][Booking(r)] = NewTurno(r)
       /\ pc[r] # "insert" => Range(todo[r]) \subseteq DOMAIN rows

Shaped(r) == Role(r) /\ Copied(r) /\ Holding(r)

Shape ==
  /\ TypeOK
  /\ rows = [b \in DOMAIN rows |-> rows[b]] /\ IsFiniteSet(DOMAIN rows)
  /\ \A b \in Bookings : b \in DOMAIN rows <=> version[b] # 0
  /\ copies = [r \in Requests |-> copies[r]] /\ todo = [r \in Requests |-> todo[r]]
  /\ \A r \in Requests : Shaped(r)

----------------------------------------------------------------------------
(* The inductive invariant: what the copies say *)

\* No one saved the row of b since r read or wrote it.
Fresh(r, b) == copies[r][b].at = version[b]

\* r has still to send the confirmation of b.
ToTell(r, b) == \/ pc[r] \in {"created", "confirm"} /\ b \in Range(todo[r])
                \/ pc[r] \in {"mark", "error"} /\ b \in Range(Tail(todo[r]))

Unsaved == {"insert", "update", "set"}
SameMessages(r, b) == /\ copies[r][b].enviada = rows[b].enviada
                      /\ copies[r][b].intentos = rows[b].intentos

\* A fresh copy says what the row says, but for what its request is about to save.
Agrees(r, b) ==
  /\ pc[r] \in {"update", "set"} => SameMessages(r, b)
  /\ pc[r] = "update" => before[r] = rows[b].estado
  /\ pc[r] \notin Unsaved => copies[r][b].estado = rows[b].estado
  /\ ToTell(r, b) => SameMessages(r, b) /\ ~rows[b].enviada
  /\ pc[r] = "mark" /\ b = Booking(r) =>
       /\ copies[r][b].enviada /\ ~rows[b].enviada
       /\ copies[r][b].intentos = rows[b].intentos + 1
CopyInv(r) ==
  Working(r) => \A b \in Range(todo[r]) :
    /\ pc[r] \in Unsaved => copies[r][b].estado = Wanted(r)
    /\ pc[r] # "insert" /\ Fresh(r, b) => Agrees(r, b)

\* Who says that the confirmation was sent.
SaysSent == /\ EnviadaWasTold
            /\ \A r \in Requests : \A b \in DOMAIN copies[r] : copies[r][b].enviada => told[b] > 0

CopiesInv == /\ \A r \in Requests : CopyInv(r)
             /\ SaysSent /\ EstadoIsLastWanted

----------------------------------------------------------------------------
(* The inductive invariant: counts *)

\* The retries and webhooks that may yet send a confirmation of b.
Chances(b) == {r \in Requests : ToTell(r, b) \/ (r \in Retries /\ pc[r] = "new")}
BudgetInv ==
  \A b \in Bookings :
    /\ IsFiniteSet(Chances(b))
    /\ told[b] + Cardinality(Chances(b)) + (IF b \in DOMAIN rows THEN 0 ELSE 1)
         <= 1 + Cardinality(Retries)

\* The webhooks that cancelled b, and have not told so.
Apologizing(b) == {h \in Hooks : /\ pc[h] \in {"changed", "cancel"} /\ Booking(h) = b
                                 /\ Wanted(h) = "CANCELADO"}
ApologyInv ==
  \A b \in Bookings :
    /\ IsFiniteSet(Apologizing(b))
    /\ b \notin stale => apologies[b] + Cardinality(Apologizing(b)) <= turned[b]

\* The requests that sent the confirmation of b and have not recorded it.
Telling(b) == {r \in Requests : pc[r] = "mark" /\ Booking(r) = b}
RecordInv ==
  faults = 0 /\ crashes = 0 =>
    /\ \A r \in Requests : pc[r] = "error" => Booking(r) \notin ValidPhone
    /\ \A b \in Bookings \ DOMAIN rows : told[b] = 0
    /\ \A b \in Bookings : IsFiniteSet(Telling(b))
    /\ \A b \in DOMAIN rows \cap ValidPhone :
         b \notin stale => /\ told[b] = rows[b].intentos + Cardinality(Telling(b))
                           /\ rows[b].intentos = (IF rows[b].enviada THEN 1 ELSE 0)

IInv == Shape /\ CopiesInv /\ BudgetInv /\ ApologyInv /\ RecordInv

----------------------------------------------------------------------------
(* Lemmas about lists, copies and saves *)

LEMMA WantedType == \A q \in Hooks \cup Edits : Wanted(q) \in Estados
<1> SUFFICES ASSUME NEW q \in Hooks \cup Edits PROVE Wanted(q) \in Estados
  OBVIOUS
<1>1. MapearEstado(StatusOf[q]) \in Estados
  BY DEF MapearEstado, Estados
<1> QED BY <1>1, AmeliaAssumption DEF Wanted

\* A request that deals with one booking.
LEMMA OneBooking ==
  ASSUME NEW b \in Bookings
  PROVE  /\ <<b>> \in Seq(Bookings) /\ <<b>> # << >> /\ Head(<<b>>) = b /\ Len(<<b>>) = 1
         /\ Range(<<b>>) = {b} /\ IsInjective(<<b>>) /\ Range(Tail(<<b>>)) = {}
<1>1. /\ <<b>> \in Seq(Bookings) /\ <<b>> # << >> /\ Head(<<b>>) = b /\ Len(<<b>>) = 1
      /\ Tail(<<b>>) = << >> /\ DOMAIN <<b>> = {1} /\ <<b>>[1] = b
  OBVIOUS
<1>2. Range(<<b>>) = {b} /\ IsInjective(<<b>>)
  BY <1>1 DEF Range, IsInjective
<1>3. DOMAIN << >> = {}
  OBVIOUS
<1>4. Range(Tail(<<b>>)) = {}
  BY <1>1, <1>3 DEF Range
<1> QED BY <1>1, <1>2, <1>4

\* The bookings that a request has left after its first one.
LEMMA TailBookings ==
  ASSUME NEW s \in Seq(Bookings), s # << >>, IsInjective(s)
  PROVE  /\ Tail(s) \in Seq(Bookings) /\ IsInjective(Tail(s))
         /\ Head(s) \in Bookings /\ Head(s) \in Range(s) /\ Head(s) \notin Range(Tail(s))
         /\ Range(s) = {Head(s)} \cup Range(Tail(s))
         /\ Len(s) > 1 => Tail(s) # << >>
<1>1. Len(s) \in Nat \ {0}
  OBVIOUS
<1>2. /\ Tail(s) \in Seq(Bookings) /\ Len(Tail(s)) = Len(s) - 1 /\ Head(s) = s[1]
      /\ \A i \in 1..(Len(s) - 1) : Tail(s)[i] = s[i + 1]
      /\ DOMAIN s = 1..Len(s) /\ DOMAIN Tail(s) = 1..(Len(s) - 1)
  BY <1>1
<1>i. \A i, j \in 1..Len(s) : s[i] = s[j] => i = j
  BY <1>2 DEF IsInjective
<1>3. IsInjective(Tail(s))
  <2>1. ASSUME NEW i \in 1..(Len(s) - 1), NEW j \in 1..(Len(s) - 1), Tail(s)[i] = Tail(s)[j]
        PROVE  i = j
    <3>1. i + 1 \in 1..Len(s) /\ j + 1 \in 1..Len(s) /\ s[i + 1] = s[j + 1]
      BY <1>1, <1>2, <2>1
    <3>2. i + 1 = j + 1
      BY <1>i, <3>1
    <3> QED BY <3>2
  <2> QED BY <1>2, <2>1 DEF IsInjective
<1>4. Head(s) \in Range(s) /\ Head(s) \notin Range(Tail(s))
  <2>1. ASSUME NEW i \in 1..(Len(s) - 1) PROVE Tail(s)[i] # s[1]
    <3>1. i + 1 \in 1..Len(s) /\ 1 \in 1..Len(s) /\ i + 1 # 1 /\ Tail(s)[i] = s[i + 1]
      BY <1>1, <1>2
    <3> QED BY <1>i, <3>1
  <2> QED BY <1>1, <1>2, <2>1 DEF Range
<1>5. Range(s) = {Head(s)} \cup Range(Tail(s))
  <2>1. ASSUME NEW x \in Range(s) PROVE x \in {Head(s)} \cup Range(Tail(s))
    <3>1. PICK i \in 1..Len(s) : x = s[i]
      BY <1>2 DEF Range
    <3>2. CASE i = 1
      BY <1>2, <3>1, <3>2
    <3>3. CASE i # 1
      <4>1. i - 1 \in 1..(Len(s) - 1) /\ (i - 1) + 1 = i
        BY <1>1, <3>1, <3>3
      <4>2. Tail(s)[i - 1] = x
        BY <1>2, <3>1, <4>1
      <4> QED BY <1>2, <4>1, <4>2 DEF Range
    <3> QED BY <3>2, <3>3
  <2>2. ASSUME NEW x \in Range(Tail(s)) PROVE x \in Range(s)
    <3>1. PICK i \in 1..(Len(s) - 1) : x = s[i + 1]
      BY <1>2 DEF Range
    <3>2. i + 1 \in DOMAIN s
      BY <1>1, <1>2, <3>1
    <3> QED BY <3>1, <3>2 DEF Range
  <2> QED BY <1>4, <2>1, <2>2
<1>6. Len(s) > 1 => Tail(s) # << >>
  <2>1. \A t \in Seq(Bookings) : Len(t) # 0 => t # << >>
    OBVIOUS
  <2>2. ASSUME NEW n \in Nat, n > 1 PROVE n - 1 # 0
    BY <2>2
  <2> QED BY <1>1, <1>2, <2>1, <2>2
<1> QED BY <1>1, <1>2, <1>3, <1>4, <1>5, <1>6

\* What Hold leaves.
LEMMA HoldIs ==
  ASSUME copies = [q \in Requests |-> copies[q]], NEW r \in Requests, NEW b, NEW row,
         Hold(r, b, row)
  PROVE  /\ copies' = [q \in Requests |-> copies'[q]]
         /\ \A q \in Requests \ {r} : copies'[q] = copies[q]
         /\ DOMAIN copies'[r] = DOMAIN copies[r] \cup {b}
         /\ copies'[r][b] = row
         /\ \A x \in DOMAIN copies[r] \ {b} : copies'[r][x] = copies[r][x]
BY DEF Hold

\* A request at work has a booking, with a copy of its row.
LEMMA WorkHas ==
  ASSUME Shape, NEW r \in Requests, Working(r)
  PROVE  /\ Booking(r) \in Bookings /\ Booking(r) \in DOMAIN copies[r]
         /\ Booking(r) \in Range(todo[r]) /\ Copy(r) \in RowType /\ Copy(r).at <= version[Booking(r)]
         /\ version[Booking(r)] \in Nat
         /\ todo[r] \in Seq(Bookings) /\ todo[r] # << >> /\ IsInjective(todo[r])
         /\ r \notin Retries => Booking(r) = BookingOf[r] /\ Range(todo[r]) = {Booking(r)}
<1>1. /\ todo[r] \in Seq(Bookings) /\ todo[r] # << >> /\ IsInjective(todo[r])
      /\ Range(todo[r]) \subseteq DOMAIN copies[r]
      /\ r \notin Retries => todo[r] = <<BookingOf[r]>>
  BY DEF Shape, Shaped, Holding
<1>2. /\ Booking(r) \in Bookings /\ Booking(r) \in Range(todo[r])
      /\ Booking(r) \in DOMAIN copies[r]
  BY <1>1, TailBookings DEF Booking
<1>3. Copy(r) \in RowType /\ Copy(r).at <= version[Booking(r)]
  BY <1>2 DEF Shape, Shaped, Copied, Copy
<1>4. version[Booking(r)] \in Nat
  BY <1>2 DEF Shape, TypeOK
<1>5. ASSUME r \notin Retries PROVE Booking(r) = BookingOf[r] /\ Range(todo[r]) = {Booking(r)}
  <2>1. BookingOf[r] \in Bookings
    BY <1>5, AmeliaAssumption DEF Requests
  <2> QED BY <1>1, <1>5, <2>1, OneBooking DEF Booking
<1> QED BY <1>1, <1>2, <1>3, <1>4, <1>5

\* What Save leaves: the row of the booking is the copy, which is now of the newest version.
LEMMA SaveIs ==
  ASSUME Shape, NEW r \in Requests, Working(r), Save(r)
  PROVE  /\ rows' = [x \in DOMAIN rows' |-> rows'[x]]
         /\ DOMAIN rows' = DOMAIN rows \cup {Booking(r)}
         /\ rows'[Booking(r)] = Copy(r)
         /\ \A x \in DOMAIN rows \ {Booking(r)} : rows'[x] = rows[x]
         /\ version' \in [Bookings -> Nat] /\ version'[Booking(r)] = version[Booking(r)] + 1
         /\ \A x \in Bookings \ {Booking(r)} : version'[x] = version[x]
         /\ stale' = (IF Copy(r).at = version[Booking(r)] THEN stale ELSE stale \cup {Booking(r)})
         /\ copies' = [q \in Requests |-> copies'[q]]
         /\ \A q \in Requests \ {r} : copies'[q] = copies[q]
         /\ DOMAIN copies'[r] = DOMAIN copies[r]
         /\ copies'[r][Booking(r)] = [Copy(r) EXCEPT !.at = version[Booking(r)] + 1]
         /\ \A x \in DOMAIN copies[r] \ {Booking(r)} : copies'[r][x] = copies[r][x]
<1> DEFINE b == Booking(r)
<1>1. /\ b \in Bookings /\ b \in DOMAIN copies[r] /\ version \in [Bookings -> Nat]
      /\ copies = [q \in Requests |-> copies[q]]
  BY WorkHas DEF Shape, TypeOK
<1>2. Hold(r, b, [Copy(r) EXCEPT !.at = version[b] + 1])
  BY DEF Save
<1>3. /\ rows' = [x \in DOMAIN rows \cup {b} |-> IF x = b THEN Copy(r) ELSE rows[x]]
      /\ version' = [version EXCEPT ![b] = @ + 1]
      /\ stale' = (IF Copy(r).at = version[b] THEN stale ELSE stale \cup {b})
  BY DEF Save
<1>4. DOMAIN copies[r] \cup {b} = DOMAIN copies[r]
  BY <1>1
<1>5. /\ version' \in [Bookings -> Nat] /\ version'[b] = version[b] + 1
      /\ \A x \in Bookings \ {b} : version'[x] = version[x]
  BY <1>1, <1>3
<1>6. /\ rows' = [x \in DOMAIN rows' |-> rows'[x]] /\ DOMAIN rows' = DOMAIN rows \cup {b}
      /\ rows'[b] = Copy(r) /\ \A x \in DOMAIN rows \ {b} : rows'[x] = rows[x]
  BY <1>3
<1>7. /\ copies' = [q \in Requests |-> copies'[q]]
      /\ \A q \in Requests \ {r} : copies'[q] = copies[q]
      /\ DOMAIN copies'[r] = DOMAIN copies[r] \cup {b}
      /\ copies'[r][b] = [Copy(r) EXCEPT !.at = version[b] + 1]
      /\ \A x \in DOMAIN copies[r] \ {b} : copies'[r][x] = copies[r][x]
  BY <1>1, <1>2, HoldIs
<1> QED BY <1>3, <1>4, <1>5, <1>6, <1>7

\* What Leave leaves of the bookings of a request.
LEMMA LeaveIs ==
  ASSUME Shape, NEW r \in Requests, Working(r), pc[r] \in {"mark", "error"}, Leave(r)
  PROVE  /\ todo' = [q \in Requests |-> todo'[q]]
         /\ \A q \in Requests \ {r} : todo'[q] = todo[q] /\ pc'[q] = pc[q]
         /\ pc' \in [Requests -> Steps]
         /\ \/ pc'[r] = "ok" /\ todo'[r] = todo[r]
            \/ /\ pc'[r] = "confirm" /\ todo'[r] = Tail(todo[r]) /\ todo'[r] # << >>
               /\ r \in Retries
<1>1. /\ todo[r] \in Seq(Bookings) /\ todo[r] # << >> /\ IsInjective(todo[r])
      /\ pc \in [Requests -> Steps] /\ todo = [q \in Requests |-> todo[q]]
  BY WorkHas DEF Shape, TypeOK
<1>2. Len(todo[r]) > 1 => Tail(todo[r]) # << >>
  BY <1>1, TailBookings
<1>3. CASE r \in Retries /\ Len(todo[r]) > 1
  BY <1>1, <1>2, <1>3 DEF Leave, Goto, Steps
<1>4. CASE ~(r \in Retries /\ Len(todo[r]) > 1)
  BY <1>1, <1>4 DEF Leave, Goto, Steps, Final
<1> QED BY <1>3, <1>4

----------------------------------------------------------------------------
(* The shape of what requests hold *)

\* A request that a step leaves alone keeps its shape: rows and versions are only added to.
LEMMA OthersShaped ==
  ASSUME NEW q \in Requests, Shaped(q),
         pc'[q] = pc[q], copies'[q] = copies[q], todo'[q] = todo[q],
         DOMAIN rows \subseteq DOMAIN rows', version \in [Bookings -> Nat],
         \A b \in Bookings : version'[b] = version[b] \/ version'[b] = version[b] + 1
  PROVE  Shaped(q)'
<1>1. Role(q)'
  BY DEF Shaped, Role
<1>2. Copied(q)'
  <2>1. ASSUME NEW b \in DOMAIN copies[q]
        PROVE  b \in Bookings /\ copies[q][b] \in RowType /\ copies[q][b].at <= version'[b]
    <3>1. b \in Bookings /\ copies[q][b] \in RowType /\ copies[q][b].at <= version[b]
      BY <2>1 DEF Shaped, Copied
    <3>2. copies[q][b].at \in Nat /\ version[b] \in Nat
      BY <3>1 DEF RowType
    <3> QED BY <3>1, <3>2
  <2> QED BY <2>1 DEF Copied
<1>3. Holding(q)'
  BY DEF Shaped, Holding, Working, Booking
<1> QED BY <1>1, <1>2, <1>3 DEF Shaped

\* The other requests, when r takes a step.
OnlyMoves(r) == /\ \A q \in Requests \ {r} : /\ pc'[q] = pc[q] /\ copies'[q] = copies[q]
                                            /\ todo'[q] = todo[q]
                /\ copies' = [q \in Requests |-> copies'[q]]
                /\ todo' = [q \in Requests |-> todo'[q]]
                /\ pc' \in [Requests -> Steps]

\* The rows and versions of a step: none is saved, or that of b is.
NoneSaved == UNCHANGED <<rows, version, stale>>
Saved(r, b) ==
  /\ rows' = [x \in DOMAIN rows' |-> rows'[x]] /\ DOMAIN rows' = DOMAIN rows \cup {b}
  /\ rows'[b] = copies[r][b] /\ \A x \in DOMAIN rows \ {b} : rows'[x] = rows[x]
  /\ version' \in [Bookings -> Nat] /\ version'[b] = version[b] + 1
  /\ \A x \in Bookings \ {b} : version'[x] = version[x]
  /\ stale' = (IF copies[r][b].at = version[b] THEN stale ELSE stale \cup {b})

\* The other variables, whatever step is taken.
CountsType ==
  /\ before' \in [Requests -> Estados \cup {""}] /\ wanted' \in [Bookings -> Estados \cup {""}]
  /\ told' \in [Bookings -> Nat] /\ apologies' \in [Bookings -> Nat]
  /\ turned' \in [Bookings -> Nat] /\ faults' \in Nat /\ crashes' \in Nat

LEMMA FaultType == ASSUME faults \in Nat, Fault PROVE faults' \in Nat
BY DEF Fault

\* A step of r keeps the shape if r does.
LEMMA ShapeByOne ==
  ASSUME Shape, NEW r \in Requests, OnlyMoves(r), CountsType, Shaped(r)',
         NoneSaved \/ \E b \in DOMAIN copies[r] : Saved(r, b)
  PROVE  Shape'
<1>1. version \in [Bookings -> Nat] /\ version' \in [Bookings -> Nat]
      /\ DOMAIN rows \subseteq DOMAIN rows'
      /\ \A b \in Bookings : version'[b] = version[b] \/ version'[b] = version[b] + 1
  BY DEF Shape, TypeOK, NoneSaved, Saved
<1>2. \A q \in Requests : Shaped(q)'
  BY <1>1, OthersShaped DEF Shape, OnlyMoves
<1>3. rows' = [b \in DOMAIN rows' |-> rows'[b]] /\ DOMAIN rows' \subseteq Bookings
      /\ \A b \in DOMAIN rows' : rows'[b] \in RowType
  <2>1. CASE NoneSaved
    BY <2>1 DEF Shape, TypeOK, NoneSaved
  <2>2. ASSUME NEW b \in DOMAIN copies[r], Saved(r, b)
        PROVE  /\ rows' = [x \in DOMAIN rows' |-> rows'[x]] /\ DOMAIN rows' \subseteq Bookings
               /\ \A x \in DOMAIN rows' : rows'[x] \in RowType
    <3>1. b \in Bookings /\ copies[r][b] \in RowType
      BY DEF Shape, Shaped, Copied
    <3> QED BY <2>2, <3>1 DEF Shape, TypeOK, Saved
  <2> QED BY <2>1, <2>2
<1>4. \A b \in Bookings : b \in DOMAIN rows' <=> version'[b] # 0
  <2>1. CASE NoneSaved
    BY <2>1 DEF Shape, NoneSaved
  <2>2. ASSUME NEW b \in DOMAIN copies[r], Saved(r, b), NEW x \in Bookings
        PROVE  x \in DOMAIN rows' <=> version'[x] # 0
    <3>1. b \in Bookings /\ version[b] + 1 # 0
      BY <1>1 DEF Shape, Shaped, Copied
    <3> QED BY <2>2, <3>1 DEF Shape, Saved
  <2> QED BY <2>1, <2>2
<1>5. stale' \subseteq Bookings
  <2>1. stale' = stale \/ \E b \in DOMAIN copies[r] : stale' = stale \cup {b}
    BY DEF NoneSaved, Saved
  <2>2. DOMAIN copies[r] \subseteq Bookings /\ stale \subseteq Bookings
    BY DEF Shape, TypeOK
  <2> QED BY <2>1, <2>2
<1>6. \A q \in Requests :
        /\ DOMAIN copies'[q] \subseteq Bookings
        /\ \A b \in DOMAIN copies'[q] : copies'[q][b] \in RowType
        /\ todo'[q] \in Seq(Bookings) /\ Range(todo'[q]) \subseteq DOMAIN copies'[q]
  BY <1>2 DEF Shaped, Copied, Holding
<1>7. TypeOK'
  BY <1>1, <1>3, <1>5, <1>6 DEF TypeOK, OnlyMoves, CountsType
<1>8. IsFiniteSet(DOMAIN rows')
  <2>1. DOMAIN rows' = DOMAIN rows \/ \E b : DOMAIN rows' = DOMAIN rows \cup {b}
    BY DEF NoneSaved, Saved
  <2>2. IsFiniteSet(DOMAIN rows)
    BY DEF Shape
  <2>3. CASE DOMAIN rows' = DOMAIN rows
    BY <2>2, <2>3, Zenon
  <2>4. ASSUME NEW b, DOMAIN rows' = DOMAIN rows \cup {b} PROVE IsFiniteSet(DOMAIN rows')
    <3>1. IsFiniteSet(DOMAIN rows \cup {b})
      BY <2>2, FS_AddElement
    <3> QED BY <2>4, <3>1, Zenon
  <2> QED BY <2>1, <2>3, <2>4
<1> QED BY <1>2, <1>3, <1>4, <1>7, <1>8 DEF Shape, OnlyMoves

\* Steps that only go on.
LEMMA WalkShapes ==
  ASSUME Shape, NEW r \in Requests, NEW s \in Steps, pc' = [pc EXCEPT ![r] = s], Role(r)',
         s \notin Final => Working(r) /\ (s # "insert" => pc[r] # "insert"),
         s # "insert", UNCHANGED <<rows, version, stale, copies, todo>>
  PROVE  OnlyMoves(r) /\ Shaped(r)' /\ NoneSaved
<1>1. OnlyMoves(r) /\ NoneSaved /\ pc'[r] = s
  BY DEF Shape, TypeOK, OnlyMoves, NoneSaved
<1>2. Copied(r)'
  BY DEF Shape, Shaped, Copied
<1>3. Holding(r)'
  BY <1>1 DEF Shape, Shaped, Holding, Working
<1> QED BY <1>1, <1>2, <1>3 DEF Shaped

\* A webhook or an edit looks for its turn.
LEMMA StartShapes ==
  ASSUME Shape, NEW r \in Hooks \cup Edits, NEW s \in Steps, pc' = [pc EXCEPT ![r] = s], Role(r)',
         todo' = [todo EXCEPT ![r] = <<BookingOf[r]>>],
         NEW row \in RowType, Hold(r, BookingOf[r], row), row.at <= version[BookingOf[r]],
         IF s = "insert" THEN row = NewTurno(r) ELSE BookingOf[r] \in DOMAIN rows,
         UNCHANGED <<rows, version, stale>>
  PROVE  OnlyMoves(r) /\ Shaped(r)' /\ NoneSaved
<1> DEFINE b == BookingOf[r]
<1>1. r \in Requests /\ b \in Bookings
  BY AmeliaAssumption DEF Requests
<1>0. copies = [q \in Requests |-> copies[q]] /\ todo = [q \in Requests |-> todo[q]]
      /\ pc \in [Requests -> Steps]
  BY DEF Shape, TypeOK
<1>2. /\ copies' = [q \in Requests |-> copies'[q]]
      /\ \A q \in Requests \ {r} : copies'[q] = copies[q]
      /\ DOMAIN copies'[r] = DOMAIN copies[r] \cup {b} /\ copies'[r][b] = row
      /\ \A x \in DOMAIN copies[r] \ {b} : copies'[r][x] = copies[r][x]
  BY <1>0, <1>1, HoldIs
<1>3. OnlyMoves(r) /\ NoneSaved /\ pc'[r] = s /\ todo'[r] = <<b>>
  BY <1>0, <1>1, <1>2 DEF OnlyMoves, NoneSaved
<1>4. Copied(r)'
  BY <1>1, <1>2 DEF Shape, Shaped, Copied
<1>5. Holding(r)'
  <2>1. /\ todo'[r] \in Seq(Bookings) /\ Range(todo'[r]) = {b} /\ Head(todo'[r]) = b
        /\ todo'[r] # << >> /\ IsInjective(todo'[r])
    BY <1>1, <1>3, OneBooking
  <2>2. s = "insert" => copies'[r][Head(todo'[r])] = NewTurno(r)
    BY <1>2, <2>1
  <2>3. s # "insert" => Range(todo'[r]) \subseteq DOMAIN rows'
    BY <2>1
  <2> QED BY <1>2, <1>3, <2>1, <2>2, <2>3 DEF Holding, Booking, NewTurno, Wanted
<1> QED BY <1>3, <1>4, <1>5 DEF Shaped

\* A confirmation changes the copy in hand only.
LEMMA HoldShapes ==
  ASSUME Shape, NEW r \in Requests, Working(r), NEW s \in Steps, pc' = [pc EXCEPT ![r] = s],
         Role(r)', pc[r] # "insert", s # "insert",
         NEW row \in RowType, Hold(r, Booking(r), row), row.at = Copy(r).at,
         UNCHANGED <<rows, version, stale, todo>>
  PROVE  OnlyMoves(r) /\ Shaped(r)' /\ NoneSaved
<1> DEFINE b == Booking(r)
<1>0. /\ copies = [q \in Requests |-> copies[q]] /\ todo = [q \in Requests |-> todo[q]]
      /\ pc \in [Requests -> Steps] /\ b \in Bookings /\ b \in DOMAIN copies[r]
      /\ Copy(r).at <= version[b]
  BY WorkHas DEF Shape, TypeOK
<1>2. /\ copies' = [q \in Requests |-> copies'[q]]
      /\ \A q \in Requests \ {r} : copies'[q] = copies[q]
      /\ DOMAIN copies'[r] = DOMAIN copies[r] /\ copies'[r][b] = row
      /\ \A x \in DOMAIN copies[r] \ {b} : copies'[r][x] = copies[r][x]
  <2>1. DOMAIN copies[r] \cup {b} = DOMAIN copies[r]
    BY <1>0
  <2> QED BY <1>0, <2>1, HoldIs
<1>3. OnlyMoves(r) /\ NoneSaved /\ pc'[r] = s
  BY <1>0, <1>2 DEF OnlyMoves, NoneSaved
<1>4. Copied(r)'
  <2>1. ASSUME NEW x \in DOMAIN copies'[r]
        PROVE  x \in Bookings /\ copies'[r][x] \in RowType /\ copies'[r][x].at <= version'[x]
    <3>1. CASE x = b
      BY <1>0, <1>2, <3>1
    <3>2. CASE x # b
      BY <1>2, <2>1, <3>2 DEF Shape, Shaped, Copied
    <3> QED BY <3>1, <3>2
  <2> QED BY <2>1 DEF Copied
<1>5. Holding(r)'
  BY <1>2, <1>3 DEF Shape, Shaped, Holding, Working
<1> QED BY <1>3, <1>4, <1>5 DEF Shaped

\* A save, after which the request keeps its bookings or, when it is a retry, goes on.
LEMMA SaveShapes ==
  ASSUME Shape, NEW r \in Requests, Working(r), Save(r), Role(r)', pc'[r] # "insert",
         pc' \in [Requests -> Steps], todo' = [q \in Requests |-> todo'[q]],
         \A q \in Requests \ {r} : todo'[q] = todo[q] /\ pc'[q] = pc[q],
         \/ todo'[r] = todo[r]
         \/ todo'[r] = Tail(todo[r]) /\ todo'[r] # << >> /\ r \in Retries
  PROVE  OnlyMoves(r) /\ Shaped(r)' /\ Saved(r, Booking(r)) /\ Booking(r) \in DOMAIN copies[r]
<1> DEFINE b == Booking(r)
<1>2. /\ b \in Bookings /\ b \in DOMAIN copies[r] /\ b \in Range(todo[r]) /\ Copy(r) \in RowType
      /\ version[b] \in Nat /\ Copy(r).at <= version[b]
      /\ todo[r] \in Seq(Bookings) /\ todo[r] # << >> /\ IsInjective(todo[r])
      /\ r \notin Retries => Range(todo[r]) = {b}
  BY WorkHas
<1>3. /\ rows' = [x \in DOMAIN rows' |-> rows'[x]] /\ DOMAIN rows' = DOMAIN rows \cup {b}
      /\ rows'[b] = Copy(r) /\ \A x \in DOMAIN rows \ {b} : rows'[x] = rows[x]
      /\ version' \in [Bookings -> Nat] /\ version'[b] = version[b] + 1
      /\ \A x \in Bookings \ {b} : version'[x] = version[x]
      /\ stale' = (IF Copy(r).at = version[b] THEN stale ELSE stale \cup {b})
      /\ copies' = [q \in Requests |-> copies'[q]]
      /\ \A q \in Requests \ {r} : copies'[q] = copies[q]
      /\ DOMAIN copies'[r] = DOMAIN copies[r]
      /\ copies'[r][b] = [Copy(r) EXCEPT !.at = version[b] + 1]
      /\ \A x \in DOMAIN copies[r] \ {b} : copies'[r][x] = copies[r][x]
  BY SaveIs
<1>4. OnlyMoves(r)
  BY <1>3 DEF OnlyMoves
<1>5. Saved(r, b)
  BY <1>3 DEF Saved, Copy
<1>6. Copied(r)'
  <2>1. ASSUME NEW x \in DOMAIN copies'[r]
        PROVE  x \in Bookings /\ copies'[r][x] \in RowType /\ copies'[r][x].at <= version'[x]
    <3>1. CASE x = b
      <4>1. [Copy(r) EXCEPT !.at = version[b] + 1] \in RowType
        BY <1>2 DEF RowType
      <4>2. [Copy(r) EXCEPT !.at = version[b] + 1].at = version[b] + 1
        BY <1>2 DEF RowType
      <4>3. version[b] + 1 <= version[b] + 1
        BY <1>2
      <4> QED BY <1>2, <1>3, <3>1, <4>1, <4>2, <4>3
    <3>2. CASE x # b
      BY <1>3, <2>1, <3>2 DEF Shape, Shaped, Copied
    <3> QED BY <3>1, <3>2
  <2> QED BY <2>1 DEF Copied
<1>7. Holding(r)'
  <2>1. Range(todo[r]) \subseteq DOMAIN copies[r]
    BY DEF Shape, Shaped, Holding
  <2>2. Range(todo[r]) \subseteq DOMAIN rows'
    <3>1. CASE pc[r] = "insert"
      <4>1. r \notin Retries
        BY <3>1 DEF Shape, Shaped, Role, Final
      <4> QED BY <1>2, <1>3, <4>1
    <3>2. CASE pc[r] # "insert"
      BY <1>3, <3>2 DEF Shape, Shaped, Holding
    <3> QED BY <3>1, <3>2
  <2>3. /\ Range(Tail(todo[r])) \subseteq Range(todo[r]) /\ Tail(todo[r]) \in Seq(Bookings)
        /\ IsInjective(Tail(todo[r]))
    BY <1>2, TailBookings
  <2>4. /\ todo'[r] \in Seq(Bookings) /\ Range(todo'[r]) \subseteq DOMAIN copies'[r]
        /\ todo'[r] # << >> /\ IsInjective(todo'[r]) /\ Range(todo'[r]) \subseteq DOMAIN rows'
    BY <1>2, <1>3, <2>1, <2>2, <2>3
  <2>5. r \notin Retries => todo'[r] = <<BookingOf[r]>>
    BY DEF Shape, Shaped, Holding
  <2> QED BY <2>4, <2>5 DEF Holding
<1> QED BY <1>2, <1>4, <1>5, <1>6, <1>7 DEF Shaped

\* The turns of a retry, in any order.
LEMMA ListIs ==
  ASSUME NEW S, IsFiniteSet(S), NEW s \in SetToSeqs(S)
  PROVE  /\ s \in Seq(S) /\ Range(s) \subseteq S /\ IsInjective(s)
         /\ S # {} => s # << >>
<1>1. PICK n \in Nat : n = Cardinality(S)
  BY FS_CardinalityType
<1>2. s \in [1..n -> S] /\ \A i, j \in 1..n : i # j => s[i] # s[j]
  BY <1>1 DEF SetToSeqs
<1>3. s \in Seq(S) /\ Len(s) = n /\ DOMAIN s = 1..n
  BY <1>2
<1>4. S # {} => n # 0
  BY <1>1, FS_EmptySet
<1>5. Range(s) \subseteq S /\ IsInjective(s)
  BY <1>2, <1>3 DEF Range, IsInjective
<1>6. n # 0 => s # << >>
  <2>1. Len(<< >>) = 0
    OBVIOUS
  <2> QED BY <1>3, <2>1
<1> QED BY <1>3, <1>4, <1>5, <1>6

\* A retry starts.
LEMMA ListShapes ==
  ASSUME Shape, NEW r \in Requests, List(r)
  PROVE  OnlyMoves(r) /\ Shaped(r)' /\ NoneSaved
<1>1. PICK s \in SetToSeqs(SinNotificar) : todo' = [todo EXCEPT ![r] = s]
  BY DEF List
<1>2. SinNotificar \subseteq DOMAIN rows /\ SinNotificar \subseteq Bookings /\ IsFiniteSet(SinNotificar)
  BY FS_Subset DEF SinNotificar, Shape, TypeOK
<1>3. /\ s \in Seq(SinNotificar) /\ Range(s) \subseteq SinNotificar /\ IsInjective(s)
      /\ SinNotificar # {} => s # << >>
  BY <1>2, ListIs
<1>4. s \in Seq(Bookings)
  BY <1>2, <1>3
<1>5. /\ copies = [q \in Requests |-> copies[q]] /\ todo = [q \in Requests |-> todo[q]]
      /\ pc \in [Requests -> Steps] /\ r \in Retries /\ r \notin Hooks /\ r \notin Edits
  BY AmeliaAssumption DEF Shape, TypeOK, List
<1>6. /\ todo'[r] = s /\ todo' = [q \in Requests |-> todo'[q]]
      /\ \A q \in Requests \ {r} : todo'[q] = todo[q]
  BY <1>1, <1>5
<1>7. /\ pc'[r] = (IF SinNotificar = {} THEN "ok" ELSE "confirm") /\ pc' \in [Requests -> Steps]
      /\ \A q \in Requests \ {r} : pc'[q] = pc[q]
  BY <1>5 DEF List, Goto, Steps, Final
<1>8. /\ copies'[r] = [b \in SinNotificar |-> [rows[b] EXCEPT !.at = version[b]]]
      /\ copies' = [q \in Requests |-> copies'[q]]
      /\ \A q \in Requests \ {r} : copies'[q] = copies[q]
  BY <1>5 DEF List
<1>9. OnlyMoves(r) /\ NoneSaved
  BY <1>6, <1>7, <1>8 DEF OnlyMoves, NoneSaved, List, ghosts
<1>10. Role(r)'
  BY <1>5, <1>7 DEF Role, Final
<1>11. Copied(r)'
  <2>1. ASSUME NEW b \in SinNotificar
        PROVE  b \in Bookings /\ copies'[r][b] \in RowType /\ copies'[r][b].at <= version[b]
    <3>1. rows[b] \in RowType /\ version[b] \in Nat /\ b \in Bookings
      BY <1>2, <2>1 DEF Shape, TypeOK
    <3>2. [rows[b] EXCEPT !.at = version[b]] \in RowType
          /\ [rows[b] EXCEPT !.at = version[b]].at = version[b]
      BY <3>1 DEF RowType
    <3>3. version[b] <= version[b]
      BY <3>1
    <3> QED BY <1>8, <3>1, <3>2, <3>3
  <2>2. DOMAIN copies'[r] = SinNotificar /\ version' = version
    BY <1>8, <1>9 DEF NoneSaved
  <2> QED BY <2>1, <2>2 DEF Copied
<1>12. Holding(r)'
  <2>1. DOMAIN copies'[r] = SinNotificar /\ rows' = rows
    BY <1>8, <1>9 DEF NoneSaved
  <2>2. Working(r)' => SinNotificar # {} /\ pc'[r] # "insert"
    BY <1>7 DEF Working, Final
  <2> QED BY <1>2, <1>3, <1>4, <1>5, <1>6, <2>1, <2>2 DEF Holding
<1> QED BY <1>9, <1>10, <1>11, <1>12 DEF Shaped

\* Which requests take which steps.
LEMMA Roles ==
  ASSUME Shape, NEW r \in Requests
  PROVE  /\ pc[r] \in {"insert", "update", "created", "changed", "cancel"} =>
              r \in Hooks /\ r \notin Edits /\ r \notin Retries
         /\ pc[r] \in {"set", "edited"} => r \in Edits /\ r \notin Hooks /\ r \notin Retries
         /\ pc[r] \in {"confirm", "mark", "error"} => r \notin Edits
         /\ pc[r] = "cancel" => Wanted(r) = "CANCELADO"
         /\ r \in Hooks => r \notin Edits /\ r \notin Retries
         /\ r \in Edits => r \notin Hooks /\ r \notin Retries
         /\ r \in Retries => r \notin Hooks /\ r \notin Edits
         /\ pc \in [Requests -> Steps]
<1>1. Role(r) /\ pc \in [Requests -> Steps]
  BY DEF Shape, Shaped, TypeOK
<1>2. /\ r \in Hooks => r \notin Edits /\ r \notin Retries
      /\ r \in Edits => r \notin Hooks /\ r \notin Retries
      /\ r \in Retries => r \notin Hooks /\ r \notin Edits
      /\ r \in Hooks \/ r \in Edits \/ r \in Retries
  BY AmeliaAssumption DEF Requests
<1> QED BY <1>1, <1>2 DEF Role, Final

\* A step of r moves r only, and saves the booking in hand or nothing.
Moves(r) == /\ OnlyMoves(r) /\ Shaped(r)'
            /\ NoneSaved \/ (Saved(r, Booking(r)) /\ Booking(r) \in DOMAIN copies[r])

LEMMA WebhookMoves == ASSUME Shape, NEW r \in Requests, ProcesarWebhook(r) PROVE Moves(r)
<1> USE DEF Goto, Moves
<1>1. CASE Find(r)
  <2>1. r \in Hooks /\ r \notin Edits /\ r \notin Retries /\ BookingOf[r] \in Bookings
    BY <1>1, Roles, AmeliaAssumption DEF Find
  <2>2. Wanted(r) \in Estados /\ version[BookingOf[r]] \in Nat /\ pc \in [Requests -> Steps]
    BY <2>1, WantedType DEF Shape, TypeOK
  <2>3. CASE BookingOf[r] \in DOMAIN rows
    <3>1. PICK row : row = [rows[BookingOf[r]] EXCEPT !.estado = Wanted(r),
                                                      !.at = version[BookingOf[r]]]
      OBVIOUS
    <3>2. rows[BookingOf[r]] \in RowType
      BY <2>3 DEF Shape, TypeOK
    <3>3. row \in RowType /\ row.at = version[BookingOf[r]]
      BY <2>2, <3>1, <3>2 DEF RowType
    <3>4. row.at <= version[BookingOf[r]]
      BY <2>2, <3>3
    <3>5. Hold(r, BookingOf[r], row) /\ pc' = [pc EXCEPT ![r] = "update"]
      BY <1>1, <2>3, <3>1 DEF Find
    <3>6. Role(r)'
      BY <2>1, <2>2, <3>5 DEF Role, Final
    <3>7. /\ todo' = [todo EXCEPT ![r] = <<BookingOf[r]>>] /\ "update" \in Steps
          /\ UNCHANGED <<rows, version, stale>>
      BY <1>1 DEF Find, ghosts, Steps
    <3> QED BY <2>1, <2>3, <3>3, <3>4, <3>5, <3>6, <3>7, StartShapes
  <2>4. CASE BookingOf[r] \notin DOMAIN rows
    <3>1. NewTurno(r) \in RowType /\ NewTurno(r).at = 0
      BY <2>2 DEF NewTurno, RowType
    <3>2. NewTurno(r).at <= version[BookingOf[r]]
      BY <2>2, <3>1
    <3>3. Hold(r, BookingOf[r], NewTurno(r)) /\ pc' = [pc EXCEPT ![r] = "insert"]
      BY <1>1, <2>4 DEF Find
    <3>4. Role(r)'
      BY <2>1, <2>2, <3>3 DEF Role, Final
    <3>5. /\ todo' = [todo EXCEPT ![r] = <<BookingOf[r]>>] /\ "insert" \in Steps
          /\ UNCHANGED <<rows, version, stale>>
      BY <1>1 DEF Find, ghosts, Steps
    <3> QED BY <2>1, <3>1, <3>2, <3>3, <3>4, <3>5, StartShapes
  <2> QED BY <2>3, <2>4
<1>2. CASE Insert(r)
  <2>1. pc[r] = "insert" /\ Working(r) /\ pc \in [Requests -> Steps]
        /\ r \in Hooks /\ r \notin Edits /\ r \notin Retries
    BY <1>2, Roles DEF Insert, Working, Final
  <2>2. CASE Booking(r) \in DOMAIN rows
    <3>1. /\ pc' = [pc EXCEPT ![r] = "500"] /\ "500" \in Steps /\ "500" \in Final
          /\ UNCHANGED <<rows, version, stale, copies, todo>>
      BY <1>2, <2>2 DEF Insert, Steps, Final
    <3>2. Role(r)'
      BY <2>1, <3>1 DEF Role, Final
    <3> QED BY <3>1, <3>2, WalkShapes
  <2>3. CASE Booking(r) \notin DOMAIN rows
    <3>1. Save(r) /\ pc' = [pc EXCEPT ![r] = "created"] /\ todo' = todo
      BY <1>2, <2>3 DEF Insert
    <3>2. /\ pc'[r] = "created" /\ pc' \in [Requests -> Steps]
          /\ \A q \in Requests \ {r} : pc'[q] = pc[q]
      BY <2>1, <3>1 DEF Steps
    <3>3. Role(r)'
      BY <2>1, <3>2 DEF Role, Final
    <3> QED BY <2>1, <3>1, <3>2, <3>3, SaveShapes DEF Shape
  <2> QED BY <2>2, <2>3
<1>3. CASE Update(r)
  <2>1. pc[r] = "update" /\ Working(r) /\ pc \in [Requests -> Steps]
        /\ r \in Hooks /\ r \notin Edits /\ r \notin Retries
    BY <1>3, Roles DEF Update, Working, Final
  <2>2. /\ Save(r) /\ todo' = todo
        /\ pc' = [pc EXCEPT ![r] = IF before[r] = Wanted(r) THEN "ok" ELSE "changed"]
    BY <1>3 DEF Update
  <2>3. /\ pc'[r] \in {"ok", "changed"} /\ pc' \in [Requests -> Steps]
        /\ \A q \in Requests \ {r} : pc'[q] = pc[q]
    BY <2>1, <2>2 DEF Steps, Final
  <2>4. Role(r)'
    BY <2>1, <2>3 DEF Role, Final
  <2> QED BY <2>1, <2>2, <2>3, <2>4, SaveShapes DEF Shape
<1>4. CASE LogCreated(r)
  <2>1. pc[r] = "created" /\ Working(r) /\ pc \in [Requests -> Steps]
        /\ r \in Hooks /\ r \notin Edits /\ r \notin Retries
    BY <1>4, Roles DEF LogCreated, Working, Final
  <2>2. /\ pc' = [pc EXCEPT ![r] = "confirm"] /\ "confirm" \in Steps
        /\ UNCHANGED <<rows, version, stale, copies, todo>>
    BY <1>4 DEF LogCreated, Steps, ghosts
  <2>3. Role(r)'
    BY <2>1, <2>2 DEF Role, Final
  <2> QED BY <2>1, <2>2, <2>3, WalkShapes
<1>5. CASE LogChanged(r)
  <2>1. pc[r] = "changed" /\ Working(r) /\ pc \in [Requests -> Steps]
        /\ r \in Hooks /\ r \notin Edits /\ r \notin Retries
    BY <1>5, Roles DEF LogChanged, Working, Final
  <2>2. PICK s \in {"cancel", "ok"} : /\ s = (IF Wanted(r) = "CANCELADO" THEN "cancel" ELSE "ok")
                                      /\ pc' = [pc EXCEPT ![r] = s]
    BY <1>5 DEF LogChanged
  <2>3. UNCHANGED <<rows, version, stale, copies, todo>> /\ s \in Steps
    BY <1>5 DEF LogChanged, Steps, Final, ghosts
  <2>4. Role(r)'
    BY <2>1, <2>2 DEF Role, Final, Wanted
  <2> QED BY <2>1, <2>2, <2>3, <2>4, WalkShapes
<1>6. CASE Cancel(r)
  <2>1. pc[r] = "cancel" /\ Working(r) /\ pc \in [Requests -> Steps]
        /\ r \in Hooks /\ r \notin Edits /\ r \notin Retries
    BY <1>6, Roles DEF Cancel, Working, Final
  <2>2. /\ pc' = [pc EXCEPT ![r] = "ok"] /\ "ok" \in Steps /\ "ok" \in Final
        /\ UNCHANGED <<rows, version, stale, copies, todo>>
    BY <1>6 DEF Cancel, Steps, Final, ghosts
  <2>3. Role(r)'
    BY <2>1, <2>2 DEF Role, Final
  <2> QED BY <2>1, <2>2, <2>3, WalkShapes
<1> QED BY <1>1, <1>2, <1>3, <1>4, <1>5, <1>6 DEF ProcesarWebhook

\* What a confirmation writes on its copy.
LEMMA AttemptTypes ==
  ASSUME NEW row \in RowType
  PROVE  /\ Marked(row) \in RowType /\ Marked(row).at = row.at /\ Marked(row).enviada
         /\ Marked(row).intentos = row.intentos + 1 /\ Marked(row).estado = row.estado
         /\ Failed(row) \in RowType /\ Failed(row).at = row.at
         /\ Failed(row).enviada = row.enviada /\ Failed(row).estado = row.estado
         /\ Failed(row).intentos = row.intentos + 1
<1>1. /\ row \in [estado : Estados, enviada : BOOLEAN, error : BOOLEAN, intentos : Nat, at : Nat]
      /\ row.intentos + 1 \in Nat
  BY DEF RowType
<1>2. /\ Marked(row) \in RowType /\ Marked(row).at = row.at /\ Marked(row).enviada
      /\ Marked(row).intentos = row.intentos + 1 /\ Marked(row).estado = row.estado
  BY <1>1 DEF Marked, RowType
<1>3. /\ Failed(row) \in RowType /\ Failed(row).at = row.at
      /\ Failed(row).enviada = row.enviada /\ Failed(row).estado = row.estado
      /\ Failed(row).intentos = row.intentos + 1
  BY <1>1 DEF Failed, RowType
<1> QED BY <1>2, <1>3

LEMMA ConfirmationMoves == ASSUME Shape, NEW r \in Requests, Confirmacion(r) PROVE Moves(r)
<1> USE DEF Moves
<1>0. /\ Working(r) /\ pc[r] \in {"confirm", "mark", "error"} /\ r \notin Edits
      /\ pc \in [Requests -> Steps]
  <2>1. pc[r] \in {"confirm", "mark", "error"}
    BY DEF Confirmacion, Confirm, Mark, RecordError
  <2> QED BY <2>1, Roles DEF Working, Final
<1>1. Copy(r) \in RowType
  BY <1>0, WorkHas
<1>2. CASE Confirm(r)
  <2>1. \/ Hold(r, Booking(r), Failed(Copy(r))) /\ pc' = [pc EXCEPT ![r] = "error"]
        \/ Hold(r, Booking(r), Marked(Copy(r))) /\ pc' = [pc EXCEPT ![r] = "mark"]
    BY <1>2 DEF Confirm, Goto
  <2>2. UNCHANGED <<rows, version, stale, todo>>
    BY <1>2 DEF Confirm, ghosts
  <2>3. PICK row \in RowType, s \in {"error", "mark"} :
          row.at = Copy(r).at /\ Hold(r, Booking(r), row) /\ pc' = [pc EXCEPT ![r] = s]
    BY <1>1, <2>1, AttemptTypes
  <2>4. Role(r)' /\ s \in Steps
    BY <1>0, <2>3 DEF Role, Final, Steps
  <2> QED BY <1>0, <2>2, <2>3, <2>4, HoldShapes
<1>3. ASSUME Save(r), Leave(r), pc[r] \in {"mark", "error"} PROVE Moves(r)
  <2>1. /\ todo' = [q \in Requests |-> todo'[q]]
        /\ \A q \in Requests \ {r} : todo'[q] = todo[q] /\ pc'[q] = pc[q]
        /\ pc' \in [Requests -> Steps]
        /\ \/ pc'[r] = "ok" /\ todo'[r] = todo[r]
           \/ /\ pc'[r] = "confirm" /\ todo'[r] = Tail(todo[r]) /\ todo'[r] # << >>
              /\ r \in Retries
    BY <1>0, <1>3, LeaveIs
  <2>2. Role(r)'
    BY <1>0, <2>1 DEF Role, Final
  <2> QED BY <1>0, <1>3, <2>1, <2>2, SaveShapes
<1>4. CASE Mark(r)
  <2>1. CASE Save(r) /\ Leave(r)
    BY <1>3, <1>4, <2>1 DEF Mark
  <2>2. CASE ~(Save(r) /\ Leave(r))
    <3>1. /\ Hold(r, Booking(r), Failed(Copy(r))) /\ pc' = [pc EXCEPT ![r] = "error"]
          /\ UNCHANGED <<rows, version, stale, todo>> /\ "error" \in Steps
      BY <1>4, <2>2 DEF Mark, Goto, ghosts, Steps
    <3>2. Role(r)'
      BY <1>0, <3>1 DEF Role, Final
    <3> QED BY <1>0, <1>1, <3>1, <3>2, AttemptTypes, HoldShapes
  <2> QED BY <2>1, <2>2
<1>5. CASE RecordError(r)
  BY <1>3, <1>5 DEF RecordError
<1> QED BY <1>2, <1>4, <1>5 DEF Confirmacion

LEMMA EditMoves == ASSUME Shape, NEW r \in Requests, ActualizarEstado(r) PROVE Moves(r)
<1> USE DEF Goto, Moves
<1>1. CASE Read(r)
  <2>1. r \in Edits /\ r \notin Hooks /\ r \notin Retries /\ BookingOf[r] \in Bookings
    BY <1>1, Roles, AmeliaAssumption DEF Read
  <2>2. Wanted(r) \in Estados /\ version[BookingOf[r]] \in Nat /\ pc \in [Requests -> Steps]
    BY <2>1, WantedType DEF Shape, TypeOK
  <2>3. CASE BookingOf[r] \in DOMAIN rows
    <3>1. PICK row : row = [rows[BookingOf[r]] EXCEPT !.estado = Wanted(r),
                                                      !.at = version[BookingOf[r]]]
      OBVIOUS
    <3>2. rows[BookingOf[r]] \in RowType
      BY <2>3 DEF Shape, TypeOK
    <3>3. row \in RowType /\ row.at = version[BookingOf[r]]
      BY <2>2, <3>1, <3>2 DEF RowType
    <3>4. row.at <= version[BookingOf[r]]
      BY <2>2, <3>3
    <3>5. Hold(r, BookingOf[r], row) /\ pc' = [pc EXCEPT ![r] = "set"]
      BY <1>1, <2>3, <3>1 DEF Read
    <3>6. Role(r)'
      BY <2>1, <2>2, <3>5 DEF Role, Final
    <3>7. /\ todo' = [todo EXCEPT ![r] = <<BookingOf[r]>>] /\ "set" \in Steps
          /\ UNCHANGED <<rows, version, stale>>
      BY <1>1, <2>3 DEF Read, ghosts, Steps
    <3> QED BY <2>1, <2>3, <3>3, <3>4, <3>5, <3>6, <3>7, StartShapes
  <2>4. CASE BookingOf[r] \notin DOMAIN rows
    <3>1. /\ pc' = [pc EXCEPT ![r] = "404"] /\ "404" \in Steps /\ "404" \in Final
          /\ UNCHANGED <<rows, version, stale, copies, todo>>
      BY <1>1, <2>4 DEF Read, Steps, Final, ghosts
    <3>2. Role(r)'
      BY <2>1, <2>2, <3>1 DEF Role, Final
    <3> QED BY <3>1, <3>2, WalkShapes
  <2> QED BY <2>3, <2>4
<1>2. CASE Set(r)
  <2>1. pc[r] = "set" /\ Working(r) /\ pc \in [Requests -> Steps]
        /\ r \in Edits /\ r \notin Hooks /\ r \notin Retries
    BY <1>2, Roles DEF Set, Working, Final
  <2>2. Save(r) /\ todo' = todo /\ pc' = [pc EXCEPT ![r] = "edited"]
    BY <1>2 DEF Set
  <2>3. /\ pc'[r] = "edited" /\ pc' \in [Requests -> Steps]
        /\ \A q \in Requests \ {r} : pc'[q] = pc[q]
    BY <2>1, <2>2 DEF Steps
  <2>4. Role(r)'
    BY <2>1, <2>3 DEF Role, Final
  <2> QED BY <2>1, <2>2, <2>3, <2>4, SaveShapes DEF Shape
<1>3. CASE LogEdited(r)
  <2>1. pc[r] = "edited" /\ pc \in [Requests -> Steps]
        /\ r \in Edits /\ r \notin Hooks /\ r \notin Retries
    BY <1>3, Roles DEF LogEdited
  <2>2. /\ pc' = [pc EXCEPT ![r] = "ok"] /\ "ok" \in Steps /\ "ok" \in Final
        /\ UNCHANGED <<rows, version, stale, copies, todo>>
    BY <1>3 DEF LogEdited, Steps, Final, ghosts
  <2>3. Role(r)'
    BY <2>1, <2>2 DEF Role, Final
  <2> QED BY <2>2, <2>3, WalkShapes
<1> QED BY <1>1, <1>2, <1>3 DEF ActualizarEstado

LEMMA FailMoves == ASSUME Shape, NEW r \in Requests, Fail(r) PROVE Moves(r)
<1>1. /\ pc' = [pc EXCEPT ![r] = "500"] /\ "500" \in Steps /\ "500" \in Final
      /\ UNCHANGED <<rows, version, stale, copies, todo>>
  BY DEF Fail, Goto, Steps, Final, ghosts
<1>2. pc'[r] = "500"
  BY <1>1 DEF Shape, TypeOK
<1>3. Role(r)'
  BY <1>2 DEF Role, Final
<1> QED BY <1>1, <1>3, WalkShapes DEF Moves

LEMMA RequestMoves == ASSUME Shape, NEW r \in Requests, Serve(r) \/ Fail(r) PROVE Moves(r)
BY WebhookMoves, ConfirmationMoves, EditMoves, FailMoves, ListShapes DEF Serve, Moves

LEMMA BumpType ==
  ASSUME NEW f \in [Bookings -> Nat], NEW g, NEW b,
         g = f \/ (\E n \in {0, 1} : g = [f EXCEPT ![b] = @ + n])
  PROVE  g \in [Bookings -> Nat]
<1>1. \A n \in {0, 1} : [f EXCEPT ![b] = @ + n] \in [Bookings -> Nat]
  <2>1. CASE b \in Bookings
    <3>1. \A n \in {0, 1} : f[b] + n \in Nat
      BY <2>1
    <3> QED BY <3>1
  <2>2. CASE b \notin Bookings
    BY <2>2
  <2> QED BY <2>1, <2>2
<1> QED BY <1>1

\* The counts stay counts, whatever step is taken.
LEMMA CountTypes ==
  ASSUME Shape, NEW r \in Requests, Serve(r) \/ Fail(r)
  PROVE  CountsType
<1>0. /\ before \in [Requests -> Estados \cup {""}] /\ wanted \in [Bookings -> Estados \cup {""}]
      /\ told \in [Bookings -> Nat] /\ apologies \in [Bookings -> Nat]
      /\ turned \in [Bookings -> Nat] /\ faults \in Nat /\ crashes \in Nat
      /\ \A b \in DOMAIN rows : rows[b].estado \in Estados
  BY DEF Shape, TypeOK, RowType
<1>f. Fault => faults' \in Nat
  BY <1>0, FaultType
<1>1. ASSUME UNCHANGED <<before, wanted, told, apologies, turned, faults, crashes>>
      PROVE  CountsType
  BY <1>0, <1>1 DEF CountsType
<1>2. ASSUME UNCHANGED <<before, wanted, told, apologies, turned, crashes>>, Fault
      PROVE  CountsType
  BY <1>0, <1>2, <1>f DEF CountsType
<1>3. CASE Find(r)
  <2>1. before' \in [Requests -> Estados \cup {""}]
    BY <1>0, <1>3 DEF Find
  <2> QED BY <1>0, <1>3, <2>1 DEF Find, CountsType, ghosts
<1>4. CASE Insert(r)
  <2>1. r \in Hooks
    BY <1>4, Roles DEF Insert
  <2>2. Wanted(r) \in Estados
    BY <2>1, WantedType
  <2>3. wanted' \in [Bookings -> Estados \cup {""}]
    BY <1>0, <1>4, <2>2 DEF Insert
  <2> QED BY <1>0, <1>4, <2>3 DEF Insert, CountsType
<1>5. CASE Update(r)
  <2>1. r \in Hooks
    BY <1>5, Roles DEF Update
  <2>2. Wanted(r) \in Estados
    BY <2>1, WantedType
  <2>3. wanted' \in [Bookings -> Estados \cup {""}]
    BY <1>0, <1>5, <2>2 DEF Update
  <2>4. turned' = turned \/ turned' = [turned EXCEPT ![Booking(r)] = @ + 1]
    BY <1>0, <1>5 DEF Update
  <2>5. turned' \in [Bookings -> Nat]
    BY <1>0, <2>4, BumpType
  <2> QED BY <1>0, <1>5, <2>3, <2>5 DEF Update, CountsType
<1>6. CASE LogCreated(r) \/ LogChanged(r) \/ Read(r) \/ LogEdited(r) \/ List(r) \/ RecordError(r)
  BY <1>1, <1>6 DEF LogCreated, LogChanged, Read, LogEdited, List, RecordError, ghosts
<1>7. CASE Cancel(r)
  <2>0. apologies' = apologies \/ apologies' = [apologies EXCEPT ![Booking(r)] = @ + 1]
    BY <1>0, <1>7 DEF Cancel
  <2>1. apologies' \in [Bookings -> Nat]
    BY <1>0, <2>0, BumpType
  <2>2. faults' \in Nat
    BY <1>0, <1>f, <1>7 DEF Cancel
  <2> QED BY <1>0, <1>7, <2>1, <2>2 DEF Cancel, CountsType, ghosts
<1>8. CASE Confirm(r)
  <2>1. told' = told \/ \E n \in {0, 1} : told' = [told EXCEPT ![Booking(r)] = @ + n]
    BY <1>8 DEF Confirm
  <2>2. told' \in [Bookings -> Nat]
    BY <1>0, <2>1, BumpType
  <2>3. faults' \in Nat
    BY <1>0, <1>f, <1>8 DEF Confirm
  <2> QED BY <1>0, <1>8, <2>2, <2>3 DEF Confirm, CountsType, ghosts
<1>9. CASE Mark(r)
  BY <1>1, <1>2, <1>9 DEF Mark, ghosts
<1>10. CASE Set(r)
  <2>1. r \in Edits
    BY <1>10, Roles DEF Set
  <2>2. Wanted(r) \in Estados
    BY <2>1, WantedType
  <2>3. wanted' \in [Bookings -> Estados \cup {""}]
    BY <1>0, <1>10, <2>2 DEF Set
  <2> QED BY <1>0, <1>10, <2>3 DEF Set, CountsType
<1>11. CASE Fail(r)
  BY <1>2, <1>11 DEF Fail, ghosts
<1> QED BY <1>3, <1>4, <1>5, <1>6, <1>7, <1>8, <1>9, <1>10, <1>11
        DEF Serve, ProcesarWebhook, Confirmacion, ActualizarEstado

LEMMA CrashShapes == ASSUME Shape, Crash PROVE Shape'
<1>1. UNCHANGED <<rows, copies, todo, version, stale, before, wanted, told, apologies, turned>>
      /\ UNCHANGED faults
  BY DEF Crash, ghosts
<1>2. pc \in [Requests -> Steps] /\ crashes \in Nat
  BY DEF Shape, TypeOK
<1>3. /\ pc' \in [Requests -> Steps]
      /\ \A r \in Requests : pc'[r] \in Final /\ (pc'[r] = pc[r] \/ pc'[r] = "cut")
  BY <1>2 DEF Crash, Steps, Final
<1>4. crashes' \in Nat
  BY <1>2 DEF Crash
<1>5. TypeOK'
  BY <1>1, <1>3, <1>4 DEF Shape, TypeOK
<1>6. ASSUME NEW r \in Requests PROVE Shaped(r)'
  <2>1. Role(r)'
    BY <1>3 DEF Role, Final
  <2>2. Copied(r)'
    BY <1>1 DEF Shape, Shaped, Copied
  <2>3. Holding(r)'
    BY <1>1, <1>3 DEF Shape, Shaped, Holding, Working
  <2> QED BY <2>1, <2>2, <2>3 DEF Shaped
<1>7. /\ rows' = [b \in DOMAIN rows' |-> rows'[b]] /\ IsFiniteSet(DOMAIN rows')
      /\ \A b \in Bookings : b \in DOMAIN rows' <=> version'[b] # 0
      /\ copies' = [r \in Requests |-> copies'[r]] /\ todo' = [r \in Requests |-> todo'[r]]
  BY <1>1 DEF Shape
<1> QED BY <1>5, <1>6, <1>7 DEF Shape

LEMMA ShapeStep == ASSUME Shape, [Next]_vars PROVE Shape'
<1>1. ASSUME NEW r \in Requests, Serve(r) \/ Fail(r) PROVE Shape'
  <2>1. /\ OnlyMoves(r) /\ Shaped(r)' /\ CountsType
        /\ NoneSaved \/ (Saved(r, Booking(r)) /\ Booking(r) \in DOMAIN copies[r])
    BY <1>1, RequestMoves, CountTypes DEF Moves
  <2>2. NoneSaved \/ \E b \in DOMAIN copies[r] : Saved(r, b)
    BY <2>1
  <2> QED BY <2>1, <2>2, ShapeByOne
<1>2. CASE Crash
  BY <1>2, CrashShapes
<1>3. CASE UNCHANGED vars
  <2>1. /\ UNCHANGED <<rows, copies, todo, version, stale, before, wanted, told, apologies>>
        /\ UNCHANGED <<turned, faults, pc, crashes>>
    BY <1>3 DEF vars, ghosts
  <2>2. TypeOK'
    BY <2>1 DEF Shape, TypeOK
  <2>3. \A r \in Requests : Shaped(r)'
    BY <2>1 DEF Shape, Shaped, Role, Copied, Holding, Working, Booking
  <2> QED BY <2>1, <2>2, <2>3 DEF Shape
<1> QED BY <1>1, <1>2, <1>3 DEF Next

LEMMA ShapeInit == Init => Shape
<1> SUFFICES ASSUME Init PROVE Shape
  OBVIOUS
<1>1. /\ rows = << >> /\ DOMAIN rows = {} /\ IsFiniteSet(DOMAIN rows)
  <2>0. DOMAIN << >> = {}
    OBVIOUS
  <2>1. rows = << >> /\ DOMAIN rows = {}
    BY <2>0 DEF Init
  <2>2. ASSUME NEW S, S = {} PROVE IsFiniteSet(S)
    BY <2>2, FS_EmptySet, Zenon
  <2> QED BY <2>1, <2>2
<1>2. \A r \in Requests : pc[r] = "new" /\ copies[r] = << >> /\ todo[r] = << >>
  BY DEF Init
<1>3. DOMAIN << >> = {} /\ << >> \in Seq(Bookings)
  OBVIOUS
<1>4. Range(<< >>) = {}
  BY <1>3 DEF Range
<1>5. ASSUME NEW r \in Requests PROVE Shaped(r)
  BY <1>2, <1>3, <1>4 DEF Shaped, Role, Copied, Holding, Working, Final
<1>6. TypeOK
  BY <1>1, <1>2, <1>3, <1>4 DEF TypeOK, Init, Steps, Final
<1>7. rows = [b \in DOMAIN rows |-> rows[b]]
  BY <1>1
<1>8. \A b \in Bookings : version[b] = 0
  BY DEF Init
<1>9. copies = [r \in Requests |-> copies[r]] /\ todo = [r \in Requests |-> todo[r]]
  BY DEF Init
<1> QED BY <1>1, <1>5, <1>6, <1>7, <1>8, <1>9 DEF Shape

----------------------------------------------------------------------------
(* What the copies say, step by step *)

LEMMA StepFrames ==
  ASSUME Shape, NEW r \in Requests, Serve(r) \/ Fail(r)
  PROVE  /\ \A q \in Requests \ {r} : before'[q] = before[q]
         /\ ~Find(r) => before' = before
         /\ ~Confirm(r) => told' = told
         /\ ~Cancel(r) => apologies' = apologies
         /\ ~Update(r) => turned' = turned
         /\ ~Insert(r) /\ ~Update(r) /\ ~Set(r) => wanted' = wanted
         /\ crashes' = crashes /\ (faults' = faults \/ Fault)
<1>1. before \in [Requests -> Estados \cup {""}]
  BY DEF Shape, TypeOK
<1> USE DEF ghosts
<1>2. CASE Find(r)
  BY <1>1, <1>2 DEF Find
<1>3. CASE Insert(r) \/ Update(r) \/ Set(r)
  BY <1>3 DEF Insert, Update, Set
<1>4. CASE LogCreated(r) \/ LogChanged(r) \/ Cancel(r)
  BY <1>4 DEF LogCreated, LogChanged, Cancel
<1>5. CASE Confirm(r) \/ Mark(r) \/ RecordError(r)
  BY <1>5 DEF Confirm, Mark, RecordError
<1>6. CASE Read(r) \/ LogEdited(r) \/ List(r) \/ Fail(r)
  BY <1>6 DEF Read, LogEdited, List, Fail
<1> QED BY <1>2, <1>3, <1>4, <1>5, <1>6
        DEF Serve, ProcesarWebhook, Confirmacion, ActualizarEstado

\* A confirmation is taken once or not at all.
LEMMA ToldGrows ==
  ASSUME Shape, NEW r \in Requests, Serve(r) \/ Fail(r)
  PROVE  /\ told' = told \/ \E n \in {0, 1} : told' = [told EXCEPT ![Booking(r)] = @ + n]
         /\ \A b \in Bookings : told'[b] \in Nat /\ (told[b] > 0 => told'[b] > 0)
<1>0. told \in [Bookings -> Nat]
  BY DEF Shape, TypeOK
<1>1. told' = told \/ \E n \in {0, 1} : told' = [told EXCEPT ![Booking(r)] = @ + n]
  <2>1. CASE Confirm(r)
    BY <2>1 DEF Confirm
  <2> QED BY <2>1, StepFrames
<1>2. \A n \in {0, 1} : \A k \in Nat : k + n \in Nat /\ (k > 0 => k + n > 0)
  OBVIOUS
<1>3. \A b \in Bookings : told'[b] = told[b] \/ \E n \in {0, 1} : told'[b] = told[b] + n
  BY <1>0, <1>1
<1>4. ASSUME NEW b \in Bookings
      PROVE  told'[b] \in Nat /\ (told[b] > 0 => told'[b] > 0)
  <2>1. told[b] \in Nat
    BY <1>0
  <2> QED BY <1>2, <1>3, <2>1
<1> QED BY <1>1, <1>4

\* The copies of the others keep saying what the rows say, or are no longer fresh.
LEMMA OthersCopies ==
  ASSUME Shape, NEW r \in Requests, Moves(r), NEW q \in Requests \ {r}, CopyInv(q),
         before'[q] = before[q]
  PROVE  CopyInv(q)'
<1>1. pc'[q] = pc[q] /\ copies'[q] = copies[q] /\ todo'[q] = todo[q]
  BY DEF Moves, OnlyMoves
<1>2. SUFFICES ASSUME Working(q), NEW b \in Range(todo[q])
      PROVE  /\ pc[q] \in Unsaved => copies[q][b].estado = Wanted(q)
             /\ pc[q] # "insert" /\ Fresh(q, b)' => Agrees(q, b)'
  BY <1>1 DEF CopyInv, Working, Unsaved, Wanted
<1>3. pc[q] \in Unsaved => copies[q][b].estado = Wanted(q)
  BY <1>2 DEF CopyInv
<1>4. ASSUME pc[q] # "insert", Fresh(q, b)' PROVE Agrees(q, b)'
  <2>1. b \in DOMAIN rows /\ b \in DOMAIN copies[q] /\ b \in Bookings
    BY <1>2, <1>4 DEF Shape, Shaped, Holding, TypeOK
  <2>2. copies[q][b].at <= version[b] /\ copies[q][b].at \in Nat /\ version[b] \in Nat
    BY <2>1 DEF Shape, Shaped, Copied, TypeOK, RowType
  <2>3. \A m, n \in Nat : m <= n => m # n + 1
    OBVIOUS
  <2>4. rows'[b] = rows[b] /\ version'[b] = version[b]
    <3>1. CASE NoneSaved
      BY <3>1 DEF NoneSaved
    <3>2. CASE Saved(r, Booking(r))
      <4>1. b # Booking(r)
        BY <1>1, <1>4, <2>2, <2>3, <3>2 DEF Saved, Fresh
      <4> QED BY <2>1, <3>2, <4>1 DEF Saved
    <3> QED BY <3>1, <3>2 DEF Moves
  <2>5. Fresh(q, b)
    BY <1>1, <1>4, <2>4 DEF Fresh
  <2>6. Agrees(q, b)
    BY <1>2, <1>4, <2>5 DEF CopyInv
  <2> QED BY <1>1, <2>4, <2>6 DEF Agrees, ToTell, SameMessages, Booking, Unsaved
<1> QED BY <1>3, <1>4

\* A copy or a row says that the confirmation was sent only if the step's copies do.
LEMMA SaysSentKept ==
  ASSUME Shape, NEW r \in Requests, Moves(r), SaysSent,
         \A b \in Bookings : told[b] > 0 => told'[b] > 0,
         \A b \in DOMAIN copies'[r] : copies'[r][b].enviada => told'[b] > 0
  PROVE  SaysSent'
<1>1. \A q \in Requests : DOMAIN copies[q] \subseteq Bookings
  BY DEF Shape, TypeOK
<1>2. ASSUME NEW q \in Requests, NEW b \in DOMAIN copies'[q], copies'[q][b].enviada
      PROVE  told'[b] > 0
  <2>1. CASE q = r
    BY <1>2, <2>1
  <2>2. CASE q # r
    BY <1>1, <1>2, <2>2 DEF Moves, OnlyMoves, SaysSent
  <2> QED BY <2>1, <2>2
<1>3. ASSUME NEW b \in DOMAIN rows', rows'[b].enviada PROVE told'[b] > 0
  <2>1. DOMAIN rows \subseteq Bookings
    BY DEF Shape, TypeOK
  <2>2. CASE b \in DOMAIN rows /\ rows'[b] = rows[b]
    BY <1>3, <2>1, <2>2 DEF SaysSent, EnviadaWasTold
  <2>3. CASE ~(b \in DOMAIN rows /\ rows'[b] = rows[b])
    <3>1. b = Booking(r) /\ b \in DOMAIN copies[r] /\ rows'[b] = copies[r][b]
      BY <1>3, <2>3 DEF Moves, NoneSaved, Saved
    <3> QED BY <1>1, <1>3, <3>1 DEF SaysSent
  <2> QED BY <2>2, <2>3
<1> QED BY <1>2, <1>3 DEF SaysSent, EnviadaWasTold

\* What the copies of r say about the messages.
Says(r) == \A b \in DOMAIN copies[r] : copies[r][b].enviada => told[b] > 0

LEMMA KeptSays ==
  ASSUME Shape, NEW r \in Requests, SaysSent, copies'[r] = copies[r], told' = told
  PROVE  Says(r)'
BY DEF Says, SaysSent

LEMMA SavedSays ==
  ASSUME Shape, NEW r \in Requests, SaysSent, Working(r), Save(r), told' = told
  PROVE  Says(r)'
<1> DEFINE b == Booking(r)
<1>1. b \in DOMAIN copies[r] /\ Copy(r) \in RowType /\ Copy(r) = copies[r][b]
  BY WorkHas DEF Copy
<1>2. /\ DOMAIN copies'[r] = DOMAIN copies[r]
      /\ copies'[r][b] = [Copy(r) EXCEPT !.at = version[b] + 1]
      /\ \A x \in DOMAIN copies[r] \ {b} : copies'[r][x] = copies[r][x]
  BY SaveIs
<1>3. copies'[r][b].enviada = Copy(r).enviada
  BY <1>1, <1>2 DEF RowType
<1> QED BY <1>1, <1>2, <1>3 DEF Says, SaysSent

\* A saved row has the estado of the copy.
LEMMA EstadoSaved ==
  ASSUME Shape, EstadoIsLastWanted, NEW r \in Requests, Working(r), Save(r),
         \A x \in Bookings \ {Booking(r)} : wanted'[x] = wanted[x],
         Booking(r) \notin stale' => Copy(r).estado = wanted'[Booking(r)]
  PROVE  EstadoIsLastWanted'
<1> DEFINE b == Booking(r)
<1>1. /\ DOMAIN rows' = DOMAIN rows \cup {b} /\ rows'[b] = Copy(r)
      /\ \A x \in DOMAIN rows \ {b} : rows'[x] = rows[x]
      /\ stale' = (IF Copy(r).at = version[b] THEN stale ELSE stale \cup {b})
  BY SaveIs
<1>2. DOMAIN rows \subseteq Bookings /\ stale \subseteq stale'
  BY <1>1 DEF Shape, TypeOK
<1>3. ASSUME NEW x \in DOMAIN rows', x \notin stale' PROVE rows'[x].estado = wanted'[x]
  <2>1. CASE x = b
    BY <1>1, <1>3, <2>1
  <2>2. CASE x # b
    BY <1>1, <1>2, <1>3, <2>2 DEF EstadoIsLastWanted
  <2> QED BY <2>1, <2>2
<1> QED BY <1>3 DEF EstadoIsLastWanted

LEMMA EstadoKept ==
  ASSUME EstadoIsLastWanted, NoneSaved, wanted' = wanted PROVE EstadoIsLastWanted'
BY DEF EstadoIsLastWanted, NoneSaved

\* A copy that was just read agrees with its row.
LEMMA ReadCopies ==
  ASSUME Shape, SaysSent, NEW r \in Hooks \cup Edits, NEW s \in {"update", "set"}, pc'[r] = s,
         BookingOf[r] \in DOMAIN rows, todo'[r] = <<BookingOf[r]>>,
         Hold(r, BookingOf[r], [rows[BookingOf[r]] EXCEPT !.estado = Wanted(r),
                                                          !.at = version[BookingOf[r]]]),
         s = "update" => before'[r] = rows[BookingOf[r]].estado,
         UNCHANGED <<rows, version, told>>
  PROVE  CopyInv(r)' /\ Says(r)'
<1> DEFINE b   == BookingOf[r]
           row == [rows[b] EXCEPT !.estado = Wanted(r), !.at = version[b]]
<1>1. r \in Requests /\ b \in Bookings /\ copies = [q \in Requests |-> copies[q]]
  BY AmeliaAssumption DEF Requests, Shape
<1>2. /\ DOMAIN copies'[r] = DOMAIN copies[r] \cup {b} /\ copies'[r][b] = row
      /\ \A x \in DOMAIN copies[r] \ {b} : copies'[r][x] = copies[r][x]
  BY <1>1, HoldIs
<1>3. rows[b] \in RowType
  BY DEF Shape, TypeOK
<1>4. /\ row.estado = Wanted(r) /\ row.enviada = rows[b].enviada
      /\ row.intentos = rows[b].intentos
  BY <1>3 DEF RowType
<1>s. copies'[r][b].enviada = rows[b].enviada
  BY <1>2, <1>4
<1>5. Says(r)'
  <2>1. ASSUME NEW x \in DOMAIN copies'[r], copies'[r][x].enviada PROVE told[x] > 0
    <3>1. CASE x = b
      BY <1>s, <2>1, <3>1 DEF SaysSent, EnviadaWasTold
    <3>2. CASE x # b
      BY <1>1, <1>2, <2>1, <3>2 DEF SaysSent
    <3> QED BY <3>1, <3>2
  <2> QED BY <2>1 DEF Says
<1>6. Range(todo'[r]) = {b}
  BY <1>1, OneBooking
<1>7. copies'[r][b].estado = Wanted(r)' /\ Agrees(r, b)'
  BY <1>2, <1>4 DEF Agrees, ToTell, SameMessages, Unsaved, Wanted
<1> QED BY <1>5, <1>6, <1>7 DEF CopyInv

\* A saved copy agrees with the row.
LEMMA SaveCopies ==
  ASSUME Shape, NEW r \in Requests, Working(r), Save(r), r \notin Retries, todo' = todo,
         pc'[r] \in {"created", "changed", "edited"},
         pc'[r] = "created" => ~Copy(r).enviada
  PROVE  CopyInv(r)'
<1>1. PICK b : b = Booking(r)
  OBVIOUS
<1>2. Copy(r) \in RowType /\ Range(todo[r]) = {b}
  BY <1>1, WorkHas
<1>3. /\ rows'[Booking(r)] = Copy(r)
      /\ copies'[r][Booking(r)] = [Copy(r) EXCEPT !.at = version[Booking(r)] + 1]
  BY SaveIs
<1>4. /\ copies'[r][b].estado = rows'[b].estado /\ copies'[r][b].enviada = rows'[b].enviada
      /\ copies'[r][b].intentos = rows'[b].intentos /\ rows'[b] = Copy(r)
  BY <1>1, <1>2, <1>3 DEF RowType
<1>5. Agrees(r, b)'
  BY <1>4 DEF Agrees, ToTell, SameMessages, Unsaved
<1>6. Range(todo'[r]) = {b} /\ pc'[r] \notin Unsaved
  BY <1>2 DEF Unsaved
<1> QED BY <1>5, <1>6 DEF CopyInv

LEMMA WebhookCopies ==
  ASSUME Shape, CopiesInv, NEW r \in Requests, ProcesarWebhook(r)
  PROVE  CopyInv(r)' /\ Says(r)' /\ EstadoIsLastWanted'
<1>0. /\ CopyInv(r) /\ SaysSent /\ EstadoIsLastWanted /\ pc \in [Requests -> Steps]
      /\ todo = [q \in Requests |-> todo[q]] /\ before \in [Requests -> Estados \cup {""}]
      /\ wanted \in [Bookings -> Estados \cup {""}]
  BY DEF CopiesInv, Shape, TypeOK
<1>e. pc'[r] \in Final => CopyInv(r)'
  BY DEF CopyInv, Working
<1> USE DEF Goto, ghosts
<1>1. CASE Find(r)
  <2>1. r \in Hooks /\ NoneSaved /\ wanted' = wanted /\ told' = told
        /\ todo'[r] = <<BookingOf[r]>>
    BY <1>0, <1>1 DEF Find, NoneSaved
  <2>2. EstadoIsLastWanted'
    BY <1>0, <2>1, EstadoKept
  <2>3. CASE BookingOf[r] \in DOMAIN rows
    <3>1. /\ pc'[r] = "update" /\ before'[r] = rows[BookingOf[r]].estado
          /\ Hold(r, BookingOf[r], [rows[BookingOf[r]] EXCEPT !.estado = Wanted(r),
                                                              !.at = version[BookingOf[r]]])
      BY <1>0, <1>1, <2>3 DEF Find
    <3>2. UNCHANGED <<rows, version, told>>
      BY <2>1 DEF NoneSaved
    <3> QED BY <1>0, <2>1, <2>2, <2>3, <3>1, <3>2, ReadCopies
  <2>4. CASE BookingOf[r] \notin DOMAIN rows
    <3>1. pc'[r] = "insert" /\ Hold(r, BookingOf[r], NewTurno(r))
      BY <1>0, <1>1, <2>4 DEF Find
    <3>2. BookingOf[r] \in Bookings /\ copies = [q \in Requests |-> copies[q]]
      BY <2>1, AmeliaAssumption DEF Shape
    <3>3. /\ DOMAIN copies'[r] = DOMAIN copies[r] \cup {BookingOf[r]}
          /\ copies'[r][BookingOf[r]] = NewTurno(r)
          /\ \A x \in DOMAIN copies[r] \ {BookingOf[r]} : copies'[r][x] = copies[r][x]
      BY <3>1, <3>2, HoldIs
    <3>4. ~NewTurno(r).enviada /\ NewTurno(r).estado = Wanted(r)
      BY DEF NewTurno
    <3>5. Says(r)'
      BY <1>0, <2>1, <3>3, <3>4 DEF Says, SaysSent
    <3>6. Range(todo'[r]) = {BookingOf[r]}
      BY <2>1, <3>2, OneBooking
    <3>7. CopyInv(r)'
      BY <3>1, <3>3, <3>4, <3>6 DEF CopyInv, Wanted
    <3> QED BY <2>2, <3>5, <3>7
  <2> QED BY <2>3, <2>4
<1>2. CASE Insert(r)
  <2>1. pc[r] = "insert" /\ Working(r) /\ r \in Hooks /\ r \notin Retries /\ told' = told
        /\ todo' = todo
    BY <1>2, Roles DEF Insert, Working, Final
  <2>2. CASE Booking(r) \in DOMAIN rows
    <3>1. pc'[r] \in Final /\ copies' = copies /\ NoneSaved /\ wanted' = wanted
      BY <1>0, <1>2, <2>2 DEF Insert, Final, NoneSaved
    <3>2. Says(r)' /\ EstadoIsLastWanted'
      BY <1>0, <2>1, <3>1, KeptSays, EstadoKept
    <3> QED BY <1>e, <3>1, <3>2
  <2>3. CASE Booking(r) \notin DOMAIN rows
    <3>1. Save(r) /\ pc'[r] = "created"
          /\ wanted' = [wanted EXCEPT ![Booking(r)] = Wanted(r)]
      BY <1>0, <1>2, <2>3 DEF Insert
    <3>2. Copy(r) = NewTurno(r)
      BY <2>1 DEF Shape, Shaped, Holding, Copy
    <3>3. ~Copy(r).enviada /\ Copy(r).estado = Wanted(r)
      BY <3>2 DEF NewTurno
    <3>4. CopyInv(r)'
      BY <2>1, <3>1, <3>3, SaveCopies
    <3>5. Says(r)'
      BY <1>0, <2>1, <3>1, SavedSays
    <3>6. Booking(r) \in Bookings
      BY <2>1, WorkHas
    <3>7. EstadoIsLastWanted'
      BY <1>0, <2>1, <3>1, <3>3, <3>6, EstadoSaved
    <3> QED BY <3>4, <3>5, <3>7
  <2> QED BY <2>2, <2>3
<1>3. CASE Update(r)
  <2>1. pc[r] = "update" /\ Working(r) /\ r \in Hooks /\ r \notin Retries /\ told' = told
        /\ todo' = todo /\ Save(r) /\ wanted' = [wanted EXCEPT ![Booking(r)] = Wanted(r)]
    BY <1>3, Roles DEF Update, Working, Final
  <2>2. Booking(r) \in Bookings /\ Booking(r) \in Range(todo[r])
    BY <2>1, WorkHas
  <2>3. Copy(r).estado = Wanted(r)
    BY <1>0, <2>1, <2>2 DEF CopyInv, Copy, Unsaved
  <2>4. Says(r)' /\ EstadoIsLastWanted'
    BY <1>0, <2>1, <2>2, <2>3, SavedSays, EstadoSaved
  <2>5. pc'[r] = "ok" \/ pc'[r] = "changed"
    BY <1>0, <1>3 DEF Update
  <2>6. CASE pc'[r] = "ok"
    BY <1>e, <2>4, <2>6 DEF Final
  <2>7. CASE pc'[r] = "changed"
    BY <2>1, <2>4, <2>7, SaveCopies
  <2> QED BY <2>5, <2>6, <2>7
<1>4. CASE LogCreated(r) \/ LogChanged(r)
  <2>1. /\ copies' = copies /\ todo' = todo /\ told' = told /\ NoneSaved /\ wanted' = wanted
        /\ \/ pc[r] = "created" /\ pc'[r] = "confirm"
           \/ pc[r] = "changed" /\ pc'[r] \in {"cancel", "ok"}
    BY <1>0, <1>4 DEF LogCreated, LogChanged, NoneSaved
  <2>2. Says(r)' /\ EstadoIsLastWanted'
    BY <1>0, <2>1, KeptSays, EstadoKept
  <2>3. CopyInv(r)'
    BY <1>0, <2>1 DEF CopyInv, Working, Final, Unsaved, Fresh, Agrees, SameMessages, ToTell,
                      Booking, NoneSaved, Wanted
  <2> QED BY <2>2, <2>3
<1>5. CASE Cancel(r)
  <2>1. pc'[r] \in Final /\ copies' = copies /\ told' = told /\ NoneSaved /\ wanted' = wanted
    BY <1>0, <1>5 DEF Cancel, NoneSaved, Final
  <2> QED BY <1>0, <1>e, <2>1, KeptSays, EstadoKept
<1> QED BY <1>1, <1>2, <1>3, <1>4, <1>5 DEF ProcesarWebhook

\* A confirmation leaves its attempt on the copy in hand; the copies it has still to deal
\* with are as they were.
LEMMA AttemptCopies ==
  ASSUME Shape, NEW r \in Requests, CopyInv(r), pc[r] \in {"confirm", "mark"},
         NEW row, Hold(r, Booking(r), row), row = Failed(Copy(r)) \/ row = Marked(Copy(r)),
         pc'[r] \in {"mark", "error"},
         pc'[r] = "mark" => pc[r] = "confirm" /\ row = Marked(Copy(r)),
         UNCHANGED <<rows, version, todo>>
  PROVE  CopyInv(r)'
<1>1. Working(r) /\ pc[r] \notin Unsaved /\ pc'[r] \notin Unsaved
  BY DEF Working, Final, Unsaved
<1>2. PICK b : b = Booking(r)
  OBVIOUS
<1>3. /\ b \in DOMAIN copies[r] /\ b \in Range(todo[r]) /\ Copy(r) \in RowType
      /\ Copy(r) = copies[r][b]
      /\ todo[r] \in Seq(Bookings) /\ todo[r] # << >> /\ IsInjective(todo[r])
  BY <1>1, <1>2, WorkHas DEF Copy
<1>4. b \notin Range(Tail(todo[r])) /\ Range(Tail(todo[r])) \subseteq Range(todo[r])
  BY <1>2, <1>3, TailBookings DEF Booking
<1>5. /\ copies'[r][b] = row
      /\ \A x \in DOMAIN copies[r] \ {b} : copies'[r][x] = copies[r][x]
  BY <1>2, HoldIs DEF Shape
<1>6. /\ row.at = Copy(r).at /\ row.estado = Copy(r).estado
      /\ row = Marked(Copy(r)) => row.enviada /\ row.intentos = Copy(r).intentos + 1
  BY <1>3, AttemptTypes
<1>7. Range(todo[r]) \subseteq DOMAIN copies[r]
  BY DEF Shape, Shaped, Holding
<1>8. ASSUME NEW x \in Range(todo[r]), Fresh(r, x)' PROVE Agrees(r, x)'
  <2>1. Fresh(r, x)
    BY <1>3, <1>5, <1>6, <1>7, <1>8 DEF Fresh
  <2>2. Agrees(r, x)
    BY <1>1, <1>8, <2>1 DEF CopyInv
  <2>3. copies'[r][x].estado = rows'[x].estado
    BY <1>1, <1>3, <1>5, <1>6, <1>7, <2>2 DEF Agrees
  <2>4. ASSUME ToTell(r, x)' PROVE SameMessages(r, x)' /\ ~rows'[x].enviada
    <3>1. x # b /\ ToTell(r, x)
      BY <1>4, <2>4 DEF ToTell
    <3> QED BY <1>5, <1>7, <2>2, <3>1 DEF Agrees, SameMessages
  <2>5. ASSUME pc'[r] = "mark", x = b
        PROVE  /\ copies'[r][x].enviada /\ ~rows'[x].enviada
               /\ copies'[r][x].intentos = rows'[x].intentos + 1
    <3>1. ToTell(r, x)
      BY <1>3, <2>5 DEF ToTell
    <3> QED BY <1>3, <1>5, <1>6, <2>2, <2>5, <3>1 DEF Agrees, SameMessages
  <2>6. x = Booking(r)' => x = b
    BY <1>2 DEF Booking
  <2> QED BY <1>1, <2>3, <2>4, <2>5, <2>6 DEF Agrees, Unsaved
<1> QED BY <1>1, <1>8 DEF CopyInv

\* A confirmation that was recorded: the other turns of its request are untouched.
LEMMA RecordedCopies ==
  ASSUME Shape, CopiesInv, NEW r \in Requests, pc[r] \in {"mark", "error"}, Save(r), Leave(r),
         told' = told, wanted' = wanted
  PROVE  CopyInv(r)' /\ Says(r)' /\ EstadoIsLastWanted'
<1>1. Working(r) /\ pc[r] \notin Unsaved /\ pc[r] # "insert" /\ CopyInv(r) /\ SaysSent
      /\ EstadoIsLastWanted
  BY DEF Working, Final, Unsaved, CopiesInv
<1>2. PICK b : b = Booking(r)
  OBVIOUS
<1>3. /\ b \in Range(todo[r]) /\ Copy(r) = copies[r][b]
      /\ todo[r] \in Seq(Bookings) /\ todo[r] # << >> /\ IsInjective(todo[r])
  BY <1>1, <1>2, WorkHas DEF Copy
<1>4. Says(r)'
  BY <1>1, SavedSays
<1>5. stale' = (IF Copy(r).at = version[Booking(r)] THEN stale ELSE stale \cup {Booking(r)})
  BY <1>1, SaveIs
<1>6. Range(todo[r]) \subseteq DOMAIN copies[r] /\ Range(todo[r]) \subseteq DOMAIN rows
  BY <1>1 DEF Shape, Shaped, Holding
<1>7. EstadoIsLastWanted'
  <2>1. ASSUME b \notin stale' PROVE Copy(r).estado = wanted'[b]
    <3>1. b \notin stale /\ Fresh(r, b)
      BY <1>2, <1>3, <1>5, <2>1 DEF Fresh
    <3>2. copies[r][b].estado = rows[b].estado
      BY <1>1, <1>3, <3>1 DEF CopyInv, Agrees
    <3> QED BY <1>3, <1>6, <1>1, <3>1, <3>2 DEF EstadoIsLastWanted
  <2> QED BY <1>1, <1>2, <2>1, EstadoSaved
<1>8. \/ pc'[r] = "ok"
      \/ pc'[r] = "confirm" /\ todo'[r] = Tail(todo[r])
  BY <1>1, LeaveIs
<1>9. CASE pc'[r] = "ok"
  BY <1>4, <1>7, <1>9 DEF CopyInv, Working, Final
<1>10. CASE pc'[r] = "confirm" /\ todo'[r] = Tail(todo[r])
  <2>1. /\ \A x \in DOMAIN rows \ {Booking(r)} : rows'[x] = rows[x]
        /\ \A x \in Bookings \ {Booking(r)} : version'[x] = version[x]
        /\ \A x \in DOMAIN copies[r] \ {Booking(r)} : copies'[r][x] = copies[r][x]
    BY <1>1, SaveIs
  <2>2. b \notin Range(Tail(todo[r])) /\ Range(Tail(todo[r])) \subseteq Range(todo[r])
    BY <1>2, <1>3, TailBookings DEF Booking
  <2>3. DOMAIN rows \subseteq Bookings
    BY DEF Shape, TypeOK
  <2>4. ASSUME NEW x \in Range(Tail(todo[r])), Fresh(r, x)' PROVE Agrees(r, x)'
    <3>1. /\ rows'[x] = rows[x] /\ version'[x] = version[x] /\ copies'[r][x] = copies[r][x]
          /\ x \in Range(todo[r])
      BY <1>2, <1>6, <2>1, <2>2, <2>3, <2>4
    <3>2. Fresh(r, x)
      BY <2>4, <3>1 DEF Fresh
    <3>3. Agrees(r, x) /\ ToTell(r, x)
      BY <1>1, <2>4, <3>1, <3>2 DEF CopyInv, ToTell
    <3> QED BY <1>1, <1>10, <3>1, <3>3 DEF Agrees, SameMessages, Unsaved
  <2>5. CopyInv(r)'
    BY <1>10, <2>4 DEF CopyInv, Unsaved
  <2> QED BY <1>4, <1>7, <2>5
<1> QED BY <1>8, <1>9, <1>10

LEMMA ConfirmationCopies ==
  ASSUME Shape, CopiesInv, NEW r \in Requests, Confirmacion(r)
  PROVE  CopyInv(r)' /\ Says(r)' /\ EstadoIsLastWanted'
<1>0. /\ CopyInv(r) /\ SaysSent /\ EstadoIsLastWanted /\ pc \in [Requests -> Steps]
      /\ copies = [q \in Requests |-> copies[q]] /\ told \in [Bookings -> Nat]
  BY DEF CopiesInv, Shape, TypeOK
<1> USE DEF Goto, ghosts
<1>1. ASSUME Working(r), Hold(r, Booking(r), Failed(Copy(r))),
             \A b \in Bookings : told[b] > 0 => told'[b] > 0
      PROVE  Says(r)'
  <2>1. /\ Booking(r) \in DOMAIN copies[r] /\ Copy(r) \in RowType
        /\ Copy(r) = copies[r][Booking(r)]
    BY <1>1, WorkHas DEF Copy
  <2>2. /\ DOMAIN copies'[r] = DOMAIN copies[r] \cup {Booking(r)}
        /\ copies'[r][Booking(r)] = Failed(Copy(r))
        /\ \A x \in DOMAIN copies[r] \ {Booking(r)} : copies'[r][x] = copies[r][x]
    BY <1>0, <1>1, HoldIs
  <2>3. Failed(Copy(r)).enviada = Copy(r).enviada
    BY <2>1, AttemptTypes
  <2>4. DOMAIN copies[r] \subseteq Bookings
    BY DEF Shape, TypeOK
  <2> QED BY <1>0, <1>1, <2>1, <2>2, <2>3, <2>4 DEF Says, SaysSent
<1>2. CASE Confirm(r)
  <2>1. pc[r] = "confirm" /\ Working(r) /\ UNCHANGED <<rows, version, todo, stale, wanted>>
    BY <1>2 DEF Confirm, Working, Final
  <2>2. \A b \in Bookings : told[b] > 0 => told'[b] > 0
    BY <1>2, ToldGrows DEF Serve, Confirmacion
  <2>3. EstadoIsLastWanted'
    BY <1>0, <2>1, EstadoKept DEF NoneSaved
  <2>4. CASE Hold(r, Booking(r), Failed(Copy(r))) /\ pc' = [pc EXCEPT ![r] = "error"]
    <3>1. pc'[r] = "error"
      BY <1>0, <2>4
    <3>2. CopyInv(r)'
      BY <1>0, <2>1, <2>4, <3>1, AttemptCopies
    <3> QED BY <1>1, <2>1, <2>2, <2>3, <2>4, <3>2
  <2>5. CASE ~(Hold(r, Booking(r), Failed(Copy(r))) /\ pc' = [pc EXCEPT ![r] = "error"])
    <3>1. /\ Hold(r, Booking(r), Marked(Copy(r))) /\ pc' = [pc EXCEPT ![r] = "mark"]
          /\ told' = [told EXCEPT ![Booking(r)] = @ + 1]
      BY <1>2, <2>5 DEF Confirm
    <3>2. pc'[r] = "mark"
      BY <1>0, <3>1
    <3>3. CopyInv(r)'
      BY <1>0, <2>1, <3>1, <3>2, AttemptCopies
    <3>4. Booking(r) \in Bookings
      BY <2>1, WorkHas
    <3>5. \A k \in Nat : k + 1 > 0
      OBVIOUS
    <3>6. told'[Booking(r)] > 0
      BY <1>0, <3>1, <3>4, <3>5
    <3>7. /\ DOMAIN copies'[r] = DOMAIN copies[r] \cup {Booking(r)}
          /\ \A x \in DOMAIN copies[r] \ {Booking(r)} : copies'[r][x] = copies[r][x]
      BY <1>0, <3>1, HoldIs
    <3>8. DOMAIN copies[r] \subseteq Bookings
      BY DEF Shape, TypeOK
    <3>9. Says(r)'
      BY <1>0, <2>2, <3>6, <3>7, <3>8 DEF Says, SaysSent
    <3> QED BY <2>3, <3>3, <3>9
  <2> QED BY <2>4, <2>5
<1>3. CASE Mark(r)
  <2>1. pc[r] = "mark" /\ Working(r) /\ told' = told
    BY <1>3 DEF Mark, Working, Final
  <2>2. CASE Save(r) /\ Leave(r)
    <3>1. wanted' = wanted
      BY <1>3 DEF Mark
    <3> QED BY <2>1, <2>2, <3>1, RecordedCopies
  <2>3. CASE ~(Save(r) /\ Leave(r))
    <3>1. /\ Hold(r, Booking(r), Failed(Copy(r))) /\ pc' = [pc EXCEPT ![r] = "error"]
          /\ UNCHANGED <<rows, version, todo, stale, wanted>>
      BY <1>3, <2>3 DEF Mark
    <3>2. pc'[r] = "error"
      BY <1>0, <3>1
    <3>3. CopyInv(r)'
      BY <1>0, <2>1, <3>1, <3>2, AttemptCopies
    <3>4. EstadoIsLastWanted'
      BY <1>0, <3>1, EstadoKept DEF NoneSaved
    <3> QED BY <1>1, <2>1, <3>1, <3>3, <3>4
  <2> QED BY <2>2, <2>3
<1>4. CASE RecordError(r)
  BY <1>4, RecordedCopies DEF RecordError
<1> QED BY <1>2, <1>3, <1>4 DEF Confirmacion

LEMMA EditCopies ==
  ASSUME Shape, CopiesInv, NEW r \in Requests, ActualizarEstado(r)
  PROVE  CopyInv(r)' /\ Says(r)' /\ EstadoIsLastWanted'
<1>0. /\ CopyInv(r) /\ SaysSent /\ EstadoIsLastWanted /\ pc \in [Requests -> Steps]
      /\ todo = [q \in Requests |-> todo[q]] /\ wanted \in [Bookings -> Estados \cup {""}]
  BY DEF CopiesInv, Shape, TypeOK
<1>e. pc'[r] \in Final => CopyInv(r)'
  BY DEF CopyInv, Working
<1> USE DEF Goto, ghosts
<1>1. CASE Read(r)
  <2>1. r \in Edits /\ NoneSaved /\ wanted' = wanted /\ told' = told
    BY <1>1 DEF Read, NoneSaved
  <2>2. EstadoIsLastWanted'
    BY <1>0, <2>1, EstadoKept
  <2>3. CASE BookingOf[r] \in DOMAIN rows
    <3>1. /\ pc'[r] = "set" /\ todo'[r] = <<BookingOf[r]>>
          /\ Hold(r, BookingOf[r], [rows[BookingOf[r]] EXCEPT !.estado = Wanted(r),
                                                              !.at = version[BookingOf[r]]])
      BY <1>0, <1>1, <2>3 DEF Read
    <3>2. UNCHANGED <<rows, version, told>>
      BY <2>1 DEF NoneSaved
    <3> QED BY <1>0, <2>1, <2>2, <2>3, <3>1, <3>2, ReadCopies
  <2>4. CASE BookingOf[r] \notin DOMAIN rows
    <3>1. pc'[r] \in Final /\ copies' = copies
      BY <1>0, <1>1, <2>4 DEF Read, Final
    <3>2. Says(r)'
      BY <1>0, <2>1, <3>1, KeptSays
    <3> QED BY <1>e, <2>2, <3>1, <3>2
  <2> QED BY <2>3, <2>4
<1>2. CASE Set(r)
  <2>1. pc[r] = "set" /\ Working(r) /\ r \in Edits /\ r \notin Retries /\ told' = told
        /\ todo' = todo /\ Save(r) /\ wanted' = [wanted EXCEPT ![Booking(r)] = Wanted(r)]
    BY <1>2, Roles DEF Set, Working, Final
  <2>2. Booking(r) \in Bookings /\ Booking(r) \in Range(todo[r])
    BY <2>1, WorkHas
  <2>3. Copy(r).estado = Wanted(r)
    BY <1>0, <2>1, <2>2 DEF CopyInv, Copy, Unsaved
  <2>4. Says(r)' /\ EstadoIsLastWanted'
    BY <1>0, <2>1, <2>2, <2>3, SavedSays, EstadoSaved
  <2>5. pc'[r] = "edited"
    BY <1>0, <1>2 DEF Set
  <2> QED BY <2>1, <2>4, <2>5, SaveCopies
<1>3. CASE LogEdited(r)
  <2>1. pc'[r] \in Final /\ copies' = copies /\ told' = told /\ NoneSaved /\ wanted' = wanted
    BY <1>0, <1>3 DEF LogEdited, NoneSaved, Final
  <2> QED BY <1>0, <1>e, <2>1, KeptSays, EstadoKept
<1> QED BY <1>1, <1>2, <1>3 DEF ActualizarEstado

\* The copies of a retry are fresh, and of turns not yet told.
LEMMA ListCopies ==
  ASSUME Shape, CopiesInv, NEW r \in Requests, List(r)
  PROVE  CopyInv(r)' /\ Says(r)' /\ EstadoIsLastWanted'
<1>0. /\ SaysSent /\ EstadoIsLastWanted /\ pc \in [Requests -> Steps]
      /\ copies = [q \in Requests |-> copies[q]] /\ todo = [q \in Requests |-> todo[q]]
  BY DEF CopiesInv, Shape, TypeOK
<1>1. NoneSaved /\ wanted' = wanted /\ told' = told
  BY DEF List, ghosts, NoneSaved
<1>2. copies'[r] = [b \in SinNotificar |-> [rows[b] EXCEPT !.at = version[b]]]
  BY <1>0 DEF List
<1>3. pc'[r] \in {"ok", "confirm"}
  BY <1>0 DEF List, Goto
<1>4. PICK s \in SetToSeqs(SinNotificar) : todo' = [todo EXCEPT ![r] = s]
  BY DEF List
<1>5. IsFiniteSet(SinNotificar) /\ SinNotificar \subseteq DOMAIN rows
  BY FS_Subset DEF SinNotificar, Shape
<1>6. Range(s) \subseteq SinNotificar
  BY <1>5, ListIs
<1>7. todo'[r] = s
  BY <1>0, <1>4
<1>8. ASSUME NEW b \in SinNotificar
      PROVE  /\ ~rows[b].enviada /\ copies'[r][b].enviada = rows[b].enviada
             /\ copies'[r][b].estado = rows[b].estado
             /\ copies'[r][b].intentos = rows[b].intentos
  <2>1. rows[b] \in RowType
    BY <1>5 DEF Shape, TypeOK
  <2> QED BY <1>2, <2>1 DEF RowType, SinNotificar
<1>9. Says(r)'
  BY <1>2, <1>8 DEF Says
<1>10. EstadoIsLastWanted'
  BY <1>0, <1>1, EstadoKept
<1>11. CopyInv(r)'
  BY <1>1, <1>3, <1>6, <1>7, <1>8
     DEF CopyInv, Working, Final, Unsaved, Agrees, SameMessages, NoneSaved
<1> QED BY <1>9, <1>10, <1>11

LEMMA FailCopies ==
  ASSUME Shape, CopiesInv, NEW r \in Requests, Fail(r)
  PROVE  CopyInv(r)' /\ Says(r)' /\ EstadoIsLastWanted'
<1>0. SaysSent /\ EstadoIsLastWanted /\ pc \in [Requests -> Steps]
  BY DEF CopiesInv, Shape, TypeOK
<1>1. pc'[r] \in Final /\ copies' = copies /\ told' = told /\ NoneSaved /\ wanted' = wanted
  BY <1>0 DEF Fail, Goto, NoneSaved, Final, ghosts
<1>2. CopyInv(r)'
  BY <1>1 DEF CopyInv, Working
<1> QED BY <1>0, <1>1, <1>2, KeptSays, EstadoKept

LEMMA CopiesStep == ASSUME Shape, CopiesInv, [Next]_vars PROVE CopiesInv'
<1>1. ASSUME NEW r \in Requests, Serve(r) \/ Fail(r) PROVE CopiesInv'
  <2>1. CopyInv(r)' /\ Says(r)' /\ EstadoIsLastWanted'
    BY <1>1, WebhookCopies, ConfirmationCopies, EditCopies, ListCopies, FailCopies DEF Serve
  <2>2. Moves(r) /\ \A q \in Requests \ {r} : before'[q] = before[q]
    BY <1>1, RequestMoves, StepFrames
  <2>3. \A b \in Bookings : told[b] > 0 => told'[b] > 0
    BY <1>1, ToldGrows
  <2>4. SaysSent'
    BY <2>1, <2>2, <2>3, SaysSentKept DEF Says, CopiesInv
  <2>5. \A q \in Requests : CopyInv(q)'
    <3>1. ASSUME NEW q \in Requests \ {r} PROVE CopyInv(q)'
      BY <2>2, <3>1, OthersCopies DEF CopiesInv
    <3> QED BY <2>1, <3>1
  <2> QED BY <2>1, <2>4, <2>5 DEF CopiesInv
<1>2. CASE Crash
  <2>1. UNCHANGED <<rows, copies, told, stale, wanted>>
    BY <1>2 DEF Crash, ghosts
  <2>2. \A r \in Requests : pc'[r] \in Final
    BY <1>2 DEF Crash, Final
  <2>3. SaysSent' /\ EstadoIsLastWanted'
    BY <2>1 DEF CopiesInv, SaysSent, EnviadaWasTold, EstadoIsLastWanted
  <2>4. \A r \in Requests : CopyInv(r)'
    BY <2>2 DEF CopyInv, Working
  <2> QED BY <2>3, <2>4 DEF CopiesInv
<1>3. CASE UNCHANGED vars
  <2>1. UNCHANGED <<rows, pc, copies, todo, before, told, version, stale, wanted>>
    BY <1>3 DEF vars, ghosts
  <2>2. SaysSent' /\ EstadoIsLastWanted'
    BY <2>1 DEF CopiesInv, SaysSent, EnviadaWasTold, EstadoIsLastWanted
  <2>3. \A r \in Requests : CopyInv(r)'
    BY <2>1 DEF CopiesInv, CopyInv, Working, Fresh, Agrees, SameMessages, ToTell, Booking
  <2> QED BY <2>2, <2>3 DEF CopiesInv
<1> QED BY <1>1, <1>2, <1>3 DEF Next

LEMMA CopiesInit == Init => CopiesInv
<1> SUFFICES ASSUME Init PROVE CopiesInv
  OBVIOUS
<1>1. DOMAIN << >> = {}
  OBVIOUS
<1>2. DOMAIN rows = {} /\ \A r \in Requests : pc[r] = "new" /\ DOMAIN copies[r] = {}
  BY <1>1 DEF Init
<1> QED BY <1>2 DEF CopiesInv, CopyInv, Working, Final, SaysSent, EnviadaWasTold, EstadoIsLastWanted

----------------------------------------------------------------------------
(* The budget of confirmations *)

Chance(r, b) == ToTell(r, b) \/ (r \in Retries /\ pc[r] = "new")

\* A step of r about b: it uses no chance, uses one, or creates the turn and with it a chance.
Unspent(r, b) == (Chance(r, b)' => Chance(r, b)) /\ told'[b] = told[b]
Spent(r, b)   == /\ Chance(r, b) /\ ~Chance(r, b)'
                 /\ told'[b] = told[b] \/ told'[b] = told[b] + 1
Opened(r, b)  == /\ ~Chance(r, b) /\ told'[b] = told[b]
                 /\ b \notin DOMAIN rows /\ b \in DOMAIN rows'

LEMMA ChanceOf ==
  ASSUME Shape, NEW r \in Requests, Serve(r) \/ Fail(r), NEW b \in Bookings
  PROVE  Unspent(r, b) \/ Spent(r, b) \/ Opened(r, b)
<1>0. /\ pc \in [Requests -> Steps] /\ told \in [Bookings -> Nat]
      /\ todo = [q \in Requests |-> todo[q]]
  BY DEF Shape, TypeOK
<1>1. ~Confirm(r) => told' = told
  BY StepFrames
<1>n. ASSUME ~Confirm(r), ~(r \in Retries /\ pc'[r] = "new"),
             pc'[r] \notin {"created", "confirm", "mark", "error"}
      PROVE  Unspent(r, b)
  BY <1>1, <1>n DEF Unspent, Chance, ToTell
<1>t. ASSUME pc[r] \in {"confirm", "mark", "error"}
      PROVE  /\ Range(Tail(todo[r])) \subseteq Range(todo[r])
             /\ Booking(r) \in Range(todo[r]) /\ Booking(r) \notin Range(Tail(todo[r]))
             /\ Booking(r) \in Bookings
  <2>1. Working(r)
    BY <1>t DEF Working, Final
  <2>2. todo[r] \in Seq(Bookings) /\ todo[r] # << >> /\ IsInjective(todo[r])
    BY <2>1, WorkHas
  <2> QED BY <2>2, TailBookings DEF Booking
<1> USE DEF Goto
<1>2. CASE Find(r) \/ Read(r)
  <2>1. r \notin Retries /\ pc'[r] \in {"update", "insert", "set", "404"} /\ ~Confirm(r)
    BY <1>0, <1>2, Roles DEF Find, Read, Confirm
  <2> QED BY <1>n, <2>1
<1>3. CASE Insert(r)
  <2>1. pc[r] = "insert" /\ ~Confirm(r) /\ r \notin Retries /\ todo' = todo /\ Working(r)
    BY <1>3, Roles DEF Insert, Confirm, Working, Final
  <2>2. CASE Booking(r) \in DOMAIN rows
    <3>1. pc'[r] = "500"
      BY <1>0, <1>3, <2>2 DEF Insert
    <3> QED BY <1>n, <2>1, <3>1
  <2>3. CASE Booking(r) \notin DOMAIN rows
    <3>1. pc'[r] = "created" /\ Save(r)
      BY <1>0, <1>3, <2>3 DEF Insert
    <3>2. DOMAIN rows' = DOMAIN rows \cup {Booking(r)}
      BY <2>1, <3>1, SaveIs
    <3>3. Range(todo[r]) = {Booking(r)}
      BY <2>1, WorkHas
    <3>4. CASE b = Booking(r)
      BY <1>1, <2>1, <2>3, <3>2, <3>4 DEF Opened, Chance, ToTell
    <3>5. CASE b # Booking(r)
      BY <1>1, <2>1, <3>1, <3>3, <3>5 DEF Unspent, Chance, ToTell
    <3> QED BY <3>4, <3>5
  <2> QED BY <2>2, <2>3
<1>4. CASE Update(r) \/ LogChanged(r) \/ Cancel(r) \/ Set(r) \/ LogEdited(r)
  <2>1. /\ pc'[r] \in {"ok", "changed", "cancel", "edited"}
        /\ pc[r] \in {"update", "changed", "cancel", "set", "edited"}
    BY <1>0, <1>4 DEF Update, LogChanged, Cancel, Set, LogEdited
  <2> QED BY <1>n, <2>1 DEF Confirm
<1>5. CASE LogCreated(r)
  <2>1. pc[r] = "created" /\ pc'[r] = "confirm" /\ todo' = todo /\ ~Confirm(r)
    BY <1>0, <1>5 DEF LogCreated, Confirm
  <2> QED BY <1>1, <2>1 DEF Unspent, Chance, ToTell
<1>6. CASE Confirm(r)
  <2>1. pc[r] = "confirm" /\ pc'[r] \in {"mark", "error"} /\ todo' = todo
    BY <1>0, <1>6 DEF Confirm
  <2>2. told' = told \/ \E n \in {0, 1} : told' = [told EXCEPT ![Booking(r)] = @ + n]
    BY <1>6 DEF Confirm
  <2>3. \A n \in {0, 1} : \A k \in Nat : k + n = k \/ k + n = k + 1
    OBVIOUS
  <2>4. CASE b = Booking(r)
    <3>1. told'[b] = told[b] \/ told'[b] = told[b] + 1
      BY <1>0, <2>2, <2>3, <2>4
    <3> QED BY <1>t, <2>1, <2>4, <3>1 DEF Spent, Chance, ToTell
  <2>5. CASE b # Booking(r)
    <3>1. told'[b] = told[b]
      BY <1>0, <2>2, <2>5
    <3> QED BY <1>t, <2>1, <3>1 DEF Unspent, Chance, ToTell
  <2> QED BY <2>4, <2>5
<1>7. CASE Mark(r) \/ RecordError(r)
  <2>1. pc[r] \in {"mark", "error"} /\ ~Confirm(r) /\ Working(r)
    BY <1>7 DEF Mark, RecordError, Confirm, Working, Final
  <2>2. CASE Leave(r)
    <3>1. pc'[r] = "ok" \/ (pc'[r] = "confirm" /\ todo'[r] = Tail(todo[r]))
      BY <2>1, <2>2, LeaveIs
    <3> QED BY <1>1, <1>n, <2>1, <3>1 DEF Unspent, Chance, ToTell
  <2>3. CASE ~Leave(r)
    <3>1. pc'[r] = "error" /\ todo' = todo
      BY <1>0, <1>7, <2>3 DEF Mark, RecordError
    <3> QED BY <1>1, <2>1, <3>1 DEF Unspent, Chance, ToTell
  <2> QED BY <2>2, <2>3
<1>8. CASE List(r)
  <2>1. r \in Retries /\ pc[r] = "new" /\ ~Confirm(r)
    BY <1>8 DEF List, Confirm
  <2> QED BY <1>1, <2>1 DEF Unspent, Chance
<1>9. CASE Fail(r)
  <2>1. pc'[r] = "500" /\ ~Confirm(r)
    BY <1>0, <1>9 DEF Fail, Confirm
  <2> QED BY <1>n, <2>1
<1> QED BY <1>2, <1>3, <1>4, <1>5, <1>6, <1>7, <1>8, <1>9
        DEF Serve, ProcesarWebhook, Confirmacion, ActualizarEstado

LEMMA BudgetStep == ASSUME Shape, BudgetInv, [Next]_vars PROVE BudgetInv'
<1>0. /\ told \in [Bookings -> Nat]
      /\ \A b \in Bookings : Chances(b) = {r \in Requests : Chance(r, b)}
      /\ Cardinality(Retries) \in Nat
  BY AmeliaAssumption, FS_CardinalityType DEF Shape, TypeOK, Chances, Chance
<1>1. ASSUME NEW r \in Requests, Serve(r) \/ Fail(r), NEW b \in Bookings
      PROVE  /\ IsFiniteSet(Chances(b)')
             /\ told'[b] + Cardinality(Chances(b)') + (IF b \in DOMAIN rows' THEN 0 ELSE 1)
                  <= 1 + Cardinality(Retries)
  <2>1. OnlyMoves(r) /\ DOMAIN rows \subseteq DOMAIN rows'
    BY <1>1, RequestMoves DEF Moves, NoneSaved, Saved
  <2>2. \A q \in Requests \ {r} : Chance(q, b)' <=> Chance(q, b)
    BY <2>1 DEF OnlyMoves, Chance, ToTell
  <2>3. PICK C : C = Chances(b)
    OBVIOUS
  <2>4. PICK D : D = Chances(b)'
    OBVIOUS
  <2>5. C = {q \in Requests : Chance(q, b)}
    BY <1>0, <2>3
  <2>6. D = {q \in Requests : Chance(q, b)'}
    BY <2>4 DEF Chances, Chance
  <2>7. IsFiniteSet(C) /\ Cardinality(C) \in Nat
    BY <2>3, FS_CardinalityType DEF BudgetInv
  <2>8. told[b] + Cardinality(C) + (IF b \in DOMAIN rows THEN 0 ELSE 1) <= 1 + Cardinality(Retries)
    BY <2>3 DEF BudgetInv
  <2>9. told[b] \in Nat
    BY <1>0
  <2>10. CASE Unspent(r, b)
    <3>1. D \subseteq C /\ told'[b] = told[b]
      BY <2>2, <2>5, <2>6, <2>10 DEF Unspent
    <3>2. IsFiniteSet(D) /\ Cardinality(D) <= Cardinality(C) /\ Cardinality(D) \in Nat
      BY <2>7, <3>1, FS_Subset, FS_CardinalityType
    <3>3. \A t, c, d, n \in Nat : \A u, v \in {0, 1} :
            t + c + u <= 1 + n /\ d <= c /\ v <= u => t + d + v <= 1 + n
      OBVIOUS
    <3>4. (IF b \in DOMAIN rows' THEN 0 ELSE 1) <= (IF b \in DOMAIN rows THEN 0 ELSE 1)
      BY <2>1
    <3>5. told[b] + Cardinality(D) + (IF b \in DOMAIN rows' THEN 0 ELSE 1) <= 1 + Cardinality(Retries)
      BY <1>0, <2>7, <2>8, <2>9, <3>2, <3>3, <3>4
    <3> QED BY <2>4, <3>1, <3>2, <3>5
  <2>11. CASE Spent(r, b)
    <3>1. D \subseteq C \ {r} /\ r \in C
      BY <2>2, <2>5, <2>6, <2>11 DEF Spent
    <3>2. IsFiniteSet(C \ {r}) /\ Cardinality(C \ {r}) = Cardinality(C) - 1
      BY <2>7, <3>1, FS_RemoveElement
    <3>3. IsFiniteSet(D) /\ Cardinality(D) <= Cardinality(C \ {r}) /\ Cardinality(D) \in Nat
      BY <3>1, <3>2, FS_Subset, FS_CardinalityType
    <3>4. Cardinality(D) + 1 <= Cardinality(C)
      BY <2>7, <3>2, <3>3
    <3>5. \A t, c, d, n \in Nat : \A u, v \in {0, 1} :
            t + c + u <= 1 + n /\ d + 1 <= c /\ v <= u =>
              t + d + v <= 1 + n /\ (t + 1) + d + v <= 1 + n
      OBVIOUS
    <3>6. (IF b \in DOMAIN rows' THEN 0 ELSE 1) <= (IF b \in DOMAIN rows THEN 0 ELSE 1)
      BY <2>1
    <3>7. /\ told[b] + Cardinality(D) + (IF b \in DOMAIN rows' THEN 0 ELSE 1)
               <= 1 + Cardinality(Retries)
          /\ (told[b] + 1) + Cardinality(D) + (IF b \in DOMAIN rows' THEN 0 ELSE 1)
               <= 1 + Cardinality(Retries)
      BY <1>0, <2>7, <2>8, <2>9, <3>3, <3>4, <3>5, <3>6
    <3> QED BY <2>4, <2>11, <3>3, <3>7 DEF Spent
  <2>12. CASE Opened(r, b)
    <3>1. D \subseteq C \cup {r}
      BY <2>2, <2>5, <2>6
    <3>2. IsFiniteSet(C \cup {r}) /\ Cardinality(C \cup {r}) = Cardinality(C) + 1
      BY <2>5, <2>7, <2>12, FS_AddElement DEF Opened
    <3>3. IsFiniteSet(D) /\ Cardinality(D) <= Cardinality(C) + 1 /\ Cardinality(D) \in Nat
      BY <3>1, <3>2, FS_Subset, FS_CardinalityType
    <3>4. \A t, c, d, n \in Nat : t + c + 1 <= 1 + n /\ d <= c + 1 => t + d + 0 <= 1 + n
      OBVIOUS
    <3>5. told[b] + Cardinality(C) + 1 <= 1 + Cardinality(Retries)
      BY <2>8, <2>12 DEF Opened
    <3>6. told[b] + Cardinality(D) + 0 <= 1 + Cardinality(Retries)
      BY <1>0, <2>7, <2>9, <3>3, <3>4, <3>5
    <3> QED BY <2>4, <2>12, <3>3, <3>6 DEF Opened
  <2> QED BY <1>1, <2>10, <2>11, <2>12, ChanceOf
<1>2. ASSUME Crash, NEW b \in Bookings
      PROVE  /\ IsFiniteSet(Chances(b)')
             /\ told'[b] + Cardinality(Chances(b)') + (IF b \in DOMAIN rows' THEN 0 ELSE 1)
                  <= 1 + Cardinality(Retries)
  <2>1. told' = told /\ rows' = rows
    BY <1>2 DEF Crash
  <2>2. PICK C : C = Chances(b)
    OBVIOUS
  <2>3. PICK D : D = Chances(b)'
    OBVIOUS
  <2>4. D \subseteq C
    BY <1>2, <2>2, <2>3 DEF Crash, Chances, ToTell, Final
  <2>5. IsFiniteSet(C) /\ Cardinality(C) \in Nat
    BY <2>2, FS_CardinalityType DEF BudgetInv
  <2>6. IsFiniteSet(D) /\ Cardinality(D) <= Cardinality(C) /\ Cardinality(D) \in Nat
    BY <2>4, <2>5, FS_Subset, FS_CardinalityType
  <2>7. \A t, c, d, n \in Nat : \A u \in {0, 1} :
          t + c + u <= 1 + n /\ d <= c => t + d + u <= 1 + n
    OBVIOUS
  <2>8. told[b] + Cardinality(C) + (IF b \in DOMAIN rows THEN 0 ELSE 1) <= 1 + Cardinality(Retries)
    BY <2>2 DEF BudgetInv
  <2>9. told[b] \in Nat
    BY <1>0
  <2>10. told[b] + Cardinality(D) + (IF b \in DOMAIN rows THEN 0 ELSE 1) <= 1 + Cardinality(Retries)
    BY <1>0, <2>5, <2>6, <2>7, <2>8, <2>9
  <2> QED BY <2>1, <2>3, <2>6, <2>10
<1>3. CASE UNCHANGED vars
  BY <1>3 DEF BudgetInv, Chances, ToTell, vars
<1> QED BY <1>1, <1>2, <1>3 DEF BudgetInv, Next

LEMMA BudgetInit == Init => BudgetInv
<1> SUFFICES ASSUME Init, NEW b \in Bookings
    PROVE  /\ IsFiniteSet(Chances(b))
           /\ told[b] + Cardinality(Chances(b)) + (IF b \in DOMAIN rows THEN 0 ELSE 1)
                <= 1 + Cardinality(Retries)
  BY DEF BudgetInv
<1>1. \A r \in Requests : pc[r] = "new"
  BY DEF Init
<1>2. Chances(b) = Retries
  BY <1>1 DEF Chances, ToTell, Requests
<1>3. told[b] = 0
  BY DEF Init
<1>4. IsFiniteSet(Retries) /\ Cardinality(Retries) \in Nat
  BY AmeliaAssumption, FS_CardinalityType
<1>5. \A n \in Nat : \A u \in {0, 1} : 0 + n + u <= 1 + n
  OBVIOUS
<1> QED BY <1>2, <1>3, <1>4, <1>5

----------------------------------------------------------------------------
(* The cancellations that were told *)

Owes(r, b) == /\ r \in Hooks /\ pc[r] \in {"changed", "cancel"} /\ Booking(r) = b
              /\ Wanted(r) = "CANCELADO"

\* A step of r about b: nothing more is owed, it is told, or a cancellation is saved.
NothingOwed(r, b) == /\ Owes(r, b)' => Owes(r, b)
                     /\ apologies'[b] = apologies[b]
                     /\ turned'[b] = turned[b] \/ turned'[b] = turned[b] + 1
Apologized(r, b)  == /\ Owes(r, b) /\ ~Owes(r, b)' /\ turned'[b] = turned[b]
                     /\ apologies'[b] = apologies[b] \/ apologies'[b] = apologies[b] + 1
Cancelled(r, b)   == /\ ~Owes(r, b) /\ apologies'[b] = apologies[b]
                     /\ b \notin stale' => turned'[b] = turned[b] + 1

LEMMA OwedOf ==
  ASSUME Shape, CopiesInv, NEW r \in Requests, Serve(r) \/ Fail(r), NEW b \in Bookings
  PROVE  NothingOwed(r, b) \/ Apologized(r, b) \/ Cancelled(r, b)
<1>0. /\ pc \in [Requests -> Steps] /\ apologies \in [Bookings -> Nat]
      /\ turned \in [Bookings -> Nat]
  BY DEF Shape, TypeOK
<1>1. (~Cancel(r) => apologies' = apologies) /\ (~Update(r) => turned' = turned)
  BY StepFrames
<1>n. ASSUME ~Cancel(r), ~Update(r), pc'[r] \notin {"changed", "cancel"} PROVE NothingOwed(r, b)
  BY <1>1, <1>n DEF NothingOwed, Owes
<1> USE DEF Goto
<1>2. CASE Update(r)
  <2>1. pc[r] = "update" /\ Working(r) /\ Save(r) /\ todo' = todo /\ apologies' = apologies
    BY <1>2 DEF Update, Working, Final
  <2>2. ~Owes(r, b)
    BY <2>1 DEF Owes
  <2>3. turned'[b] = turned[b] \/ turned'[b] = turned[b] + 1
    BY <1>0, <1>2 DEF Update
  <2>4. CASE ~Owes(r, b)'
    BY <2>1, <2>3, <2>4 DEF NothingOwed
  <2>5. CASE Owes(r, b)'
    <3>1. b = Booking(r) /\ Wanted(r) = "CANCELADO" /\ pc'[r] = "changed"
      BY <1>0, <1>2, <2>1, <2>5 DEF Owes, Booking, Update, Wanted
    <3>2. before[r] # "CANCELADO"
      BY <1>0, <1>2, <3>1 DEF Update
    <3>3. stale' = (IF Copy(r).at = version[Booking(r)] THEN stale ELSE stale \cup {Booking(r)})
      BY <2>1, SaveIs
    <3>4. ASSUME b \notin stale' PROVE turned'[b] = turned[b] + 1
      <4>1. Fresh(r, b)
        BY <3>1, <3>3, <3>4 DEF Fresh, Copy
      <4>2. b \in Range(todo[r])
        BY <2>1, <3>1, WorkHas
      <4>3. before[r] = rows[b].estado
        BY <2>1, <4>1, <4>2 DEF CopiesInv, CopyInv, Agrees
      <4> QED BY <1>0, <1>2, <3>1, <3>2, <4>3 DEF Update
    <3> QED BY <2>1, <2>2, <3>4 DEF Cancelled
  <2> QED BY <2>4, <2>5
<1>3. CASE Cancel(r)
  <2>1. /\ pc[r] = "cancel" /\ Working(r) /\ pc'[r] = "ok" /\ ~Update(r)
    BY <1>0, <1>3 DEF Cancel, Update, Working, Final
  <2>2. turned' = turned /\ ~Owes(r, b)'
    BY <1>1, <2>1 DEF Owes
  <2>3. r \in Hooks /\ Wanted(r) = "CANCELADO"
    BY <2>1, Roles
  <2>4. CASE b = Booking(r)
    <3>1. apologies'[b] = apologies[b] \/ apologies'[b] = apologies[b] + 1
      BY <1>0, <1>3, <2>4 DEF Cancel
    <3> QED BY <2>1, <2>2, <2>3, <2>4, <3>1 DEF Apologized, Owes
  <2>5. CASE b # Booking(r)
    <3>1. apologies'[b] = apologies[b]
      BY <1>0, <1>3, <2>5 DEF Cancel
    <3> QED BY <2>2, <3>1 DEF NothingOwed
  <2> QED BY <2>4, <2>5
<1>4. CASE LogChanged(r)
  <2>1. pc[r] = "changed" /\ todo' = todo /\ ~Cancel(r) /\ ~Update(r)
    BY <1>4 DEF LogChanged, Cancel, Update
  <2>2. Owes(r, b)' => Owes(r, b)
    BY <2>1 DEF Owes, Booking, Wanted
  <2> QED BY <1>1, <2>1, <2>2 DEF NothingOwed
<1>5. CASE Find(r) \/ Insert(r) \/ LogCreated(r)
  <2>1. pc'[r] \notin {"changed", "cancel"} /\ ~Cancel(r) /\ ~Update(r)
    BY <1>0, <1>5 DEF Find, Insert, LogCreated, Cancel, Update
  <2> QED BY <1>n, <2>1
<1>6. CASE Confirm(r) \/ Mark(r) \/ RecordError(r)
  <2>1. pc'[r] \notin {"changed", "cancel"} /\ ~Cancel(r) /\ ~Update(r)
    BY <1>0, <1>6 DEF Confirm, Mark, RecordError, Leave, Cancel, Update
  <2> QED BY <1>n, <2>1
<1>7. CASE Read(r) \/ Set(r) \/ LogEdited(r) \/ List(r) \/ Fail(r)
  <2>1. pc'[r] \notin {"changed", "cancel"}
    BY <1>0, <1>7 DEF Read, Set, LogEdited, List, Fail
  <2>2. CASE ~Cancel(r) /\ ~Update(r)
    BY <1>n, <2>1, <2>2
  <2> QED BY <1>2, <1>3, <2>2
<1> QED BY <1>2, <1>3, <1>4, <1>5, <1>6, <1>7
        DEF Serve, ProcesarWebhook, Confirmacion, ActualizarEstado

LEMMA ApologyStep == ASSUME Shape, CopiesInv, ApologyInv, [Next]_vars PROVE ApologyInv'
<1>0. /\ apologies \in [Bookings -> Nat] /\ turned \in [Bookings -> Nat]
      /\ \A b \in Bookings : Apologizing(b) = {r \in Requests : Owes(r, b)}
  BY DEF Shape, TypeOK, Apologizing, Owes, Requests
<1>1. ASSUME NEW r \in Requests, Serve(r) \/ Fail(r), NEW b \in Bookings
      PROVE  /\ IsFiniteSet(Apologizing(b)')
             /\ b \notin stale' => apologies'[b] + Cardinality(Apologizing(b)') <= turned'[b]
  <2>1. OnlyMoves(r) /\ stale \subseteq stale'
    BY <1>1, RequestMoves DEF Moves, NoneSaved, Saved
  <2>2. \A q \in Requests \ {r} : Owes(q, b)' <=> Owes(q, b)
    BY <2>1 DEF OnlyMoves, Owes, Booking, Wanted
  <2>3. PICK C : C = Apologizing(b)
    OBVIOUS
  <2>4. PICK D : D = Apologizing(b)'
    OBVIOUS
  <2>5. C = {q \in Requests : Owes(q, b)}
    BY <1>0, <2>3
  <2>6. D = {q \in Requests : Owes(q, b)'}
    BY <2>4 DEF Apologizing, Owes, Requests
  <2>7. IsFiniteSet(C) /\ Cardinality(C) \in Nat
    BY <2>3, FS_CardinalityType DEF ApologyInv
  <2>8. b \notin stale' => apologies[b] + Cardinality(C) <= turned[b]
    BY <2>1, <2>3 DEF ApologyInv
  <2>9. apologies[b] \in Nat /\ turned[b] \in Nat
    BY <1>0
  <2>10. CASE NothingOwed(r, b)
    <3>1. D \subseteq C
      BY <2>2, <2>5, <2>6, <2>10 DEF NothingOwed
    <3>2. IsFiniteSet(D) /\ Cardinality(D) <= Cardinality(C) /\ Cardinality(D) \in Nat
      BY <2>7, <3>1, FS_Subset, FS_CardinalityType
    <3>3. \A a, c, d, t \in Nat : a + c <= t /\ d <= c => a + d <= t /\ a + d <= t + 1
      OBVIOUS
    <3>4. b \notin stale' => /\ apologies[b] + Cardinality(D) <= turned[b]
                             /\ apologies[b] + Cardinality(D) <= turned[b] + 1
      BY <2>7, <2>8, <2>9, <3>2, <3>3
    <3> QED BY <2>4, <2>10, <3>2, <3>4 DEF NothingOwed
  <2>11. CASE Apologized(r, b)
    <3>1. D \subseteq C \ {r} /\ r \in C
      BY <2>2, <2>5, <2>6, <2>11 DEF Apologized
    <3>2. IsFiniteSet(C \ {r}) /\ Cardinality(C \ {r}) = Cardinality(C) - 1
      BY <2>7, <3>1, FS_RemoveElement
    <3>3. IsFiniteSet(D) /\ Cardinality(D) <= Cardinality(C \ {r}) /\ Cardinality(D) \in Nat
      BY <3>1, <3>2, FS_Subset, FS_CardinalityType
    <3>4. Cardinality(D) + 1 <= Cardinality(C)
      BY <2>7, <3>2, <3>3
    <3>5. \A a, c, d, t \in Nat : a + c <= t /\ d + 1 <= c => a + d <= t /\ (a + 1) + d <= t
      OBVIOUS
    <3>6. b \notin stale' => /\ apologies[b] + Cardinality(D) <= turned[b]
                             /\ (apologies[b] + 1) + Cardinality(D) <= turned[b]
      BY <2>7, <2>8, <2>9, <3>3, <3>4, <3>5
    <3> QED BY <2>4, <2>11, <3>3, <3>6 DEF Apologized
  <2>12. CASE Cancelled(r, b)
    <3>1. D \subseteq C \cup {r} /\ r \notin C
      BY <2>2, <2>5, <2>6, <2>12 DEF Cancelled
    <3>2. IsFiniteSet(C \cup {r}) /\ Cardinality(C \cup {r}) = Cardinality(C) + 1
      BY <2>7, <3>1, FS_AddElement
    <3>3. IsFiniteSet(D) /\ Cardinality(D) <= Cardinality(C) + 1 /\ Cardinality(D) \in Nat
      BY <3>1, <3>2, FS_Subset, FS_CardinalityType
    <3>4. \A a, c, d, t \in Nat : a + c <= t /\ d <= c + 1 => a + d <= t + 1
      OBVIOUS
    <3>5. b \notin stale' => apologies[b] + Cardinality(D) <= turned[b] + 1
      BY <2>7, <2>8, <2>9, <3>3, <3>4
    <3> QED BY <2>4, <2>12, <3>3, <3>5 DEF Cancelled
  <2> QED BY <1>1, <2>10, <2>11, <2>12, OwedOf
<1>2. ASSUME Crash, NEW b \in Bookings
      PROVE  /\ IsFiniteSet(Apologizing(b)')
             /\ b \notin stale' => apologies'[b] + Cardinality(Apologizing(b)') <= turned'[b]
  <2>1. \A h \in Hooks : pc'[h] \notin {"changed", "cancel"}
    BY <1>2 DEF Crash, Final, Requests
  <2>2. PICK D : D = Apologizing(b)'
    OBVIOUS
  <2>3. D = {}
    BY <2>1, <2>2 DEF Apologizing
  <2>4. IsFiniteSet({}) /\ Cardinality({}) = 0
    BY FS_EmptySet
  <2>5. /\ b \notin stale => apologies[b] + Cardinality(Apologizing(b)) <= turned[b]
        /\ Cardinality(Apologizing(b)) \in Nat /\ apologies[b] \in Nat /\ turned[b] \in Nat
    BY <1>0, FS_CardinalityType DEF ApologyInv
  <2>6. \A a, c, t \in Nat : a + c <= t => a + 0 <= t
    OBVIOUS
  <2>7. b \notin stale => apologies[b] + 0 <= turned[b]
    BY <2>5, <2>6
  <2>8. UNCHANGED <<apologies, turned, stale>>
    BY <1>2 DEF Crash, ghosts
  <2>9. IsFiniteSet(D) /\ Cardinality(D) = 0
    BY <2>3, <2>4
  <2> QED BY <2>2, <2>7, <2>8, <2>9
<1>3. CASE UNCHANGED vars
  BY <1>3 DEF ApologyInv, Apologizing, Booking, vars, ghosts
<1> QED BY <1>1, <1>2, <1>3 DEF ApologyInv, Next

LEMMA ApologyInit == Init => ApologyInv
<1> SUFFICES ASSUME Init, NEW b \in Bookings
    PROVE  /\ IsFiniteSet(Apologizing(b))
           /\ apologies[b] + Cardinality(Apologizing(b)) <= turned[b]
  BY DEF ApologyInv
<1>1. Apologizing(b) = {}
  BY DEF Init, Apologizing, Requests
<1>2. apologies[b] = 0 /\ turned[b] = 0
  BY DEF Init
<1>3. IsFiniteSet({}) /\ Cardinality({}) = 0
  BY FS_EmptySet
<1> QED BY <1>1, <1>2, <1>3

----------------------------------------------------------------------------
(* The messages that the rows record *)

Tells(r, b) == pc[r] = "mark" /\ Booking(r) = b

SameRow(b) == b \in DOMAIN rows' => /\ b \in DOMAIN rows
                                    /\ rows'[b].enviada = rows[b].enviada
                                    /\ rows'[b].intentos = rows[b].intentos

\* A step of r about b when nothing fails: the row keeps its messages (or a stale copy is
\* saved, or the phone is no good), a message is sent, one is recorded, the row is created.
Unchanged(r, b) == /\ Tells(r, b)' <=> Tells(r, b)
                   /\ told'[b] = told[b]
                   /\ SameRow(b) \/ b \in stale' \/ b \notin ValidPhone
                   /\ b \in DOMAIN rows => b \in DOMAIN rows'
Sent(r, b)      == /\ ~Tells(r, b) /\ Tells(r, b)' /\ told'[b] = told[b] + 1
                   /\ b \in DOMAIN rows /\ rows' = rows
Recorded(r, b)  == /\ Tells(r, b) /\ ~Tells(r, b)' /\ told'[b] = told[b] /\ b \in DOMAIN rows
                   /\ b \notin stale' => /\ rows'[b].enviada /\ ~rows[b].enviada
                                         /\ rows'[b].intentos = rows[b].intentos + 1
Created(r, b)   == /\ ~Tells(r, b) /\ ~Tells(r, b)' /\ told'[b] = told[b] /\ b \notin DOMAIN rows
                   /\ ~rows'[b].enviada /\ rows'[b].intentos = 0

NoFault == faults' = 0

LEMMA FaultCounts == ASSUME faults \in Nat, Fault PROVE faults' # 0
<1>1. \A n \in Nat : n + 1 # 0
  OBVIOUS
<1> QED BY <1>1 DEF Fault

\* A save by r of another booking than b, or of b when it changes no message.
LEMMA SavedRow ==
  ASSUME Shape, NEW r \in Requests, Working(r), Save(r), NEW b \in Bookings,
         \/ b # Booking(r)
         \/ /\ b = Booking(r) /\ b \in DOMAIN rows
            /\ Fresh(r, b) => SameMessages(r, b)
  PROVE  SameRow(b) \/ b \in stale'
<1>1. /\ DOMAIN rows' = DOMAIN rows \cup {Booking(r)} /\ rows'[Booking(r)] = Copy(r)
      /\ \A x \in DOMAIN rows \ {Booking(r)} : rows'[x] = rows[x]
      /\ stale' = (IF Copy(r).at = version[Booking(r)] THEN stale ELSE stale \cup {Booking(r)})
  BY SaveIs
<1>2. CASE b # Booking(r)
  BY <1>1, <1>2 DEF SameRow
<1>3. CASE b = Booking(r)
  <2>1. CASE b \in stale'
    BY <2>1
  <2>2. CASE b \notin stale'
    <3>1. Fresh(r, b)
      BY <1>1, <1>3, <2>2 DEF Fresh, Copy
    <3> QED BY <1>1, <1>3, <3>1 DEF SameMessages, SameRow, Copy
  <2> QED BY <2>1, <2>2
<1> QED BY <1>2, <1>3

LEMMA MessageOf ==
  ASSUME Shape, CopiesInv, NEW r \in Requests, Serve(r) \/ Fail(r), NEW b \in Bookings, NoFault,
         pc[r] = "error" => Booking(r) \notin ValidPhone
  PROVE  /\ Unchanged(r, b) \/ Sent(r, b) \/ Recorded(r, b) \/ Created(r, b)
         /\ pc'[r] = "error" => Booking(r)' \notin ValidPhone
<1>0. /\ pc \in [Requests -> Steps] /\ told \in [Bookings -> Nat] /\ CopyInv(r)
      /\ faults \in Nat
  BY DEF Shape, TypeOK, CopiesInv
<1>f. ~Fault
  BY <1>0, FaultCounts DEF NoFault
<1>1. ~Confirm(r) => told' = told
  BY StepFrames
<1>w. Working(r) => /\ Booking(r) \in Bookings /\ Booking(r) \in Range(todo[r])
                    /\ pc[r] # "insert" => Booking(r) \in DOMAIN rows
  BY WorkHas DEF Shape, Shaped, Holding
<1>n. ASSUME NoneSaved, ~Confirm(r), pc[r] # "mark", pc'[r] \notin {"mark", "error"}
      PROVE  /\ Unchanged(r, b)
             /\ pc'[r] = "error" => Booking(r)' \notin ValidPhone
  BY <1>1, <1>n DEF Unchanged, Tells, SameRow, NoneSaved
<1> USE DEF Goto
<1>2. CASE Find(r) \/ Read(r) \/ List(r) \/ LogCreated(r) \/ LogChanged(r) \/ LogEdited(r)
  <2>1. /\ NoneSaved /\ pc'[r] \notin {"mark", "error"} /\ pc[r] # "mark" /\ pc[r] # "confirm"
    BY <1>0, <1>2 DEF Find, Read, List, LogCreated, LogChanged, LogEdited, NoneSaved, ghosts
  <2> QED BY <1>n, <2>1 DEF Confirm
<1>3. CASE Cancel(r)
  <2>1. /\ NoneSaved /\ pc'[r] \notin {"mark", "error"} /\ pc[r] # "mark" /\ pc[r] # "confirm"
    BY <1>0, <1>3 DEF Cancel, NoneSaved, ghosts
  <2> QED BY <1>n, <2>1 DEF Confirm
<1>4. CASE Insert(r)
  <2>1. pc[r] = "insert" /\ ~Confirm(r) /\ Working(r)
    BY <1>4 DEF Insert, Confirm, Working, Final
  <2>2. CASE Booking(r) \in DOMAIN rows
    <3>1. NoneSaved /\ pc'[r] = "500"
      BY <1>0, <1>4, <2>2 DEF Insert, NoneSaved
    <3> QED BY <1>n, <2>1, <3>1
  <2>3. CASE Booking(r) \notin DOMAIN rows
    <3>1. Save(r) /\ pc'[r] = "created"
      BY <1>0, <1>4, <2>3 DEF Insert
    <3>2. CASE b = Booking(r)
      <4>1. rows'[Booking(r)] = Copy(r)
        BY <2>1, <3>1, SaveIs
      <4>2. Copy(r) = NewTurno(r)
        BY <2>1 DEF Shape, Shaped, Holding, Copy
      <4>3. ~Copy(r).enviada /\ Copy(r).intentos = 0
        BY <4>2 DEF NewTurno
      <4> QED BY <1>1, <2>1, <2>3, <3>1, <3>2, <4>1, <4>3 DEF Created, Tells
    <3>3. CASE b # Booking(r)
      <4>1. SameRow(b) \/ b \in stale'
        BY <2>1, <3>1, <3>3, SavedRow
      <4>2. DOMAIN rows' = DOMAIN rows \cup {Booking(r)}
        BY <2>1, <3>1, SaveIs
      <4> QED BY <1>1, <2>1, <3>1, <4>1, <4>2 DEF Unchanged, Tells
    <3> QED BY <3>2, <3>3
  <2> QED BY <2>2, <2>3
<1>5. CASE Update(r) \/ Set(r)
  <2>1. pc[r] \in {"update", "set"} /\ ~Confirm(r) /\ Working(r) /\ Save(r)
    BY <1>5 DEF Update, Set, Confirm, Working, Final
  <2>2. pc'[r] \notin {"mark", "error"}
    BY <1>0, <1>5 DEF Update, Set
  <2>3. ASSUME b = Booking(r), Fresh(r, b) PROVE SameMessages(r, b)
    BY <1>0, <1>w, <2>1, <2>3 DEF CopyInv, Agrees
  <2>4. SameRow(b) \/ b \in stale'
    BY <1>w, <2>1, <2>3, SavedRow
  <2>5. DOMAIN rows' = DOMAIN rows \cup {Booking(r)}
    BY <2>1, SaveIs
  <2> QED BY <1>1, <2>1, <2>2, <2>4, <2>5 DEF Unchanged, Tells
<1>6. CASE Confirm(r)
  <2>1. pc[r] = "confirm" /\ Working(r) /\ rows' = rows /\ todo' = todo
    BY <1>6 DEF Confirm, Working, Final
  <2>2. CASE Booking(r) \notin ValidPhone
    <3>1. pc'[r] = "error" /\ told' = told
      BY <1>0, <1>6, <2>2 DEF Confirm
    <3> QED BY <2>1, <2>2, <3>1 DEF Unchanged, Tells, SameRow, Booking
  <2>3. CASE Booking(r) \in ValidPhone
    <3>1. pc'[r] = "mark" /\ told' = [told EXCEPT ![Booking(r)] = @ + 1]
      BY <1>0, <1>f, <1>6, <2>3 DEF Confirm
    <3>2. CASE b = Booking(r)
      <4>1. told'[b] = told[b] + 1
        BY <1>0, <3>1, <3>2
      <4> QED BY <1>w, <2>1, <3>1, <3>2, <4>1 DEF Sent, Tells, Booking
    <3>3. CASE b # Booking(r)
      <4>1. told'[b] = told[b]
        BY <1>0, <3>1, <3>3
      <4> QED BY <2>1, <3>1, <3>3, <4>1 DEF Unchanged, Tells, SameRow, Booking
    <3> QED BY <3>2, <3>3
  <2> QED BY <2>2, <2>3
<1>7. CASE Mark(r) \/ RecordError(r)
  <2>1. /\ pc[r] \in {"mark", "error"} /\ ~Confirm(r) /\ Working(r) /\ Save(r) /\ Leave(r)
        /\ pc[r] # "insert"
    BY <1>7, <1>f DEF Mark, RecordError, Confirm, Working, Final
  <2>2. pc'[r] \notin {"mark", "error"}
    BY <2>1, LeaveIs
  <2>3. /\ DOMAIN rows' = DOMAIN rows \cup {Booking(r)} /\ rows'[Booking(r)] = Copy(r)
        /\ stale' = (IF Copy(r).at = version[Booking(r)] THEN stale ELSE stale \cup {Booking(r)})
    BY <2>1, SaveIs
  <2>4. CASE b # Booking(r)
    <3>1. SameRow(b) \/ b \in stale'
      BY <2>1, <2>4, SavedRow
    <3> QED BY <1>1, <2>1, <2>2, <2>3, <2>4, <3>1 DEF Unchanged, Tells
  <2>5. CASE b = Booking(r) /\ pc[r] = "error"
    BY <1>1, <2>1, <2>2, <2>3, <2>5 DEF Unchanged, Tells
  <2>6. CASE b = Booking(r) /\ pc[r] = "mark"
    <3>1. ASSUME b \notin stale'
          PROVE  /\ rows'[b].enviada /\ ~rows[b].enviada
                 /\ rows'[b].intentos = rows[b].intentos + 1
      <4>1. Fresh(r, b) /\ Copy(r) = copies[r][b]
        BY <2>3, <2>6, <3>1 DEF Fresh, Copy
      <4>2. Agrees(r, b)
        BY <1>0, <1>w, <2>1, <2>6, <4>1 DEF CopyInv
      <4> QED BY <2>3, <2>6, <4>1, <4>2 DEF Agrees
    <3> QED BY <1>1, <1>w, <2>1, <2>2, <2>6, <3>1 DEF Recorded, Tells
  <2> QED BY <2>1, <2>4, <2>5, <2>6, <2>2
<1>8. ~Fail(r)
  BY <1>f DEF Fail
<1> QED BY <1>2, <1>3, <1>4, <1>5, <1>6, <1>7, <1>8
        DEF Serve, ProcesarWebhook, Confirmacion, ActualizarEstado

\* What RecordInv says of a booking.
RecordOf(b) == /\ b \notin DOMAIN rows => told[b] = 0
               /\ IsFiniteSet(Telling(b))
               /\ b \in DOMAIN rows /\ b \in ValidPhone /\ b \notin stale =>
                    /\ told[b] = rows[b].intentos + Cardinality(Telling(b))
                    /\ rows[b].intentos = (IF rows[b].enviada THEN 1 ELSE 0)

LEMMA RecordOfAll ==
  ASSUME TypeOK
  PROVE  RecordInv <=> (faults = 0 /\ crashes = 0 =>
                          /\ \A r \in Requests : pc[r] = "error" => Booking(r) \notin ValidPhone
                          /\ \A b \in Bookings : RecordOf(b))
<1>1. DOMAIN rows \subseteq Bookings
  BY DEF TypeOK
<1> QED BY <1>1 DEF RecordInv, RecordOf

LEMMA RecordByOne ==
  ASSUME Shape, Shape', CopiesInv, NEW r \in Requests, Serve(r) \/ Fail(r), NEW b \in Bookings,
         NoFault, pc[r] = "error" => Booking(r) \notin ValidPhone, RecordOf(b)
  PROVE  RecordOf(b)'
<1>0. /\ told[b] \in Nat /\ \A x \in DOMAIN rows : rows[x].intentos \in Nat
  BY DEF Shape, TypeOK, RowType
<1>1. OnlyMoves(r) /\ stale \subseteq stale' /\ DOMAIN rows \subseteq DOMAIN rows'
  BY RequestMoves DEF Moves, NoneSaved, Saved
<1>2. \A q \in Requests \ {r} : Tells(q, b)' <=> Tells(q, b)
  BY <1>1 DEF OnlyMoves, Tells, Booking
<1>3. PICK C : C = Telling(b)
  OBVIOUS
<1>4. PICK D : D = Telling(b)'
  OBVIOUS
<1>5. C = {q \in Requests : Tells(q, b)} /\ D = {q \in Requests : Tells(q, b)'}
  BY <1>3, <1>4 DEF Telling, Tells
<1>6. IsFiniteSet(C) /\ Cardinality(C) \in Nat
  BY <1>3, FS_CardinalityType DEF RecordOf
<1>7. b \notin DOMAIN rows => told[b] = 0
  BY DEF RecordOf
<1>8. b \in DOMAIN rows /\ b \in ValidPhone /\ b \notin stale' =>
        /\ told[b] = rows[b].intentos + Cardinality(C)
        /\ rows[b].intentos = (IF rows[b].enviada THEN 1 ELSE 0)
  BY <1>1, <1>3 DEF RecordOf
<1>9. SUFFICES /\ b \notin DOMAIN rows' => told'[b] = 0
               /\ IsFiniteSet(D)
               /\ b \in DOMAIN rows' /\ b \in ValidPhone /\ b \notin stale' =>
                    /\ told'[b] = rows'[b].intentos + Cardinality(D)
                    /\ rows'[b].intentos = (IF rows'[b].enviada THEN 1 ELSE 0)
  BY <1>4 DEF RecordOf
<1>10. CASE Unchanged(r, b)
  <2>1. D = C
    BY <1>2, <1>5, <1>10 DEF Unchanged
  <2> QED BY <1>6, <1>7, <1>8, <1>10, <2>1 DEF Unchanged, SameRow
<1>11. CASE Sent(r, b)
  <2>1. D = C \cup {r} /\ r \notin C
    BY <1>2, <1>5, <1>11 DEF Sent
  <2>2. IsFiniteSet(D) /\ Cardinality(D) = Cardinality(C) + 1
    BY <1>6, <2>1, FS_AddElement
  <2>3. \A t, i, c \in Nat : t = i + c => t + 1 = i + (c + 1)
    OBVIOUS
  <2>4. rows' = rows /\ told'[b] = told[b] + 1 /\ b \in DOMAIN rows
    BY <1>11 DEF Sent
  <2>5. b \in ValidPhone /\ b \notin stale' =>
          /\ told[b] + 1 = rows[b].intentos + (Cardinality(C) + 1)
          /\ rows[b].intentos = (IF rows[b].enviada THEN 1 ELSE 0)
    BY <1>0, <1>6, <1>8, <2>3, <2>4
  <2> QED BY <2>2, <2>4, <2>5
<1>12. CASE Recorded(r, b)
  <2>1. D = C \ {r} /\ r \in C
    BY <1>2, <1>5, <1>12 DEF Recorded
  <2>2. IsFiniteSet(D) /\ Cardinality(D) = Cardinality(C) - 1
    BY <1>6, <2>1, FS_RemoveElement
  <2>3. \A t, i, c \in Nat : t = i + c => t = (i + 1) + (c - 1)
    OBVIOUS
  <2>4. /\ b \in DOMAIN rows /\ told'[b] = told[b]
        /\ b \notin stale' => /\ rows'[b].enviada /\ ~rows[b].enviada
                              /\ rows'[b].intentos = rows[b].intentos + 1
    BY <1>12 DEF Recorded
  <2>5. b \in ValidPhone /\ b \notin stale' =>
          /\ told[b] = (rows[b].intentos + 1) + (Cardinality(C) - 1)
          /\ rows[b].intentos = 0
    BY <1>0, <1>6, <1>8, <2>3, <2>4
  <2> QED BY <1>1, <2>2, <2>4, <2>5
<1>13. CASE Created(r, b)
  <2>1. /\ ~Tells(r, b) /\ ~Tells(r, b)' /\ told'[b] = told[b] /\ b \notin DOMAIN rows
        /\ ~rows'[b].enviada /\ rows'[b].intentos = 0
    BY <1>13 DEF Created
  <2>2. \A q \in Requests : ~Tells(q, b)
    <3>1. ASSUME NEW q \in Requests, Tells(q, b) PROVE b \in DOMAIN rows
      <4>1. Working(q) /\ pc[q] # "insert" /\ b = Booking(q)
        BY <3>1 DEF Tells, Working, Final
      <4>2. b \in Range(todo[q])
        BY <4>1, WorkHas
      <4> QED BY <4>1, <4>2 DEF Shape, Shaped, Holding
    <3> QED BY <2>1, <3>1
  <2>3. D = {}
    BY <1>2, <1>5, <2>1, <2>2
  <2>4. IsFiniteSet({}) /\ Cardinality({}) = 0
    BY FS_EmptySet
  <2>5. IsFiniteSet(D) /\ Cardinality(D) = 0
    BY <2>3, <2>4
  <2> QED BY <1>7, <2>1, <2>5
<1> QED BY <1>10, <1>11, <1>12, <1>13, MessageOf

LEMMA RecordStep ==
  ASSUME Shape, Shape', CopiesInv, RecordInv, [Next]_vars PROVE RecordInv'
<1>0. /\ TypeOK /\ TypeOK' /\ faults \in Nat /\ crashes \in Nat
  BY DEF Shape, TypeOK
<1>1. ASSUME NEW q \in Requests, Serve(q) \/ Fail(q) PROVE RecordInv'
  <2>1. SUFFICES ASSUME faults' = 0, crashes' = 0
        PROVE  /\ \A r \in Requests : (pc[r] = "error" => Booking(r) \notin ValidPhone)'
               /\ \A b \in Bookings : RecordOf(b)'
    <3>1. DOMAIN rows' \subseteq Bookings
      BY <1>0 DEF TypeOK
    <3> QED BY <3>1 DEF RecordInv, RecordOf
  <2>2. NoFault /\ faults = 0 /\ crashes = 0
    BY <1>0, <1>1, <2>1, StepFrames, FaultCounts DEF NoFault
  <2>3. /\ \A r \in Requests : pc[r] = "error" => Booking(r) \notin ValidPhone
        /\ \A b \in Bookings : RecordOf(b)
    BY <1>0, <2>2, RecordOfAll
  <2>4. \A b \in Bookings : RecordOf(b)'
    BY <1>1, <2>2, <2>3, RecordByOne
  <2>5. OnlyMoves(q)
    BY <1>1, RequestMoves DEF Moves
  <2>6. ASSUME NEW r \in Requests, pc'[r] = "error" PROVE Booking(r)' \notin ValidPhone
    <3>1. CASE r = q
      <4>1. CASE \E b \in Bookings : TRUE
        BY <1>1, <2>2, <2>3, <2>6, <3>1, <4>1, MessageOf
      <4>2. CASE ~\E b \in Bookings : TRUE
        BY <4>2, AmeliaAssumption
      <4> QED BY <4>1, <4>2
    <3>2. CASE r # q
      BY <2>3, <2>5, <2>6, <3>2 DEF OnlyMoves, Booking
    <3> QED BY <3>1, <3>2
  <2> QED BY <2>4, <2>6
<1>2. CASE Crash
  <2>1. \A n \in Nat : n + 1 # 0
    OBVIOUS
  <2>2. crashes' # 0
    BY <1>0, <1>2, <2>1 DEF Crash
  <2> QED BY <2>2 DEF RecordInv
<1>3. CASE UNCHANGED vars
  BY <1>3 DEF RecordInv, Telling, Booking, vars, ghosts
<1> QED BY <1>1, <1>2, <1>3 DEF Next

LEMMA RecordInit == Init => RecordInv
<1> SUFFICES ASSUME Init PROVE RecordInv
  OBVIOUS
<1>1. DOMAIN << >> = {}
  OBVIOUS
<1>2. DOMAIN rows = {} /\ \A r \in Requests : pc[r] = "new"
  BY <1>1 DEF Init
<1>3. \A b \in Bookings : Telling(b) = {}
  BY <1>2 DEF Telling
<1>4. IsFiniteSet({}) /\ \A b \in Bookings : told[b] = 0
  BY FS_EmptySet DEF Init
<1> QED BY <1>2, <1>3, <1>4 DEF RecordInv

----------------------------------------------------------------------------
(* The theorem *)

LEMMA Inductive == Spec => []IInv
<1>1. Init => IInv
  BY ShapeInit, CopiesInit, BudgetInit, ApologyInit, RecordInit DEF IInv
<1>2. IInv /\ [Next]_vars => IInv'
  BY ShapeStep, CopiesStep, BudgetStep, ApologyStep, RecordStep DEF IInv
<1> QED BY <1>1, <1>2, PTL DEF Spec

\* With no request at work on a booking, no message is on its way to the row.
LEMMA MessagesRecorded == IInv => MessagesAreRecorded
<1> SUFFICES ASSUME IInv, NEW b \in DOMAIN rows \cap ValidPhone,
                    Quiet(b), faults = 0, crashes = 0, b \notin stale
    PROVE  /\ told[b] <= 1
           /\ rows[b].intentos = told[b] /\ (rows[b].enviada <=> told[b] = 1)
  BY DEF MessagesAreRecorded
<1>1. ASSUME NEW r \in Requests, pc[r] = "mark", Booking(r) = b PROVE FALSE
  <2>1. Working(r)
    BY <1>1 DEF Working, Final
  <2>2. b \in Range(todo[r])
    BY <1>1, <2>1, WorkHas DEF IInv
  <2> QED BY <1>1, <2>2 DEF Quiet, Final
<1>2. Telling(b) = {}
  BY <1>1 DEF Telling
<1>3. Cardinality({}) = 0
  BY FS_EmptySet
<1>4. /\ told[b] = rows[b].intentos + 0 /\ rows[b].intentos = (IF rows[b].enviada THEN 1 ELSE 0)
  BY <1>2, <1>3 DEF IInv, RecordInv
<1> QED BY <1>4

LEMMA BudgetHolds == IInv => ConfirmationBudget
<1> SUFFICES ASSUME IInv, NEW b \in Bookings PROVE told[b] <= 1 + Cardinality(Retries)
  BY DEF ConfirmationBudget
<1>1. /\ told[b] \in Nat /\ Cardinality(Chances(b)) \in Nat /\ Cardinality(Retries) \in Nat
  BY AmeliaAssumption, FS_CardinalityType DEF IInv, Shape, TypeOK, BudgetInv
<1>2. \A t, c, n \in Nat : \A u \in {0, 1} : t + c + u <= 1 + n => t <= 1 + n
  OBVIOUS
<1>3. told[b] + Cardinality(Chances(b)) + (IF b \in DOMAIN rows THEN 0 ELSE 1)
        <= 1 + Cardinality(Retries)
  BY DEF IInv, BudgetInv
<1> QED BY <1>1, <1>2, <1>3

LEMMA ApologiesHold == IInv => ApologiesAreForChanges
<1> SUFFICES ASSUME IInv, NEW b \in Bookings, b \notin stale PROVE apologies[b] <= turned[b]
  BY DEF ApologiesAreForChanges
<1>1. /\ apologies[b] \in Nat /\ Cardinality(Apologizing(b)) \in Nat /\ turned[b] \in Nat
  BY FS_CardinalityType DEF IInv, Shape, TypeOK, ApologyInv
<1>2. \A a, c, t \in Nat : a + c <= t => a <= t
  OBVIOUS
<1>3. apologies[b] + Cardinality(Apologizing(b)) <= turned[b]
  BY DEF IInv, ApologyInv
<1> QED BY <1>1, <1>2, <1>3

----------------------------------------------------------------------------
(* Dashboard: the figures of the summaries. *)

Contents == {rs \in SUBSET Dash!Row : IsFiniteSet(rs) /\ Cardinality(rs) <= MaxRows}
\* Each figure was right at some moment from the content since to the content until.
RightWithin(figures, q, since, until) ==
  \A f \in DOMAIN figures : \E i \in since..until : figures[f] = Dash!Value(f, q, past[i])

\* A request counts what is right since it began; an entry has all the figures, right between
\* the beginning of its request and the present; an answer those of one of them.
TablesOK ==
  /\ past \in Seq(Contents) /\ Len(past) \in Nat \ {0}
  /\ now \in Nat
  /\ DOMAIN reader = Readers /\ DOMAIN cache = Queries /\ DOMAIN dashboardAnswer = Readers
CountOK(x) ==
  /\ x = [step |-> x.step, query |-> x.query, got |-> x.got, since |-> x.since]
  /\ x.step \in {"get", "count", "set"} /\ x.query \in Queries /\ x.since \in 1..Len(past)
  /\ DOMAIN x.got \subseteq Figures /\ (x.step = "set" => DOMAIN x.got = Figures)
  /\ RightWithin(x.got, x.query, x.since, Len(past))
CountsAreRight == \A r \in Readers : reader[r] # Dash!Idle => CountOK(reader[r])
EntryOK(e, q) ==
  \/ e \in {Dash!NoEntry, Dash!Foreign}
  \/ /\ e.kind = "summary" /\ DOMAIN e.figures = Figures
     /\ e.since \in 1..Len(past) /\ e.stored \in 0..now /\ e.until = e.stored + TTL
     /\ RightWithin(e.figures, q, e.since, Len(past))
EntriesAreRight == \A q \in Queries : EntryOK(cache[q], q)
AnswerOK(a) ==
  /\ a.query \in Queries /\ DOMAIN a.figures = Figures
  /\ a.since \in 1..Len(past) /\ a.told \in 1..Len(past)
  /\ RightWithin(a.figures, a.query, a.since, a.told)
  /\ a.stored \in Nat /\ a.at \in Nat /\ a.at - a.stored < TTL
AnswersAreRight ==
  \A r \in Readers : dashboardAnswer[r] # Dash!NoAnswer => AnswerOK(dashboardAnswer[r])

DashInv == TablesOK /\ CountsAreRight /\ EntriesAreRight /\ AnswersAreRight

----------------------------------------------------------------------------
LEMMA DashConstants ==
  /\ TTL \in Nat \ {0} /\ MaxRows \in Nat /\ Figures \subseteq Dash!AllFigures
  /\ OldRows \in Contents
BY DashboardHolds DEF Dash!TTLAssumption, Dash!FiguresAssumption, Dash!RowsAssumption,
   Contents, Dash!IsFiniteSet, IsFiniteSet, Dash!Cardinality, Cardinality

LEMMA DashCardinality == \A S : Dash!Cardinality(S) = Cardinality(S)
BY DEF Dash!Cardinality, Cardinality

\* A figure counts rows.
LEMMA ValueBound ==
  ASSUME NEW f, NEW q, NEW rs \in Contents
  PROVE  Dash!Value(f, q, rs) \in 0..MaxRows
<1> DEFINE counted == {x \in rs :
        /\ x.table = Dash!TableOf(f)
        /\ x.day \in q.period
        /\ f = "sentMessages" => x.state = "sent"
        /\ f = "claimsHandled" => x.state = q.status}
<1>1. Dash!Value(f, q, rs) = Cardinality(counted)
  BY DashCardinality DEF Dash!Value
<1>2. counted \in SUBSET rs /\ IsFiniteSet(rs) /\ Cardinality(rs) <= MaxRows
  BY DEF Contents
<1> HIDE DEF counted
<1>3. /\ IsFiniteSet(counted) /\ Cardinality(counted) <= Cardinality(rs)
      /\ Cardinality(counted) \in Nat /\ Cardinality(rs) \in Nat
  BY <1>2, FS_Subset, FS_CardinalityType
<1> QED BY <1>1, <1>2, <1>3, DashConstants

LEMMA PresentRows ==
  ASSUME TablesOK
  PROVE  Dash!Rows = past[Len(past)] /\ Dash!Rows \in Contents
BY DEF TablesOK, Dash!Rows, Dash!Last

\* What was right stays right when the tables change.
LEMMA StaysRight ==
  ASSUME TablesOK, NEW rs \in Contents, past' = Append(past, rs),
         CountsAreRight, EntriesAreRight, AnswersAreRight,
         UNCHANGED <<cache, reader, dashboardAnswer, now>>
  PROVE  DashInv'
<1>1. /\ past \in Seq(Contents) /\ past' \in Seq(Contents) /\ Len(past') = Len(past) + 1
      /\ Len(past) \in Nat \ {0} /\ \A i \in 1..Len(past) : past'[i] = past[i]
  BY AppendProperties DEF TablesOK
<1>2. ASSUME NEW figures, NEW q, NEW since \in Nat \ {0}, NEW until \in 1..Len(past),
             RightWithin(figures, q, since, until)
      PROVE  RightWithin(figures, q, since, until)' /\ RightWithin(figures, q, since, Len(past))'
  <2> SUFFICES ASSUME NEW f \in DOMAIN figures
               PROVE  /\ \E i \in since..until : figures[f] = Dash!Value(f, q, past[i])'
                      /\ \E i \in since..Len(past)' : figures[f] = Dash!Value(f, q, past[i])'
    BY DEF RightWithin
  <2>1. PICK i \in since..until : figures[f] = Dash!Value(f, q, past[i])
    BY <1>2 DEF RightWithin
  <2>2. i \in 1..Len(past) /\ i \in since..Len(past')
    BY <1>1
  <2>3. Dash!Value(f, q, past[i])' = Dash!Value(f, q, past[i])
    BY <1>1, <2>2 DEF Dash!Value
  <2> QED BY <2>1, <2>2, <2>3
<1>3. \A since, until : since \in 1..Len(past) => since \in Nat \ {0} /\ since \in 1..Len(past)'
  BY <1>1
<1>4. Len(past) \in 1..Len(past)
  BY <1>1
<1>5. TablesOK'
  BY <1>1 DEF TablesOK
<1>6. CountsAreRight'
  <2>1. ASSUME NEW x, CountOK(x) PROVE CountOK(x)'
    BY <1>2, <1>3, <1>4, <2>1 DEF CountOK
  <2> QED BY <2>1 DEF CountsAreRight
<1>7. EntriesAreRight'
  <2>1. ASSUME NEW e, NEW q, EntryOK(e, q) PROVE EntryOK(e, q)'
    BY <1>2, <1>3, <1>4, <2>1 DEF EntryOK
  <2> QED BY <2>1 DEF EntriesAreRight
<1>8. AnswersAreRight'
  <2>1. ASSUME NEW a, AnswerOK(a) PROVE AnswerOK(a)'
    BY <1>2, <1>3, <2>1 DEF AnswerOK
  <2> QED BY <2>1 DEF AnswersAreRight
<1> QED BY <1>5, <1>6, <1>7, <1>8 DEF DashInv

\* Requests and Redis move over tables that stay, each to what is right.
LEMMA RightMoves ==
  ASSUME DashInv, past' = past, now' \in Nat, now <= now',
         DOMAIN reader' = Readers, DOMAIN cache' = Queries, DOMAIN dashboardAnswer' = Readers,
         \A r \in Readers : reader'[r] \in {reader[r], Dash!Idle} \/ CountOK(reader'[r]),
         \A q \in Queries : cache'[q] = cache[q] \/ EntryOK(cache'[q], q),
         \A r \in Readers : \/ dashboardAnswer'[r] \in {dashboardAnswer[r], Dash!NoAnswer}
                            \/ AnswerOK(dashboardAnswer'[r])
  PROVE  DashInv'
<1>1. \A figures, q, since, until :
        RightWithin(figures, q, since, until)' <=> RightWithin(figures, q, since, until)
  BY DEF RightWithin, Dash!Value
<1>2. TablesOK'
  BY DEF DashInv, TablesOK
<1>3. CountsAreRight'
  <2>1. \A x : CountOK(x)' <=> CountOK(x)
    BY <1>1 DEF CountOK
  <2> QED BY <2>1 DEF DashInv, CountsAreRight, Dash!Idle
<1>4. EntriesAreRight'
  <2>1. ASSUME NEW e, NEW q, EntryOK(e, q) PROVE EntryOK(e, q)'
    <3>1. 0..now \subseteq 0..now'
      BY DEF DashInv, TablesOK
    <3> QED BY <1>1, <2>1, <3>1 DEF EntryOK
  <2> QED BY <2>1 DEF DashInv, EntriesAreRight
<1>5. AnswersAreRight'
  <2>1. \A a : AnswerOK(a)' <=> AnswerOK(a)
    BY <1>1 DEF AnswerOK
  <2> QED BY <2>1 DEF DashInv, AnswersAreRight, Dash!NoAnswer
<1> QED BY <1>2, <1>3, <1>4, <1>5 DEF DashInv

LEMMA DashInit == Dash!Init => DashInv
<1> SUFFICES ASSUME Dash!Init PROVE DashInv
  OBVIOUS
<1>1. /\ past = <<OldRows>> /\ OldRows \in Contents
      /\ cache \in [Queries -> {Dash!NoEntry, Dash!Foreign}]
      /\ reader = [r \in Readers |-> Dash!Idle]
      /\ dashboardAnswer = [r \in Readers |-> Dash!NoAnswer] /\ now = 0
  BY DashConstants DEF Dash!Init
<1>2. TablesOK
  BY <1>1 DEF TablesOK
<1> QED BY <1>1, <1>2 DEF DashInv, CountsAreRight, EntriesAreRight, EntryOK, AnswersAreRight

LEMMA DashInsert == ASSUME DashInv, Dash!Insert PROVE DashInv'
<1>0. TablesOK /\ CountsAreRight /\ EntriesAreRight /\ AnswersAreRight
  BY DEF DashInv
<1>1. PICK x \in Dash!Row : past' = Append(past, Dash!Rows \cup {x})
  <2>0. PICK t \in Dash!Tables, d \in Days : \E st \in Dash!States(t) :
          past' = Append(past, Dash!Rows \cup {[id |-> Dash!Cardinality(Dash!Rows) + 1,
                                                table |-> t, day |-> d, state |-> st]})
    BY DEF Dash!Insert
  <2>1. PICK st \in Dash!States(t) :
          past' = Append(past, Dash!Rows \cup {[id |-> Dash!Cardinality(Dash!Rows) + 1,
                                                table |-> t, day |-> d, state |-> st]})
    BY <2>0
  <2>2. st \in Dash!Messages \cup ClaimStates \cup {"none"}
    BY <2>1 DEF Dash!States, Dash!Tables
  <2>3. Dash!Cardinality(Dash!Rows) + 1 \in Nat
    BY <1>0, PresentRows, DashCardinality, FS_CardinalityType DEF Contents
  <2> QED BY <2>1, <2>2, <2>3 DEF Dash!Row
<1>2. /\ Cardinality(Dash!Rows) < MaxRows
      /\ UNCHANGED <<cache, reader, dashboardAnswer, now>>
  BY DashCardinality DEF Dash!Insert
<1>3. PICK old, z : old = Dash!Rows /\ z = Dash!Rows \cup {x}
  OBVIOUS
<1>4. z \in Contents
  <2>1. old \in SUBSET Dash!Row /\ IsFiniteSet(old)
    BY <1>0, <1>3, PresentRows DEF Contents
  <2>2. z = old \cup {x} /\ z \in SUBSET Dash!Row
    BY <1>3, <2>1
  <2>3. /\ IsFiniteSet(z)
        /\ Cardinality(z) = Cardinality(old) \/ Cardinality(z) = Cardinality(old) + 1
    BY <2>1, <2>2, FS_AddElement
  <2>4. Cardinality(old) \in Nat
    BY <2>1, FS_CardinalityType
  <2>5. Cardinality(z) <= MaxRows
    BY <1>2, <1>3, <2>3, <2>4, DashConstants
  <2> QED BY <2>2, <2>3, <2>5 DEF Contents
<1> QED BY <1>0, <1>1, <1>2, <1>3, <1>4, StaysRight

LEMMA DashChangeState == ASSUME DashInv, Dash!ChangeState PROVE DashInv'
<1>0. TablesOK /\ CountsAreRight /\ EntriesAreRight /\ AnswersAreRight
  BY DEF DashInv
<1>1. PICK x \in Dash!Rows, st \in ClaimStates :
        past' = Append(past, (Dash!Rows \ {x}) \cup {[x EXCEPT !.state = st]})
  BY DEF Dash!ChangeState
<1>2. UNCHANGED <<cache, reader, dashboardAnswer, now>>
  BY DEF Dash!ChangeState
<1>3. PICK y : y = [x EXCEPT !.state = st]
  OBVIOUS
<1>4. (Dash!Rows \ {x}) \cup {y} \in Contents
  <2>1. /\ Dash!Rows \in SUBSET Dash!Row /\ IsFiniteSet(Dash!Rows)
        /\ Cardinality(Dash!Rows) <= MaxRows
    BY <1>0, PresentRows DEF Contents
  <2>2. y \in Dash!Row
    BY <1>1, <1>3, <2>1 DEF Dash!Row
  <2>3. /\ IsFiniteSet(Dash!Rows \ {x}) /\ Cardinality(Dash!Rows) \in Nat
        /\ Cardinality(Dash!Rows \ {x}) = Cardinality(Dash!Rows) - 1
    BY <2>1, FS_RemoveElement, FS_CardinalityType
  <2>4. /\ IsFiniteSet((Dash!Rows \ {x}) \cup {y})
        /\ \/ Cardinality((Dash!Rows \ {x}) \cup {y}) = Cardinality(Dash!Rows \ {x})
           \/ Cardinality((Dash!Rows \ {x}) \cup {y}) = Cardinality(Dash!Rows \ {x}) + 1
    BY <2>3, FS_AddElement
  <2> QED BY <2>1, <2>2, <2>3, <2>4, DashConstants DEF Contents
<1> QED BY <1>0, <1>1, <1>2, <1>3, <1>4, StaysRight

LEMMA DashTick == ASSUME DashInv, Dash!Tick PROVE DashInv'
<1>1. /\ now' = now + 1 /\ UNCHANGED <<past, cache, reader, dashboardAnswer>>
      /\ now \in Nat
  BY DEF Dash!Tick, DashInv, TablesOK
<1>2. DOMAIN reader' = Readers /\ DOMAIN cache' = Queries /\ DOMAIN dashboardAnswer' = Readers
  BY <1>1 DEF DashInv, TablesOK
<1>3. now' \in Nat /\ now <= now'
  BY <1>1
<1> QED BY <1>1, <1>2, <1>3, RightMoves

\* A request that goes on counts what is right, and leaves its answer or drops the last one.
LEMMA WorkMoves ==
  ASSUME DashInv, NEW r \in Readers, NEW x, CountOK(x), reader' = [reader EXCEPT ![r] = x],
         \/ dashboardAnswer' = dashboardAnswer
         \/ dashboardAnswer' = [dashboardAnswer EXCEPT ![r] = Dash!NoAnswer],
         UNCHANGED <<past, cache, now>>
  PROVE  DashInv'
<1>1. /\ DOMAIN reader = Readers /\ DOMAIN cache = Queries /\ DOMAIN dashboardAnswer = Readers
      /\ now \in Nat
  BY DEF DashInv, TablesOK
<1>2. DOMAIN reader' = Readers /\ DOMAIN cache' = Queries /\ DOMAIN dashboardAnswer' = Readers
  BY <1>1
<1>3. \A s \in Readers : reader'[s] \in {reader[s], Dash!Idle} \/ CountOK(reader'[s])
  BY <1>1
<1>4. \A s \in Readers : \/ dashboardAnswer'[s] \in {dashboardAnswer[s], Dash!NoAnswer}
                         \/ AnswerOK(dashboardAnswer'[s])
  BY <1>1
<1>5. now' \in Nat /\ now <= now'
  BY <1>1
<1> QED BY <1>2, <1>3, <1>4, <1>5, RightMoves

\* A request that ends answers what is right, and may leave it in the cache.
LEMMA WorkEnds ==
  ASSUME DashInv, NEW r \in Readers, reader' = [reader EXCEPT ![r] = Dash!Idle],
         \/ dashboardAnswer' = dashboardAnswer
         \/ \E a : AnswerOK(a) /\ dashboardAnswer' = [dashboardAnswer EXCEPT ![r] = a],
         \/ cache' = cache
         \/ \E q \in Queries : \E e : EntryOK(e, q) /\ cache' = [cache EXCEPT ![q] = e],
         UNCHANGED <<past, now>>
  PROVE  DashInv'
<1>1. /\ DOMAIN reader = Readers /\ DOMAIN cache = Queries /\ DOMAIN dashboardAnswer = Readers
      /\ now \in Nat
  BY DEF DashInv, TablesOK
<1>2. DOMAIN reader' = Readers /\ DOMAIN cache' = Queries /\ DOMAIN dashboardAnswer' = Readers
  BY <1>1
<1>3. \A s \in Readers : reader'[s] \in {reader[s], Dash!Idle} \/ CountOK(reader'[s])
  BY <1>1
<1>4. \A s \in Readers : \/ dashboardAnswer'[s] \in {dashboardAnswer[s], Dash!NoAnswer}
                         \/ AnswerOK(dashboardAnswer'[s])
  BY <1>1
<1>5. \A q \in Queries : cache'[q] = cache[q] \/ EntryOK(cache'[q], q)
  BY <1>1
<1>6. now' \in Nat /\ now <= now'
  BY <1>1
<1> QED BY <1>2, <1>3, <1>4, <1>5, <1>6, RightMoves

LEMMA DashAsk ==
  ASSUME DashInv, NEW r \in Readers, NEW q \in Queries, Dash!Ask(r, q) PROVE DashInv'
<1>1. PICK x : x = [step |-> "get", query |-> q, got |-> << >>, since |-> Len(past)]
  OBVIOUS
<1>2. /\ reader' = [reader EXCEPT ![r] = x]
      /\ dashboardAnswer' = [dashboardAnswer EXCEPT ![r] = Dash!NoAnswer]
      /\ UNCHANGED <<past, cache, now>>
  BY <1>1 DEF Dash!Ask, Dash!bounds
<1>3. Len(past) \in 1..Len(past)
  BY DEF DashInv, TablesOK
<1>4. DOMAIN << >> = {}
  OBVIOUS
<1>5. /\ x.step = "get" /\ x.query = q /\ x.got = << >> /\ x.since = Len(past)
      /\ x = [step |-> x.step, query |-> x.query, got |-> x.got, since |-> x.since]
  BY <1>1
<1>6. CountOK(x)
  <2>1. DOMAIN x.got = {}
    BY <1>4, <1>5
  <2>2. RightWithin(x.got, x.query, x.since, Len(past))
    BY <2>1 DEF RightWithin
  <2> QED BY <1>3, <1>5, <2>1, <2>2 DEF CountOK
<1> QED BY <1>2, <1>6, WorkMoves

LEMMA DashHit == ASSUME DashInv, NEW r \in Readers, Dash!Hit(r) PROVE DashInv'
<1>1. PICK e : e = cache[Dash!CacheKey(reader[r].query)]
  OBVIOUS
<1>2. PICK a : a = [kind |-> "summary", query |-> reader[r].query, figures |-> e.figures,
                    since |-> e.since, stored |-> e.stored, told |-> Len(past), at |-> now]
  OBVIOUS
<1>3. /\ reader[r].step = "get" /\ e.kind = "summary" /\ e.until > now
      /\ reader' = [reader EXCEPT ![r] = Dash!Idle]
      /\ dashboardAnswer' = [dashboardAnswer EXCEPT ![r] = a]
      /\ UNCHANGED <<past, cache, now>>
  BY <1>1, <1>2 DEF Dash!Hit, Dash!At, Dash!Live, Dash!Answered, Dash!bounds
<1>4. reader[r].query \in Queries
  <2>1. CountOK(reader[r])
    BY <1>3 DEF DashInv, CountsAreRight, Dash!Idle
  <2> QED BY <2>1 DEF CountOK
<1>5. EntryOK(e, reader[r].query)
  BY <1>1, <1>4 DEF DashInv, EntriesAreRight, Dash!CacheKey
<1>6. /\ DOMAIN e.figures = Figures /\ e.since \in 1..Len(past)
      /\ e.stored \in 0..now /\ e.until = e.stored + TTL
      /\ RightWithin(e.figures, reader[r].query, e.since, Len(past))
  BY <1>3, <1>5 DEF EntryOK, Dash!NoEntry, Dash!Foreign
<1>7. Len(past) \in 1..Len(past) /\ now \in Nat
  BY DEF DashInv, TablesOK
<1>8. AnswerOK(a)
  <2>1. e.stored \in Nat /\ now - e.stored < TTL
    BY <1>3, <1>6, <1>7, DashConstants
  <2> QED BY <1>2, <1>4, <1>6, <1>7, <2>1 DEF AnswerOK
<1> QED BY <1>3, <1>8, WorkEnds

LEMMA DashMiss == ASSUME DashInv, NEW r \in Readers, Dash!Miss(r) PROVE DashInv'
<1>1. PICK x : x = [reader[r] EXCEPT !.step = "count"]
  OBVIOUS
<1>2. /\ reader[r].step = "get" /\ reader' = [reader EXCEPT ![r] = x]
      /\ UNCHANGED <<past, cache, dashboardAnswer, now>>
  BY <1>1 DEF Dash!Miss, Dash!At, Dash!bounds
<1>3. CountOK(reader[r])
  BY <1>2 DEF DashInv, CountsAreRight, Dash!Idle
<1>4. /\ x.step = "count" /\ x.query = reader[r].query /\ x.got = reader[r].got
      /\ x.since = reader[r].since
      /\ x = [step |-> x.step, query |-> x.query, got |-> x.got, since |-> x.since]
  BY <1>1, <1>3 DEF CountOK
<1>5. CountOK(x)
  BY <1>3, <1>4 DEF CountOK
<1> QED BY <1>2, <1>5, WorkMoves

\* A figure is right when it is counted.
LEMMA DashCount ==
  ASSUME DashInv, NEW r \in Readers, NEW f \in Figures, Dash!Count(r, f) PROVE DashInv'
<1>1. PICK counted : counted = [g \in DOMAIN reader[r].got \cup {f} |->
                          IF g = f THEN Dash!Value(f, reader[r].query, Dash!Rows)
                          ELSE reader[r].got[g]]
  OBVIOUS
<1>2. PICK st : st = IF DOMAIN counted = Figures THEN "set" ELSE "count"
  OBVIOUS
<1>3. PICK x : x = [reader[r] EXCEPT !.got = counted, !.step = st]
  OBVIOUS
<1>4. /\ reader[r].step = "count"
      /\ reader' = [reader EXCEPT ![r].got = counted, ![r].step = st]
      /\ UNCHANGED <<past, cache, dashboardAnswer, now>>
  BY <1>1, <1>2 DEF Dash!Count, Dash!At, Dash!bounds
<1>5. CountOK(reader[r])
  BY <1>4 DEF DashInv, CountsAreRight, Dash!Idle
<1>6. /\ x.step = st /\ x.query = reader[r].query /\ x.got = counted
      /\ x.since = reader[r].since
      /\ x = [step |-> x.step, query |-> x.query, got |-> x.got, since |-> x.since]
  BY <1>3, <1>5 DEF CountOK
<1>7. reader' = [reader EXCEPT ![r] = x]
  BY <1>3, <1>4
<1>8. RightWithin(counted, reader[r].query, reader[r].since, Len(past))
  <2> SUFFICES ASSUME NEW g \in DOMAIN counted
               PROVE  \E i \in reader[r].since..Len(past) :
                        counted[g] = Dash!Value(g, reader[r].query, past[i])
    BY DEF RightWithin
  <2>1. CASE g = f
    <3>1. counted[g] = Dash!Value(g, reader[r].query, past[Len(past)])
      BY <1>1, <2>1, PresentRows DEF DashInv
    <3>2. Len(past) \in reader[r].since..Len(past)
      BY <1>5 DEF CountOK, DashInv, TablesOK
    <3> QED BY <3>1, <3>2
  <2>2. CASE g # f
    <3>1. g \in DOMAIN reader[r].got /\ counted[g] = reader[r].got[g]
      BY <1>1, <2>2
    <3> QED BY <1>5, <3>1 DEF CountOK, RightWithin
  <2> QED BY <2>1, <2>2
<1>9. CountOK(x)
  <2>1. DOMAIN counted = DOMAIN reader[r].got \cup {f}
    BY <1>1
  <2> QED BY <1>2, <1>5, <1>6, <1>8, <2>1 DEF CountOK
<1> QED BY <1>4, <1>7, <1>9, WorkMoves

LEMMA DashCountFails == ASSUME DashInv, NEW r \in Readers, Dash!CountFails(r) PROVE DashInv'
<1>1. /\ reader' = [reader EXCEPT ![r] = Dash!Idle]
      /\ UNCHANGED <<past, cache, dashboardAnswer, now>>
  BY DEF Dash!CountFails
<1> QED BY <1>1, WorkEnds

\* The entry and the answer of a request that has counted all its figures.
LEMMA StoredIsRight ==
  ASSUME DashInv, NEW r \in Readers, reader[r].step = "set"
  PROVE  /\ reader[r].query \in Queries
         /\ EntryOK(Dash!Entry(r), reader[r].query)
         /\ AnswerOK([kind |-> "summary", query |-> reader[r].query, figures |-> reader[r].got,
                      since |-> reader[r].since, stored |-> now, told |-> Len(past), at |-> now])
<1>1. CountOK(reader[r]) /\ DOMAIN reader[r].got = Figures
  BY DEF DashInv, CountsAreRight, CountOK, Dash!Idle
<1>2. now \in Nat /\ now \in 0..now /\ Len(past) \in 1..Len(past) /\ now - now < TTL
  BY DashConstants DEF DashInv, TablesOK
<1>3. EntryOK(Dash!Entry(r), reader[r].query)
  BY <1>1, <1>2 DEF Dash!Entry, EntryOK, CountOK
<1> QED BY <1>1, <1>2, <1>3 DEF AnswerOK, CountOK

LEMMA DashStore == ASSUME DashInv, NEW r \in Readers, Dash!Store(r) PROVE DashInv'
<1>1. /\ reader[r].step = "set"
      /\ reader' = [reader EXCEPT ![r] = Dash!Idle]
      /\ dashboardAnswer' = [dashboardAnswer EXCEPT ![r] =
           [kind |-> "summary", query |-> reader[r].query, figures |-> reader[r].got,
            since |-> reader[r].since, stored |-> now, told |-> Len(past), at |-> now]]
      /\ cache' = [cache EXCEPT ![reader[r].query] = Dash!Entry(r)]
      /\ UNCHANGED <<past, now>>
  BY DEF Dash!Store, Dash!At, Dash!Answered, Dash!CacheKey, Dash!bounds
<1> QED BY <1>1, StoredIsRight, WorkEnds

LEMMA DashBreak == ASSUME DashInv, Dash!Break PROVE DashInv'
<1> DEFINE ends(r) == [kind |-> "summary", query |-> reader[r].query, figures |-> reader[r].got,
                       since |-> reader[r].since, stored |-> now, told |-> Len(past), at |-> now]
<1>1. /\ reader' = [r \in Readers |-> Dash!OnRejection(r)]
      /\ dashboardAnswer' = [r \in Readers |-> IF reader[r].step = "set" THEN ends(r)
                                               ELSE dashboardAnswer[r]]
      /\ UNCHANGED <<past, now>>
  BY DEF Dash!Break, Dash!At
<1>2. PICK done \in SUBSET {r \in Readers : reader[r].step = "set"} :
        cache' = [q \in Queries |->
          IF {r \in done : reader[r].query = q} = {} THEN cache[q]
          ELSE Dash!Entry(CHOOSE r \in {r \in done : reader[r].query = q} : TRUE)]
  BY DEF Dash!Break, Dash!At, Dash!CacheKey
<1>3. /\ DOMAIN reader' = Readers /\ DOMAIN cache' = Queries
      /\ DOMAIN dashboardAnswer' = Readers
      /\ now' \in Nat /\ now <= now'
  BY <1>1, <1>2 DEF DashInv, TablesOK
<1>4. ASSUME NEW r \in Readers
      PROVE  reader'[r] \in {reader[r], Dash!Idle} \/ CountOK(reader'[r])
  <2>1. reader'[r] = Dash!OnRejection(r)
    BY <1>1
  <2>2. CASE reader[r].step = "get"
    <3>1. PICK x : x = [reader[r] EXCEPT !.step = "count"]
      OBVIOUS
    <3>2. reader'[r] = x
      BY <2>1, <2>2, <3>1 DEF Dash!OnRejection, Dash!At
    <3>3. CountOK(reader[r])
      BY <2>2 DEF DashInv, CountsAreRight, Dash!Idle
    <3>4. /\ x.step = "count" /\ x.query = reader[r].query /\ x.got = reader[r].got
          /\ x.since = reader[r].since
          /\ x = [step |-> x.step, query |-> x.query, got |-> x.got, since |-> x.since]
      BY <3>1, <3>3 DEF CountOK
    <3> QED BY <3>2, <3>3, <3>4 DEF CountOK
  <2>3. CASE reader[r].step # "get"
    BY <2>1, <2>3 DEF Dash!OnRejection, Dash!At
  <2> QED BY <2>2, <2>3
<1>5. ASSUME NEW q \in Queries PROVE cache'[q] = cache[q] \/ EntryOK(cache'[q], q)
  <2>1. CASE {r \in done : reader[r].query = q} = {}
    BY <1>2, <2>1
  <2>2. CASE {r \in done : reader[r].query = q} # {}
    <3>1. PICK r : r = CHOOSE s \in {s \in done : reader[s].query = q} : TRUE
      OBVIOUS
    <3>2. r \in Readers /\ reader[r].step = "set" /\ reader[r].query = q
      BY <2>2, <3>1
    <3>3. cache'[q] = Dash!Entry(r)
      BY <1>2, <2>2, <3>1
    <3> QED BY <3>2, <3>3, StoredIsRight
  <2> QED BY <2>1, <2>2
<1>6. ASSUME NEW r \in Readers
      PROVE  \/ dashboardAnswer'[r] \in {dashboardAnswer[r], Dash!NoAnswer}
             \/ AnswerOK(dashboardAnswer'[r])
  BY <1>1, StoredIsRight
<1> HIDE DEF ends
<1> QED BY <1>1, <1>3, <1>4, <1>5, <1>6, RightMoves

LEMMA DashReconnect == ASSUME DashInv, Dash!Reconnect PROVE DashInv'
<1>1. /\ UNCHANGED <<past, now, reader, dashboardAnswer>>
      /\ cache' = cache \/ cache' = [q \in Queries |-> Dash!NoEntry]
  BY DEF Dash!Reconnect, Dash!bounds
<1>2. /\ DOMAIN reader' = Readers /\ DOMAIN cache' = Queries
      /\ DOMAIN dashboardAnswer' = Readers
      /\ now' \in Nat /\ now <= now'
  BY <1>1 DEF DashInv, TablesOK
<1>3. \A q \in Queries : cache'[q] = cache[q] \/ EntryOK(cache'[q], q)
  BY <1>1 DEF EntryOK
<1> QED BY <1>1, <1>2, <1>3, RightMoves

LEMMA DashStutter == ASSUME DashInv, UNCHANGED Dash!vars PROVE DashInv'
<1>1. /\ UNCHANGED <<past, now, reader, cache, dashboardAnswer>>
  BY DEF Dash!vars
<1>2. /\ DOMAIN reader' = Readers /\ DOMAIN cache' = Queries
      /\ DOMAIN dashboardAnswer' = Readers
      /\ now' \in Nat /\ now <= now'
  BY <1>1 DEF DashInv, TablesOK
<1> QED BY <1>1, <1>2, RightMoves

LEMMA DashInductive == Dash!Spec => []DashInv
<1>1. DashInv /\ Dash!Next => DashInv'
  BY DashInsert, DashChangeState, DashTick, DashBreak, DashReconnect, DashAsk, DashHit,
     DashMiss, DashCount, DashCountFails, DashStore DEF Dash!Next, Dash!Step
<1> QED BY <1>1, DashInit, DashStutter, PTL DEF Dash!Spec

\* What the invariant says of the answers.
LEMMA DashFollows ==
  ASSUME DashInv PROVE Dash!TypeOK /\ Dash!FiguresWereTrue /\ Dash!AnswersAreFresh
<1>1. ASSUME NEW r \in Readers, dashboardAnswer[r] # Dash!NoAnswer, NEW f \in Figures
      PROVE  /\ \E i \in dashboardAnswer[r].since..dashboardAnswer[r].told :
                  dashboardAnswer[r].figures[f]
                    = Dash!Value(f, dashboardAnswer[r].query, past[i])
             /\ dashboardAnswer[r].figures[f] \in 0..MaxRows
  <2>1. AnswerOK(dashboardAnswer[r])
    BY <1>1 DEF DashInv, AnswersAreRight
  <2>2. PICK i \in dashboardAnswer[r].since..dashboardAnswer[r].told :
          dashboardAnswer[r].figures[f] = Dash!Value(f, dashboardAnswer[r].query, past[i])
    BY <2>1 DEF AnswerOK, RightWithin
  <2>3. past[i] \in Contents
    <3>1. i \in 1..Len(past)
      BY <2>1, <2>2 DEF AnswerOK, DashInv, TablesOK
    <3> QED BY <3>1 DEF DashInv, TablesOK
  <2> QED BY <2>2, <2>3, ValueBound
<1>2. Dash!TypeOK
  <2>1. ASSUME NEW q \in Queries
        PROVE  \/ cache[q] \in {Dash!NoEntry, Dash!Foreign}
               \/ cache[q].kind = "summary" /\ DOMAIN cache[q].figures = Figures
    BY DEF DashInv, EntriesAreRight, EntryOK
  <2>2. ASSUME NEW r \in Readers PROVE reader[r].step \in {"idle", "get", "count", "set"}
    <3>1. CASE reader[r] = Dash!Idle
      BY <3>1 DEF Dash!Idle
    <3>2. CASE CountOK(reader[r])
      BY <3>2 DEF CountOK
    <3> QED BY <3>1, <3>2 DEF DashInv, CountsAreRight
  <2>3. ASSUME NEW r \in Readers, dashboardAnswer[r] # Dash!NoAnswer
        PROVE  DOMAIN dashboardAnswer[r].figures = Figures
    BY <2>3 DEF DashInv, AnswersAreRight, AnswerOK
  <2>4. ASSUME NEW r \in Readers, dashboardAnswer[r] # Dash!NoAnswer
        PROVE  \A f \in Figures : dashboardAnswer[r].figures[f] \in 0..MaxRows
    BY <1>1, <2>4
  <2> QED BY <2>1, <2>2, <2>3, <2>4 DEF Dash!TypeOK
<1>3. Dash!FiguresWereTrue
  BY <1>1 DEF Dash!FiguresWereTrue
<1>4. Dash!AnswersAreFresh
  BY DEF DashInv, AnswersAreRight, AnswerOK, Dash!AnswersAreFresh
<1> QED BY <1>2, <1>3, <1>4

----------------------------------------------------------------------------
(* Impuestos: the attempts of a bill. *)

\* Of a request in hand, only one past the second query has made attempts, fewer than all.
AtWork(x) ==
  /\ x = [step |-> x.step, bill |-> x.bill, heads |-> x.heads]
  /\ x.bill \in Bills
  /\ \/ x.step \in {"first", "second", "slip"} /\ x.heads = 0
     \/ x.step \in {"head", "rest"} /\ x.heads \in 0..MaxHeads - 1
\* An answer that gives up says why.
SaidWhy(a) == a.kind = "error" => IF a.why = "not made" THEN a.heads = MaxHeads ELSE a.heads = 0

TaxInv ==
  /\ DOMAIN caller = Callers /\ DOMAIN taxesAnswer = Callers
  /\ files \cup ordered \subseteq Bills
  /\ \A c \in Callers : caller[c] = Taxes!Idle \/ AtWork(caller[c])
  /\ \A c \in Callers : SaidWhy(taxesAnswer[c])

LEMMA TaxConstants == MaxHeads \in Nat \ {0}
BY ImpuestosHolds DEF Taxes!HeadsAssumption

LEMMA TaxInit == Taxes!Init => TaxInv
<1> SUFFICES ASSUME Taxes!Init PROVE TaxInv
  OBVIOUS
<1>1. /\ DOMAIN caller = Callers /\ DOMAIN taxesAnswer = Callers /\ files = {} /\ ordered = {}
      /\ \A c \in Callers : caller[c] = Taxes!Idle /\ taxesAnswer[c] = Taxes!NoAnswer
  BY DEF Taxes!Init
<1>2. Taxes!NoAnswer.kind # "error"
  BY DEF Taxes!NoAnswer
<1> QED BY <1>1, <1>2 DEF TaxInv, SaidWhy

LEMMA TaxInHand ==
  ASSUME TaxInv, NEW c \in Callers, caller[c].step # "idle" PROVE AtWork(caller[c])
BY DEF TaxInv, AtWork, Taxes!Idle

\* A request moves to another state of work, or ends with an answer that says why.
LEMMA TaxMoves ==
  ASSUME TaxInv, NEW c \in Callers, NEW x, NEW a,
         x = Taxes!Idle \/ AtWork(x), SaidWhy(a),
         caller' = [caller EXCEPT ![c] = x],
         taxesAnswer' = taxesAnswer \/ taxesAnswer' = [taxesAnswer EXCEPT ![c] = a],
         files' \cup ordered' \subseteq Bills
  PROVE  TaxInv'
<1>1. DOMAIN caller' = Callers /\ DOMAIN taxesAnswer' = Callers
  BY DEF TaxInv
<1>2. \A d \in Callers : caller'[d] = Taxes!Idle \/ AtWork(caller'[d])
  BY DEF TaxInv
<1>3. \A d \in Callers : SaidWhy(taxesAnswer'[d])
  BY DEF TaxInv
<1> QED BY <1>1, <1>2, <1>3 DEF TaxInv

LEMMA TaxAsk ==
  ASSUME TaxInv, NEW c \in Callers, NEW b \in Bills, NEW st \in {"first", "slip"},
         Taxes!Ask(c, st, b)
  PROVE  TaxInv'
<1>1. PICK x, a : x = [step |-> st, bill |-> b, heads |-> 0] /\ a = Taxes!NoAnswer
  OBVIOUS
<1>2. AtWork(x) /\ SaidWhy(a)
  BY <1>1 DEF AtWork, SaidWhy, Taxes!NoAnswer
<1>3. /\ caller' = [caller EXCEPT ![c] = x] /\ taxesAnswer' = [taxesAnswer EXCEPT ![c] = a]
      /\ files' \cup ordered' \subseteq Bills
  BY <1>1 DEF Taxes!Ask, TaxInv
<1> QED BY <1>2, <1>3, TaxMoves

\* A query goes on, with what it has, to a step of its like ...
LEMMA TaxGoesOn ==
  ASSUME TaxInv, NEW c \in Callers, NEW st,
         \/ caller[c].step = "first" /\ st = "second"
         \/ caller[c].step \in {"second", "rest"} /\ st = "head",
         caller' = [caller EXCEPT ![c].step = st], UNCHANGED taxesAnswer,
         files' \cup ordered' \subseteq Bills
  PROVE  TaxInv'
<1>1. PICK x : x = [caller[c] EXCEPT !.step = st]
  OBVIOUS
<1>2. AtWork(caller[c])
  BY TaxInHand
<1>3. /\ x = [step |-> st, bill |-> caller[c].bill, heads |-> caller[c].heads]
      /\ x.step = st /\ x.bill = caller[c].bill /\ x.heads = caller[c].heads
  BY <1>1, <1>2 DEF AtWork
<1>4. AtWork(x)
  <2>1. x = [step |-> x.step, bill |-> x.bill, heads |-> x.heads] /\ x.bill \in Bills
    BY <1>2, <1>3 DEF AtWork
  <2>2. \/ x.step = "second" /\ x.heads = 0
        \/ x.step = "head" /\ x.heads \in 0..MaxHeads - 1
    BY <1>2, <1>3, TaxConstants DEF AtWork
  <2> QED BY <2>1, <2>2 DEF AtWork
<1>5. PICK a : a = Taxes!NoAnswer
  OBVIOUS
<1>6. SaidWhy(a)
  BY <1>5 DEF SaidWhy, Taxes!NoAnswer
<1>7. caller' = [caller EXCEPT ![c] = x]
  BY <1>1
<1> QED BY <1>4, <1>6, <1>7, TaxMoves

\* ... or ends before the first attempt, with an error or what was asked for.
LEMMA TaxEnds ==
  ASSUME TaxInv, NEW c \in Callers, NEW a, Taxes!Reply(c, a), SaidWhy(a),
         files' \cup ordered' \subseteq Bills
  PROVE  TaxInv'
<1>1. caller' = [caller EXCEPT ![c] = Taxes!Idle] /\ taxesAnswer' = [taxesAnswer EXCEPT ![c] = a]
  BY DEF Taxes!Reply
<1> QED BY <1>1, TaxMoves

LEMMA TaxErrors ==
  ASSUME TaxInv, NEW c \in Callers, caller[c].step \in {"first", "second", "slip"},
         NEW why \in {"no reglog", "no path", "first", "second", "slip"}
  PROVE  SaidWhy(Taxes!Error(c, why))
<1>1. caller[c].heads = 0
  BY TaxInHand DEF AtWork
<1> QED BY <1>1 DEF SaidWhy, Taxes!Error

LEMMA TaxFirst == ASSUME TaxInv, NEW c \in Callers, Taxes!First(c) PROVE TaxInv'
<1>1. caller[c].step = "first" /\ files' \cup ordered' \subseteq Bills
  BY DEF Taxes!First, Taxes!At, TaxInv
<1>2. \/ caller' = [caller EXCEPT ![c].step = "second"] /\ UNCHANGED taxesAnswer
      \/ Taxes!Reply(c, Taxes!Error(c, "no reglog"))
      \/ Taxes!Reply(c, Taxes!Error(c, "first"))
  BY DEF Taxes!First
<1> QED BY <1>1, <1>2, TaxGoesOn, TaxEnds, TaxErrors

LEMMA TaxSecond == ASSUME TaxInv, NEW c \in Callers, Taxes!Second(c) PROVE TaxInv'
<1>1. caller[c].step = "second"
  BY DEF Taxes!Second, Taxes!At
<1>2. caller[c].bill \in Bills
  BY <1>1, TaxInHand DEF AtWork
<1>3. files' \cup ordered' \subseteq Bills
  BY <1>2 DEF Taxes!Second, TaxInv
<1>4. \/ caller' = [caller EXCEPT ![c].step = "head"] /\ UNCHANGED taxesAnswer
      \/ Taxes!Reply(c, Taxes!Error(c, "no path"))
      \/ Taxes!Reply(c, Taxes!Error(c, "second"))
  BY DEF Taxes!Second
<1> QED BY <1>1, <1>3, <1>4, TaxGoesOn, TaxEnds, TaxErrors

LEMMA TaxSlip == ASSUME TaxInv, NEW c \in Callers, Taxes!Slip(c) PROVE TaxInv'
<1>1. caller[c].step = "slip" /\ files' \cup ordered' \subseteq Bills
  BY DEF Taxes!Slip, Taxes!At, TaxInv
<1>2. PICK a : a = [kind |-> "slip", bill |-> caller[c].bill]
  OBVIOUS
<1>3. SaidWhy(a)
  BY <1>2 DEF SaidWhy
<1>4. \/ Taxes!Reply(c, a)
      \/ Taxes!Reply(c, Taxes!Error(c, "no path"))
      \/ Taxes!Reply(c, Taxes!Error(c, "slip"))
  BY <1>2 DEF Taxes!Slip
<1> QED BY <1>1, <1>3, <1>4, TaxEnds, TaxErrors

\* An attempt that finds nothing is counted, and the last one is given up.
LEMMA TaxNotFound ==
  ASSUME TaxInv, NEW c \in Callers, caller[c].step = "head", Taxes!NotFound(c),
         UNCHANGED <<files, ordered>>
  PROVE  TaxInv'
<1>1. AtWork(caller[c]) /\ caller[c].heads \in 0..MaxHeads - 1
  BY TaxInHand DEF AtWork
<1>2. PICK n : n = caller[c].heads + 1
  OBVIOUS
<1>3. n \in 1..MaxHeads /\ n \in Nat
  BY <1>1, <1>2, TaxConstants
<1>4. files' \cup ordered' \subseteq Bills
  BY DEF TaxInv
<1>5. PICK e : e = [kind |-> "error", bill |-> caller[c].bill, why |-> "not made", heads |-> n]
  OBVIOUS
<1>6. CASE n < MaxHeads
  <2>1. PICK x : x = [step |-> "rest", bill |-> caller[c].bill, heads |-> n]
    OBVIOUS
  <2>2. [caller[c] EXCEPT !.heads = n, !.step = "rest"] = x
    <3>1. caller[c] = [step |-> caller[c].step, bill |-> caller[c].bill,
                       heads |-> caller[c].heads]
      BY <1>1 DEF AtWork
    <3>2. PICK y : y = caller[c]
      OBVIOUS
    <3>3. y = [step |-> y.step, bill |-> y.bill, heads |-> y.heads] /\ y.bill = caller[c].bill
      BY <3>1, <3>2
    <3>4. PICK w : w = [y EXCEPT !.heads = n, !.step = "rest"]
      OBVIOUS
    <3>5. /\ w.step = "rest" /\ w.bill = y.bill /\ w.heads = n
          /\ w = [step |-> w.step, bill |-> w.bill, heads |-> w.heads]
      BY <3>3, <3>4
    <3>6. w = x
      BY <2>1, <3>3, <3>5
    <3> QED BY <3>2, <3>4, <3>6
  <2>3. caller' = [caller EXCEPT ![c].heads = n, ![c].step = "rest"] /\ UNCHANGED taxesAnswer
    BY <1>2, <1>6 DEF Taxes!NotFound, Taxes!MoreHeads
  <2>4. caller' = [caller EXCEPT ![c] = x]
    BY <2>2, <2>3
  <2>5. AtWork(x)
    <3>1. n \in 0..MaxHeads - 1
      BY <1>3, <1>6, TaxConstants
    <3> QED BY <1>1, <2>1, <3>1 DEF AtWork
  <2>6. PICK a : a = Taxes!NoAnswer
    OBVIOUS
  <2>7. SaidWhy(a)
    BY <2>6 DEF SaidWhy, Taxes!NoAnswer
  <2> QED BY <1>4, <2>3, <2>4, <2>5, <2>7, TaxMoves
<1>7. CASE ~(n < MaxHeads)
  <2>1. n = MaxHeads
    BY <1>3, <1>7, TaxConstants
  <2>2. SaidWhy(e)
    BY <1>5, <2>1 DEF SaidWhy
  <2>3. Taxes!Reply(c, [Taxes!Error(c, "not made") EXCEPT !.heads = n])
    BY <1>2, <1>7 DEF Taxes!NotFound, Taxes!MoreHeads
  <2>4. [Taxes!Error(c, "not made") EXCEPT !.heads = n] = e
    <3>1. PICK why : why = "not made"
      OBVIOUS
    <3>2. [Taxes!Error(c, why) EXCEPT !.heads = n]
            = [kind |-> "error", bill |-> caller[c].bill, why |-> why, heads |-> n]
      BY DEF Taxes!Error
    <3> QED BY <1>5, <3>1, <3>2
  <2>5. Taxes!Reply(c, e)
    BY <2>3, <2>4
  <2> QED BY <1>4, <2>2, <2>5, TaxEnds
<1> QED BY <1>6, <1>7

LEMMA TaxHead == ASSUME TaxInv, NEW c \in Callers, Taxes!Head(c) PROVE TaxInv'
<1>1. /\ caller[c].step = "head" /\ UNCHANGED <<files, ordered>>
      /\ files' \cup ordered' \subseteq Bills
  BY DEF Taxes!Head, Taxes!At, TaxInv
<1>2. PICK a : a = [kind |-> "pdf", bill |-> caller[c].bill]
  OBVIOUS
<1>3. SaidWhy(a)
  BY <1>2 DEF SaidWhy
<1>4. Taxes!Reply(c, a) \/ Taxes!NotFound(c)
  BY <1>2 DEF Taxes!Head
<1> QED BY <1>1, <1>3, <1>4, TaxEnds, TaxNotFound

LEMMA TaxHeadFails == ASSUME TaxInv, NEW c \in Callers, Taxes!HeadFails(c) PROVE TaxInv'
BY TaxNotFound DEF Taxes!HeadFails, Taxes!At

LEMMA TaxRest == ASSUME TaxInv, NEW c \in Callers, Taxes!Rest(c) PROVE TaxInv'
<1>1. /\ caller[c].step = "rest" /\ caller' = [caller EXCEPT ![c].step = "head"]
      /\ UNCHANGED taxesAnswer /\ files' \cup ordered' \subseteq Bills
  BY DEF Taxes!Rest, Taxes!At, TaxInv
<1> QED BY <1>1, TaxGoesOn

LEMMA TaxServer == ASSUME TaxInv, Taxes!Make \/ Taxes!Clear PROVE TaxInv'
<1>1. files' \cup ordered' \subseteq Bills /\ UNCHANGED <<caller, taxesAnswer>>
  BY DEF Taxes!Make, Taxes!Clear, TaxInv
<1> QED BY <1>1 DEF TaxInv, SaidWhy

LEMMA TaxInductive == Taxes!Spec => []TaxInv
<1>1. TaxInv /\ Taxes!Next => TaxInv'
  BY TaxAsk, TaxFirst, TaxSecond, TaxSlip, TaxHead, TaxHeadFails, TaxRest, TaxServer
     DEF Taxes!Next, Taxes!Posts
<1>2. TaxInv /\ UNCHANGED Taxes!vars => TaxInv'
  BY DEF Taxes!vars, TaxInv, SaidWhy
<1> QED BY <1>1, <1>2, TaxInit, PTL DEF Taxes!Spec

LEMMA TaxFollows == ASSUME TaxInv PROVE Taxes!TypeOK /\ Taxes!GivenUpAfterAll
<1>1. ASSUME NEW c \in Callers
      PROVE  /\ caller[c].step \in {"idle", "first", "second", "head", "rest", "slip"}
             /\ caller[c].step # "idle" => caller[c].heads \in 0..MaxHeads - 1
  <2>1. CASE caller[c] = Taxes!Idle
    BY <2>1 DEF Taxes!Idle
  <2>2. CASE AtWork(caller[c])
    BY <2>2, TaxConstants DEF AtWork
  <2> QED BY <2>1, <2>2 DEF TaxInv
<1> QED BY <1>1 DEF TaxInv, SaidWhy, Taxes!GivenUpAfterAll, Taxes!TypeOK, Taxes!At

----------------------------------------------------------------------------
(* The components side by side. *)

LEMMA DashIsAPart == ServicesSpec => Dash!Spec
<1>1. ServicesInit => Dash!Init
  BY DEF ServicesInit
<1>2. [ServicesNext]_<<active, webhookVars, vars, dashboardVars, taxesVars>>
        => [Dash!Next]_(Dash!vars)
  <2>1. DashboardStep => Dash!Next
    BY DEF DashboardStep, DashboardOf, Dash!Next, Dash!Step
  <2>2. UNCHANGED dashboardVars => UNCHANGED Dash!vars
    BY DEF dashboardVars, Dash!vars
  <2> QED BY <2>1, <2>2 DEF ServicesNext, WebhookStep, TurnoStep, TaxesStep
<1> QED BY <1>1, <1>2, PTL DEF ServicesSpec, Dash!Spec

LEMMA TaxesAreAPart == ServicesSpec => Taxes!Spec
<1>1. ServicesInit => Taxes!Init
  BY DEF ServicesInit
<1>2. [ServicesNext]_<<active, webhookVars, vars, dashboardVars, taxesVars>>
        => [Taxes!Next]_(Taxes!vars)
  <2>1. UNCHANGED taxesVars => UNCHANGED Taxes!vars
    BY DEF taxesVars, Taxes!vars
  <2> QED BY <2>1 DEF ServicesNext, WebhookStep, TurnoStep, DashboardStep, TaxesStep
<1> QED BY <1>1, <1>2, PTL DEF ServicesSpec, Taxes!Spec

LEMMA TurnosAreAPart == ServicesSpec => Spec
<1>1. ServicesInit => Init
  BY DEF ServicesInit
<1>2. [ServicesNext]_<<active, webhookVars, vars, dashboardVars, taxesVars>> => [Next]_vars
  <2>1. TurnoStep => Next
    BY DEF TurnoStep, Scenario, Next
  <2> QED BY <2>1 DEF ServicesNext, WebhookStep, DashboardStep, TaxesStep
<1> QED BY <1>1, <1>2, PTL DEF ServicesSpec, Spec

\* The turns and the messages about them agree, for any bookings and requests, in any order of
\* their steps, with any number of failed queries and messages and of restarts: the estado is
\* the last one asked for, enviada was told, a cancellation is told once per change, and a
\* booking gets at most a confirmation per retry and one more.
THEOREM TurnosAreToldHolds ==
  (Spec => []TurnosAreTold) /\ (ServicesSpec => []TurnosAreTold)
<1>1. IInv => TurnosAreTold
  BY MessagesRecorded, BudgetHolds, ApologiesHold
     DEF IInv, Shape, CopiesInv, SaysSent, TurnosAreTold
<1> QED BY <1>1, Inductive, TurnosAreAPart, PTL

\* For any tables, readers, times to live and breaks of the connection with Redis, each figure
\* of a summary, counted or from the cache, was right at some moment since its count began, and
\* none is served past its time to live; and for any callers and replies of the municipal server
\* a bill is given up as not made only after all its attempts.
THEOREM AnswersWereTrueHolds ==
  /\ Dash!Spec /\ Taxes!Spec => []AnswersWereTrue
  /\ ServicesSpec => []AnswersWereTrue
<1>1. DashInv /\ TaxInv => AnswersWereTrue
  BY DashFollows, TaxFollows DEF AnswersWereTrue
<1>2. Dash!Spec /\ Taxes!Spec => []AnswersWereTrue
  BY <1>1, DashInductive, TaxInductive, PTL
<1> QED BY <1>2, DashIsAPart, TaxesAreAPart, PTL

----------------------------------------------------------------------------
(* AmeliaWebhook: what a webhook is read as. *)

\* Every nonempty set of natural numbers has a least one, and a bounded one a greatest one.
LEMMA LeastNatural ==
  ASSUME NEW T \in SUBSET Nat, T # {}
  PROVE  \E n \in T : \A m \in T : n <= m
<1>0. T \subseteq Nat
  OBVIOUS
<1>1. PICK R : R = OpToRel(<, Nat)
  OBVIOUS
<1>2. IsWellFoundedOn(R, Nat)
  BY <1>1, NatLessThanWellFounded
<1>3. PICK n \in T : \A m \in T : <<m, n>> \notin R
  BY <1>2, WFMin
<1>4. \A m \in T : <<m, n>> \in R <=> m < n
  BY <1>1 DEF OpToRel
<1>5. n \in Nat /\ \A m \in T : m \in Nat /\ ~(m < n)
  BY <1>0, <1>3, <1>4
<1>6. \A m \in T : n <= m
  BY <1>5
<1> QED BY <1>6

LEMMA GreatestNatural ==
  ASSUME NEW c \in Nat, NEW T \in SUBSET (0..c), T # {}
  PROVE  \E n \in T : \A m \in T : m <= n
<1> DEFINE U == {c - m : m \in T}
<1>1. U \in SUBSET Nat /\ U # {}
  <2>1. \A m \in T : m \in Nat /\ m <= c
    OBVIOUS
  <2>2. \A m \in T : c - m \in Nat
    BY <2>1
  <2> QED BY <2>2
<1>2. PICK u \in U : \A v \in U : u <= v
  <2> HIDE DEF U
  <2> QED BY <1>1, LeastNatural
<1>3. PICK n \in T : u = c - n
  OBVIOUS
<1>4. ASSUME NEW m \in T PROVE m <= n
  <2>1. c - m \in U
    OBVIOUS
  <2>2. u <= c - m /\ m \in Int /\ n \in Int
    BY <1>2, <2>1
  <2> QED BY <1>3, <2>2
<1> QED BY <1>4

LEMMA WebhookConstants ==
  /\ SecretSet \in BOOLEAN
  /\ \A q \in Webhooks :
       /\ q \in [header : Webhook!Tokens, query : Webhook!Tokens, token : Webhook!Tokens,
                 direct : Webhook!AppointmentsRead, first : Webhook!AppointmentsRead,
                 own : Webhook!AppointmentsRead, bookings : Webhook!BookingsRead]
       /\ Webhook!AreBookings(q.bookings)
       /\ \A a \in {q.direct, q.first, q.own} : a # None => Webhook!AreBookings(a.bookings)
BY WebhookHolds DEF Webhook!RequestsAssumption, Webhook!None, None

BookingsGiven == [shape : {"array", "object"}, items : Seq(Webhook!Items)]

\* The bookings a request has are those of one of its parts.
LEMMA BookingsOfRequest ==
  ASSUME NEW q \in Webhooks, Webhook!Appointment(q) # None
  PROVE  /\ Webhook!Appointment(q) \in Webhook!AppointmentsRead
         /\ Webhook!BookingsRaw(q) \in {None} \cup BookingsGiven /\ Webhook!AreBookings(Webhook!BookingsRaw(q))
<1>1. PICK a : a = Webhook!Appointment(q)
  OBVIOUS
<1>2. a \in {q.direct, q.first, q.own}
  BY <1>1 DEF Webhook!Appointment
<1>3. a \in Webhook!AppointmentsRead /\ a # None /\ Webhook!AreBookings(a.bookings)
  BY <1>1, <1>2, WebhookConstants
<1>4. a.bookings \in Webhook!BookingsRead
  BY <1>3 DEF Webhook!AppointmentsRead, Webhook!None, None
<1>5. Webhook!BookingsRaw(q) \in {a.bookings, q.bookings}
  BY <1>1 DEF Webhook!BookingsRaw
<1> QED BY <1>1, <1>3, <1>4, <1>5, WebhookConstants DEF Webhook!BookingsRead, Webhook!None, None, BookingsGiven

\* The key that is first is that of an item, and the smallest of those that are indexes.
LEMMA FirstKeyIs ==
  ASSUME NEW bs \in BookingsGiven, Webhook!Kept(bs) # {}
  PROVE  LET k == Webhook!FirstKey(bs) IN
         /\ \E i \in Webhook!Kept(bs) : Webhook!KeyOf(bs, i) = k
         /\ \A i \in Webhook!Kept(bs) :
              Webhook!KeyOf(bs, i) \in Nat => k \in 0..Webhook!KeyOf(bs, i)
<1> DEFINE K == Webhook!Kept(bs)
           D == {Webhook!KeyOf(bs, i) : i \in K} \cap Nat
<1>1. K \in SUBSET Nat
  BY DEF Webhook!Kept, BookingsGiven, Webhook!None, None
<1>2. CASE D # {}
  <2>1. Webhook!FirstKey(bs) = Webhook!Min(D)
    BY <1>2 DEF Webhook!FirstKey
  <2>2. \E n \in D : \A k \in D : n <= k
    <3>1. D \in SUBSET Nat
      OBVIOUS
    <3> HIDE DEF D
    <3> QED BY <1>2, <3>1, LeastNatural
  <2>3. Webhook!Min(D) \in D /\ \A k \in D : Webhook!Min(D) <= k
    <3> HIDE DEF D
    <3> QED BY <2>2 DEF Webhook!Min
  <2>4. PICK k : k = Webhook!Min(D)
    OBVIOUS
  <2>5. k \in Nat /\ (\E i \in K : Webhook!KeyOf(bs, i) = k)
    BY <2>3, <2>4
  <2>6. ASSUME NEW i \in K, Webhook!KeyOf(bs, i) \in Nat PROVE k \in 0..Webhook!KeyOf(bs, i)
    <3>1. Webhook!KeyOf(bs, i) \in D
      BY <2>6
    <3>2. k <= Webhook!KeyOf(bs, i)
      BY <2>3, <2>4, <3>1
    <3> QED BY <2>5, <2>6, <3>2
  <2> QED BY <2>1, <2>4, <2>5, <2>6
<1>3. CASE D = {}
  <2>1. Webhook!FirstKey(bs) = Webhook!KeyOf(bs, Webhook!Min(K))
    BY <1>3 DEF Webhook!FirstKey
  <2>2. Webhook!Min(K) \in K
    <3>1. \E n \in K : \A k \in K : n <= k
      <4>1. K # {}
        OBVIOUS
      <4> HIDE DEF K
      <4> QED BY <1>1, <4>1, LeastNatural
    <3> HIDE DEF K
    <3> QED BY <3>1 DEF Webhook!Min
  <2>3. \A i \in K : Webhook!KeyOf(bs, i) \notin Nat
    BY <1>3
  <2> QED BY <2>1, <2>2, <2>3
<1> QED BY <1>2, <1>3

LEMMA FirstIsSmallest ==
  ASSUME NEW bs \in BookingsGiven, Webhook!Kept(bs) # {}
  PROVE  \E l \in Webhook!Kept(bs) :
           /\ Webhook!Parsed(bs)[Webhook!FirstKey(bs)] = bs.items[l]
           /\ \A i \in Webhook!Kept(bs) :
                Webhook!KeyOf(bs, i) \in Nat => Webhook!KeyOf(bs, l) \in 0..Webhook!KeyOf(bs, i)
<1> DEFINE K == Webhook!Kept(bs)
           D == {Webhook!KeyOf(bs, i) : i \in K}
<1>1. PICK m : m = Webhook!FirstKey(bs)
  OBVIOUS
<1> DEFINE L == {i \in K : Webhook!KeyOf(bs, i) = m}
           l == Webhook!Max(L)
<1>2. /\ \E i \in K : Webhook!KeyOf(bs, i) = m
      /\ \A i \in K : Webhook!KeyOf(bs, i) \in Nat => m \in 0..Webhook!KeyOf(bs, i)
  BY <1>1, FirstKeyIs
<1>3. /\ K \subseteq 1..Len(bs.items) /\ Len(bs.items) \in Nat
  BY DEF Webhook!Kept, BookingsGiven, Webhook!None, None
<1>4. l \in L
  <2>1. L # {} /\ L \subseteq 0..Len(bs.items)
    BY <1>2, <1>3
  <2>2. \E n \in L : \A k \in L : k <= n
    <3> HIDE DEF L
    <3> QED BY <1>3, <2>1, GreatestNatural
  <2> HIDE DEF L
  <2> QED BY <2>2 DEF Webhook!Max
<1>5. Webhook!Parsed(bs) = [k \in D |-> bs.items[Webhook!Max({i \in K : Webhook!KeyOf(bs, i) = k})]]
  BY DEF Webhook!Parsed
<1>6. Webhook!Parsed(bs)[m] = bs.items[l]
  BY <1>2, <1>5
<1> HIDE DEF l
<1>7. l \in K /\ Webhook!KeyOf(bs, l) = m
  BY <1>4
<1> QED BY <1>1, <1>2, <1>6, <1>7

\* What a 201 says of the request.
LEMMA WhatIsServed ==
  ASSUME NEW q \in Webhooks, Webhook!Outcome(q) = 201
  PROVE  /\ Webhook!Appointment(q) # None /\ Webhook!AppointmentOk(Webhook!Appointment(q))
         /\ Webhook!Appointment(q).dates # "bad"
         /\ \A i \in Webhook!Records(Webhook!BookingsRaw(q)) : i.kind # "bad"
         /\ Webhook!Records(Webhook!BookingsRaw(q)) # {}
<1>1. Webhook!Authorized(q) /\ Webhook!Appointment(q) # Webhook!None
  BY DEF Webhook!Outcome
<1> QED BY <1>1 DEF Webhook!Outcome, Webhook!None, None

\* A telephone as it is stored, read again, is looked up as it is.
LEMMA StoredIsFound ==
  ASSUME NEW p \in Webhook!Telephone, Webhook!IsTelephone(p)
  PROVE  LET n == Webhook!Normalize(p)
         IN  Webhook!LookedUp(n) = [mobile |-> n.mobile, rest |-> n.rest]
<1>1. PICK n : n = Webhook!Normalize(p)
  OBVIOUS
<1>2. n \in [mobile : BOOLEAN, rest : Nat, numeric : BOOLEAN, isValid : BOOLEAN]
      /\ (~n.mobile => n = Webhook!Empty \/ n.rest > 10)
  BY <1>1 DEF Webhook!Normalize, Webhook!Telephone, Webhook!IsTelephone, Webhook!WithCountry, Webhook!WithFifteen,
              Webhook!Local, Webhook!Result, Webhook!Empty, Webhook!Thirteen, Webhook!AreaLength
<1>3. CASE n = Webhook!Empty
  <2>1. PICK u : u = Webhook!Reread(n)
    OBVIOUS
  <2>2. u.prefix = "void"
    <3>1. ~n.mobile
      BY <1>3 DEF Webhook!Empty
    <3>2. u = [prefix |-> "void", nine |-> FALSE, rest |-> 0, numeric |-> TRUE]
      BY <1>3, <2>1, <3>1 DEF Webhook!Reread
    <3> QED BY <3>2
  <2>3. PICK a : a = Webhook!Normalize(u)
    OBVIOUS
  <2>4. a = Webhook!Empty
    BY <2>2, <2>3 DEF Webhook!Normalize
  <2>5. a.isValid = FALSE
    BY <2>4 DEF Webhook!Empty
  <2> QED BY <1>1, <2>1, <2>3, <2>5 DEF Webhook!LookedUp
<1>4. CASE n # Webhook!Empty /\ n.mobile
  <2>1. Webhook!Reread(n) = [prefix |-> "54", nine |-> TRUE, rest |-> n.rest + 1, numeric |-> n.numeric]
    BY <1>2, <1>4 DEF Webhook!Reread
  <2>2. PICK a : a = Webhook!Normalize(Webhook!Reread(n))
    OBVIOUS
  <2>3. a.mobile = TRUE /\ a.rest = n.rest
    <3>1. PICK k \in Nat : k = n.rest + 1
      BY <1>2
    <3>2. PICK u : u = Webhook!Reread(n)
      OBVIOUS
    <3>3. u.prefix = "54" /\ u.nine = TRUE /\ u.rest = k
      BY <2>1, <3>1, <3>2
    <3>4. a = Webhook!WithCountry(u)
      BY <2>2, <3>2, <3>3 DEF Webhook!Normalize
    <3> QED BY <1>2, <3>1, <3>3, <3>4 DEF Webhook!WithCountry, Webhook!Result
  <2> QED BY <1>1, <1>2, <1>4, <2>2, <2>3 DEF Webhook!LookedUp
<1>5. CASE n # Webhook!Empty /\ ~n.mobile
  <2>1. Webhook!Reread(n) = [prefix |-> "other", nine |-> FALSE, rest |-> n.rest, numeric |-> n.numeric]
    BY <1>2, <1>5 DEF Webhook!Reread
  <2>2. PICK a : a = Webhook!Normalize(Webhook!Reread(n))
    OBVIOUS
  <2>3. a.isValid = FALSE
    BY <1>2, <1>5, <2>1, <2>2 DEF Webhook!Normalize, Webhook!Local, Webhook!Result
  <2> QED BY <1>1, <2>2, <2>3 DEF Webhook!LookedUp
<1> QED BY <1>3, <1>4, <1>5

----------------------------------------------------------------------------

\* A turn is what the request says, once it is served.
WebhookInv ==
  /\ request \in Webhooks
  /\ webhookAnswer # 0 => webhookAnswer = Webhook!Outcome(request)
  /\ turno # None => webhookAnswer = 201 /\ turno = Webhook!BuildTurno(request)

LEMMA TurnoIsRead ==
  ASSUME WebhookInv, turno # None
  PROVE  /\ Webhook!SmallestBookingIsTaken /\ Webhook!NothingOfABadPayload
         /\ Webhook!StoredTelephoneIsFound
<1>0. PICK q \in Webhooks : q = request
  BY DEF WebhookInv
<1>1. Webhook!Outcome(q) = 201 /\ turno = Webhook!BuildTurno(q)
  BY <1>0 DEF WebhookInv
<1>2. PICK a, bs : a = Webhook!Appointment(q) /\ bs = Webhook!BookingsRaw(q)
  OBVIOUS
<1>3. /\ a # None /\ Webhook!AppointmentOk(a) /\ a.dates # "bad"
      /\ \A i \in Webhook!Records(bs) : i.kind # "bad"
      /\ Webhook!Records(bs) # {}
  BY <1>1, <1>2, WhatIsServed
<1>4. a \in Webhook!AppointmentsRead /\ bs \in {None} \cup BookingsGiven /\ Webhook!AreBookings(bs)
  BY <1>2, <1>3, BookingsOfRequest
<1>5. bs # None /\ bs \in BookingsGiven /\ Webhook!Kept(bs) # {}
  BY <1>3, <1>4 DEF Webhook!Records, Webhook!Kept, Webhook!None, None
<1>6. PICK b : b = Webhook!Parsed(bs)[Webhook!FirstKey(bs)]
  OBVIOUS
<1>7. PICK l \in Webhook!Kept(bs) :
        /\ b = bs.items[l]
        /\ \A i \in Webhook!Kept(bs) :
             Webhook!KeyOf(bs, i) \in Nat => Webhook!KeyOf(bs, l) \in 0..Webhook!KeyOf(bs, i)
  BY <1>5, <1>6, FirstIsSmallest
<1>8. turno = [bookingId |-> b.id, telefono |-> Webhook!Normalize(b.phone),
               notified |-> Webhook!IsValidArgentinePhone(Webhook!Normalize(b.phone))]
  BY <1>1, <1>2, <1>6 DEF Webhook!BuildTurno, Webhook!FirstBooking
<1>9. Webhook!SmallestBookingIsTaken
  <2>1. b \in Webhook!Records(bs) /\ b.id = turno.bookingId
    BY <1>7, <1>8 DEF Webhook!Records
  <2>2. ASSUME bs.shape = "object", NEW s \in Webhook!Records(bs), s.key \in Nat
        PROVE  b.key \in 0..s.key
    <3>1. PICK i \in Webhook!Kept(bs) : s = bs.items[i]
      BY DEF Webhook!Records
    <3>2. \A j : Webhook!KeyOf(bs, j) = bs.items[j].key
      BY <2>2 DEF Webhook!KeyOf
    <3> QED BY <1>7, <2>2, <3>1, <3>2
  <2>3. ASSUME bs.shape = "array", \A r \in Webhook!Records(bs) : r.id > 0,
               NEW s \in Webhook!Records(bs)
        PROVE  b.id <= s.id
    <3>1. PICK i \in Webhook!Kept(bs) : s = bs.items[i]
      BY DEF Webhook!Records
    <3>2. \A j \in Webhook!Kept(bs) :
            bs.items[j] \in Webhook!Items /\ bs.items[j] \in Webhook!Records(bs)
      BY <1>5 DEF Webhook!Kept, Webhook!Records, BookingsGiven, Webhook!None, None
    <3>3. \A j \in Webhook!Kept(bs) : bs.items[j].id \in Int /\ bs.items[j].id > 0
      BY <2>3, <3>2 DEF Webhook!Items
    <3>4. \A j \in Webhook!Kept(bs) : Webhook!KeyOf(bs, j) = bs.items[j].id
      BY <2>3, <3>3 DEF Webhook!KeyOf
    <3>5. bs.items[l].id \in Int /\ bs.items[i].id \in Nat
      BY <3>1, <3>3
    <3>6. bs.items[l].id \in 0..bs.items[i].id
      BY <1>7, <3>1, <3>4, <3>5
    <3> QED BY <1>7, <3>1, <3>5, <3>6
  <2> QED BY <1>0, <1>2, <2>1, <2>2, <2>3 DEF Webhook!SmallestBookingIsTaken
<1>10. Webhook!NothingOfABadPayload
  <2>1. "bad" \notin {a.fields, a.dates, a.provider, a.location}
    BY <1>3 DEF Webhook!AppointmentOk
  <2>2. \A i \in DOMAIN bs.items : bs.items[i].kind # "bad"
    BY <1>3, <1>5 DEF Webhook!Records, Webhook!Kept, Webhook!None, None
  <2> QED BY <1>0, <1>2, <1>5, <2>1, <2>2 DEF Webhook!NothingOfABadPayload, Webhook!Sent, Webhook!None, None
<1>11. Webhook!StoredTelephoneIsFound
  <2>1. PICK i \in DOMAIN bs.items : b = bs.items[i]
    BY <1>5, <1>7 DEF Webhook!Kept, Webhook!None, None
  <2>2. bs.items[i] \in Webhook!Items /\ Webhook!IsTelephone(bs.items[i].phone)
    BY <1>4, <1>5 DEF BookingsGiven, Webhook!AreBookings, Webhook!None, None
  <2>3. b.phone \in Webhook!Telephone /\ Webhook!IsTelephone(b.phone)
    BY <2>1, <2>2 DEF Webhook!Items
  <2>4. PICK n : n = Webhook!Normalize(b.phone)
    OBVIOUS
  <2>5. Webhook!LookedUp(n) = [mobile |-> n.mobile, rest |-> n.rest]
    BY <2>3, <2>4, StoredIsFound
  <2>6. turno.telefono = n
    BY <1>8, <2>4
  <2> QED BY <2>5, <2>6 DEF Webhook!StoredTelephoneIsFound
<1> QED BY <1>9, <1>10, <1>11

\* Who is to blame is who did wrong.
LEMMA BlameIsFair ==
  ASSUME WebhookInv
  PROVE  Webhook!AnswersAreFair
<1> SUFFICES ASSUME webhookAnswer # 0
             PROVE  /\ webhookAnswer = 500 => Webhook!Appointment(request).dates = "bad"
                    /\ webhookAnswer = 401 =>
                         LET given == {request.header, request.query, request.token} IN
                         SecretSet /\ ("secret" \notin given \/ "other" \in given)
                    /\ webhookAnswer = 400 =>
                         ~ (/\ Webhook!Appointment(request) # Webhook!None
                            /\ Webhook!AppointmentOk(Webhook!Appointment(request))
                            /\ Webhook!Sent # << >>
                            /\ \A i \in DOMAIN Webhook!Sent : Webhook!Sent[i].kind = "ok")
  BY DEF Webhook!AnswersAreFair, Webhook!Served
<1>0. PICK q \in Webhooks : q = request
  BY DEF WebhookInv
<1>1. webhookAnswer = Webhook!Outcome(q)
  BY <1>0 DEF WebhookInv
<1>2. ASSUME webhookAnswer = 500 PROVE Webhook!Appointment(q).dates = "bad"
  <2>1. Webhook!Authorized(q) /\ Webhook!Appointment(q) # Webhook!None
    BY <1>1, <1>2 DEF Webhook!Outcome
  <2> QED BY <1>1, <1>2, <2>1 DEF Webhook!Outcome
<1>3. ASSUME webhookAnswer = 401
      PROVE  LET given == {q.header, q.query, q.token} IN
             SecretSet /\ ("secret" \notin given \/ "other" \in given)
  <2>1. ~Webhook!Authorized(q)
    <3> SUFFICES ASSUME Webhook!Authorized(q) PROVE FALSE
      OBVIOUS
    <3>1. CASE Webhook!Appointment(q) = Webhook!None
      BY <1>1, <1>3, <3>1 DEF Webhook!Outcome
    <3>2. CASE Webhook!Appointment(q) # Webhook!None
      BY <1>1, <1>3, <3>2 DEF Webhook!Outcome
    <3> QED BY <3>1, <3>2
  <2>2. SecretSet /\ Webhook!ReceivedToken(q) # "secret"
    BY <2>1 DEF Webhook!Authorized
  <2>3. q.header \in Webhook!Tokens /\ q.query \in Webhook!Tokens /\ q.token \in Webhook!Tokens
    BY WebhookConstants
  <2> QED BY <2>2, <2>3 DEF Webhook!ReceivedToken, Webhook!Tokens
<1>4. ASSUME webhookAnswer = 400, Webhook!Appointment(q) # Webhook!None,
             Webhook!AppointmentOk(Webhook!Appointment(q)), Webhook!Sent # << >>,
             \A i \in DOMAIN Webhook!Sent : Webhook!Sent[i].kind = "ok"
      PROVE  FALSE
  <2>1. PICK bs : bs = Webhook!BookingsRaw(q)
    OBVIOUS
  <2>2. bs \in {None} \cup BookingsGiven
    BY <1>4, <2>1, BookingsOfRequest DEF Webhook!None, None
  <2>3. bs # None /\ Webhook!Sent = bs.items
    BY <1>0, <1>4, <2>1 DEF Webhook!Sent, Webhook!None, None
  <2>4. bs.items \in Seq(Webhook!Items) /\ bs.items # << >>
    BY <1>4, <2>2, <2>3 DEF BookingsGiven
  <2>5. Len(bs.items) \in Nat /\ DOMAIN bs.items = 1..Len(bs.items) /\ Len(bs.items) # 0
    BY <2>4
  <2>6. 1 \in DOMAIN bs.items
    BY <2>5
  <2>7. \A i \in DOMAIN bs.items : bs.items[i].kind = "ok"
    BY <1>4, <2>3
  <2>8. Webhook!Records(bs) # {} /\ \A r \in Webhook!Records(bs) : r.kind = "ok"
    BY <2>3, <2>6, <2>7 DEF Webhook!Records, Webhook!Kept, Webhook!None, None
  <2>9. Webhook!Authorized(q)
    BY <1>1, <1>4 DEF Webhook!Outcome
  <2> QED BY <1>1, <1>4, <2>1, <2>8, <2>9 DEF Webhook!Outcome
<1> QED BY <1>0, <1>2, <1>3, <1>4

LEMMA WebhookInductive == Webhook!Spec => []WebhookInv
<1>1. Webhook!Init => WebhookInv
  BY DEF Webhook!Init, WebhookInv, Webhook!None, None
<1>2. WebhookInv /\ [Webhook!Next]_(Webhook!vars) => WebhookInv'
  <2> SUFFICES ASSUME WebhookInv, [Webhook!Next]_(Webhook!vars) PROVE WebhookInv'
    OBVIOUS
  <2>1. CASE Webhook!Next
    <3>1. request' = request /\ webhookAnswer' = Webhook!Outcome(request)
          /\ turno' = IF webhookAnswer' = 201 THEN Webhook!BuildTurno(request) ELSE None
      BY <2>1 DEF Webhook!Next, Webhook!WebhookAmelia, Webhook!None, None
    <3>2. Webhook!Outcome(request)' = Webhook!Outcome(request)
          /\ Webhook!BuildTurno(request)' = Webhook!BuildTurno(request)
      BY <3>1
    <3> QED BY <3>1, <3>2 DEF WebhookInv
  <2>2. CASE UNCHANGED Webhook!vars
    BY <2>2 DEF WebhookInv, Webhook!vars
  <2> QED BY <2>1, <2>2
<1> QED BY <1>1, <1>2, PTL DEF Webhook!Spec

LEMMA WebhookIsAPart == ServicesSpec => Webhook!Spec
<1>1. ServicesInit => Webhook!Init
  BY DEF ServicesInit
<1>2. [ServicesNext]_<<active, webhookVars, vars, dashboardVars, taxesVars>>
        => [Webhook!Next]_(Webhook!vars)
  <2>1. UNCHANGED webhookVars => UNCHANGED Webhook!vars
    BY DEF webhookVars, Webhook!vars
  <2> QED BY <2>1 DEF ServicesNext, WebhookStep, TurnoStep, DashboardStep, TaxesStep
<1> QED BY <1>1, <1>2, PTL DEF ServicesSpec, Webhook!Spec

\* A webhook of Amelia is read whatever its shape, for any requests whose parts are right or
\* wrong and any lists of bookings, of any length, keys and ids: the turn is of the smallest id of
\* an array and the smallest index of an object, a payload that is malformed anywhere makes none, the answer blames who is to blame, and
\* the telephone is stored in a form that finds the turn again.
THEOREM WebhookIsReadHolds == (Webhook!Spec => []WebhookIsRead) /\ (ServicesSpec => []WebhookIsRead)
<1>1. WebhookInv => WebhookIsRead
  <2> SUFFICES ASSUME WebhookInv PROVE WebhookIsRead
    OBVIOUS
  <2>1. CASE turno = None
    <3>1. /\ Webhook!SmallestBookingIsTaken /\ Webhook!NothingOfABadPayload
          /\ Webhook!StoredTelephoneIsFound
      BY <2>1 DEF Webhook!SmallestBookingIsTaken, Webhook!NothingOfABadPayload,
                  Webhook!StoredTelephoneIsFound, Webhook!None, None
    <3> QED BY <3>1, BlameIsFair DEF WebhookIsRead
  <2>2. CASE turno # None
    BY <2>2, BlameIsFair, TurnoIsRead DEF WebhookIsRead
  <2> QED BY <2>1, <2>2
<1> QED BY <1>1, WebhookInductive, WebhookIsAPart, PTL
=============================================================================
