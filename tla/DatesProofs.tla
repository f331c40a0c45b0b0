----------------------------- MODULE DatesProofs -----------------------------
(***************************************************************************)
(* Two components about dates.  The duty of the pharmacies changes with    *)
(* the calendar (DutyCalendar), for any dates, zones and hours of change.  *)
(* The days of a period that is over add up to the period, and its visits  *)
(* count each conversation once (DateRanges), for any length of a day and  *)
(* numbers of days, flows and conversations.                               *)
(*                                                                         *)
(* The first section proves, by induction on the size of a set, what a     *)
(* fold that adds up a function over a finite set returns.  The library's  *)
(* induction theorems take operators as parameters; Inductive is one on a  *)
(* set, from the well-founded order of the naturals.                       *)
(***************************************************************************)
EXTENDS MCOfficials, TLAPS, FiniteSetTheorems, WellFoundedInduction

----------------------------------------------------------------------------
(* Sums over finite sets *)

LEMMA LeastNatural ==
  ASSUME NEW T \in SUBSET Nat, T # {}
  PROVE  \E n \in T : \A m \in T : n <= m
<1>0. T \subseteq Nat
  OBVIOUS
<1>1. PICK R : R = OpToRel(<, Nat)
  OBVIOUS
<1>2. IsWellFoundedOn(R, Nat)
  BY <1>1, NatLessThanWellFounded
<1>3. PICK n \in T : \A m \in T : <<m, n>> \notin R
  BY <1>2, WFMin
<1>4. \A m \in T : <<m, n>> \in R <=> m < n
  BY <1>1 DEF OpToRel
<1>5. n \in Nat /\ \A m \in T : m \in Nat /\ ~(m < n)
  BY <1>0, <1>3, <1>4
<1>6. \A m \in T : n <= m
  BY <1>5
<1> QED BY <1>6

\* What holds of zero, and of a number that follows one of which it holds, holds of all.
LEMMA Inductive ==
  ASSUME NEW T \in SUBSET Nat, 0 \in T, \A n \in T : n + 1 \in T
  PROVE  T = Nat
<1> SUFFICES ASSUME T # Nat PROVE FALSE
  OBVIOUS
<1>1. PICK n \in Nat \ T : \A m \in Nat \ T : n <= m
  BY LeastNatural
<1>2. n # 0 /\ n - 1 \in Nat /\ n - 1 \in T
  BY <1>1
<1>3. n - 1 + 1 = n
  OBVIOUS
<1> QED BY <1>1, <1>2, <1>3

\* A function that adds up h over the subsets of S.
Adds(h, S, g) ==
  g = [s \in SUBSET S |-> IF s = {} THEN 0
                          ELSE g[s \ {CHOOSE x \in s : TRUE}] + h[CHOOSE x \in s : TRUE]]
SumOver(h, S) == (CHOOSE g : Adds(h, S, g))[S]

\* The sum over each subset is that of the rest and of one of its elements.
AddsUp(h, S, g) ==
  /\ g[S] = SumOver(h, S) /\ g[{}] = 0
  /\ \A s \in SUBSET S : s # {} => \E x \in s : g[s] = g[s \ {x}] + h[x]

LEMMA SumAddsUp ==
  ASSUME NEW S, IsFiniteSet(S), NEW h
  PROVE  \E g : AddsUp(h, S, g)
<1> DEFINE c(s) == CHOOSE x \in s : TRUE
           Upto(n) == {s \in SUBSET S : Cardinality(s) <= n}
           Good(g, n) == \A s \in Upto(n) : g[s] = IF s = {} THEN 0 ELSE g[s \ {c(s)}] + h[c(s)]
           T == {n \in Nat : \E g : Good(g, n)}
<1>1. \A s \in SUBSET S : /\ IsFiniteSet(s) /\ Cardinality(s) \in Nat /\ Cardinality(s) <= Cardinality(S)
                          /\ (s = {} <=> Cardinality(s) = 0)
                          /\ s # {} => c(s) \in s /\ Cardinality(s \ {c(s)}) = Cardinality(s) - 1
  <2> SUFFICES ASSUME NEW s \in SUBSET S
               PROVE  /\ IsFiniteSet(s) /\ Cardinality(s) \in Nat /\ Cardinality(s) <= Cardinality(S)
                      /\ (s = {} <=> Cardinality(s) = 0)
                      /\ s # {} => c(s) \in s /\ Cardinality(s \ {c(s)}) = Cardinality(s) - 1
    OBVIOUS
  <2>1. IsFiniteSet(s) /\ Cardinality(s) <= Cardinality(S)
    BY FS_Subset
  <2>2. s # {} => c(s) \in s
    OBVIOUS
  <2>3. Cardinality(s) \in Nat /\ (s = {} <=> Cardinality(s) = 0)
    BY <2>1, FS_CardinalityType, FS_EmptySet
  <2>4. s # {} => Cardinality(s \ {c(s)}) = Cardinality(s) - 1
    BY <2>1, <2>2, FS_RemoveElement
  <2> QED BY <2>1, <2>2, <2>3, <2>4
<1> HIDE DEF c
<1>2. 0 \in T
  <2>0. ASSUME NEW s \in SUBSET S, Cardinality(s) <= 0 PROVE s = {}
    <3>1. Cardinality(s) \in Nat
      BY <1>1
    <3>2. Cardinality(s) = 0
      BY <2>0, <3>1
    <3> QED BY <1>1, <3>2
  <2> DEFINE z == [s \in SUBSET S |-> 0]
  <2>1. \A s \in SUBSET S : z[s] = 0
    OBVIOUS
  <2> HIDE DEF z
  <2>2. Good(z, 0)
    BY <2>0, <2>1
  <2> QED BY <2>2
<1>3. ASSUME NEW n \in T PROVE n + 1 \in T
  <2>1. PICK g : Good(g, n)
    OBVIOUS
  <2> DEFINE k == [s \in SUBSET S |-> IF Cardinality(s) <= n THEN g[s] ELSE g[s \ {c(s)}] + h[c(s)]]
  <2>2. ASSUME NEW s \in Upto(n + 1)
        PROVE  k[s] = IF s = {} THEN 0 ELSE k[s \ {c(s)}] + h[c(s)]
    <3>1. s \in SUBSET S /\ s \ {c(s)} \in SUBSET S /\ Cardinality(s) <= n + 1
      OBVIOUS
    <3>2. CASE s = {}
      <4>0. n \in Nat /\ Cardinality(s) = 0
        BY <1>1, <3>1, <3>2
      <4>1. Cardinality(s) <= n /\ s \in Upto(n)
        BY <3>1, <4>0
      <4> QED BY <2>1, <3>2, <4>1
    <3>3. CASE s # {}
      <4>1. Cardinality(s \ {c(s)}) <= n
        BY <1>1, <3>1, <3>3
      <4>2. k[s \ {c(s)}] = g[s \ {c(s)}]
        BY <3>1, <4>1
      <4>3. k[s] = g[s \ {c(s)}] + h[c(s)]
        <5>1. CASE Cardinality(s) <= n
          <6>1. s \in Upto(n) /\ k[s] = g[s]
            BY <3>1, <5>1
          <6> QED BY <2>1, <3>3, <6>1
        <5>2. CASE ~(Cardinality(s) <= n)
          BY <3>1, <5>2
        <5> QED BY <5>1, <5>2
      <4> QED BY <3>3, <4>2, <4>3
    <3> QED BY <3>2, <3>3
  <2> HIDE DEF k
  <2>3. Good(k, n + 1)
    BY <2>2
  <2>4. n + 1 \in Nat
    OBVIOUS
  <2> HIDE DEF Good
  <2> QED BY <2>3, <2>4
<1>4. Cardinality(S) \in T
  <2>1. T = Nat
    <3> HIDE DEF Good
    <3>1. T \in SUBSET Nat
      OBVIOUS
    <3> HIDE DEF T
    <3> QED BY <1>2, <1>3, <3>1, Inductive
  <2> QED BY <1>1, <2>1
<1>5. PICK f : Good(f, Cardinality(S))
  BY <1>4
<1> DEFINE e == [s \in SUBSET S |-> f[s]]
<1>6. Adds(h, S, e)
  <2>1. ASSUME NEW s \in SUBSET S
        PROVE  e[s] = IF s = {} THEN 0 ELSE e[s \ {c(s)}] + h[c(s)]
    <3>1. s \in Upto(Cardinality(S)) /\ s \ {c(s)} \in SUBSET S
      BY <1>1
    <3> QED BY <1>5, <3>1
  <2>2. e = [s \in SUBSET S |-> IF s = {} THEN 0 ELSE e[s \ {c(s)}] + h[c(s)]]
    <3>1. e = [s \in SUBSET S |-> e[s]]
      OBVIOUS
    <3> HIDE DEF e
    <3> QED BY <2>1, <3>1
  <2> HIDE DEF e
  <2> QED BY <2>2 DEF Adds, c
<1>7. PICK g : g = CHOOSE i : Adds(h, S, i)
  OBVIOUS
<1>8. Adds(h, S, g)
  BY <1>6, <1>7
<1>9. g[S] = SumOver(h, S)
  BY <1>7 DEF SumOver
<1>10. \A s \in SUBSET S : g[s] = IF s = {} THEN 0 ELSE g[s \ {c(s)}] + h[c(s)]
  <2>1. g = [s \in SUBSET S |-> IF s = {} THEN 0 ELSE g[s \ {c(s)}] + h[c(s)]]
    BY <1>8 DEF Adds, c
  <2> QED BY <2>1
<1>11. {} \in SUBSET S
  OBVIOUS
<1>12. g[{}] = 0
  BY <1>10, <1>11
<1>13. ASSUME NEW s \in SUBSET S, s # {} PROVE \E x \in s : g[s] = g[s \ {x}] + h[x]
  BY <1>1, <1>10, <1>13
<1> QED BY <1>9, <1>12, <1>13 DEF AddsUp

\* Sums of what is counted of disjoint sets, each with at most m too many.
CountsParts(h, S, P, m) ==
  /\ \A x \in S : /\ IsFiniteSet(P[x]) /\ h[x] \in Nat
                  /\ Cardinality(P[x]) <= h[x] /\ h[x] <= Cardinality(P[x]) + m
  /\ \A x, y \in S : x # y => P[x] \cap P[y] = {}
Together(S, P) == UNION {P[x] : x \in S}

LEMMA SumOfParts ==
  ASSUME NEW S, IsFiniteSet(S), NEW h, NEW P, NEW m \in Nat, CountsParts(h, S, P, m)
  PROVE  /\ IsFiniteSet(Together(S, P)) /\ SumOver(h, S) \in Nat
         /\ Cardinality(Together(S, P)) <= SumOver(h, S)
         /\ SumOver(h, S) <= Cardinality(Together(S, P)) + Cardinality(S) * m
<1>0. PICK g : AddsUp(h, S, g)
  BY SumAddsUp
<1>1. /\ g[S] = SumOver(h, S) /\ g[{}] = 0
      /\ \A s \in SUBSET S : s # {} => \E x \in s : g[s] = g[s \ {x}] + h[x]
  BY <1>0 DEF AddsUp
<1> DEFINE Of(s) == UNION {P[x] : x \in s}
           Bound(s) == /\ IsFiniteSet(Of(s)) /\ g[s] \in Nat /\ Cardinality(Of(s)) <= g[s]
                       /\ g[s] <= Cardinality(Of(s)) + Cardinality(s) * m
           T == {n \in Nat : \A s \in SUBSET S : Cardinality(s) = n => Bound(s)}
<1>2. 0 \in T
  <2> SUFFICES ASSUME NEW s \in SUBSET S, Cardinality(s) = 0 PROVE Bound(s)
    OBVIOUS
  <2>1. s = {}
    BY FS_Subset, FS_EmptySet
  <2>2. Of(s) = {} /\ g[s] = 0
    BY <1>1, <2>1
  <2>3. IsFiniteSet({}) /\ Cardinality({}) = 0
    BY FS_EmptySet
  <2> HIDE DEF Of
  <2> QED BY <2>2, <2>3
<1>3. ASSUME NEW n \in T PROVE n + 1 \in T
  <2>0. n \in Nat
    OBVIOUS
  <2> SUFFICES ASSUME NEW s \in SUBSET S, Cardinality(s) = n + 1 PROVE Bound(s)
    BY <2>0
  <2>1. IsFiniteSet(s) /\ s # {}
    BY <2>0, FS_Subset, FS_EmptySet
  <2>2. PICK x \in s : g[s] = g[s \ {x}] + h[x]
    BY <1>1, <2>1
  <2>3. PICK r \in SUBSET S : r = s \ {x}
    OBVIOUS
  <2>4. Cardinality(r) = n
    <3>1. Cardinality(s \ {x}) = Cardinality(s) - 1
      BY <2>1, FS_RemoveElement
    <3> HIDE DEF T
    <3> QED BY <2>0, <2>3, <3>1
  <2>5. Bound(r)
    BY <2>4
  <2>6. Of(s) = Of(r) \cup P[x] /\ Of(r) \cap P[x] = {}
    BY <2>3 DEF CountsParts
  <2>7. /\ IsFiniteSet(P[x]) /\ h[x] \in Nat /\ Cardinality(P[x]) <= h[x] /\ h[x] <= Cardinality(P[x]) + m
    BY DEF CountsParts
  <2> HIDE DEF Of
  <2>8. IsFiniteSet(Of(s)) /\ Cardinality(Of(s)) = Cardinality(Of(r)) + Cardinality(P[x])
    <3>1. Cardinality(Of(r) \cap P[x]) = 0
      BY <2>6, FS_EmptySet
    <3>2. Cardinality(Of(r)) \in Nat /\ Cardinality(P[x]) \in Nat
      BY <2>5, <2>7, FS_CardinalityType
    <3>3. IsFiniteSet(Of(r) \cup P[x])
          /\ Cardinality(Of(r) \cup P[x]) = Cardinality(Of(r)) + Cardinality(P[x]) - Cardinality(Of(r) \cap P[x])
      BY <2>5, <2>7, FS_Union
    <3> QED BY <2>6, <3>1, <3>2, <3>3
  <2>9. (n + 1) * m = n * m + m /\ n * m \in Nat
    BY <2>0
  <2>10. PICK a \in Nat : a = n * m
    BY <2>9
  <2>11. Cardinality(Of(r)) \in Nat /\ Cardinality(P[x]) \in Nat
    BY <2>5, <2>7, FS_CardinalityType
  <2>12. g[r] \in Nat /\ Cardinality(Of(r)) <= g[r] /\ g[r] <= Cardinality(Of(r)) + a
    BY <2>4, <2>5, <2>10
  <2>13. g[s] = g[r] + h[x] /\ Cardinality(s) * m = a + m
    BY <2>2, <2>3, <2>9, <2>10
  <2>14. g[s] <= Cardinality(Of(s)) + (a + m) /\ g[s] \in Nat /\ Cardinality(Of(s)) <= g[s]
    BY <2>7, <2>8, <2>11, <2>12, <2>13
  <2> QED BY <2>8, <2>13, <2>14
<1>4. Cardinality(S) \in T
  <2>1. T \in SUBSET Nat
    OBVIOUS
  <2>2. T = Nat
    <3> HIDE DEF T
    <3> QED BY <1>2, <1>3, <2>1, Inductive
  <2> QED BY <2>2, FS_CardinalityType
<1>5. Bound(S)
  BY <1>4
<1> HIDE DEF Of
<1> QED BY <1>1, <1>5 DEF Of, Together

----------------------------------------------------------------------------
(* The calendar of the duties *)

\* A date: a year, a month of it and a day of that month.
Date == {d \in Int \X Int \X Int : Calendar!IsDate(d)}
DayBefore(d) == Calendar!AddDaysToISODate(d, -1)
DayAfter(d) == Calendar!AddDaysToISODate(d, 1)

\* How long the duty has lasted when it is h o'clock.
Lasted(h, change) == IF h < change THEN h + 24 - change ELSE h - change

CalendarInv ==
  /\ utc \in Date /\ hour \in 0..23 /\ passed \in 0..Hours /\ changed \in -1..Hours
  /\ changed # -1 => passed - changed = Lasted(Calendar!LocalHour, Calendar!DutyChangeHour)

LEMMA CalendarConstants == Behind \in 0..23 /\ Hours \in Nat /\ Starts \subseteq Date
BY CalendarHolds DEF Calendar!DutyCalendarAssumption, Calendar!StartsAssumption, Date

LEMMA MonthsAreShort == \A y, m \in Int : Calendar!DaysIn(y, m) \in 28..31
BY DEF Calendar!DaysIn

LEMMA DateIs ==
  ASSUME NEW d
  PROVE  d \in Date <=> \E y \in Int, m \in 1..12 : \E k \in 1..Calendar!DaysIn(y, m) : d = <<y, m, k>>
<1>1. ASSUME d \in Date
      PROVE  \E y \in Int, m \in 1..12 : \E k \in 1..Calendar!DaysIn(y, m) : d = <<y, m, k>>
  BY <1>1 DEF Date, Calendar!IsDate
<1>2. ASSUME NEW y \in Int, NEW m \in 1..12, NEW k \in 1..Calendar!DaysIn(y, m), d = <<y, m, k>>
      PROVE  d \in Date
  <2>1. Calendar!DaysIn(y, m) \in Int
    BY MonthsAreShort
  <2> QED BY <1>2, <2>1 DEF Date, Calendar!IsDate
<1> QED BY <1>1, <1>2

\* The day after a date, and the one before, over the ends of months and of years.
LEMMA DayAfterIs ==
  ASSUME NEW y \in Int, NEW m \in 1..12, NEW k \in 1..Calendar!DaysIn(y, m)
  PROVE  DayAfter(<<y, m, k>>) =
           IF k < Calendar!DaysIn(y, m) THEN <<y, m, k + 1>>
           ELSE IF m < 12 THEN <<y, m + 1, 1>> ELSE <<y + 1, 1, 1>>
<1>1. PICK n \in 28..31 : n = Calendar!DaysIn(y, m)
  BY MonthsAreShort
<1>2. DayAfter(<<y, m, k>>) = Calendar!DateUTC(y, m, k + 1)
  BY DEF DayAfter, Calendar!AddDaysToISODate
<1>3. Calendar!DateUTC(y, m, k + 1) =
        IF k + 1 > n THEN <<IF m = 12 THEN y + 1 ELSE y, (m % 12) + 1, k + 1 - n>> ELSE <<y, m, k + 1>>
  BY <1>1 DEF Calendar!DateUTC
<1>4. (m % 12) + 1 = IF m < 12 THEN m + 1 ELSE 1
  OBVIOUS
<1> QED BY <1>1, <1>2, <1>3, <1>4

LEMMA DayBeforeIs ==
  ASSUME NEW y \in Int, NEW m \in 1..12, NEW k \in 1..Calendar!DaysIn(y, m)
  PROVE  DayBefore(<<y, m, k>>) =
           IF 1 < k THEN <<y, m, k - 1>>
           ELSE IF 1 < m THEN <<y, m - 1, Calendar!DaysIn(y, m - 1)>> ELSE <<y - 1, 12, Calendar!DaysIn(y - 1, 12)>>
<1>1. PICK n \in 28..31 : n = Calendar!DaysIn(y, m)
  BY MonthsAreShort
<1>2. DayBefore(<<y, m, k>>) = Calendar!DateUTC(y, m, k - 1)
  BY DEF DayBefore, Calendar!AddDaysToISODate
<1>3. CASE 1 < k
  BY <1>1, <1>2, <1>3 DEF Calendar!DateUTC
<1>4. CASE k = 1 /\ 1 < m
  <2>1. Calendar!DaysIn(y, m - 1) \in Int
    BY MonthsAreShort
  <2>2. Calendar!DateUTC(y, m, 0) = <<y, m - 1, Calendar!DaysIn(y, m - 1) + 0>>
    BY <1>4 DEF Calendar!DateUTC
  <2> QED BY <1>2, <1>4, <2>1, <2>2
<1>5. CASE k = 1 /\ m = 1
  <2>1. Calendar!DaysIn(y - 1, 12) \in Int
    BY MonthsAreShort
  <2>2. Calendar!DateUTC(y, m, 0) = <<y - 1, 12, Calendar!DaysIn(y - 1, 12) + 0>>
    BY <1>5 DEF Calendar!DateUTC
  <2> QED BY <1>2, <1>5, <2>1, <2>2
<1> QED BY <1>1, <1>3, <1>4, <1>5

\* The days of the calendar follow one another.
LEMMA DaysAreInARow ==
  ASSUME NEW d \in Date
  PROVE  /\ DayAfter(d) \in Date /\ DayBefore(d) \in Date /\ DayBefore(d) # d /\ DayAfter(d) # d
         /\ DayBefore(DayAfter(d)) = d /\ DayAfter(DayBefore(d)) = d
<1>1. PICK y \in Int, m \in 1..12 : \E k \in 1..Calendar!DaysIn(y, m) : d = <<y, m, k>>
  BY DateIs
<1>2. PICK k \in 1..Calendar!DaysIn(y, m) : d = <<y, m, k>>
  BY <1>1
<1>3. PICK n \in 28..31 : n = Calendar!DaysIn(y, m)
  BY MonthsAreShort
<1>4. DayAfter(d) = IF k < n THEN <<y, m, k + 1>>
                    ELSE IF m < 12 THEN <<y, m + 1, 1>> ELSE <<y + 1, 1, 1>>
  BY <1>2, <1>3, DayAfterIs
<1>5. DayBefore(d) = IF 1 < k THEN <<y, m, k - 1>>
                     ELSE IF 1 < m THEN <<y, m - 1, Calendar!DaysIn(y, m - 1)>>
                     ELSE <<y - 1, 12, Calendar!DaysIn(y - 1, 12)>>
  BY <1>2, DayBeforeIs
<1>6. DayAfter(d) \in Date /\ DayAfter(d) # d /\ DayBefore(DayAfter(d)) = d
  <2>1. CASE k < n
    <3>1. PICK p \in 1..Calendar!DaysIn(y, m) : p = k + 1
      BY <1>3, <2>1
    <3>2. DayBefore(<<y, m, p>>) = IF 1 < p THEN <<y, m, p - 1>>
                     ELSE IF 1 < m THEN <<y, m - 1, Calendar!DaysIn(y, m - 1)>>
                     ELSE <<y - 1, 12, Calendar!DaysIn(y - 1, 12)>>
      BY DayBeforeIs
    <3>3. 1 < p /\ p - 1 = k
      BY <1>3, <3>1
    <3>4. <<y, m, p>> \in Date
      BY DateIs
    <3> QED BY <1>2, <1>4, <2>1, <3>1, <3>2, <3>3, <3>4
  <2>2. CASE k = n /\ m < 12
    <3>1. PICK o \in 1..12 : o = m + 1
      BY <2>2
    <3>2. 1 \in 1..Calendar!DaysIn(y, o)
      BY MonthsAreShort
    <3>3. DayBefore(<<y, o, 1>>) = IF 1 < 1 THEN <<y, o, 1 - 1>>
                     ELSE IF 1 < o THEN <<y, o - 1, Calendar!DaysIn(y, o - 1)>>
                     ELSE <<y - 1, 12, Calendar!DaysIn(y - 1, 12)>>
      BY <3>2, DayBeforeIs
    <3>4. 1 < o /\ o - 1 = m
      BY <3>1
    <3>5. <<y, o, 1>> \in Date
      BY <3>2, DateIs
    <3> QED BY <1>2, <1>3, <1>4, <2>2, <3>1, <3>3, <3>4, <3>5
  <2>3. CASE k = n /\ m = 12
    <3>1. PICK z \in Int : z = y + 1
      OBVIOUS
    <3>2. 1 \in 1..Calendar!DaysIn(z, 1)
      BY MonthsAreShort
    <3>3. DayBefore(<<z, 1, 1>>) = IF 1 < 1 THEN <<z, 1, 1 - 1>>
                     ELSE IF 1 < 1 THEN <<z, 1 - 1, Calendar!DaysIn(z, 1 - 1)>>
                     ELSE <<z - 1, 12, Calendar!DaysIn(z - 1, 12)>>
      BY <3>2, DayBeforeIs, 1 \in 1..12
    <3>4. z - 1 = y
      BY <3>1
    <3>5. <<z, 1, 1>> \in Date
      BY <3>2, DateIs
    <3> QED BY <1>2, <1>3, <1>4, <2>3, <3>1, <3>3, <3>4, <3>5
  <2> QED BY <1>3, <2>1, <2>2, <2>3
<1>7. DayBefore(d) \in Date /\ DayBefore(d) # d /\ DayAfter(DayBefore(d)) = d
  <2>1. CASE 1 < k
    <3>1. PICK p \in 1..Calendar!DaysIn(y, m) : p = k - 1
      BY <1>3, <2>1
    <3>2. DayAfter(<<y, m, p>>) = IF p < Calendar!DaysIn(y, m) THEN <<y, m, p + 1>>
                     ELSE IF m < 12 THEN <<y, m + 1, 1>> ELSE <<y + 1, 1, 1>>
      BY DayAfterIs
    <3>3. p < Calendar!DaysIn(y, m) /\ p + 1 = k
      BY <1>3, <3>1
    <3>4. <<y, m, p>> \in Date
      BY DateIs
    <3> QED BY <1>2, <1>5, <2>1, <3>1, <3>2, <3>3, <3>4
  <2>2. CASE k = 1 /\ 1 < m
    <3>1. PICK o \in 1..12 : o = m - 1
      BY <2>2
    <3>2. PICK l \in 1..Calendar!DaysIn(y, o) : l = Calendar!DaysIn(y, o)
      BY MonthsAreShort
    <3>3. DayAfter(<<y, o, l>>) = IF l < Calendar!DaysIn(y, o) THEN <<y, o, l + 1>>
                     ELSE IF o < 12 THEN <<y, o + 1, 1>> ELSE <<y + 1, 1, 1>>
      BY DayAfterIs
    <3>4. ~(l < Calendar!DaysIn(y, o)) /\ o < 12 /\ o + 1 = m
      <4>1. Calendar!DaysIn(y, o) \in Int
        BY MonthsAreShort
      <4> QED BY <3>1, <3>2, <4>1
    <3>5. <<y, o, l>> \in Date
      BY DateIs
    <3> QED BY <1>2, <1>5, <2>2, <3>1, <3>2, <3>3, <3>4, <3>5
  <2>3. CASE k = 1 /\ m = 1
    <3>1. PICK z \in Int : z = y - 1
      OBVIOUS
    <3>2. PICK l \in 1..Calendar!DaysIn(z, 12) : l = Calendar!DaysIn(z, 12)
      BY MonthsAreShort
    <3>3. DayAfter(<<z, 12, l>>) = IF l < Calendar!DaysIn(z, 12) THEN <<z, 12, l + 1>>
                     ELSE IF 12 < 12 THEN <<z, 12 + 1, 1>> ELSE <<z + 1, 1, 1>>
      BY DayAfterIs, 12 \in 1..12
    <3>4. ~(l < Calendar!DaysIn(z, 12)) /\ z + 1 = y
      <4>1. Calendar!DaysIn(z, 12) \in Int
        BY MonthsAreShort
      <4> QED BY <3>1, <3>2, <4>1
    <3>5. <<z, 12, l>> \in Date
      BY DateIs
    <3> QED BY <1>2, <1>5, <2>3, <3>1, <3>2, <3>3, <3>4, <3>5
  <2> QED BY <1>3, <2>1, <2>2, <2>3
<1> QED BY <1>6, <1>7

\* Two days added at once are two days.
LEMMA TwoDaysAfter ==
  ASSUME NEW d \in Date
  PROVE  Calendar!AddDaysToISODate(d, 2) = DayAfter(DayAfter(d))
<1>1. PICK y \in Int, m \in 1..12 : \E k \in 1..Calendar!DaysIn(y, m) : d = <<y, m, k>>
  BY DateIs
<1>2. PICK k \in 1..Calendar!DaysIn(y, m) : d = <<y, m, k>>
  BY <1>1
<1>3. PICK n \in 28..31 : n = Calendar!DaysIn(y, m)
  BY MonthsAreShort
<1>0. DayAfter(d) = IF k < n THEN <<y, m, k + 1>>
                    ELSE IF m < 12 THEN <<y, m + 1, 1>> ELSE <<y + 1, 1, 1>>
  BY <1>2, <1>3, DayAfterIs
<1>4. Calendar!AddDaysToISODate(d, 2) =
        IF k + 2 > n THEN <<IF m = 12 THEN y + 1 ELSE y, (m % 12) + 1, k + 2 - n>> ELSE <<y, m, k + 2>>
  <2>1. Calendar!AddDaysToISODate(d, 2) = Calendar!DateUTC(y, m, k + 2)
    BY <1>2 DEF Calendar!AddDaysToISODate
  <2> QED BY <1>3, <2>1 DEF Calendar!DateUTC
<1>5. (m % 12) + 1 = IF m < 12 THEN m + 1 ELSE 1
  OBVIOUS
<1>6. CASE k < n
  <2>1. PICK p \in 1..Calendar!DaysIn(y, m) : p = k + 1
    BY <1>3, <1>6
  <2>2. DayAfter(d) = <<y, m, p>>
    BY <1>0, <1>6, <2>1
  <2>3. DayAfter(<<y, m, p>>) =
           IF p < Calendar!DaysIn(y, m) THEN <<y, m, p + 1>>
           ELSE IF m < 12 THEN <<y, m + 1, 1>> ELSE <<y + 1, 1, 1>>
    BY DayAfterIs
  <2>4. p + 1 = k + 2 /\ k + 2 - n = IF p < n THEN k + 2 - n ELSE 1
    BY <1>6, <2>1
  <2> QED BY <1>3, <1>4, <1>5, <1>6, <2>1, <2>2, <2>3, <2>4
<1>7. CASE k = n
  <2>1. PICK z \in Int : z = IF m = 12 THEN y + 1 ELSE y
    OBVIOUS
  <2>2. PICK o \in 1..12 : o = (m % 12) + 1
    BY <1>5
  <2>3. DayAfter(d) = <<z, o, 1>>
    BY <1>0, <1>5, <1>7, <2>1, <2>2
  <2>4. 1 \in 1..Calendar!DaysIn(z, o) /\ 1 < Calendar!DaysIn(z, o)
    BY MonthsAreShort
  <2>5. DayAfter(<<z, o, 1>>) = <<z, o, 1 + 1>>
    BY <2>4, DayAfterIs
  <2> QED BY <1>4, <1>7, <2>1, <2>2, <2>3, <2>5
<1> QED BY <1>2, <1>3, <1>6, <1>7

LEMMA TomorrowIsAfter ==
  ASSUME utc \in Date
  PROVE  DayAfter(utc) = IF utc[3] < Calendar!DaysIn(utc[1], utc[2]) THEN [utc EXCEPT ![3] = @ + 1]
                         ELSE IF utc[2] < 12 THEN <<utc[1], utc[2] + 1, 1>> ELSE <<utc[1] + 1, 1, 1>>
<1>1. PICK y \in Int, m \in 1..12 : \E k \in 1..Calendar!DaysIn(y, m) : utc = <<y, m, k>>
  BY DateIs
<1>2. PICK k \in 1..Calendar!DaysIn(y, m) : utc = <<y, m, k>>
  BY <1>1
<1>3. PICK n \in 28..31 : n = Calendar!DaysIn(y, m)
  BY MonthsAreShort
<1>4. DayAfter(utc) = IF k < n THEN <<y, m, k + 1>>
                      ELSE IF m < 12 THEN <<y, m + 1, 1>> ELSE <<y + 1, 1, 1>>
  BY <1>2, <1>3, DayAfterIs
<1>5. utc[1] = y /\ utc[2] = m /\ utc[3] = k /\ [utc EXCEPT ![3] = @ + 1] = <<y, m, k + 1>>
  BY <1>2
<1> QED BY <1>3, <1>4, <1>5

LEMMA ChangeHourIs == Calendar!DutyChangeHour \in 0..23
BY DEF Calendar!DutyChangeHour

\* With every hour either the clock comes to the hour of change and the duty to the day after,
\* or neither does.
LEMMA DutyMovesAtTheHour ==
  ASSUME utc \in Date, hour \in 0..23, Calendar!NextHour
  PROVE  /\ utc' \in Date /\ hour' \in 0..23 /\ Calendar!DutyDate \in Date
         /\ Calendar!DutyChangeHour' = Calendar!DutyChangeHour
         /\ Calendar!LocalHour \in 0..23
         /\ Calendar!LocalHour' = IF Calendar!LocalHour = 23 THEN 0 ELSE Calendar!LocalHour + 1
         /\ Calendar!DutyDate' = IF Calendar!LocalHour' = Calendar!DutyChangeHour
                                 THEN DayAfter(Calendar!DutyDate) ELSE Calendar!DutyDate
<1>1. PICK b \in 0..23 : b = Behind
  BY CalendarConstants
<1>2. PICK c \in 0..23 : c = Calendar!DutyChangeHour
  BY ChangeHourIs
<1>3. hour' = IF hour = 23 THEN 0 ELSE hour + 1
  BY DEF Calendar!NextHour
<1>4. utc' = IF hour < 23 THEN utc ELSE DayAfter(utc)
  BY TomorrowIsAfter DEF Calendar!NextHour
<1>5. Calendar!DutyChangeHour' = c
  BY <1>2 DEF Calendar!NextHour, Calendar!DutyChangeHour
<1>6. utc' \in Date /\ hour' \in 0..23
  BY <1>3, <1>4, DaysAreInARow
<1>7. Calendar!LocalHour = IF hour < b THEN hour + 24 - b ELSE hour - b
  BY <1>1 DEF Calendar!LocalHour
<1>8. Calendar!LocalHour' = IF hour' < b THEN hour' + 24 - b ELSE hour' - b
  BY <1>1, <1>6 DEF Calendar!LocalHour
<1>9. PICK h \in 0..23 : h = Calendar!LocalHour
  BY <1>7
<1>10. PICK g \in 0..23 : g = Calendar!LocalHour'
  <2>1. PICK i \in 0..23 : i = hour'
    BY <1>6
  <2>2. Calendar!LocalHour' = IF i < b THEN i + 24 - b ELSE i - b
    BY <1>8, <2>1
  <2>3. Calendar!LocalHour' \in 0..23
    BY <2>2
  <2> QED BY <2>3
<1>11. g = IF h = 23 THEN 0 ELSE h + 1
  BY <1>3, <1>7, <1>8, <1>9, <1>10
<1>12. Calendar!DutyDate = IF h < c THEN IF hour < b THEN DayBefore(DayBefore(utc)) ELSE DayBefore(utc)
                           ELSE IF hour < b THEN DayBefore(utc) ELSE utc
  BY <1>1, <1>2, <1>9 DEF Calendar!DutyDate, Calendar!LocalDate, DayBefore
<1>13. Calendar!DutyDate' = IF g < c THEN IF hour' < b THEN DayBefore(DayBefore(utc')) ELSE DayBefore(utc')
                            ELSE IF hour' < b THEN DayBefore(utc') ELSE utc'
  BY <1>1, <1>5, <1>10 DEF Calendar!DutyDate, Calendar!LocalDate, DayBefore
<1>14. /\ DayBefore(utc) \in Date /\ DayBefore(DayBefore(utc)) \in Date
       /\ DayBefore(DayAfter(utc)) = utc
       /\ DayAfter(DayBefore(utc)) = utc /\ DayAfter(DayBefore(DayBefore(utc))) = DayBefore(utc)
  BY DaysAreInARow
<1>15. Calendar!DutyDate \in Date
  BY <1>12, <1>14
<1>16. Calendar!DutyDate' = IF g = c THEN DayAfter(Calendar!DutyDate) ELSE Calendar!DutyDate
  <2>1. CASE hour < 23
    BY <1>3, <1>4, <1>7, <1>8, <1>9, <1>10, <1>12, <1>13, <1>14, <2>1
  <2>2. CASE hour = 23
    BY <1>3, <1>4, <1>7, <1>8, <1>9, <1>10, <1>12, <1>13, <1>14, <2>2
  <2> QED BY <2>1, <2>2
<1> QED BY <1>2, <1>5, <1>6, <1>9, <1>10, <1>11, <1>15, <1>16

LEMMA CalendarStarts == Calendar!Init => CalendarInv
BY CalendarConstants DEF Calendar!Init, CalendarInv

\* The duty changes at the hour of change alone, and has lasted a day when it does.
LEMMA CalendarHour ==
  ASSUME CalendarInv, Calendar!NextHour
  PROVE  /\ CalendarInv'
         /\ Calendar!DutyDate' # Calendar!DutyDate =>
              /\ Calendar!LocalHour' = Calendar!DutyChangeHour
              /\ Calendar!Calendar'[1] = Calendar!Calendar[2]
              /\ Calendar!Calendar'[2] = Calendar!Calendar[3]
         /\ changed' # changed /\ changed # -1 => changed' = changed + 24
         /\ changed # -1 => passed' - changed' < 24
<1>1. /\ utc \in Date /\ hour \in 0..23 /\ passed \in 0..Hours /\ changed \in -1..Hours
      /\ changed # -1 => passed - changed = Lasted(Calendar!LocalHour, Calendar!DutyChangeHour)
  BY DEF CalendarInv
<1>2. /\ utc' \in Date /\ hour' \in 0..23 /\ Calendar!DutyDate \in Date
      /\ Calendar!DutyChangeHour' = Calendar!DutyChangeHour
      /\ Calendar!LocalHour \in 0..23
      /\ Calendar!LocalHour' = IF Calendar!LocalHour = 23 THEN 0 ELSE Calendar!LocalHour + 1
      /\ Calendar!DutyDate' = IF Calendar!LocalHour' = Calendar!DutyChangeHour
                              THEN DayAfter(Calendar!DutyDate) ELSE Calendar!DutyDate
  BY <1>1, DutyMovesAtTheHour
<1>3. DayAfter(Calendar!DutyDate) # Calendar!DutyDate
  BY <1>2, DaysAreInARow
<1>4. /\ passed < Hours /\ passed' = passed + 1
      /\ changed' = IF Calendar!DutyDate' # Calendar!DutyDate THEN passed' ELSE changed
  BY DEF Calendar!NextHour
<1>5. changed' = IF Calendar!LocalHour' = Calendar!DutyChangeHour THEN passed + 1 ELSE changed
  BY <1>2, <1>3, <1>4
<1>6. PICK c \in 0..23 : c = Calendar!DutyChangeHour
  BY ChangeHourIs
<1>7. PICK h \in 0..23 : h = Calendar!LocalHour
  BY <1>2
<1>8. PICK g \in 0..23 : g = Calendar!LocalHour' /\ g = IF h = 23 THEN 0 ELSE h + 1
  BY <1>2, <1>7
<1>9. changed' # -1 => passed' - changed' = Lasted(g, c)
  BY <1>1, <1>4, <1>5, <1>6, <1>7, <1>8, CalendarConstants DEF Lasted
<1>10. CalendarInv'
  BY <1>1, <1>2, <1>4, <1>5, <1>6, <1>8, <1>9, CalendarConstants DEF CalendarInv
<1>11. changed # -1 => passed' - changed' < 24 /\ (changed' # changed => changed' = changed + 24)
  BY <1>1, <1>4, <1>5, <1>6, <1>7, <1>8, CalendarConstants DEF Lasted
<1>12. Calendar!DutyDate' # Calendar!DutyDate =>
              /\ Calendar!LocalHour' = Calendar!DutyChangeHour
              /\ Calendar!Calendar'[1] = Calendar!Calendar[2]
              /\ Calendar!Calendar'[2] = Calendar!Calendar[3]
  <2> SUFFICES ASSUME Calendar!DutyDate' # Calendar!DutyDate
               PROVE  /\ Calendar!LocalHour' = Calendar!DutyChangeHour
                      /\ Calendar!Calendar'[1] = Calendar!Calendar[2]
                      /\ Calendar!Calendar'[2] = Calendar!Calendar[3]
    OBVIOUS
  <2>1. Calendar!LocalHour' = Calendar!DutyChangeHour /\ Calendar!DutyDate' = DayAfter(Calendar!DutyDate)
    BY <1>2
  <2>2. /\ Calendar!Calendar[2] = DayAfter(Calendar!DutyDate)
        /\ Calendar!Calendar[3] = DayAfter(DayAfter(Calendar!DutyDate))
    BY <1>2, TwoDaysAfter DEF Calendar!Calendar, DayAfter
  <2>3. Calendar!Calendar'[1] = Calendar!DutyDate' /\ Calendar!Calendar'[2] = DayAfter(Calendar!DutyDate')
    BY DEF Calendar!Calendar, DayAfter
  <2> QED BY <2>1, <2>2, <2>3
<1> QED BY <1>10, <1>11, <1>12

LEMMA CalendarInductive == Calendar!Spec => []CalendarInv
<1>1. CalendarInv /\ [Calendar!Next]_(Calendar!vars) => CalendarInv'
  <2>1. CASE Calendar!Next
    BY <2>1, CalendarHour DEF Calendar!Next
  <2>2. CASE UNCHANGED Calendar!vars
    BY <2>2 DEF Calendar!vars, CalendarInv, Calendar!LocalHour, Calendar!DutyChangeHour
  <2> QED BY <2>1, <2>2
<1> QED BY <1>1, CalendarStarts, PTL DEF Calendar!Spec

LEMMA CalendarIsAPart == OfficialsSpec => Calendar!Spec
<1>1. OfficialsInit => Calendar!Init
  BY DEF OfficialsInit
<1>2. [OfficialsNext]_<<active, vars, configVars, qrVars, dutyVars, calendarVars, listVars,
                        rangeVars, logVars>>
        => [Calendar!Next]_(Calendar!vars)
  <2>1. UNCHANGED calendarVars => UNCHANGED Calendar!vars
    BY DEF calendarVars, Calendar!vars
  <2> QED BY <2>1 DEF OfficialsNext, KindStep, ConfigStep, QrStep, DutyStep, CalendarStep, ListStep,
                      RangeStep, LogStep
<1> QED BY <1>1, <1>2, PTL DEF OfficialsSpec, Calendar!Spec

\* The duty changes once a day, at the hour of change, to the one that the calendar announced
\* for the day after, over the ends of months, of years and of leap Februaries; for any
\* dates, zones and hours of change.
THEOREM DutyFollowsCalendarHolds ==
  (Calendar!Spec => DutyFollowsCalendar) /\ (OfficialsSpec => DutyFollowsCalendar)
<1>1. CalendarInv /\ [Calendar!Next]_(Calendar!vars) =>
        [/\ Calendar!DutyDate' # Calendar!DutyDate =>
              /\ Calendar!LocalHour' = Calendar!DutyChangeHour
              /\ Calendar!Calendar'[1] = Calendar!Calendar[2]
              /\ Calendar!Calendar'[2] = Calendar!Calendar[3]
         /\ changed' # changed /\ changed # -1 => changed' = changed + 24
         /\ changed # -1 => passed' - changed' < 24]_(Calendar!vars)
  BY CalendarHour DEF Calendar!Next
<1>2. Calendar!Spec => DutyFollowsCalendar
  BY <1>1, CalendarInductive, PTL
     DEF Calendar!Spec, DutyFollowsCalendar, Calendar!DutyFollowsCalendar, Calendar!DutyLastsADay
<1> QED BY <1>2, CalendarIsAPart, PTL

----------------------------------------------------------------------------
(* The days of a period *)

LEMMA EmptyTable == DOMAIN << >> = {}
OBVIOUS

LEMMA PeriodConstants ==
  /\ Units \in Nat \ {0} /\ RangeDays \in Nat /\ LastPeriod \in Nat /\ MaxTalks \in Nat
  /\ MaxMoves \in Nat /\ IsFiniteSet(Flows) /\ OtherFlow \notin Flows
<1>1. \A S : Periods!IsFiniteSet(S) <=> IsFiniteSet(S)
  BY DEF Periods!IsFiniteSet, IsFiniteSet
<1> QED BY <1>1, DateRangesHolds
        DEF Periods!UnitsAssumption, Periods!FlowsAssumption, Periods!BoundsAssumption

LEMMA PeriodCardinality == \A S : Periods!Cardinality(S) = Cardinality(S)
BY DEF Periods!Cardinality, Cardinality

\* The instants of a day, in a zone whose midnight is that of the dates.
LEMMA DayOfInstant ==
  ASSUME NEW d \in Int, NEW t \in Int, d * Units <= t, t < d * Units + Units
  PROVE  t \div Units = d
<1>0. Units \in Nat \ {0}
  BY PeriodConstants
<1>1. PICK q \in Int, r \in 0..Units - 1 : t = q * Units + r /\ q = t \div Units
  BY <1>0
<1>2. ASSUME q < d PROVE FALSE
  <2>1. PICK k \in Nat : d = q + 1 + k
    BY <1>2
  <2>2. d * Units = q * Units + Units + k * Units /\ k * Units >= 0
    BY <1>0, <2>1
  <2> QED BY <1>0, <1>1, <2>2
<1>3. ASSUME d < q PROVE FALSE
  <2>1. PICK k \in Nat : q = d + 1 + k
    BY <1>3
  <2>2. q * Units = d * Units + Units + k * Units /\ k * Units >= 0
    BY <1>0, <2>1
  <2> QED BY <1>0, <1>1, <2>2
<1> QED BY <1>1, <1>2, <1>3

LEMMA DaysOfPeriods ==
  ASSUME NEW d \in Nat
  PROVE  /\ Periods!ParseDate(d) \in Nat
         /\ Periods!EndOfDay(Periods!ParseDate(d)) = Periods!ParseDate(d) + Units - 1
         /\ Periods!ParseDate(d + 1) = Periods!ParseDate(d) + Units
<1>0. Units \in Nat \ {0}
  BY PeriodConstants
<1>1. PICK m \in Nat : m = d * Units
  BY <1>0
<1>2. m \div Units = d
  BY <1>0, <1>1, DayOfInstant
<1>3. Periods!EndOfDay(m) = d * Units + Units - 1
  BY <1>0, <1>1, <1>2 DEF Periods!EndOfDay, Periods!StartOfDay, Periods!LocalDay
<1>4. (d + 1) * Units = d * Units + Units
  BY <1>0
<1> QED BY <1>0, <1>1, <1>3, <1>4 DEF Periods!ParseDate

LEMMA DaysAreOrdered ==
  ASSUME NEW d \in Nat, NEW e \in Nat, d <= e
  PROVE  Periods!ParseDate(d) <= Periods!ParseDate(e)
<1>0. Units \in Nat \ {0}
  BY PeriodConstants
<1>1. PICK k \in Nat : e = d + k
  OBVIOUS
<1>2. e * Units = d * Units + k * Units /\ k * Units >= 0
  BY <1>0, <1>1
<1>3. PICK a \in Int : a = d * Units
  BY <1>0
<1>4. PICK b \in Int : b = e * Units
  BY <1>0
<1>5. PICK c \in Int : c = k * Units
  BY <1>0
<1>6. a <= b
  BY <1>2, <1>3, <1>4, <1>5
<1> QED BY <1>3, <1>4, <1>6 DEF Periods!ParseDate

\* A default period has the last days.
LEMMA LastDaysAreIn ==
  ASSUME NEW n \in Nat, NEW t \in Nat, t <= n, n - t <= RangeDays * Units
  PROVE  t \in Periods!StartOfDay(Periods!EndOfDay(n) - RangeDays * Units)..Periods!EndOfDay(n)
<1>0. Units \in Nat \ {0} /\ RangeDays \in Nat
  BY PeriodConstants
<1>1. PICK q \in Int, r \in 0..Units - 1 : n = q * Units + r /\ q = n \div Units
  BY <1>0
<1>2. PICK w \in Int : w = RangeDays * Units
  BY <1>0
<1>3. PICK m \in Int : m = q * Units
  BY <1>0
<1>4. Periods!EndOfDay(n) = m + Units - 1
  BY <1>0, <1>1, <1>3 DEF Periods!EndOfDay, Periods!StartOfDay, Periods!LocalDay
<1>5. (q - RangeDays) * Units = m - w
  BY <1>0, <1>2, <1>3
<1>6. (m + Units - 1 - w) \div Units = q - RangeDays
  <2>1. (q - RangeDays) * Units <= m + Units - 1 - w /\ m + Units - 1 - w < (q - RangeDays) * Units + Units
    BY <1>0, <1>5
  <2>2. q - RangeDays \in Int /\ m + Units - 1 - w \in Int
    BY <1>0
  <2> QED BY <2>1, <2>2, DayOfInstant
<1>7. Periods!StartOfDay(m + Units - 1 - w) = m - w
  BY <1>0, <1>5, <1>6 DEF Periods!StartOfDay, Periods!LocalDay
<1> QED BY <1>0, <1>1, <1>2, <1>3, <1>4, <1>7

\* The instants from the beginning of a day to that of another.
Span(from, day) == Periods!ParseDate(from)..(Periods!ParseDate(day) - 1)

LEMMA SpansAreOver ==
  ASSUME NEW from \in Nat, NEW to \in Nat, NEW day \in Nat, day <= to + 1, clock \in Nat, Periods!Over(to)
  PROVE  /\ clock \notin Span(from, day) /\ clock \notin Periods!Between(from, to)
         /\ Periods!Between(from, to) = Span(from, to + 1)
<1>1. Units \in Nat \ {0}
  BY PeriodConstants
<1>2. /\ Periods!ParseDate(to) \in Nat /\ Periods!ParseDate(to + 1) = Periods!ParseDate(to) + Units
      /\ Periods!EndOfDay(Periods!ParseDate(to)) = Periods!ParseDate(to) + Units - 1
  BY DaysOfPeriods
<1>3. Periods!ParseDate(day) \in Nat /\ Periods!ParseDate(day) <= Periods!ParseDate(to + 1)
  BY DaysOfPeriods, DaysAreOrdered, to + 1 \in Nat
<1>4. Periods!ParseDate(from) \in Nat
  BY DaysOfPeriods
<1>5. Periods!ParseDate(to + 1) - 1 < clock
  BY <1>1, <1>2 DEF Periods!Over
<1> QED BY <1>1, <1>2, <1>3, <1>4, <1>5 DEF Span, Periods!Between

\* A day after a span lengthens it by its instants.
LEMMA SpanGrows ==
  ASSUME NEW from \in Nat, NEW day \in Nat, from <= day
  PROVE  /\ Span(from, day + 1) = Span(from, day) \cup Periods!Between(day, day)
         /\ Span(from, day) \cap Periods!Between(day, day) = {}
<1>1. Units \in Nat \ {0}
  BY PeriodConstants
<1>2. /\ Periods!ParseDate(day) \in Nat /\ Periods!ParseDate(day + 1) = Periods!ParseDate(day) + Units
      /\ Periods!EndOfDay(Periods!ParseDate(day)) = Periods!ParseDate(day) + Units - 1
  BY DaysOfPeriods
<1>3. Periods!ParseDate(from) \in Nat /\ Periods!ParseDate(from) <= Periods!ParseDate(day)
  BY DaysOfPeriods, DaysAreOrdered
<1> QED BY <1>1, <1>2, <1>3 DEF Span, Periods!Between

Spoken == [id : Nat, at : Nat, flow : Flows \cup {OtherFlow}]
Summing == [step : {"days"}, from : Nat, to : Nat, day : Nat, total : Nat]
Summed == [step : {"done"}, days : Nat, whole : Nat]
Counting == [step : {"count"}, from : Nat, to : Nat, counts : UNION {[F -> Nat] : F \in SUBSET Flows},
             moved : SUBSET Nat]

TalksOK ==
  /\ clock \in Nat /\ moves \in Nat
  /\ IsFiniteSet(talks) /\ talks \subseteq Spoken /\ Cardinality(talks) <= MaxTalks
  /\ \A x \in talks : x.id \in 1..Cardinality(talks) /\ x.at <= clock
  /\ \A x, y \in talks : x.id = y.id => x = y

\* What a report has added up are the rows of the days it has read.
ReportOK ==
  /\ report \in {Periods!Idle} \cup Summing \cup Summed
  /\ report.step = "days" =>
       /\ report.from <= report.day /\ report.day <= report.to + 1 /\ Periods!Over(report.to)
       /\ report.total = Cardinality(Periods!Rows(Span(report.from, report.day)))
  /\ report.step = "done" => report.days = report.whole

\* The conversations of a flow that did not move are counted, and no others but those that did.
StillOf(f) == {x \in Periods!Rows(Periods!Between(visits.from, visits.to)) :
                 x.flow = f /\ x.id \notin visits.moved}
VisitsOK ==
  /\ visits \in {Periods!Idle} \cup Counting
  /\ visits.step = "count" =>
       /\ Periods!Over(visits.to) /\ visits.moved \subseteq 1..Cardinality(talks)
       /\ \A f \in DOMAIN visits.counts :
            /\ visits.counts[f] <= MaxTalks
            /\ Cardinality(StillOf(f)) <= visits.counts[f]
            /\ visits.counts[f] <= Cardinality(StillOf(f)) + Cardinality(visits.moved)

PeriodInv == TalksOK /\ ReportOK /\ VisitsOK

LEMMA SomeTalks ==
  ASSUME TalksOK, NEW S, S \subseteq talks
  PROVE  IsFiniteSet(S) /\ Cardinality(S) \in Nat /\ Cardinality(S) <= MaxTalks
<1>1. IsFiniteSet(S) /\ Cardinality(S) <= Cardinality(talks) /\ Cardinality(talks) \in Nat
  BY FS_Subset, FS_CardinalityType DEF TalksOK
<1> QED BY <1>1, FS_CardinalityType, PeriodConstants DEF TalksOK

LEMMA SomeMoved ==
  ASSUME TalksOK, NEW M, M \subseteq 1..Cardinality(talks)
  PROVE  IsFiniteSet(M) /\ Cardinality(M) \in Nat
<1>1. Cardinality(talks) \in Nat
  BY FS_CardinalityType DEF TalksOK
<1>2. IsFiniteSet(1..Cardinality(talks))
  BY <1>1, FS_Interval
<1> QED BY <1>2, FS_Subset, FS_CardinalityType

\* The report stays right when its period is over and the rows of the days it read are as many.
LEMMA ReportStays ==
  ASSUME PeriodInv, UNCHANGED report, clock' \in Nat, clock <= clock',
         report.step = "days" => Cardinality(Periods!Rows(Span(report.from, report.day)))' =
                                 Cardinality(Periods!Rows(Span(report.from, report.day)))
  PROVE  ReportOK'
<1>1. CASE report \in Summing
  <2>1. Periods!Over(report.to)'
    <3>1. Periods!EndOfDay(Periods!ParseDate(report.to)) \in Int
      BY <1>1, DaysOfPeriods, PeriodConstants DEF Summing
    <3>2. Periods!EndOfDay(Periods!ParseDate(report.to)) < clock
      BY <1>1 DEF PeriodInv, ReportOK, Summing, Periods!Over
    <3>3. Periods!EndOfDay(Periods!ParseDate(report.to)) < clock'
      BY <3>1, <3>2 DEF PeriodInv, TalksOK
    <3> QED BY <3>3 DEF Periods!Over, Periods!EndOfDay, Periods!StartOfDay, Periods!LocalDay, Periods!ParseDate
  <2> QED BY <1>1, <2>1 DEF PeriodInv, ReportOK, Summing
<1>2. CASE report \in {Periods!Idle} \cup Summed
  BY <1>2 DEF PeriodInv, ReportOK, Summed, Periods!Idle
<1> QED BY <1>1, <1>2 DEF PeriodInv, ReportOK

\* The visits stay right when the conversations of a flow are those that were, or have moved.
LEMMA VisitsStay ==
  ASSUME PeriodInv, clock' \in Nat, clock <= clock', TalksOK', visits \in Counting, NEW M, M \subseteq 1..Cardinality(talks)',
         visits' = [visits EXCEPT !.moved = M],
         \A f \in DOMAIN visits.counts :
           /\ Cardinality(StillOf(f))' <= Cardinality(StillOf(f))
           /\ Cardinality(StillOf(f)) + Cardinality(visits.moved) <= Cardinality(StillOf(f))' + Cardinality(M)
  PROVE  VisitsOK'
<1>1. visits' \in Counting /\ visits'.counts = visits.counts /\ visits'.moved = M /\ visits'.to = visits.to
  <2>1. M \subseteq Nat
    BY FS_CardinalityType DEF TalksOK
  <2> QED BY <2>1 DEF Counting
<1>2. Periods!Over(visits.to)'
  <2>1. Periods!EndOfDay(Periods!ParseDate(visits.to)) \in Int
    BY DaysOfPeriods, PeriodConstants DEF Counting
  <2>2. Periods!EndOfDay(Periods!ParseDate(visits.to)) < clock
    BY DEF PeriodInv, VisitsOK, Counting, Periods!Over
  <2>3. Periods!EndOfDay(Periods!ParseDate(visits.to)) < clock'
    BY <2>1, <2>2 DEF PeriodInv, TalksOK
  <2> QED BY <1>1, <2>3 DEF Periods!Over, Periods!EndOfDay, Periods!StartOfDay, Periods!LocalDay, Periods!ParseDate
<1>3. ASSUME NEW f \in DOMAIN visits.counts
      PROVE  /\ visits.counts[f] <= MaxTalks
             /\ Cardinality(StillOf(f))' <= visits.counts[f]
             /\ visits.counts[f] <= Cardinality(StillOf(f))' + Cardinality(M)
  <2>1. visits.counts[f] \in Nat
    BY DEF Counting
  <2>2. visits.counts[f] <= MaxTalks /\ Cardinality(StillOf(f)) <= visits.counts[f]
        /\ visits.counts[f] <= Cardinality(StillOf(f)) + Cardinality(visits.moved)
    BY DEF PeriodInv, VisitsOK, Counting
  <2>3. Cardinality(StillOf(f)) \in Nat
    BY SomeTalks DEF PeriodInv, StillOf, Periods!Rows
  <2>4. Cardinality(visits.moved) \in Nat
    BY SomeMoved DEF PeriodInv, VisitsOK, Counting
  <2>5. Cardinality(StillOf(f))' \in Nat
    <3>1. StillOf(f)' \subseteq talks'
      BY DEF StillOf, Periods!Rows
    <3> QED BY <3>1, FS_Subset, FS_CardinalityType DEF TalksOK
  <2>6. Cardinality(M) \in Nat
    <3>1. Cardinality(talks)' \in Nat
      BY FS_CardinalityType DEF TalksOK
    <3>2. IsFiniteSet(1..Cardinality(talks)')
      BY <3>1, FS_Interval
    <3> QED BY <3>2, FS_Subset, FS_CardinalityType
  <2>7. Cardinality(StillOf(f))' <= Cardinality(StillOf(f))
        /\ Cardinality(StillOf(f)) + Cardinality(visits.moved) <= Cardinality(StillOf(f))' + Cardinality(M)
    OBVIOUS
  <2> QED BY <2>1, <2>2, <2>3, <2>4, <2>5, <2>6, <2>7, PeriodConstants
<1> HIDE DEF StillOf
<1> QED BY <1>1, <1>2, <1>3 DEF VisitsOK

LEMMA NoVisits ==
  ASSUME visits = Periods!Idle, UNCHANGED visits
  PROVE  VisitsOK'
BY DEF VisitsOK, Periods!Idle

LEMMA TickKeeps ==
  ASSUME PeriodInv, Periods!Tick
  PROVE  PeriodInv'
<1>1. clock' = clock + 1 /\ UNCHANGED <<talks, report, visits, moves>> /\ clock \in Nat
  BY DEF Periods!Tick, PeriodInv, TalksOK
<1>2. TalksOK'
  BY <1>1 DEF PeriodInv, TalksOK, Spoken
<1>3. ReportOK'
  <2>1. Periods!Rows(Span(report.from, report.day))' = Periods!Rows(Span(report.from, report.day))
    BY <1>1 DEF Periods!Rows, Span, Periods!ParseDate
  <2> QED BY <1>1, <2>1, ReportStays
<1>4. VisitsOK'
  <2>1. CASE visits = Periods!Idle
    BY <1>1, <2>1, NoVisits
  <2>2. CASE visits \in Counting
    <3>1. \A f : StillOf(f)' = StillOf(f)
      BY <1>1 DEF StillOf, Periods!Rows, Periods!Between, Periods!EndOfDay, Periods!StartOfDay,
                  Periods!LocalDay, Periods!ParseDate
    <3>2. visits' = [visits EXCEPT !.moved = visits.moved] /\ visits.moved \subseteq 1..Cardinality(talks)'
      BY <1>1, <2>2 DEF Counting, PeriodInv, VisitsOK
    <3>3. ASSUME NEW f
          PROVE  /\ Cardinality(StillOf(f))' <= Cardinality(StillOf(f))
                 /\ Cardinality(StillOf(f)) + Cardinality(visits.moved) <= Cardinality(StillOf(f))' + Cardinality(visits.moved)
      <4>1. Cardinality(StillOf(f)) \in Nat
        BY SomeTalks DEF PeriodInv, StillOf, Periods!Rows
      <4>2. Cardinality(visits.moved) \in Nat
        BY <2>2, SomeMoved DEF PeriodInv, VisitsOK, Counting
      <4> QED BY <3>1, <4>1, <4>2
    <3>4. clock' \in Nat /\ clock <= clock'
      BY <1>1
    <3> HIDE DEF StillOf
    <3> QED BY <1>2, <2>2, <3>2, <3>3, <3>4, VisitsStay
  <2> QED BY <2>1, <2>2 DEF PeriodInv, VisitsOK
<1> QED BY <1>2, <1>3, <1>4 DEF PeriodInv

LEMMA TalkKeeps ==
  ASSUME PeriodInv, Periods!Talk
  PROVE  PeriodInv'
<1>0. TalksOK /\ Cardinality(talks) \in Nat
  BY FS_CardinalityType DEF PeriodInv, TalksOK
<1>1. PICK f \in Flows \cup {OtherFlow} :
        talks' = talks \cup {[id |-> Cardinality(talks) + 1, at |-> clock, flow |-> f]}
  BY PeriodCardinality DEF Periods!Talk
<1>2. /\ UNCHANGED <<clock, report, visits, moves>> /\ Cardinality(talks) < MaxTalks
  BY PeriodCardinality DEF Periods!Talk
<1>3. PICK x \in Spoken : x = [id |-> Cardinality(talks) + 1, at |-> clock, flow |-> f]
  <2>1. [id |-> Cardinality(talks) + 1, at |-> clock, flow |-> f] \in Spoken
    BY <1>0 DEF Spoken, TalksOK
  <2> QED BY <2>1
<1>4. x \notin talks /\ x.id = Cardinality(talks) + 1 /\ x.at = clock
  BY <1>0, <1>3 DEF TalksOK
<1>5. IsFiniteSet(talks') /\ Cardinality(talks') = Cardinality(talks) + 1
  BY <1>0, <1>1, <1>3, <1>4, FS_AddElement DEF TalksOK
<1>6. TalksOK'
  <2>1. PICK c \in Nat : c = Cardinality(talks)
    BY <1>0
  <2>2. talks' = talks \cup {x} /\ clock' = clock /\ moves' = moves
    BY <1>1, <1>2, <1>3
  <2>3. \A y \in talks' : y \in Spoken /\ y.id \in 1..c + 1 /\ y.at <= clock
    <3>1. clock \in Nat /\ x.id = c + 1
      BY <1>0, <1>4, <2>1 DEF TalksOK
    <3>2. \A y \in talks : y \in Spoken /\ y.id \in 1..c /\ y.at <= clock
      BY <1>0, <2>1 DEF TalksOK
    <3> QED BY <1>3, <1>4, <2>2, <3>1, <3>2
  <2>4. \A y, w \in talks' : y.id = w.id => y = w
    <3>1. \A y \in talks : y.id # x.id
      BY <1>0, <1>4, <2>1 DEF TalksOK
    <3> QED BY <1>0, <2>2, <3>1 DEF TalksOK
  <2>5. Cardinality(talks') = c + 1 /\ c + 1 <= MaxTalks
    BY <1>2, <1>5, <2>1, PeriodConstants
  <2> QED BY <1>0, <1>5, <2>2, <2>3, <2>4, <2>5 DEF TalksOK
<1>7. ASSUME NEW R, clock \notin R PROVE {y \in talks' : y.at \in R} = {y \in talks : y.at \in R}
  BY <1>1, <1>3, <1>4, <1>7
<1>8. ReportOK'
  <2>1. ASSUME report.step = "days"
        PROVE  Periods!Rows(Span(report.from, report.day))' = Periods!Rows(Span(report.from, report.day))
    <3>1. clock \notin Span(report.from, report.day)
      BY <1>0, <2>1, SpansAreOver DEF PeriodInv, ReportOK, Summing, Summed, Periods!Idle, TalksOK
    <3>2. Span(report.from, report.day)' = Span(report.from, report.day)
      BY <1>2 DEF Span, Periods!ParseDate
    <3> HIDE DEF Span
    <3> QED BY <1>7, <3>1, <3>2 DEF Periods!Rows
  <2> QED BY <1>0, <1>2, <2>1, ReportStays DEF TalksOK
<1>9. VisitsOK'
  <2>1. CASE visits = Periods!Idle
    BY <1>2, <2>1, NoVisits
  <2>2. CASE visits \in Counting
    <3>1. \A g : StillOf(g)' = StillOf(g)
      <4>1. clock \notin Periods!Between(visits.from, visits.to)
        BY <1>0, <2>2, SpansAreOver DEF PeriodInv, VisitsOK, Counting, TalksOK
      <4>2. Periods!Between(visits.from, visits.to)' = Periods!Between(visits.from, visits.to)
        BY <1>2 DEF Periods!Between, Periods!EndOfDay, Periods!StartOfDay, Periods!LocalDay, Periods!ParseDate
      <4>3. Periods!Rows(Periods!Between(visits.from, visits.to))' = Periods!Rows(Periods!Between(visits.from, visits.to))
        BY <1>7, <4>1, <4>2 DEF Periods!Rows
      <4> QED BY <1>2, <4>3 DEF StillOf
    <3>2. visits' = [visits EXCEPT !.moved = visits.moved] /\ visits.moved \subseteq 1..Cardinality(talks)'
      BY <1>0, <1>2, <1>5, <2>2 DEF Counting, PeriodInv, VisitsOK
    <3>3. ASSUME NEW g
          PROVE  /\ Cardinality(StillOf(g))' <= Cardinality(StillOf(g))
                 /\ Cardinality(StillOf(g)) + Cardinality(visits.moved) <= Cardinality(StillOf(g))' + Cardinality(visits.moved)
      <4>1. Cardinality(StillOf(g)) \in Nat
        BY SomeTalks DEF PeriodInv, StillOf, Periods!Rows
      <4>2. Cardinality(visits.moved) \in Nat
        BY <2>2, SomeMoved DEF PeriodInv, VisitsOK, Counting
      <4> QED BY <3>1, <4>1, <4>2
    <3>4. clock' \in Nat /\ clock <= clock'
      BY <1>0, <1>2 DEF TalksOK
    <3> HIDE DEF StillOf
    <3> QED BY <1>6, <2>2, <3>2, <3>3, <3>4, VisitsStay
  <2> QED BY <2>1, <2>2 DEF PeriodInv, VisitsOK
<1> QED BY <1>6, <1>8, <1>9 DEF PeriodInv

\* A conversation goes on to another flow: as many are in each period as before.
LEMMA MoveKeeps ==
  ASSUME PeriodInv, Periods!Move
  PROVE  PeriodInv'
<1>0. TalksOK /\ Cardinality(talks) \in Nat
  BY FS_CardinalityType DEF PeriodInv, TalksOK
<1>1. PICK x \in talks, f \in Flows :
        /\ talks' = (talks \ {x}) \cup {[x EXCEPT !.flow = f]}
        /\ visits' = IF visits = Periods!Idle THEN visits
                     ELSE [visits EXCEPT !.moved = @ \cup {x.id}]
  BY DEF Periods!Move
<1>2. UNCHANGED <<clock, report>> /\ moves' = moves + 1
  BY DEF Periods!Move
<1>3. PICK y \in Spoken : y = [x EXCEPT !.flow = f] /\ y.id = x.id /\ y.at = x.at
  <2>1. x \in Spoken
    BY <1>0 DEF TalksOK
  <2>2. [x EXCEPT !.flow = f] \in Spoken /\ [x EXCEPT !.flow = f].id = x.id /\ [x EXCEPT !.flow = f].at = x.at
    BY <2>1 DEF Spoken
  <2> QED BY <2>2
<1>4. talks' = (talks \ {x}) \cup {y} /\ y \notin talks \ {x}
  BY <1>0, <1>1, <1>3 DEF TalksOK
<1>5. ASSUME NEW S, S \subseteq talks, x \in S
      PROVE  IsFiniteSet((S \ {x}) \cup {y}) /\ Cardinality((S \ {x}) \cup {y}) = Cardinality(S)
  <2>1. IsFiniteSet(S) /\ Cardinality(S) \in Nat
    BY <1>0, <1>5, SomeTalks
  <2>2. IsFiniteSet(S \ {x}) /\ Cardinality(S \ {x}) = Cardinality(S) - 1
    BY <1>5, <2>1, FS_RemoveElement
  <2>3. y \notin S \ {x}
    BY <1>4, <1>5
  <2>4. IsFiniteSet((S \ {x}) \cup {y}) /\ Cardinality((S \ {x}) \cup {y}) = Cardinality(S \ {x}) + 1
    BY <2>2, <2>3, FS_AddElement
  <2> QED BY <2>1, <2>2, <2>4
<1>6. IsFiniteSet(talks') /\ Cardinality(talks') = Cardinality(talks)
  BY <1>4, <1>5
<1>7. TalksOK'
  <2>1. moves' \in Nat /\ clock' \in Nat
    BY <1>0, <1>2 DEF TalksOK
  <2>2. \A z \in talks' : z \in Spoken /\ z.id \in 1..Cardinality(talks) /\ z.at <= clock
    BY <1>0, <1>3, <1>4 DEF TalksOK
  <2>3. \A z, w \in talks' : z.id = w.id => z = w
    <3>1. \A z, w \in talks : z.id = w.id => z = w
      BY <1>0 DEF TalksOK
    <3>2. \A z \in talks \ {x} : z.id # y.id
      BY <1>3, <3>1
    <3> QED BY <1>4, <3>1, <3>2
  <2> QED BY <1>0, <1>2, <1>6, <2>1, <2>2, <2>3 DEF TalksOK
<1>8. ASSUME NEW R
      PROVE  Cardinality({z \in talks' : z.at \in R}) = Cardinality({z \in talks : z.at \in R})
  <2>1. CASE x.at \in R
    <3>1. {z \in talks' : z.at \in R} = ({z \in talks : z.at \in R} \ {x}) \cup {y}
      BY <1>3, <1>4, <2>1
    <3>2. x \in {z \in talks : z.at \in R} /\ {z \in talks : z.at \in R} \subseteq talks
      BY <2>1
    <3> QED BY <1>5, <3>1, <3>2
  <2>2. CASE x.at \notin R
    BY <1>3, <1>4, <2>2
  <2> QED BY <2>1, <2>2
<1>9. ReportOK'
  <2>1. Cardinality(Periods!Rows(Span(report.from, report.day)))' = Cardinality(Periods!Rows(Span(report.from, report.day)))
    <3>1. Span(report.from, report.day)' = Span(report.from, report.day)
      BY <1>2 DEF Span, Periods!ParseDate
    <3> HIDE DEF Span
    <3> QED BY <1>8, <3>1 DEF Periods!Rows
  <2> QED BY <1>0, <1>2, <2>1, ReportStays DEF TalksOK
<1>10. VisitsOK'
  <2>1. CASE visits = Periods!Idle
    BY <1>1, <2>1, NoVisits
  <2>2. CASE visits \in Counting
    <3>1. visits # Periods!Idle
      BY <2>2 DEF Counting, Periods!Idle
    <3>2. PICK M : M = visits.moved \cup {x.id}
      OBVIOUS
    <3>3. visits' = [visits EXCEPT !.moved = M]
      BY <1>1, <2>2, <3>1, <3>2 DEF Counting
    <3>4. visits.moved \subseteq 1..Cardinality(talks) /\ M \subseteq 1..Cardinality(talks)'
      BY <1>0, <1>6, <2>2, <3>2 DEF PeriodInv, VisitsOK, TalksOK, Counting
    <3>5. visits'.from = visits.from /\ visits'.to = visits.to /\ visits'.moved = M
      BY <2>2, <3>3 DEF Counting
    <3>6. Periods!Between(visits.from, visits.to)' = Periods!Between(visits.from, visits.to)
      BY <3>5 DEF Periods!Between, Periods!EndOfDay, Periods!StartOfDay, Periods!LocalDay, Periods!ParseDate
    <3>7. ASSUME NEW g
          PROVE  /\ Cardinality(StillOf(g))' <= Cardinality(StillOf(g))
                 /\ Cardinality(StillOf(g)) + Cardinality(visits.moved) <= Cardinality(StillOf(g))' + Cardinality(M)
      <4>1. StillOf(g)' = StillOf(g) \ {x}
        <5>1. PICK R : R = Periods!Between(visits.from, visits.to)
          OBVIOUS
        <5>2. StillOf(g) = {z \in talks : z.at \in R /\ z.flow = g /\ z.id \notin visits.moved}
          BY <5>1 DEF StillOf, Periods!Rows
        <5>3. StillOf(g)' = {z \in talks' : z.at \in R /\ z.flow = g /\ z.id \notin M}
          BY <3>5, <3>6, <5>1 DEF StillOf, Periods!Rows
        <5>4. \A z \in talks : z.id = x.id => z = x
          BY <1>0 DEF TalksOK
        <5> QED BY <1>3, <1>4, <3>2, <5>2, <5>3, <5>4
      <4>2. StillOf(g) \subseteq talks /\ (x \in StillOf(g) => x.id \notin visits.moved)
        BY DEF StillOf, Periods!Rows
      <4>3. IsFiniteSet(StillOf(g)) /\ Cardinality(StillOf(g)) \in Nat
        BY <1>0, <4>2, SomeTalks
      <4>4. IsFiniteSet(visits.moved) /\ Cardinality(visits.moved) \in Nat
        BY <1>0, <3>4, SomeMoved
      <4> HIDE DEF StillOf
      <4>5. Cardinality(M) = IF x.id \in visits.moved THEN Cardinality(visits.moved)
                             ELSE Cardinality(visits.moved) + 1
        BY <3>2, <4>4, FS_AddElement
      <4>6. Cardinality(StillOf(g))' = IF x \in StillOf(g) THEN Cardinality(StillOf(g)) - 1
                                       ELSE Cardinality(StillOf(g))
        BY <4>1, <4>3, FS_RemoveElement
      <4> QED BY <4>2, <4>3, <4>4, <4>5, <4>6
    <3>8. clock' \in Nat /\ clock <= clock'
      BY <1>0, <1>2 DEF TalksOK
    <3> HIDE DEF StillOf
    <3> QED BY <1>7, <2>2, <3>3, <3>4, <3>7, <3>8, VisitsStay
  <2> QED BY <2>1, <2>2 DEF PeriodInv, VisitsOK
<1> QED BY <1>7, <1>9, <1>10 DEF PeriodInv

LEMMA BeginReportKeeps ==
  ASSUME PeriodInv, NEW from \in Nat, NEW to \in Nat, Periods!BeginReport(from, to)
  PROVE  PeriodInv'
<1>1. /\ report' = [step |-> "days", from |-> from, to |-> to, day |-> from, total |-> 0]
      /\ from <= to /\ Periods!Over(to) /\ UNCHANGED <<clock, talks, visits, moves>>
  BY DEF Periods!BeginReport
<1>2. TalksOK' /\ VisitsOK'
  BY <1>1 DEF PeriodInv, TalksOK, VisitsOK, StillOf, Periods!Rows, Periods!Between, Periods!Over,
              Periods!EndOfDay, Periods!StartOfDay, Periods!LocalDay, Periods!ParseDate
<1>3. report' \in Summing /\ report'.from = from /\ report'.to = to /\ report'.day = from /\ report'.total = 0
  BY <1>1 DEF Summing
<1>4. Span(from, from) = {}
  <2>1. Periods!ParseDate(from) \in Nat
    BY DaysOfPeriods
  <2> QED BY <2>1 DEF Span
<1>5. Cardinality(Periods!Rows(Span(report.from, report.day)))' = 0
  <2>1. Periods!Rows(Span(report.from, report.day))' = {}
    <3>1. Span(report.from, report.day)' = Span(from, from)
      BY <1>3 DEF Span, Periods!ParseDate
    <3> HIDE DEF Span
    <3> QED BY <1>4, <3>1 DEF Periods!Rows
  <2> QED BY <2>1, FS_EmptySet
<1>6. Periods!Over(report.to)'
  BY <1>1, <1>3 DEF Periods!Over, Periods!EndOfDay, Periods!StartOfDay, Periods!LocalDay, Periods!ParseDate
<1>7. ReportOK'
  BY <1>1, <1>3, <1>5, <1>6 DEF ReportOK, Summing
<1> QED BY <1>2, <1>7 DEF PeriodInv

\* A day read is added to the span of the report, which did not have it.
LEMMA ReadDayKeeps ==
  ASSUME PeriodInv, Periods!ReadDay
  PROVE  PeriodInv'
<1>1. /\ report.step = "days" /\ report.day <= report.to
      /\ report' = [report EXCEPT !.day = @ + 1,
                      !.total = @ + Cardinality(Periods!Rows(Periods!Between(report.day, report.day)))]
      /\ UNCHANGED <<clock, talks, visits, moves>>
  BY PeriodCardinality DEF Periods!ReadDay
<1>2. TalksOK' /\ VisitsOK'
  BY <1>1 DEF PeriodInv, TalksOK, VisitsOK, StillOf, Periods!Rows, Periods!Between, Periods!Over,
              Periods!EndOfDay, Periods!StartOfDay, Periods!LocalDay, Periods!ParseDate
<1>3. report \in Summing
  BY <1>1 DEF PeriodInv, ReportOK, Periods!Idle, Summed
<1>4. PICK n : n = Cardinality(Periods!Rows(Periods!Between(report.day, report.day)))
  OBVIOUS
<1>5. n \in Nat
  BY <1>4, SomeTalks DEF PeriodInv, Periods!Rows
<1>6. PICK d \in Nat : d = report.day
  BY <1>3 DEF Summing
<1>7. PICK k \in Nat : k = d + 1
  OBVIOUS
<1>8. /\ report' \in Summing /\ report'.from = report.from /\ report'.to = report.to
      /\ report'.day = k /\ report'.total = report.total + n
  <2>1. PICK p \in Nat : p = report.total + n
    BY <1>3, <1>5 DEF Summing
  <2>2. report' = [[report EXCEPT !.day = k] EXCEPT !.total = p]
    BY <1>1, <1>4, <1>6, <1>7, <2>1
  <2>3. report'.day = k /\ report'.total = p /\ report' \in Summing
    BY <1>3, <2>2 DEF Summing
  <2> QED BY <1>3, <2>1, <2>2, <2>3 DEF Summing
<1>9. report.from \in Nat /\ report.to \in Nat /\ report.from <= d /\ report.total \in Nat
      /\ report.total = Cardinality(Periods!Rows(Span(report.from, d)))
      /\ d <= report.to /\ Periods!Over(report.to)
  BY <1>1, <1>3, <1>6 DEF PeriodInv, ReportOK, Summing
<1>10. Cardinality(Periods!Rows(Span(report.from, k))) = report.total + n
  <2>1. /\ Span(report.from, k) = Span(report.from, d) \cup Periods!Between(d, d)
        /\ Span(report.from, d) \cap Periods!Between(d, d) = {}
    BY <1>7, <1>9, SpanGrows
  <2>2. PICK A, B : A = Periods!Rows(Span(report.from, d)) /\ B = Periods!Rows(Periods!Between(d, d))
    OBVIOUS
  <2>3. Periods!Rows(Span(report.from, k)) = A \cup B /\ A \cap B = {} /\ A \subseteq talks /\ B \subseteq talks
    <3> HIDE DEF Span
    <3> QED BY <2>1, <2>2 DEF Periods!Rows
  <2>4. IsFiniteSet(A) /\ IsFiniteSet(B) /\ Cardinality(A) \in Nat /\ Cardinality(B) \in Nat
    BY <2>3, SomeTalks DEF PeriodInv
  <2>5. Cardinality(A \cup B) = Cardinality(A) + Cardinality(B) - Cardinality(A \cap B)
    BY <2>4, FS_Union
  <2>6. Cardinality(A \cap B) = 0
    BY <2>3, FS_EmptySet
  <2> QED BY <1>4, <1>6, <1>9, <2>2, <2>3, <2>4, <2>5, <2>6
<1>11. Cardinality(Periods!Rows(Span(report.from, report.day)))' = report.total + n
  <2>1. Periods!Rows(Span(report.from, report.day))' = Periods!Rows(Span(report.from, k))
    BY <1>1, <1>8 DEF Span, Periods!ParseDate, Periods!Rows
  <2> QED BY <1>10, <2>1
<1>12. Periods!Over(report.to)'
  BY <1>1, <1>8, <1>9 DEF Periods!Over, Periods!EndOfDay, Periods!StartOfDay, Periods!LocalDay, Periods!ParseDate
<1>13. report'.from <= report'.day /\ report'.day <= report'.to + 1
  BY <1>7, <1>8, <1>9
<1>14. ReportOK'
  <2>1. report'.step = "days"
    BY <1>8 DEF Summing
  <2> QED BY <1>8, <1>11, <1>12, <1>13, <2>1 DEF ReportOK
<1> QED BY <1>2, <1>14 DEF PeriodInv

\* The span of the days read is, when all are, the period.
LEMMA ReadAllKeeps ==
  ASSUME PeriodInv, Periods!ReadAll
  PROVE  PeriodInv'
<1>1. /\ report.step = "days" /\ report.day > report.to
      /\ report' = [step |-> "done", days |-> report.total,
                    whole |-> Cardinality(Periods!Rows(Periods!Between(report.from, report.to)))]
      /\ UNCHANGED <<clock, talks, visits, moves>>
  BY PeriodCardinality DEF Periods!ReadAll
<1>2. TalksOK' /\ VisitsOK'
  BY <1>1 DEF PeriodInv, TalksOK, VisitsOK, StillOf, Periods!Rows, Periods!Between, Periods!Over,
              Periods!EndOfDay, Periods!StartOfDay, Periods!LocalDay, Periods!ParseDate
<1>3. report \in Summing
  BY <1>1 DEF PeriodInv, ReportOK, Periods!Idle, Summed
<1>4. report.from \in Nat /\ report.to \in Nat /\ report.day = report.to + 1 /\ report.total \in Nat
      /\ report.total = Cardinality(Periods!Rows(Span(report.from, report.day)))
      /\ Periods!Over(report.to)
  BY <1>1, <1>3 DEF PeriodInv, ReportOK, Summing
<1>5. Periods!Between(report.from, report.to) = Span(report.from, report.day)
  BY <1>4, SpansAreOver DEF PeriodInv, TalksOK
<1>6. report'.days = report'.whole /\ report' \in Summed
  BY <1>1, <1>4, <1>5 DEF Summed
<1>7. ReportOK'
  BY <1>6 DEF ReportOK, Summed
<1> QED BY <1>2, <1>7 DEF PeriodInv

LEMMA EndReportKeeps ==
  ASSUME PeriodInv, Periods!EndReport
  PROVE  PeriodInv'
<1>1. report' = Periods!Idle /\ UNCHANGED <<clock, talks, visits, moves>>
  BY DEF Periods!EndReport
<1>2. TalksOK' /\ VisitsOK'
  BY <1>1 DEF PeriodInv, TalksOK, VisitsOK, StillOf, Periods!Rows, Periods!Between, Periods!Over,
              Periods!EndOfDay, Periods!StartOfDay, Periods!LocalDay, Periods!ParseDate
<1>3. ReportOK'
  BY <1>1 DEF ReportOK, Periods!Idle
<1> QED BY <1>2, <1>3 DEF PeriodInv

LEMMA BeginVisitsKeeps ==
  ASSUME PeriodInv, NEW from \in Nat, NEW to \in Nat, Periods!BeginVisits(from, to)
  PROVE  PeriodInv'
<1>1. /\ visits' = [step |-> "count", from |-> from, to |-> to, counts |-> << >>, moved |-> {}]
      /\ Periods!Over(to) /\ UNCHANGED <<clock, talks, report, moves>>
  BY DEF Periods!BeginVisits
<1>2. TalksOK' /\ ReportOK'
  BY <1>1 DEF PeriodInv, TalksOK, ReportOK, Span, Periods!Rows, Periods!Over,
              Periods!EndOfDay, Periods!StartOfDay, Periods!LocalDay, Periods!ParseDate
<1>3. PICK none : none = << >>
  OBVIOUS
<1>4. visits' \in Counting /\ visits'.to = to /\ DOMAIN visits'.counts = {} /\ visits'.moved = {}
  <2>1. DOMAIN none = {} /\ none \in Seq(Nat)
    BY <1>3, EmptyTable
  <2>2. none \in [{} -> Nat]
    BY <1>3
  <2>3. none \in UNION {[F -> Nat] : F \in SUBSET Flows}
    BY <2>2
  <2> QED BY <1>1, <1>3, <2>1, <2>3 DEF Counting
<1>5. Periods!Over(visits.to)'
  BY <1>1, <1>4 DEF Periods!Over, Periods!EndOfDay, Periods!StartOfDay, Periods!LocalDay, Periods!ParseDate
<1>6. VisitsOK'
  BY <1>4, <1>5 DEF VisitsOK, Counting
<1> QED BY <1>2, <1>6 DEF PeriodInv

\* What is counted of a flow has those that did not move, and no others but those that did.
LEMMA CountIsRight ==
  ASSUME PeriodInv, visits \in Counting, NEW f
  PROVE  LET n == Cardinality(Periods!OfFlow(f, Periods!Rows(Periods!Between(visits.from, visits.to))))
         IN  /\ n \in Nat /\ n <= MaxTalks /\ Cardinality(StillOf(f)) <= n
             /\ n <= Cardinality(StillOf(f)) + Cardinality(visits.moved)
<1> DEFINE all == Periods!OfFlow(f, Periods!Rows(Periods!Between(visits.from, visits.to)))
           away == all \ StillOf(f)
           id == [x \in away |-> x.id]
<1>1. all \subseteq talks /\ StillOf(f) \subseteq all /\ away \subseteq talks
  BY DEF Periods!OfFlow, Periods!Rows, StillOf
<1>2. IsFiniteSet(all) /\ Cardinality(all) \in Nat /\ Cardinality(all) <= MaxTalks
  BY <1>1, SomeTalks DEF PeriodInv
<1>3. IsFiniteSet(StillOf(f)) /\ Cardinality(StillOf(f)) \in Nat /\ Cardinality(StillOf(f)) <= Cardinality(all)
  BY <1>1, <1>2, FS_Subset, FS_CardinalityType
<1>4. IsFiniteSet(visits.moved) /\ Cardinality(visits.moved) \in Nat
  BY SomeMoved DEF PeriodInv, VisitsOK, Counting
<1>5. id \in Injection(away, visits.moved)
  <2>1. \A x \in away : x.id \in visits.moved
    BY DEF StillOf, Periods!OfFlow
  <2>2. \A x, y \in away : x.id = y.id => x = y
    BY <1>1 DEF PeriodInv, TalksOK
  <2> HIDE DEF away
  <2> QED BY <2>1, <2>2 DEF Injection, IsInjective
<1> HIDE DEF id
<1>6. IsFiniteSet(away) /\ Cardinality(away) <= Cardinality(visits.moved)
  <2> HIDE DEF away
  <2> QED BY <1>4, <1>5, FS_Injection
<1>7. Cardinality(away) = Cardinality(all) - Cardinality(StillOf(f)) /\ Cardinality(away) \in Nat
  <2>1. PICK A, B : A = all /\ B = StillOf(f)
    OBVIOUS
  <2>2. Cardinality(A \ B) = Cardinality(A) - Cardinality(A \cap B)
    BY <1>2, <2>1, FS_Difference
  <2>3. A \cap B = B /\ away = A \ B
    BY <1>1, <2>1
  <2>4. Cardinality(away) \in Nat
    BY <1>6, FS_CardinalityType
  <2> HIDE DEF all, away, StillOf
  <2> QED BY <2>1, <2>2, <2>3, <2>4
<1> HIDE DEF away
<1> QED BY <1>2, <1>3, <1>4, <1>6, <1>7

LEMMA CountFlowKeeps ==
  ASSUME PeriodInv, NEW f \in Flows, Periods!CountFlow(f)
  PROVE  PeriodInv'
<1>1. PICK n : n = Cardinality(Periods!OfFlow(f, Periods!Rows(Periods!Between(visits.from, visits.to))))
  OBVIOUS
<1>2. /\ visits.step = "count" /\ UNCHANGED <<clock, talks, report, moves>>
      /\ visits' = [visits EXCEPT !.counts = [g \in DOMAIN visits.counts \cup {f} |->
                                                 IF g = f THEN n ELSE visits.counts[g]]]
  BY <1>1, PeriodCardinality DEF Periods!CountFlow
<1>3. TalksOK' /\ ReportOK'
  BY <1>2 DEF PeriodInv, TalksOK, ReportOK, Span, Periods!Rows, Periods!Over,
              Periods!EndOfDay, Periods!StartOfDay, Periods!LocalDay, Periods!ParseDate
<1>4. visits \in Counting
  BY <1>2 DEF PeriodInv, VisitsOK, Periods!Idle
<1>5. /\ n \in Nat /\ n <= MaxTalks /\ Cardinality(StillOf(f)) <= n
      /\ n <= Cardinality(StillOf(f)) + Cardinality(visits.moved)
  BY <1>1, <1>4, CountIsRight
<1>6. PICK c : c = [g \in DOMAIN visits.counts \cup {f} |-> IF g = f THEN n ELSE visits.counts[g]]
  OBVIOUS
<1>7. /\ visits' \in Counting /\ visits'.counts = c /\ visits'.to = visits.to
      /\ visits'.from = visits.from /\ visits'.moved = visits.moved
  <2>1. PICK F \in SUBSET Flows : visits.counts \in [F -> Nat] /\ DOMAIN visits.counts = F
    BY <1>4 DEF Counting
  <2>2. c \in [F \cup {f} -> Nat] /\ F \cup {f} \in SUBSET Flows
    BY <1>5, <1>6, <2>1
  <2>3. c \in UNION {[G -> Nat] : G \in SUBSET Flows}
    BY <2>2
  <2>4. visits' = [visits EXCEPT !.counts = c]
    BY <1>2, <1>6
  <2> QED BY <1>4, <2>3, <2>4 DEF Counting
<1>8. \A g : StillOf(g)' = StillOf(g)
  BY <1>2, <1>7 DEF StillOf, Periods!Rows, Periods!Between, Periods!EndOfDay, Periods!StartOfDay,
                    Periods!LocalDay, Periods!ParseDate
<1>9. Periods!Over(visits.to)' /\ visits'.moved \subseteq 1..Cardinality(talks)'
  BY <1>2, <1>4, <1>7 DEF PeriodInv, VisitsOK, Counting, Periods!Over, Periods!EndOfDay, Periods!StartOfDay,
                         Periods!LocalDay, Periods!ParseDate
<1>10. ASSUME NEW g \in DOMAIN c
       PROVE  /\ c[g] <= MaxTalks /\ Cardinality(StillOf(g)) <= c[g]
              /\ c[g] <= Cardinality(StillOf(g)) + Cardinality(visits.moved)
  <2>1. CASE g = f
    BY <1>5, <1>6, <2>1
  <2>2. CASE g # f
    <3>1. g \in DOMAIN visits.counts /\ c[g] = visits.counts[g]
      BY <1>6, <2>2
    <3> HIDE DEF StillOf
    <3> QED BY <1>2, <3>1 DEF PeriodInv, VisitsOK
  <2> QED BY <2>1, <2>2
<1>11. VisitsOK'
  <2> HIDE DEF StillOf
  <2> QED BY <1>7, <1>8, <1>9, <1>10 DEF VisitsOK
<1> QED BY <1>3, <1>11 DEF PeriodInv

LEMMA EndVisitsKeeps ==
  ASSUME PeriodInv, Periods!EndVisits
  PROVE  PeriodInv'
<1>1. visits' = Periods!Idle /\ UNCHANGED <<clock, talks, report, moves>>
  BY DEF Periods!EndVisits
<1>2. TalksOK' /\ ReportOK'
  BY <1>1 DEF PeriodInv, TalksOK, ReportOK, Span, Periods!Rows, Periods!Over,
              Periods!EndOfDay, Periods!StartOfDay, Periods!LocalDay, Periods!ParseDate
<1>3. VisitsOK'
  BY <1>1 DEF VisitsOK, Periods!Idle
<1> QED BY <1>2, <1>3 DEF PeriodInv

LEMMA PeriodStarts == Periods!Init => PeriodInv
<1> SUFFICES ASSUME Periods!Init PROVE PeriodInv
  OBVIOUS
<1>1. clock = 0 /\ talks = {} /\ report = Periods!Idle /\ visits = Periods!Idle /\ moves = 0
  BY DEF Periods!Init
<1>2. TalksOK
  BY <1>1, PeriodConstants, FS_EmptySet DEF TalksOK
<1>3. ReportOK /\ VisitsOK
  BY <1>1 DEF ReportOK, VisitsOK, Periods!Idle
<1> QED BY <1>2, <1>3 DEF PeriodInv

LEMMA PeriodInductive == Periods!Spec => []PeriodInv
<1>1. PeriodInv /\ [Periods!Next]_(Periods!vars) => PeriodInv'
  <2> SUFFICES ASSUME PeriodInv, [Periods!Next]_(Periods!vars) PROVE PeriodInv'
    OBVIOUS
  <2>0. Periods!Days \subseteq Nat
    BY PeriodConstants DEF Periods!Days
  <2>1. CASE Periods!Tick
    BY <2>1, TickKeeps
  <2>2. CASE Periods!Talk
    BY <2>2, TalkKeeps
  <2>3. CASE Periods!Move
    BY <2>3, MoveKeeps
  <2>4. CASE \E from, to \in Periods!Days : Periods!BeginReport(from, to)
    BY <2>0, <2>4, BeginReportKeeps
  <2>5. CASE \E from, to \in Periods!Days : Periods!BeginVisits(from, to)
    BY <2>0, <2>5, BeginVisitsKeeps
  <2>6. CASE Periods!ReadDay
    BY <2>6, ReadDayKeeps
  <2>7. CASE Periods!ReadAll
    BY <2>7, ReadAllKeeps
  <2>8. CASE Periods!EndReport
    BY <2>8, EndReportKeeps
  <2>9. CASE \E f \in Flows : Periods!CountFlow(f)
    BY <2>9, CountFlowKeeps
  <2>10. CASE Periods!EndVisits
    BY <2>10, EndVisitsKeeps
  <2>11. CASE UNCHANGED Periods!vars
    <3>1. UNCHANGED <<clock, talks, report, visits, moves>>
      BY <2>11 DEF Periods!vars
    <3> QED BY <3>1 DEF PeriodInv, TalksOK, ReportOK, VisitsOK, StillOf, Span, Periods!Rows, Periods!Between,
                        Periods!Over, Periods!EndOfDay, Periods!StartOfDay, Periods!LocalDay, Periods!ParseDate
  <2> QED BY <2>1, <2>2, <2>3, <2>4, <2>5, <2>6, <2>7, <2>8, <2>9, <2>10, <2>11 DEF Periods!Next
<1> QED BY <1>1, PeriodStarts, PTL DEF Periods!Spec

LEMMA PeriodsAreAPart == OfficialsSpec => Periods!Spec
<1>1. OfficialsInit => Periods!Init
  BY DEF OfficialsInit
<1>2. [OfficialsNext]_<<active, vars, configVars, qrVars, dutyVars, calendarVars, listVars,
                        rangeVars, logVars>>
        => [Periods!Next]_(Periods!vars)
  <2>1. UNCHANGED rangeVars => UNCHANGED Periods!vars
    BY DEF rangeVars, Periods!vars
  <2> QED BY <2>1 DEF OfficialsNext, KindStep, ConfigStep, QrStep, DutyStep, CalendarStep, ListStep,
                      RangeStep, LogStep
<1> QED BY <1>1, <1>2, PTL DEF OfficialsSpec, Periods!Spec

\* The total of the visits adds up the flows counted.
LEMMA TotalIsTheSum == Periods!Total = SumOver(visits.counts, DOMAIN visits.counts)
BY DEF Periods!Total, Periods!FoldSet, Periods!MapThenFoldSet, SumOver, Adds

\* With every flow counted, a conversation that did not move is in exactly one of the counts.
LEMMA VisitsAddUp ==
  ASSUME PeriodInv, visits.step = "count", DOMAIN visits.counts = Flows
  PROVE  LET known == {x \in Periods!Rows(Periods!Between(visits.from, visits.to)) : x.flow \in Flows}
             still == {x \in known : x.id \notin visits.moved}
         IN  Periods!Total - Cardinality(still) \in 0..Cardinality(Flows) * Cardinality(visits.moved)
<1> DEFINE known == {x \in Periods!Rows(Periods!Between(visits.from, visits.to)) : x.flow \in Flows}
           still == {x \in known : x.id \notin visits.moved}
           parts == [f \in Flows |-> StillOf(f)]
<1>1. visits \in Counting
  BY DEF PeriodInv, VisitsOK, Periods!Idle
<1>2. PICK m \in Nat : m = Cardinality(visits.moved)
  BY <1>1, SomeMoved DEF PeriodInv, VisitsOK
<1>3. IsFiniteSet(Flows) /\ Cardinality(Flows) \in Nat
  BY PeriodConstants, FS_CardinalityType
<1>4. still = UNION {parts[f] : f \in Flows}
  BY DEF StillOf
<1>5. PICK c : c = visits.counts
  OBVIOUS
<1>6. ASSUME NEW f \in Flows
      PROVE  /\ IsFiniteSet(parts[f]) /\ c[f] \in Nat
             /\ Cardinality(parts[f]) <= c[f] /\ c[f] <= Cardinality(parts[f]) + m
  <2>1. parts[f] = StillOf(f) /\ StillOf(f) \subseteq talks
    BY DEF StillOf, Periods!Rows
  <2>2. IsFiniteSet(StillOf(f))
    BY <2>1, SomeTalks DEF PeriodInv
  <2>3. c[f] \in Nat
    BY <1>1, <1>5 DEF Counting
  <2> HIDE DEF StillOf, parts
  <2>4. Cardinality(StillOf(f)) <= c[f] /\ c[f] <= Cardinality(StillOf(f)) + m
    BY <1>2, <1>5 DEF PeriodInv, VisitsOK
  <2> QED BY <2>1, <2>2, <2>3, <2>4
<1>7. \A f, g \in Flows : f # g => parts[f] \cap parts[g] = {}
  BY DEF StillOf
<1>8. Periods!Total = SumOver(c, Flows)
  BY <1>5, TotalIsTheSum
<1>9. /\ SumOver(c, Flows) \in Nat /\ Cardinality(still) <= SumOver(c, Flows)
      /\ SumOver(c, Flows) <= Cardinality(still) + Cardinality(Flows) * m
  <2> HIDE DEF parts, still
  <2>1. CountsParts(c, Flows, parts, m)
    BY <1>6, <1>7 DEF CountsParts
  <2>2. still = Together(Flows, parts)
    BY <1>4 DEF Together
  <2> QED BY <1>3, <2>1, <2>2, SumOfParts
<1>10. Cardinality(still) \in Nat
  BY SomeTalks DEF PeriodInv, Periods!Rows
<1>11. PICK b \in Nat : b = Cardinality(Flows) * m
  BY <1>3
<1> HIDE DEF still
<1>12. Periods!Total - Cardinality(still) \in 0..b
  BY <1>8, <1>9, <1>10, <1>11
<1>13. Periods!Total - Cardinality(still) \in 0..Cardinality(Flows) * Cardinality(visits.moved)
  BY <1>2, <1>11, <1>12
<1> QED BY <1>13 DEF still

\* The days of a period that is over add up to the period, whatever is written between the
\* requests; its visits count once each conversation that did not move; and a summary without
\* dates has all of the last days: for any number of days, flows and conversations.
THEOREM DaysAddUpHolds == (Periods!Spec => []DaysAddUp) /\ (OfficialsSpec => []DaysAddUp)
<1>1. PeriodInv => DaysAddUp
  <2> SUFFICES ASSUME PeriodInv PROVE DaysAddUp
    OBVIOUS
  <2>1. Periods!TypeOK
    <3>1. ASSUME report.step = "days" PROVE report.total \in 0..MaxTalks
      <4>1. report.total = Cardinality(Periods!Rows(Span(report.from, report.day)))
        BY <3>1 DEF PeriodInv, ReportOK
      <4>2. Periods!Rows(Span(report.from, report.day)) \subseteq talks
        BY DEF Periods!Rows
      <4> QED BY <4>1, <4>2, SomeTalks, PeriodConstants DEF PeriodInv
    <3>2. ASSUME visits.step = "count"
          PROVE  /\ DOMAIN visits.counts \subseteq Flows
                 /\ \A f \in DOMAIN visits.counts : visits.counts[f] \in 0..MaxTalks
      <4>1. visits \in Counting
        BY <3>2 DEF PeriodInv, VisitsOK, Periods!Idle
      <4>2. \A f \in DOMAIN visits.counts : visits.counts[f] <= MaxTalks
        BY <3>2 DEF PeriodInv, VisitsOK
      <4> QED BY <4>1, <4>2, PeriodConstants DEF Counting
    <3> QED BY <3>1, <3>2 DEF Periods!TypeOK
  <2>2. Periods!DaysAddUp
    BY DEF PeriodInv, ReportOK, Periods!DaysAddUp
  <2>3. Periods!DefaultHasTheLastDays
    <3>1. \A x \in talks : x.at \in Nat /\ x.at <= clock /\ clock \in Nat
      BY DEF PeriodInv, TalksOK, Spoken
    <3> QED BY <3>1, LastDaysAreIn DEF Periods!DefaultHasTheLastDays, Periods!DefaultRange
  <2>4. Periods!VisitsCountOnce
    BY PeriodCardinality, VisitsAddUp DEF Periods!VisitsCountOnce
  <2> QED BY <2>1, <2>2, <2>3, <2>4 DEF DaysAddUp
<1> QED BY <1>1, PeriodInductive, PeriodsAreAPart, PTL
==============================================================================
