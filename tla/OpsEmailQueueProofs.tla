------------------------ MODULE OpsEmailQueueProofs ------------------------
(***************************************************************************)
(* Proofs about OpsEmailQueue: its list operations, its types and its      *)
(* idempotency keys; then its jobs, of which none disappears, the LREM and *)
(* the DEL that take no other job away, the attempts and the mails paid    *)
(* for, and that what the callers of enqueue see is the delivery of        *)
(* EmailDelivery.  The lists are handled through the sets of their         *)
(* entries: the first section says what each list operation does to that   *)
(* set, and the later ones never look inside a list.                       *)
(***************************************************************************)
EXTENDS OpsEmailQueue, SequenceTheorems, WellFoundedInduction, TLAPS, FiniteSetTheorems,
        FunctionTheorems

----------------------------------------------------------------------------
(* The list operations *)

\* What is at a position of a list is one of its entries.
LEMMA EntryOf ==
  ASSUME NEW S, NEW list \in Seq(S), NEW i \in 1..Len(list)
  PROVE  list[i] \in ToSet(list)
BY DEF ToSet

\* LPUSH adds its argument to the entries and keeps the others.
LEMMA LPushEntries ==
  ASSUME NEW S, NEW list \in Seq(S), NEW x \in S
  PROVE  /\ LPush(list, x) \in Seq(S)
         /\ ToSet(LPush(list, x)) = {x} \cup ToSet(list)
<1>1. LPush(list, x) \in Seq(S)
  BY DEF LPush
<1>2. /\ Len(LPush(list, x)) = Len(list) + 1
      /\ LPush(list, x)[1] = x
      /\ \A i \in 1..Len(list) : LPush(list, x)[i + 1] = list[i]
  BY DEF LPush
<1>3. ToSet(LPush(list, x)) \subseteq {x} \cup ToSet(list)
  <2> SUFFICES ASSUME NEW i \in 1..(Len(list) + 1), i # 1
               PROVE  LPush(list, x)[i] \in ToSet(list)
    BY <1>1, <1>2 DEF ToSet
  <2> DEFINE k == i - 1
  <2>1. k \in 1..Len(list) /\ i = k + 1
    OBVIOUS
  <2>2. LPush(list, x)[i] = list[k]
    BY <2>1, <1>2
  <2> QED BY <2>1, <2>2 DEF ToSet
<1>4. {x} \cup ToSet(list) \subseteq ToSet(LPush(list, x))
  <2>1. x \in ToSet(LPush(list, x))
    BY <1>1, <1>2 DEF ToSet
  <2>2. ASSUME NEW i \in 1..Len(list) PROVE list[i] \in ToSet(LPush(list, x))
    <3>1. i + 1 \in DOMAIN LPush(list, x)
      BY <1>1, <1>2
    <3> QED BY <3>1, <1>2 DEF ToSet
  <2> QED BY <2>1, <2>2 DEF ToSet
<1> QED BY <1>1, <1>3, <1>4

\* Front drops the last entry only.
LEMMA FrontPositions ==
  ASSUME NEW S, NEW list \in Seq(S), list # <<>>
  PROVE  /\ Front(list) \in Seq(S)
         /\ Len(Front(list)) = Len(list) - 1
         /\ \A i \in 1..(Len(list) - 1) : Front(list)[i] = list[i]
<1>0. Len(list) \in Nat \ {0}
  OBVIOUS
<1> DEFINE n == Len(list) - 1
<1>1. n \in Int /\ 1 \in Int /\ \A i \in 1..n : list[i] \in S
  BY <1>0
<1>2. /\ SubSeq(list, 1, n) \in Seq(S)
      /\ Len(SubSeq(list, 1, n)) = IF 1 <= n THEN n - 1 + 1 ELSE 0
      /\ \A i \in 1..(n - 1 + 1) : SubSeq(list, 1, n)[i] = list[1 + i - 1]
  BY <1>1, SubSeqProperties
<1>3. Front(list) = SubSeq(list, 1, n)
  BY DEF Front
<1>4. ASSUME NEW i \in 1..n PROVE SubSeq(list, 1, n)[i] = list[i]
  <2>1. i \in 1..(n - 1 + 1) /\ 1 + i - 1 = i
    BY <1>0
  <2> QED BY <2>1, <1>2
<1>5. (IF 1 <= n THEN n - 1 + 1 ELSE 0) = n
  <2>1. n \in Nat
    BY <1>0
  <2> HIDE DEF n
  <2> QED BY <2>1
<1>6. SubSeq(list, 1, n) \in Seq(S) /\ Len(SubSeq(list, 1, n)) = n
  BY <1>2, <1>5
<1> HIDE DEF n
<1>7. /\ Front(list) \in Seq(S) /\ Len(Front(list)) = n
      /\ \A i \in 1..n : Front(list)[i] = list[i]
  BY <1>3, <1>4, <1>6
<1> QED BY <1>7 DEF n

\* RPOP takes the last entry and keeps the others.
LEMMA RPopEntries ==
  ASSUME NEW S, NEW list \in Seq(S), list # <<>>
  PROVE  /\ Front(list) \in Seq(S) /\ Last(list) \in S
         /\ ToSet(list) = {Last(list)} \cup ToSet(Front(list))
<1>1. Len(list) \in Nat \ {0}
  OBVIOUS
<1>2. /\ Front(list) \in Seq(S)
      /\ Len(Front(list)) = Len(list) - 1
      /\ \A i \in 1..(Len(list) - 1) : Front(list)[i] = list[i]
  BY FrontPositions
<1>3. Last(list) \in S
  BY <1>1 DEF Last
<1>4. ToSet(list) \subseteq {Last(list)} \cup ToSet(Front(list))
  <2> SUFFICES ASSUME NEW i \in 1..Len(list), i # Len(list)
               PROVE  list[i] \in ToSet(Front(list))
    BY <1>1 DEF ToSet, Last
  <2>1. i \in 1..(Len(list) - 1)
    OBVIOUS
  <2>2. Front(list)[i] = list[i]
    BY <2>1, <1>2
  <2> QED BY <2>1, <2>2, <1>2, EntryOf
<1>5. {Last(list)} \cup ToSet(Front(list)) \subseteq ToSet(list)
  BY <1>1, <1>2 DEF ToSet, Last
<1> QED BY <1>2, <1>3, <1>4, <1>5

\* The loop of the restoration takes the first entry and keeps the others.
LEMMA TailEntries ==
  ASSUME NEW S, NEW list \in Seq(S), list # <<>>
  PROVE  /\ Tail(list) \in Seq(S) /\ Head(list) \in S
         /\ Len(list) \in Nat /\ (Len(list) = 1 <=> Tail(list) = <<>>)
         /\ Len(Tail(list)) = Len(list) - 1
         /\ ToSet(list) = {Head(list)} \cup ToSet(Tail(list))
<1>1. Len(list) \in Nat \ {0}
  OBVIOUS
<1>2. /\ Tail(list) \in Seq(S) /\ Head(list) = list[1] /\ Head(list) \in S
      /\ Len(Tail(list)) = Len(list) - 1
      /\ \A i \in 1..(Len(list) - 1) : Tail(list)[i] = list[i + 1]
  BY <1>1
<1>3. ToSet(list) \subseteq {Head(list)} \cup ToSet(Tail(list))
  <2> SUFFICES ASSUME NEW i \in 1..Len(list), i # 1
               PROVE  list[i] \in ToSet(Tail(list))
    BY <1>1, <1>2 DEF ToSet
  <2> DEFINE k == i - 1
  <2>1. k \in 1..(Len(list) - 1) /\ i = k + 1
    BY <1>1
  <2>2. Tail(list)[k] = list[i]
    BY <2>1, <1>2
  <2>3. k \in 1..Len(Tail(list))
    BY <2>1, <1>2
  <2> QED BY <2>2, <2>3, <1>2, EntryOf
<1>4. {Head(list)} \cup ToSet(Tail(list)) \subseteq ToSet(list)
  <2>1. Head(list) \in ToSet(list)
    BY <1>1, <1>2 DEF ToSet
  <2>2. ASSUME NEW i \in 1..(Len(list) - 1) PROVE Tail(list)[i] \in ToSet(list)
    <3>1. i + 1 \in 1..Len(list)
      BY <1>1
    <3> QED BY <3>1, <1>2 DEF ToSet
  <2>3. DOMAIN Tail(list) = 1..(Len(list) - 1)
    BY <1>2
  <2> QED BY <2>1, <2>2, <2>3 DEF ToSet
<1>5. Len(list) = 1 <=> Tail(list) = <<>>
  <2> DEFINE t == Tail(list)
  <2>1. t \in Seq(S) /\ Len(t) = Len(list) - 1
    BY <1>2
  <2> HIDE DEF t
  <2>2. Len(t) = 0 <=> t = <<>>
    BY <2>1, EmptySeq
  <2>3. Len(list) = 1 <=> t = <<>>
    BY <2>1, <2>2, <1>1
  <2> QED BY <2>3 DEF t
<1> QED BY <1>1, <1>2, <1>3, <1>4, <1>5

\* reverse() keeps the entries.
LEMMA ReverseEntries ==
  ASSUME NEW S, NEW list \in Seq(S)
  PROVE  /\ Reverse(list) \in Seq(S)
         /\ ToSet(Reverse(list)) = ToSet(list)
         /\ list # <<>> => Reverse(list) # <<>>
         /\ Len(Reverse(list)) = Len(list)
<1>1. /\ Reverse(list) \in Seq(S) /\ Len(Reverse(list)) = Len(list)
      /\ \A i \in 1..Len(list) : Reverse(list)[i] = list[Len(list) - i + 1]
  BY DEF Reverse
<1>2. ToSet(Reverse(list)) \subseteq ToSet(list)
  <2>0. ToSet(Reverse(list)) = {Reverse(list)[i] : i \in 1..Len(list)}
    <3>1. DOMAIN Reverse(list) = 1..Len(list)
      BY <1>1
    <3> QED BY <3>1 DEF ToSet
  <2> SUFFICES ASSUME NEW i \in 1..Len(list)
               PROVE  Reverse(list)[i] \in ToSet(list)
    BY <2>0
  <2> DEFINE k == Len(list) - i + 1
  <2>1. k \in 1..Len(list)
    OBVIOUS
  <2>2. Reverse(list)[i] = list[k]
    BY <1>1
  <2> QED BY <2>1, <2>2 DEF ToSet
<1>3. ToSet(list) \subseteq ToSet(Reverse(list))
  <2> SUFFICES ASSUME NEW i \in 1..Len(list)
               PROVE  list[i] \in ToSet(Reverse(list))
    BY DEF ToSet
  <2> DEFINE k == Len(list) - i + 1
  <2>1. k \in 1..Len(list) /\ Len(list) - k + 1 = i
    OBVIOUS
  <2>2. Reverse(list)[k] = list[i]
    BY <2>1, <1>1
  <2>3. k \in 1..Len(Reverse(list))
    BY <2>1, <1>1
  <2> QED BY <2>2, <2>3, <1>1, EntryOf
<1>4. list # <<>> => Reverse(list) # <<>>
  <2> DEFINE t == Reverse(list)
  <2>1. t \in Seq(S) /\ Len(t) = Len(list)
    BY <1>1
  <2> HIDE DEF t
  <2>2. list # <<>> => t # <<>>
    BY <2>1, EmptySeq
  <2> QED BY <2>2 DEF t
<1> QED BY <1>1, <1>2, <1>3, <1>4

\* LREM 1 drops one occurrence of its argument, if there is one, and nothing else.
LEMMA LRemEntries ==
  ASSUME NEW S, NEW list \in Seq(S), NEW x
  PROVE  /\ LRem(list, x) \in Seq(S)
         /\ ToSet(LRem(list, x)) \subseteq ToSet(list)
         /\ ToSet(list) \ {x} \subseteq ToSet(LRem(list, x))
         /\ x \in ToSet(list) => Len(LRem(list, x)) = Len(list) - 1
<1>1. CASE ~ \E i \in 1..Len(list) : list[i] = x
  BY <1>1 DEF LRem, RemoveFirst, ToSet
<1>2. CASE \E i \in 1..Len(list) : list[i] = x
  <2> DEFINE I == {i \in 1..Len(list) : list[i] = x}
             k == SelectInSeq(list, LAMBDA v : v = x)
  <2> HIDE DEF k
  <2>1. k \in I
    <3>1. I # {} /\ I \subseteq Nat
      BY <1>2
    <3>2. k = Min(I)
      BY <3>1 DEF k, SelectInSeq
    <3> DEFINE R == OpToRel(<, Nat)
    <3>a. R = {p \in Nat \X Nat : p[1] < p[2]}
      BY Zenon DEF OpToRel
    <3>b. IsWellFoundedOn(R, Nat)
      BY NatLessThanWellFounded
    <3> HIDE DEF R
    <3>3. PICK m \in I : \A i \in I : ~ (<<i, m>> \in R)
      BY <3>1, <3>b, WFMin
    <3>4. ASSUME NEW i \in I PROVE m <= i
      <4>1. i < m => <<i, m>> \in R
        BY <3>1, <3>a
      <4> QED BY <4>1, <3>1, <3>3
    <3>5. Min(I) \in I
      BY <3>4 DEF Min
    <3> QED BY <3>2, <3>5
  <2>2. LRem(list, x) = SubSeq(list, 1, k - 1) \o SubSeq(list, k + 1, Len(list))
    BY <1>2 DEF LRem, RemoveFirst, RemoveAt, k
  <2> DEFINE a == SubSeq(list, 1, k - 1)
             b == SubSeq(list, k + 1, Len(list))
  <2>3. /\ a \in Seq(S) /\ Len(a) = k - 1
        /\ \A i \in 1..(k - 1) : a[i] = list[i]
    <3>1. 1 \in Int /\ k - 1 \in Int /\ \A i \in 1..(k - 1) : list[i] \in S
      BY <2>1
    <3>2. /\ a \in Seq(S)
          /\ Len(a) = IF 1 <= k - 1 THEN k - 1 - 1 + 1 ELSE 0
          /\ \A i \in 1..(k - 1 - 1 + 1) : a[i] = list[1 + i - 1]
      BY <3>1, SubSeqProperties
    <3> QED BY <2>1, <3>2
  <2>4. /\ b \in Seq(S) /\ Len(b) = Len(list) - k
        /\ \A i \in 1..(Len(list) - k) : b[i] = list[k + i]
    <3>1. k + 1 \in Int /\ Len(list) \in Int /\ \A i \in (k + 1)..Len(list) : list[i] \in S
      BY <2>1
    <3>2. /\ b \in Seq(S)
          /\ Len(b) = IF k + 1 <= Len(list) THEN Len(list) - (k + 1) + 1 ELSE 0
          /\ \A i \in 1..(Len(list) - (k + 1) + 1) : b[i] = list[k + 1 + i - 1]
      BY <3>1, SubSeqProperties
    <3> QED BY <2>1, <3>2
  <2> HIDE DEF a, b
  <2> DEFINE c == a \o b
  <2>5. /\ c \in Seq(S) /\ Len(c) = Len(list) - 1
        /\ \A i \in 1..(Len(list) - 1) : c[i] = IF i < k THEN list[i] ELSE list[i + 1]
    <3>1. /\ c \in Seq(S) /\ Len(c) = Len(a) + Len(b)
          /\ \A i \in 1..(Len(a) + Len(b)) :
               c[i] = IF i <= Len(a) THEN a[i] ELSE b[i - Len(a)]
      BY <2>3, <2>4, ConcatProperties
    <3> HIDE DEF c
    <3>2. ASSUME NEW i \in 1..(Len(list) - 1)
          PROVE  c[i] = IF i < k THEN list[i] ELSE list[i + 1]
      <4>1. CASE i < k
        <5>1. i \in 1..(k - 1) /\ i <= Len(a)
          BY <2>1, <2>3, <4>1
        <5> QED BY <5>1, <4>1, <2>1, <2>3, <2>4, <3>1
      <4>2. CASE ~ (i < k)
        <5> DEFINE m == i - (k - 1)
        <5>1. m \in 1..(Len(list) - k) /\ k + m = i + 1 /\ m = i - Len(a) /\ ~ (i <= Len(a))
          BY <2>1, <2>3, <4>2
        <5>2. i \in 1..(Len(a) + Len(b))
          BY <2>1, <2>3, <2>4
        <5>3. c[i] = b[m] /\ b[m] = list[k + m]
          BY <5>1, <5>2, <2>4, <3>1
        <5> QED BY <5>1, <5>3, <4>2
      <4> QED BY <4>1, <4>2
    <3>3. Len(a) + Len(b) = Len(list) - 1
      BY <2>1, <2>3, <2>4
    <3> QED BY <3>1, <3>2, <3>3 DEF c
  <2>6. LRem(list, x) = c
    BY <2>2 DEF a, b
  <2> HIDE DEF c
  <2>7. ToSet(c) \subseteq ToSet(list)
    <3> SUFFICES ASSUME NEW i \in 1..(Len(list) - 1) PROVE c[i] \in ToSet(list)
      BY <2>5 DEF ToSet
    <3>1. i \in 1..Len(list) /\ i + 1 \in 1..Len(list)
      OBVIOUS
    <3> QED BY <3>1, <2>5, EntryOf
  <2>8. ToSet(list) \ {x} \subseteq ToSet(c)
    <3> SUFFICES ASSUME NEW i \in 1..Len(list), i # k PROVE list[i] \in ToSet(c)
      BY <2>1 DEF ToSet
    <3>1. CASE i < k
      <4>1. i \in 1..Len(c) /\ c[i] = list[i]
        BY <2>1, <2>5, <3>1
      <4> QED BY <4>1, <2>5, EntryOf
    <3>2. CASE ~ (i < k)
      <4> DEFINE m == i - 1
      <4>1. m \in 1..Len(c) /\ m + 1 = i /\ ~ (m < k)
        BY <2>1, <2>5, <3>2
      <4>2. c[m] = list[i]
        BY <4>1, <2>5
      <4> QED BY <4>1, <4>2, <2>5, EntryOf
    <3> QED BY <3>1, <3>2
  <2> QED BY <2>5, <2>6, <2>7, <2>8
<1> QED BY <1>1, <1>2

----------------------------------------------------------------------------
(* Type correctness *)

\* A job in hand is a job, and what the process leaves behind is well typed.
LEMMA IdleWorkerType ==
  /\ IdleWorker \in [pc : WorkerSteps, job : Jobs \cup {NoJob}, next : Nat]
  /\ IdleWorker.pc = "idle"
BY DEF IdleWorker, WorkerSteps, NoJob

\* The end of the process keeps types.
LEMMA DieType ==
  ASSUME TypeOK, NEW gone \in SUBSET Requests, Die(gone)
  PROVE  /\ proc' \in {"down", "range", "push", "del", "up", "stopping"}
         /\ w' \in [pc : WorkerSteps, job : Jobs \cup {NoJob}, next : Nat]
         /\ ~Busy'
         /\ backlog' \in Seq(Jobs)
         /\ req' \in [Requests -> RequestSteps]
         /\ lost' \subseteq Requests
BY IdleWorkerType DEF TypeOK, Die, Busy, RequestSteps

\* What Event makes is a row of the log.
LEMMA EventType ==
  ASSUME NEW r \in Requests, NEW status \in Statuses, NEW n \in Nat
  PROVE  Event(r, status, n) \in [id : Requests, status : Statuses, attempts : Nat]
BY DEF Event

\* A counted fault is a number.
LEMMA FaultType ==
  ASSUME TypeOK
  PROVE  /\ Fault => faults' \in Nat
         /\ RedisOk => faults' \in Nat
         /\ \A done \in BOOLEAN : RedisFails(done) => faults' \in Nat
BY DEF TypeOK, Fault, RedisOk, RedisFails

\* Both outcomes of createEvent keep types.
LEMMA EventOutcomeType ==
  ASSUME TypeOK, NEW e \in [id : Requests, status : Statuses, attempts : Nat],
         EventOk(e) \/ EventFails(e)
  PROVE  /\ events' \subseteq [id : Requests, status : Statuses, attempts : Nat]
         /\ faults' \in Nat
BY FaultType DEF TypeOK, EventOk, EventFails

\* The jobs in the window of a retry are requests.
LEMMA InWindowType ==
  ASSUME TypeOK PROVE InWindow \subseteq Requests
BY DEF TypeOK, InWindow, Busy, Jobs

\* The steps of a worker that stays at work.
LEMMA GotoType ==
  ASSUME TypeOK, Busy, NEW step \in WorkerSteps, Goto(step)
  PROVE  /\ w' \in [pc : WorkerSteps, job : Jobs \cup {NoJob}, next : Nat]
         /\ w'.pc = step /\ w'.job = w.job /\ w.job \in Jobs
         /\ w'.next = w.next
BY DEF TypeOK, Goto

\* The loop over the providers keeps the type of the worker.
LEMMA NextProviderType ==
  ASSUME TypeOK, Busy, NEW step \in WorkerSteps, NextProvider(step)
  PROVE  /\ w' \in [pc : WorkerSteps, job : Jobs \cup {NoJob}, next : Nat]
         /\ w'.pc \in {w.pc, step} /\ w'.job = w.job /\ w.job \in Jobs
<1>1. CASE w' = [w EXCEPT !.next = @ + 1]
  <2>1. /\ w \in [pc : WorkerSteps, job : Jobs \cup {NoJob}, next : Nat]
        /\ w.next + 1 \in Nat /\ w.job \in Jobs
    BY DEF TypeOK
  <2> QED BY <1>1, <2>1
<1>2. CASE Goto(step)
  BY <1>2, GotoType
<1> QED BY <1>1, <1>2 DEF NextProvider

\* The first state has its types.
LEMMA TypeInit == Init => TypeOK
<1> SUFFICES ASSUME Init PROVE TypeOK
  OBVIOUS
<1>1. ~Busy /\ w \in [pc : WorkerSteps, job : Jobs \cup {NoJob}, next : Nat]
  BY IdleWorkerType DEF Init, Busy
<1>2. /\ pending \in Seq(Jobs) /\ processing \in Seq(Jobs) /\ dead \in Seq(Jobs)
      /\ backlog \in Seq(Jobs)
  BY DEF Init
<1> QED BY <1>1, <1>2, ConstantsAssumption DEF Init, TypeOK, RequestSteps

\* enqueue keeps types.
LEMMA TypeEnqueue ==
  ASSUME TypeOK, NEW r \in Requests, Enqueue(r)
  PROVE  TypeOK'
<1> USE DEF RequestSteps
<1>1. CASE Reserve(r)
  <2>1. KeyOf[r] \in Keys
    BY ConstantsAssumption
  <2>2. Reserved(r) \in [Keys -> Requests \cup {NoRequest}]
    BY <2>1 DEF Reserved, TypeOK
  <2>3. idem' \in [Keys -> Requests \cup {NoRequest}] /\ faults' \in Nat
    BY <1>1, <2>2, FaultType DEF Reserve, TypeOK
  <2>4. req' \in [Requests -> RequestSteps]
    BY <1>1 DEF Reserve, TypeOK
  <2> QED BY <1>1, <2>3, <2>4 DEF Reserve, TypeOK, redis, Busy
<1>2. CASE RejectDuplicate(r)
  <2>1. Event(r, "duplicate", 0) \in [id : Requests, status : Statuses, attempts : Nat]
    BY EventType DEF Statuses
  <2>2. /\ events' \subseteq [id : Requests, status : Statuses, attempts : Nat]
        /\ faults' \in Nat
    BY <1>2, <2>1, EventOutcomeType DEF RejectDuplicate
  <2>3. req' \in [Requests -> RequestSteps]
    BY <1>2 DEF RejectDuplicate, TypeOK
  <2> QED BY <1>2, <2>2, <2>3 DEF RejectDuplicate, TypeOK, redis, Busy
<1>3. CASE RecordRequested(r)
  <2>1. Event(r, "requested", 0) \in [id : Requests, status : Statuses, attempts : Nat]
    BY EventType DEF Statuses
  <2>2. /\ events' \subseteq [id : Requests, status : Statuses, attempts : Nat]
        /\ faults' \in Nat
    BY <1>3, <2>1, EventOutcomeType DEF RecordRequested
  <2>3. req' \in [Requests -> RequestSteps]
    BY <1>3 DEF RecordRequested, TypeOK
  <2> QED BY <1>3, <2>2, <2>3 DEF RecordRequested, TypeOK, redis, Busy
<1>4. CASE PushPending(r)
  <2>1. [id |-> r, attempts |-> 0] \in Jobs
    BY DEF Jobs
  <2>2. LPush(pending, [id |-> r, attempts |-> 0]) \in Seq(Jobs)
    BY <2>1, LPushEntries DEF TypeOK
  <2>3. pending' \in Seq(Jobs) /\ faults' \in Nat
    BY <1>4, <2>2, FaultType DEF PushPending, TypeOK
  <2>4. req' \in [Requests -> RequestSteps]
    BY <1>4 DEF PushPending, TypeOK
  <2> QED BY <1>4, <2>3, <2>4 DEF PushPending, TypeOK, Busy
<1> QED BY <1>1, <1>2, <1>3, <1>4 DEF Enqueue

\* The life of the process keeps types.
LEMMA TypeProcess ==
  ASSUME TypeOK, Crash \/ Shutdown \/ Exit \/ Restart \/ \E k \in Keys : Expire(k)
  PROVE  TypeOK'
<1>1. CASE Crash
  <2>1. Die(InWindow) /\ crashes' \in Nat
    BY <1>1 DEF Crash, TypeOK
  <2> QED BY <1>1, <2>1, DieType, InWindowType DEF Crash, TypeOK, redis
<1>2. CASE Shutdown
  <2>1. crashes' \in Nat
    BY <1>2 DEF Shutdown, TypeOK
  <2> QED BY <1>2, <2>1 DEF Shutdown, TypeOK, redis, Busy
<1>3. CASE Exit
  BY <1>3, DieType, InWindowType DEF Exit, TypeOK, redis, bounds
<1>4. CASE Restart
  BY <1>4 DEF Restart, TypeOK, redis, bounds, Busy
<1>5. CASE \E k \in Keys : Expire(k)
  <2> PICK k \in Keys : Expire(k)
    BY <1>5
  <2>1. idem' \in [Keys -> Requests \cup {NoRequest}] /\ expiries' \in [Keys -> Nat]
    BY DEF Expire, TypeOK
  <2> QED BY <2>1 DEF Expire, TypeOK, redis, Busy
<1> QED BY <1>1, <1>2, <1>3, <1>4, <1>5

\* The restoration keeps types.
LEMMA TypeRestore ==
  ASSUME TypeOK, Restore, proc = "push" => backlog # <<>>
  PROVE  TypeOK'
<1>0. {} \in SUBSET Requests
  OBVIOUS
<1>1. CASE RestoreRange
  <2>1. Reverse(processing) \in Seq(Jobs)
    BY ReverseEntries DEF TypeOK
  <2>2. faults' \in Nat
    BY <1>1, FaultType DEF RestoreRange
  <2>3. CASE Die({})
    BY <1>1, <1>0, <2>2, <2>3, DieType DEF RestoreRange, TypeOK, redis
  <2>4. CASE backlog' = Reverse(processing) /\ UNCHANGED <<req, w, lost>>
                /\ proc' \in {"up", "push"}
    BY <1>1, <2>1, <2>2, <2>4 DEF RestoreRange, TypeOK, redis, Busy
  <2> QED BY <1>1, <2>3, <2>4 DEF RestoreRange
<1>2. CASE RestorePush
  <2>0. backlog # <<>>
    BY <1>2 DEF RestorePush
  <2>1. Tail(backlog) \in Seq(Jobs) /\ Head(backlog) \in Jobs
    BY <2>0, TailEntries DEF TypeOK
  <2>2. LPush(pending, Head(backlog)) \in Seq(Jobs)
    BY <2>1, LPushEntries DEF TypeOK
  <2>3. faults' \in Nat /\ pending' \in Seq(Jobs)
    BY <1>2, <2>2, FaultType DEF RestorePush, TypeOK
  <2>4. CASE Die({})
    BY <1>2, <1>0, <2>3, <2>4, DieType DEF RestorePush, TypeOK
  <2>5. CASE ~Die({})
    <3>1. /\ backlog' = Tail(backlog) /\ UNCHANGED <<req, w, lost>>
          /\ proc' = IF Len(backlog) = 1 THEN "del" ELSE "push"
      BY <1>2, <2>5, Zenon DEF RestorePush
    <3>2. proc' \in {"del", "push"}
      BY <3>1, Zenon
    <3> QED BY <1>2, <2>1, <2>3, <3>1, <3>2 DEF RestorePush, TypeOK, Busy
  <2> QED BY <2>4, <2>5
<1>3. CASE RestoreDel
  <2>0. processing' \in {processing, <<>>}
    BY <1>3 DEF RestoreDel
  <2>a. processing' \in Seq(Jobs)
    <3>1. processing \in Seq(Jobs) /\ <<>> \in Seq(Jobs)
      BY EmptySeq DEF TypeOK
    <3> QED BY <2>0, <3>1, Zenon
  <2>1. faults' \in Nat /\ processing' \in Seq(Jobs)
    BY <1>3, <2>a, FaultType DEF RestoreDel
  <2>2. CASE Die({})
    BY <1>3, <1>0, <2>1, <2>2, DieType DEF RestoreDel, TypeOK
  <2>3. CASE UNCHANGED <<req, backlog, w, lost>> /\ proc' = "up"
    BY <1>3, <2>1, <2>3 DEF RestoreDel, TypeOK, Busy
  <2> QED BY <1>3, <2>2, <2>3 DEF RestoreDel
<1> QED BY <1>1, <1>2, <1>3 DEF Restore

\* RPOPLPUSH keeps types.
LEMMA TypePoll ==
  ASSUME TypeOK, Poll
  PROVE  TypeOK'
<1>0. {} \in SUBSET Requests
  OBVIOUS
<1>1. pending # <<>> =>
        /\ Front(pending) \in Seq(Jobs) /\ Last(pending) \in Jobs
        /\ LPush(processing, Last(pending)) \in Seq(Jobs)
  BY RPopEntries, LPushEntries DEF TypeOK
<1>2. pending' \in Seq(Jobs) /\ processing' \in Seq(Jobs) /\ faults' \in Nat
  BY <1>1, FaultType DEF Poll, TypeOK
<1>3. CASE Die({})
  BY <1>0, <1>2, <1>3, DieType DEF Poll, TypeOK
<1>4. CASE ~Die({})
  <2>1. pending # <<>> /\ w' = StartJob(Last(pending)) /\ Survive
    BY <1>4 DEF Poll
  <2>2. /\ w' \in [pc : WorkerSteps, job : Jobs \cup {NoJob}, next : Nat]
        /\ w'.job \in Jobs
    BY <1>1, <2>1 DEF StartJob, WorkerSteps
  <2> QED BY <1>2, <2>1, <2>2 DEF Poll, Survive, TypeOK, Busy
<1> QED BY <1>3, <1>4

\* The attempt in hand is the one after those the job counts.
LEMMA InHandType ==
  ASSUME TypeOK, Busy
  PROVE  /\ w.job \in Jobs /\ w.job.id \in Requests /\ w.job.attempts \in Nat
         /\ {w.job.id} \in SUBSET Requests
         /\ LRem(processing, w.job) \in Seq(Jobs)
         /\ \A status \in Statuses : Event(w.job.id, status, w.job.attempts + 1)
                \in [id : Requests, status : Statuses, attempts : Nat]
<1>1. w.job \in Jobs
  BY DEF TypeOK
<1>2. w.job.id \in Requests /\ w.job.attempts \in Nat /\ w.job.attempts + 1 \in Nat
  BY <1>1 DEF Jobs
<1>3. LRem(processing, w.job) \in Seq(Jobs)
  BY LRemEntries DEF TypeOK
<1> QED BY <1>1, <1>2, <1>3, EventType

\* A step of processJob that goes on to another step, or ends or kills the process.
LEMMA TypeContinue ==
  ASSUME TypeOK, Busy,
         \/ Survive /\ Finish
         \/ Survive /\ \E step \in WorkerSteps : Goto(step) \/ NextProvider(step)
         \/ \E gone \in SUBSET Requests : Die(gone)
  PROVE  /\ w' \in [pc : WorkerSteps, job : Jobs \cup {NoJob}, next : Nat]
         /\ Busy' => w'.job \in Jobs
         /\ proc' \in {"down", "range", "push", "del", "up", "stopping"}
         /\ backlog' \in Seq(Jobs)
         /\ req' \in [Requests -> RequestSteps]
         /\ lost' \subseteq Requests
<1>1. CASE Survive /\ Finish
  BY <1>1, IdleWorkerType DEF Survive, Finish, TypeOK, Busy
<1>2. CASE Survive /\ \E step \in WorkerSteps : Goto(step) \/ NextProvider(step)
  BY <1>2, GotoType, NextProviderType DEF Survive, TypeOK
<1>3. CASE \E gone \in SUBSET Requests : Die(gone)
  BY <1>3, DieType
<1> QED BY <1>1, <1>2, <1>3

\* processJob keeps types.
LEMMA TypeProcessJob ==
  ASSUME TypeOK, ProcessJob
  PROVE  TypeOK'
<1>0. Busy /\ {} \in SUBSET Requests
  BY DEF ProcessJob, Busy, At, TryProvider, RecordSent, RemoveSent, RecordSkipped,
         RemoveSkipped, RecordFailed, RemoveFailed, PushFailed
<1> USE <1>0, InHandType DEF WorkerSteps
<1>1. CASE TryProvider
  <2>0. mails' \in {mails, [mails EXCEPT ![w.job.id] = @ + 1]}
    BY <1>1 DEF TryProvider
  <2>a. mails' \in [Requests -> Nat]
    BY <2>0 DEF TypeOK
  <2>b. UNCHANGED faults \/ Fault
    BY <1>1 DEF TryProvider
  <2>1. mails' \in [Requests -> Nat] /\ faults' \in Nat
    BY <2>a, <2>b, FaultType DEF TypeOK
  <2>2. Survive /\ \E step \in WorkerSteps : Goto(step) \/ NextProvider(step)
    BY <1>1 DEF TryProvider
  <2> QED BY <1>1, <2>1, <2>2, TypeContinue DEF TryProvider, TypeOK, redis
<1>2. CASE RecordSent
  <2>1. /\ events' \subseteq [id : Requests, status : Statuses, attempts : Nat]
        /\ faults' \in Nat
    BY <1>2, EventOutcomeType DEF RecordSent, Statuses
  <2>2. Survive /\ \E step \in WorkerSteps : Goto(step) \/ NextProvider(step)
    BY <1>2 DEF RecordSent
  <2> QED BY <1>2, <2>1, <2>2, TypeContinue DEF RecordSent, TypeOK, redis
<1>3. CASE RemoveSent
  <2>1. processing' \in Seq(Jobs) /\ faults' \in Nat
    BY <1>3, FaultType DEF RemoveSent, TypeOK
  <2>2. \/ Survive /\ Finish
        \/ Survive /\ \E step \in WorkerSteps : Goto(step) \/ NextProvider(step)
    BY <1>3 DEF RemoveSent
  <2> QED BY <1>3, <2>1, <2>2, TypeContinue DEF RemoveSent, TypeOK
<1>4. CASE RecordSkipped
  <2>1. /\ events' \subseteq [id : Requests, status : Statuses, attempts : Nat]
        /\ faults' \in Nat
    BY <1>4, EventOutcomeType DEF RecordSkipped, Statuses
  <2>2. \/ Survive /\ \E step \in WorkerSteps : Goto(step) \/ NextProvider(step)
        \/ Die({})
    BY <1>4 DEF RecordSkipped
  <2> QED BY <1>4, <2>1, <2>2, TypeContinue DEF RecordSkipped, TypeOK, redis
<1>5. CASE RemoveSkipped
  <2>1. processing' \in Seq(Jobs) /\ faults' \in Nat
    BY <1>5, FaultType DEF RemoveSkipped, TypeOK
  <2>2. (Survive /\ Finish) \/ Die({})
    BY <1>5 DEF RemoveSkipped
  <2> QED BY <1>5, <2>1, <2>2, TypeContinue DEF RemoveSkipped, TypeOK
<1>6. CASE RecordFailed
  <2>1. /\ events' \subseteq [id : Requests, status : Statuses, attempts : Nat]
        /\ faults' \in Nat
    BY <1>6, EventOutcomeType DEF RecordFailed, Statuses
  <2>2. \/ Survive /\ \E step \in WorkerSteps : Goto(step) \/ NextProvider(step)
        \/ Die({})
    BY <1>6 DEF RecordFailed
  <2> QED BY <1>6, <2>1, <2>2, TypeContinue DEF RecordFailed, TypeOK, redis
<1>7. CASE RemoveFailed
  <2>1. processing' \in Seq(Jobs) /\ faults' \in Nat
    BY <1>7, FaultType DEF RemoveFailed, TypeOK
  <2>2. \/ Survive /\ \E step \in WorkerSteps : Goto(step) \/ NextProvider(step)
        \/ \E gone \in SUBSET Requests : Die(gone)
    BY <1>7 DEF RemoveFailed
  <2> QED BY <1>7, <2>1, <2>2, TypeContinue DEF RemoveFailed, TypeOK
<1>8. CASE PushFailed
  <2>1. [w.job EXCEPT !.attempts = @ + 1] \in Jobs
    BY DEF Jobs
  <2> DEFINE job == [w.job EXCEPT !.attempts = @ + 1]
  <2>a. LPush(pending, job) \in Seq(Jobs) /\ LPush(dead, job) \in Seq(Jobs)
    BY <2>1, LPushEntries DEF TypeOK
  <2>b. faults' \in Nat
    BY <1>8, FaultType DEF PushFailed
  <2>c. Requeue(job) \/ UNCHANGED <<pending, dead>>
    BY <1>8 DEF PushFailed
  <2>d. pending' \in Seq(Jobs) /\ dead' \in Seq(Jobs)
    <3> HIDE DEF job
    <3> QED BY <2>a, <2>c DEF Requeue, TypeOK
  <2>2. pending' \in Seq(Jobs) /\ dead' \in Seq(Jobs) /\ faults' \in Nat
    BY <2>b, <2>d
  <2>3. (Survive /\ Finish) \/ \E gone \in SUBSET Requests : Die(gone)
    BY <1>8 DEF PushFailed
  <2> QED BY <1>8, <2>2, <2>3, TypeContinue DEF PushFailed, TypeOK
<1> QED BY <1>1, <1>2, <1>3, <1>4, <1>5, <1>6, <1>7, <1>8 DEF ProcessJob

\* The loop of the restoration runs while there is something to restore.
RestoreShape == /\ proc = "push" => backlog # <<>>
                /\ proc = "del" => backlog = <<>>

\* The restoration keeps its shape: something is left while its loop runs.
LEMMA RestoreShapeStep ==
  ASSUME TypeOK, RestoreShape, Next
  PROVE  RestoreShape'
<1>1. ASSUME NEW r \in Requests, Enqueue(r) PROVE RestoreShape'
  BY <1>1 DEF RestoreShape, Enqueue, Reserve, RejectDuplicate, RecordRequested, PushPending
<1>2. ASSUME NEW k \in Keys, Expire(k) PROVE RestoreShape'
  BY <1>2 DEF RestoreShape, Expire
<1>3. CASE Crash \/ Shutdown \/ Exit \/ Restart
  BY <1>3 DEF RestoreShape, Crash, Shutdown, Exit, Restart, Die
<1>4. CASE RestoreRange
  <2>1. processing # <<>> => Reverse(processing) # <<>>
    BY ReverseEntries DEF TypeOK
  <2> QED BY <1>4, <2>1 DEF RestoreShape, RestoreRange, Die
<1>5. CASE RestorePush
  <2>1. backlog # <<>>
    BY <1>5 DEF RestoreShape, RestorePush
  <2>2. Len(backlog) = 1 <=> Tail(backlog) = <<>>
    BY <2>1, TailEntries DEF TypeOK
  <2>3. \/ /\ backlog' = Tail(backlog)
           /\ proc' = IF Len(backlog) = 1 THEN "del" ELSE "push"
        \/ proc' = "down"
    BY <1>5, Zenon DEF RestorePush, Die
  <2> QED BY <2>2, <2>3 DEF RestoreShape
<1>6. CASE RestoreDel
  BY <1>6 DEF RestoreShape, RestoreDel, Die
<1>7. CASE Poll
  BY <1>7 DEF RestoreShape, Poll, Die, Survive
<1>8. CASE ProcessJob
  BY <1>8 DEF RestoreShape, ProcessJob, TryProvider, RecordSent, RemoveSent,
              RecordSkipped, RemoveSkipped, RecordFailed, RemoveFailed, PushFailed,
              Die, Survive
<1> QED BY <1>1, <1>2, <1>3, <1>4, <1>5, <1>6, <1>7, <1>8 DEF Next, Restore

\* Every variable keeps its type, whatever fails, dies or expires.
THEOREM TypeCorrect == Spec => [](TypeOK /\ RestoreShape)
<1>1. Init => TypeOK /\ RestoreShape
  BY TypeInit DEF Init, RestoreShape
<1>2. TypeOK /\ RestoreShape /\ [Next]_vars => (TypeOK /\ RestoreShape)'
  <2> SUFFICES ASSUME TypeOK, RestoreShape, [Next]_vars PROVE (TypeOK /\ RestoreShape)'
    OBVIOUS
  <2>1. CASE Next
    <3>1. RestoreShape'
      BY <2>1, RestoreShapeStep
    <3>2. TypeOK'
      BY <2>1, TypeEnqueue, TypeProcess, TypeRestore, TypePoll, TypeProcessJob
         DEF Next, RestoreShape
    <3> QED BY <3>1, <3>2
  <2>2. CASE UNCHANGED vars
    BY <2>2 DEF vars, TypeOK, RestoreShape, Busy
  <2> QED BY <2>1, <2>2
<1> QED BY <1>1, <1>2, PTL DEF Spec

----------------------------------------------------------------------------
(* The idempotency keys: what a reservation in Redis says about the calls of enqueue *)
(* that share the key. *)

\* The calls that own their key: they reserved it and did not fail since.
Owner(r) == req[r] \in {"requested", "push", "queued", "unanswered"}

\* What makes OneJobPerKey inductive: until it expires, a key names its owner.
KeyNamesOwner ==
  \A r \in Requests : Owner(r) /\ expiries[KeyOf[r]] = 0 => idem[KeyOf[r]] = r

\* What makes HeldKeyHasJob inductive: a shutdown is counted.
ShutdownCounted == proc = "stopping" => crashes > 0

KeyInv == KeyNamesOwner /\ HeldKeyHasJob /\ ShutdownCounted

----------------------------------------------------------------------------
(* The keys: steps that reserve none *)

\* A call moves from one step to another, or its process dies, and its key stays.
Advance ==
  /\ UNCHANGED idem
  /\ \A r \in Requests :
       \/ req'[r] = req[r]
       \/ Owner(r) /\ Owner(r)'
       \/ req[r] = "dup" /\ req'[r] \in {"duplicate", "failed"}
       \/ Owner(r) /\ req'[r] = "failed" /\ faults' + crashes' > 0
  /\ faults' + crashes' >= faults + crashes

\* A step that dies leaves the calls that were not in progress alone.
LEMMA DieAdvances ==
  ASSUME TypeOK, NEW gone, Die(gone), UNCHANGED idem,
         faults' + crashes' >= faults + crashes, faults' + crashes' > 0
  PROVE  Advance
BY DEF TypeOK, Die, Advance, Owner, InProgress, RequestSteps

\* What a fault, or the refusal of a closed client, does to the counters.
LEMMA FaultCounts ==
  ASSUME TypeOK, ShutdownCounted, UNCHANGED crashes
  PROVE  /\ Fault \/ (proc = "stopping" /\ UNCHANGED faults)
              => faults' + crashes' > 0 /\ faults' + crashes' >= faults + crashes
         /\ UNCHANGED faults => faults' + crashes' >= faults + crashes
BY DEF TypeOK, ShutdownCounted, Fault

\* Counters of faults and crashes do not go back to zero.
LEMMA SumPositive ==
  \A a, b, c, d \in Nat : a + b >= c + d /\ c + d > 0 => a + b > 0
OBVIOUS

\* A step that only lets calls advance or fail keeps KeyInv.
LEMMA AdvanceKeepsKeys ==
  ASSUME TypeOK, KeyInv, TypeOK', Advance, UNCHANGED expiries
  PROVE  KeyNamesOwner' /\ HeldKeyHasJob'
<1>1. KeyNamesOwner'
  <2> SUFFICES ASSUME NEW r \in Requests, Owner(r)', expiries'[KeyOf[r]] = 0
               PROVE  idem'[KeyOf[r]] = r
    BY DEF KeyNamesOwner
  <2>1. Owner(r)
    BY DEF Advance, Owner
  <2> QED BY <2>1 DEF KeyInv, KeyNamesOwner, Advance
<1>2. HeldKeyHasJob'
  <2> SUFFICES ASSUME NEW k \in Keys, idem'[k] # NoRequest
               PROVE  \/ req'[idem'[k]] \in {"requested", "push"} \/ Enqueued(idem[k])'
                      \/ req'[idem'[k]] = "failed" /\ faults' + crashes' > 0
    BY DEF HeldKeyHasJob, Enqueued
  <2> DEFINE r == idem[k]
  <2>1. idem'[k] = r /\ r \in Requests
    BY DEF Advance, TypeOK
  <2>2. Owner(r) \/ (req[r] = "failed" /\ faults + crashes > 0)
    BY <2>1 DEF KeyInv, HeldKeyHasJob, Owner, Enqueued
  <2>a. faults \in Nat /\ crashes \in Nat /\ faults' \in Nat /\ crashes' \in Nat
    BY Zenon DEF TypeOK
  <2>3. faults + crashes > 0 => faults' + crashes' > 0
    <3>1. faults' + crashes' >= faults + crashes
      BY Zenon DEF Advance
    <3> QED BY <2>a, <3>1, SumPositive
  <2>4. Owner(r)' \/ (req'[r] = "failed" /\ faults' + crashes' > 0)
    BY <2>1, <2>2, <2>3 DEF Advance, Owner
  <2> QED BY <2>1, <2>4 DEF Owner, Enqueued
<1> QED BY <1>1, <1>2

----------------------------------------------------------------------------
(* The keys: the steps of Next *)

\* Every step but the two that touch the keys advances the calls.
LEMMA MostStepsAdvance ==
  ASSUME TypeOK, ShutdownCounted, Next,
         ~ \E r \in Requests : Reserve(r),
         ~ \E k \in Keys : Expire(k)
  PROVE  Advance /\ UNCHANGED expiries
<1>0. /\ faults \in Nat /\ crashes \in Nat /\ req \in [Requests -> RequestSteps]
  BY Zenon DEF TypeOK
<1>1. ASSUME NEW r \in Requests,
             RejectDuplicate(r) \/ RecordRequested(r) \/ PushPending(r)
      PROVE  Advance /\ UNCHANGED expiries
  <2>1. /\ UNCHANGED <<idem, crashes, expiries>>
        /\ \/ UNCHANGED faults
           \/ req'[r] = "failed" /\ (Fault \/ (proc = "stopping" /\ UNCHANGED faults))
           \/ Owner(r)' /\ Fault
    BY <1>0, <1>1 DEF RejectDuplicate, RecordRequested, PushPending, EventOk, EventFails,
                      RedisOk, RedisFails, Owner
  <2>2. /\ faults' + crashes' >= faults + crashes
        /\ \/ UNCHANGED faults /\ proc # "stopping"
           \/ faults' + crashes' > 0
           \/ req'[r] \in {"duplicate", "push", "queued", "unanswered"}
    BY <1>0, <1>1, <2>1, FaultCounts
       DEF RejectDuplicate, RecordRequested, PushPending
  <2> QED BY <1>0, <1>1, <2>1, <2>2, FaultCounts
       DEF RejectDuplicate, RecordRequested, PushPending, EventOk, EventFails,
           RedisOk, RedisFails, Owner, Advance
<1>2. CASE Crash \/ Exit
  <2>1. PICK gone : Die(gone)
    BY <1>2 DEF Crash, Exit
  <2>2. UNCHANGED <<idem, expiries>>
    BY <1>2 DEF Crash, Exit, bounds
  <2>3. faults' + crashes' >= faults + crashes /\ faults' + crashes' > 0
    BY <1>0, <1>2 DEF Crash, Exit, bounds, ShutdownCounted
  <2> QED BY <2>1, <2>2, <2>3, DieAdvances
<1>3. CASE Shutdown \/ Restart
  BY <1>0, <1>3 DEF Shutdown, Restart, bounds, Advance
<1>4. CASE Restore
  <2>1. /\ UNCHANGED <<idem, crashes, expiries>>
        /\ \/ UNCHANGED req /\ UNCHANGED faults
           \/ Fault /\ Die({})
    BY <1>4 DEF Restore, RestoreRange, RestorePush, RestoreDel, RedisOk
  <2>2. CASE Fault /\ Die({})
    BY <2>1, <2>2, FaultCounts, DieAdvances
  <2>3. CASE UNCHANGED req /\ UNCHANGED faults
    BY <1>0, <2>1, <2>3 DEF Advance
  <2> QED BY <2>1, <2>2, <2>3
<1>5. CASE Poll \/ ProcessJob
  <2>1. /\ UNCHANGED <<idem, crashes, expiries>>
        /\ \/ UNCHANGED req /\ (UNCHANGED faults \/ Fault)
           \/ /\ Fault \/ (proc = "stopping" /\ UNCHANGED faults)
              /\ \E gone : Die(gone)
    <3>1. CASE Poll
      BY <3>1 DEF Poll, Survive
    <3>2. CASE TryProvider
      BY <3>2 DEF TryProvider, Survive
    <3>3. CASE RecordSent \/ RecordSkipped \/ RecordFailed
      BY <3>3 DEF RecordSent, RecordSkipped, RecordFailed, EventOk, EventFails, Survive
    <3>4. CASE RemoveSent \/ RemoveSkipped \/ RemoveFailed
      BY <3>4 DEF RemoveSent, RemoveSkipped, RemoveFailed, RedisOk, RedisFails, Survive
    <3>5. CASE PushFailed
      BY <3>5 DEF PushFailed, RedisOk, RedisFails, Survive
    <3> QED BY <1>5, <3>1, <3>2, <3>3, <3>4, <3>5 DEF ProcessJob
  <2>2. CASE UNCHANGED req /\ (UNCHANGED faults \/ Fault)
    BY <1>0, <2>1, <2>2, FaultCounts DEF Advance
  <2>3. CASE /\ Fault \/ (proc = "stopping" /\ UNCHANGED faults)
             /\ \E gone : Die(gone)
    BY <2>1, <2>3, FaultCounts, DieAdvances
  <2> QED BY <2>1, <2>2, <2>3
<1> QED BY <1>1, <1>2, <1>3, <1>4, <1>5 DEF Next, Enqueue

\* SET NX EX: the key names the call that made the reservation, or names what it named.
LEMMA ReserveKeepsKeys ==
  ASSUME TypeOK, KeyInv, NEW r \in Requests, Reserve(r)
  PROVE  KeyNamesOwner' /\ HeldKeyHasJob' /\ UNCHANGED <<proc, crashes>>
<1>0. /\ faults \in Nat /\ crashes \in Nat /\ req \in [Requests -> RequestSteps]
      /\ idem \in [Keys -> Requests \cup {NoRequest}]
      /\ KeyOf \in [Requests -> Keys] /\ NoRequest \notin Requests
  BY Zenon, ConstantsAssumption DEF TypeOK
<1>1. /\ req[r] = "new" /\ UNCHANGED <<proc, crashes, expiries>>
      /\ req' \in {[req EXCEPT ![r] = "requested"], [req EXCEPT ![r] = "dup"],
                   [req EXCEPT ![r] = "failed"]}
      /\ idem' \in {idem, Reserved(r)}
      /\ req'[r] = "requested" => KeyIsFree(r) /\ idem' = Reserved(r)
      /\ req'[r] = "dup" => idem' = idem
      /\ req'[r] = "failed" => Fault \/ idem' = idem
      /\ Fault \/ UNCHANGED faults
  BY <1>0 DEF Reserve, RedisOk, RedisFails, Reserved
<1>2. ASSUME NEW s \in Requests, s # r PROVE req'[s] = req[s]
  <2>1. \E step : req' = [req EXCEPT ![r] = step]
    BY <1>1, Zenon
  <2> QED BY <1>0, <1>2, <2>1
<1>3. CASE idem' = idem
  <2>1. req'[r] \in {"dup", "failed"}
    BY <1>0, <1>1, <1>3 DEF Reserved, KeyIsFree
  <2>2. KeyNamesOwner'
    BY <1>0, <1>1, <1>2, <1>3, <2>1 DEF KeyInv, KeyNamesOwner, Owner
  <2>3. HeldKeyHasJob'
    <3> SUFFICES ASSUME NEW k \in Keys, idem[k] # NoRequest
                 PROVE  \/ req'[idem[k]] \in {"requested", "push", "queued", "unanswered"}
                        \/ req'[idem[k]] = "failed" /\ faults' + crashes' > 0
      BY <1>3 DEF HeldKeyHasJob, Enqueued
    <3>1. \/ req[idem[k]] \in {"requested", "push", "queued", "unanswered"}
          \/ req[idem[k]] = "failed" /\ faults + crashes > 0
      BY DEF KeyInv, HeldKeyHasJob, Enqueued
    <3>2. idem[k] \in Requests /\ idem[k] # r
      BY <1>0, <1>1, <3>1
    <3>3. faults + crashes > 0 => faults' + crashes' > 0
      BY <1>0, <1>1 DEF Fault
    <3> QED BY <1>2, <3>1, <3>2, <3>3
  <2> QED BY <1>1, <2>2, <2>3
<1>4. CASE idem' # idem
  <2>1. KeyIsFree(r) /\ idem' = [idem EXCEPT ![KeyOf[r]] = r]
    BY <1>1, <1>4 DEF Reserved
  <2>2. req'[r] = "requested" \/ (req'[r] = "failed" /\ Fault)
    BY <1>0, <1>1, <1>4
  <2>3. KeyNamesOwner'
    <3> SUFFICES ASSUME NEW s \in Requests, Owner(s)', expiries'[KeyOf[s]] = 0
                 PROVE  idem'[KeyOf[s]] = s
      BY DEF KeyNamesOwner
    <3>1. CASE s = r
      BY <1>0, <2>1, <3>1
    <3>2. CASE s # r
      <4>1. Owner(s) /\ expiries[KeyOf[s]] = 0
        BY <1>1, <1>2, <3>2 DEF Owner
      <4>2. idem[KeyOf[s]] = s
        BY <4>1 DEF KeyInv, KeyNamesOwner
      <4>3. KeyOf[s] # KeyOf[r]
        BY <1>0, <2>1, <4>2 DEF KeyIsFree
      <4> QED BY <1>0, <2>1, <4>2, <4>3
    <3> QED BY <3>1, <3>2
  <2>4. HeldKeyHasJob'
    <3> SUFFICES ASSUME NEW k \in Keys, idem'[k] # NoRequest
                 PROVE  \/ req'[idem'[k]] \in {"requested", "push", "queued", "unanswered"}
                        \/ req'[idem'[k]] = "failed" /\ faults' + crashes' > 0
      BY DEF HeldKeyHasJob, Enqueued
    <3>0. /\ Fault => faults' + crashes' > 0
          /\ faults + crashes > 0 => faults' + crashes' > 0
      BY <1>0, <1>1 DEF Fault
    <3>1. CASE k = KeyOf[r]
      BY <1>0, <2>1, <2>2, <3>0, <3>1
    <3>2. CASE k # KeyOf[r]
      <4>1. idem'[k] = idem[k]
        BY <1>0, <2>1, <3>2
      <4>2. \/ req[idem[k]] \in {"requested", "push", "queued", "unanswered"}
            \/ req[idem[k]] = "failed" /\ faults + crashes > 0
        BY <4>1 DEF KeyInv, HeldKeyHasJob, Enqueued
      <4>3. idem[k] \in Requests /\ idem[k] # r
        BY <1>0, <1>1, <4>1, <4>2
      <4> QED BY <1>2, <3>0, <4>1, <4>2, <4>3
    <3> QED BY <3>1, <3>2
  <2> QED BY <1>1, <2>3, <2>4
<1> QED BY <1>3, <1>4

\* A key that expires names nobody, and from then on OneJobPerKey claims nothing of it.
LEMMA ExpireKeepsKeys ==
  ASSUME TypeOK, KeyInv, NEW k \in Keys, Expire(k)
  PROVE  KeyNamesOwner' /\ HeldKeyHasJob' /\ UNCHANGED <<proc, crashes>>
<1>0. /\ idem \in [Keys -> Requests \cup {NoRequest}] /\ expiries \in [Keys -> Nat]
      /\ KeyOf \in [Requests -> Keys]
  BY Zenon, ConstantsAssumption DEF TypeOK
<1>1. /\ idem' = [idem EXCEPT ![k] = NoRequest]
      /\ expiries' = [expiries EXCEPT ![k] = @ + 1]
      /\ UNCHANGED <<req, proc, crashes, faults>>
  BY DEF Expire
<1>2. expiries'[k] # 0
  BY <1>0, <1>1
<1>3. KeyNamesOwner'
  <2> SUFFICES ASSUME NEW s \in Requests, Owner(s)', expiries'[KeyOf[s]] = 0
               PROVE  idem'[KeyOf[s]] = s
    BY DEF KeyNamesOwner
  <2>1. KeyOf[s] # k /\ Owner(s) /\ expiries[KeyOf[s]] = 0
    BY <1>0, <1>1, <1>2 DEF Owner
  <2> QED BY <1>0, <1>1, <2>1 DEF KeyInv, KeyNamesOwner
<1>4. HeldKeyHasJob'
  BY <1>0, <1>1 DEF KeyInv, HeldKeyHasJob, Enqueued
<1> QED BY <1>1, <1>3, <1>4

\* A closing process was counted as a crash.
LEMMA ShutdownCountedStep ==
  ASSUME TypeOK, ShutdownCounted, Next,
         ~ \E r \in Requests : Reserve(r),
         ~ \E k \in Keys : Expire(k)
  PROVE  ShutdownCounted'
<1>0. crashes \in Nat
  BY Zenon DEF TypeOK
<1>1. ASSUME NEW r \in Requests, Enqueue(r) PROVE ShutdownCounted'
  BY <1>1 DEF ShutdownCounted, Enqueue, Reserve, RejectDuplicate, RecordRequested, PushPending
<1>2. CASE Crash \/ Exit \/ Restart
  BY <1>2 DEF ShutdownCounted, Crash, Exit, Restart, Die
<1>3. CASE Shutdown
  BY <1>0, <1>3 DEF ShutdownCounted, Shutdown
<1>4. CASE Restore
  BY <1>4 DEF ShutdownCounted, Restore, RestoreRange, RestorePush, RestoreDel, Die
<1>5. CASE Poll
  BY <1>5 DEF ShutdownCounted, Poll, Die, Survive
<1>6. CASE ProcessJob
  BY <1>6 DEF ShutdownCounted, ProcessJob, TryProvider, RecordSent, RemoveSent,
              RecordSkipped, RemoveSkipped, RecordFailed, RemoveFailed, PushFailed,
              Die, Survive
<1> QED BY <1>1, <1>2, <1>3, <1>4, <1>5, <1>6 DEF Next

\* KeyInv is inductive, given the types.
LEMMA KeyInvInductive ==
  /\ Init => KeyInv
  /\ TypeOK /\ TypeOK' /\ KeyInv /\ [Next]_vars => KeyInv'
<1>1. Init => KeyInv
  BY ConstantsAssumption DEF Init, KeyInv, KeyNamesOwner, Owner, HeldKeyHasJob,
                             ShutdownCounted
<1>2. ASSUME TypeOK, TypeOK', KeyInv, [Next]_vars PROVE KeyInv'
  <2>1. CASE \E r \in Requests : Reserve(r)
    BY <1>2, <2>1, ReserveKeepsKeys DEF KeyInv, ShutdownCounted
  <2>2. CASE \E k \in Keys : Expire(k)
    BY <1>2, <2>2, ExpireKeepsKeys DEF KeyInv, ShutdownCounted
  <2>3. CASE /\ Next
             /\ ~ \E r \in Requests : Reserve(r)
             /\ ~ \E k \in Keys : Expire(k)
    BY <1>2, <2>3, MostStepsAdvance, AdvanceKeepsKeys, ShutdownCountedStep DEF KeyInv
  <2>4. CASE UNCHANGED vars
    BY <1>2, <2>4 DEF vars, KeyInv, KeyNamesOwner, Owner, HeldKeyHasJob, Enqueued,
                      ShutdownCounted
  <2> QED BY <1>2, <2>1, <2>2, <2>3, <2>4
<1> QED BY <1>1, <1>2

\* SET NX EX is the only thing that keeps two calls of enqueue apart, and it is enough
\* as long as the key lives: however calls, failures, kills and restarts interleave,
\* two calls with one key do not both make a job before the key expires.
THEOREM OneJobPerKeyHolds == Spec => []OneJobPerKey
<1>1. KeyInv => OneJobPerKey
  BY DEF KeyInv, KeyNamesOwner, Owner, OneJobPerKey, Enqueued
<1> QED BY <1>1, TypeCorrect, KeyInvInductive, PTL DEF Spec

\* A reserved key is never orphaned without a failure: it stands for a job made or
\* being made, or a command failed or the process stopped while it was made.
THEOREM HeldKeyHasJobHolds == Spec => []HeldKeyHasJob
<1>1. KeyInv => HeldKeyHasJob
  BY DEF KeyInv
<1> QED BY <1>1, TypeCorrect, KeyInvInductive, PTL DEF Spec

----------------------------------------------------------------------------
(* The requests in a list *)

\* What the list operations do to the set of requests in a list.
LEMMA InLPush ==
  ASSUME NEW list \in Seq(Jobs), NEW job \in Jobs
  PROVE  \A r \in Requests : In(LPush(list, job), r) <=> job.id = r \/ In(list, r)
BY LPushEntries DEF In

\* RPOP moves the last entry out of the list; every other entry stays.
LEMMA InRPop ==
  ASSUME NEW list \in Seq(Jobs), list # <<>>
  PROVE  \A r \in Requests : In(list, r) <=> Last(list).id = r \/ In(Front(list), r)
BY RPopEntries DEF In

\* Tail drops the head only.
LEMMA InTail ==
  ASSUME NEW list \in Seq(Jobs), list # <<>>
  PROVE  \A r \in Requests : In(list, r) <=> Head(list).id = r \/ In(Tail(list), r)
BY TailEntries DEF In

\* Reversing a list keeps its entries.
LEMMA InReverse ==
  ASSUME NEW list \in Seq(Jobs)
  PROVE  \A r \in Requests : In(Reverse(list), r) <=> In(list, r)
BY ReverseEntries DEF In

\* LREM of a job removes no job with another id.
LEMMA InLRem ==
  ASSUME NEW list \in Seq(Jobs), NEW job \in Jobs
  PROVE  \A r \in Requests : r # job.id => (In(LRem(list, job), r) <=> In(list, r))
BY LRemEntries DEF In

\* Nothing is in an empty list.
LEMMA InEmpty == \A r \in Requests : ~In(<<>>, r)
BY DEF In, ToSet

----------------------------------------------------------------------------
(* No email disappears: the inductive invariant *)

\* The job of r is somewhere the death of the process does not reach, or its fate is
\* known.
Shelved(r) == \/ In(pending, r) \/ In(processing, r) \/ In(dead, r)
              \/ Recorded(r, "sent") \/ Recorded(r, "skipped") \/ r \in lost

InHand(r) == Busy /\ w.job.id = r

Kept == \A r \in Requests : Enqueued(r) => Shelved(r) \/ InHand(r)

\* A worker that removes an entry as sent or skipped has recorded it as such.
RemovesRecorded == /\ At("sentRem") => Recorded(w.job.id, "sent")
                   /\ At("skipRem") => Recorded(w.job.id, "skipped")

\* The job in hand is also in the processing list until the LREM that precedes its
\* requeueing, unless a failed removal of a sent mail took it out.
HandBacked == /\ Busy => proc \in {"up", "stopping"}
              /\ Busy /\ ~At("push") =>
                   In(processing, w.job.id) \/ Recorded(w.job.id, "sent")

\* When the restoration deletes the processing list, all of it is in the pending list.
RestoreCovers == proc \in {"push", "del"} =>
  \A r \in Requests : In(processing, r) => In(pending, r) \/ In(backlog, r)

KeptInv == Kept /\ RemovesRecorded /\ HandBacked /\ RestoreCovers

----------------------------------------------------------------------------
(* No email disappears: three kinds of steps *)

\* The process dies: it is enough that what was shelved is, and a job in the window of a
\* retry now is.
LEMMA DieKeeps ==
  ASSUME TypeOK, KeptInv, NEW gone, Die(gone),
         \A r \in Requests : Shelved(r) => Shelved(r)',
         \A r \in Requests : At("push") /\ InHand(r) => Shelved(r)'
  PROVE  KeptInv'
<1>1. ~Busy' /\ ~At("sentRem")' /\ ~At("skipRem")' /\ proc' = "down"
  BY DEF Die, IdleWorker, Busy, At
<1>2. ASSUME NEW r \in Requests, Enqueued(r)' PROVE Shelved(r)'
  <2>1. Enqueued(r)
    BY <1>2 DEF Die, Enqueued
  <2>2. CASE Shelved(r)
    BY <2>2
  <2>3. CASE InHand(r)
    <3>1. At("push") \/ In(processing, r) \/ Recorded(r, "sent")
      BY <2>3 DEF KeptInv, HandBacked, InHand
    <3>2. At("push") \/ Shelved(r)
      BY <3>1 DEF Shelved
    <3> QED BY <2>3, <3>2
  <2> QED BY <2>1, <2>2, <2>3 DEF KeptInv, Kept
<1> QED BY <1>1, <1>2 DEF KeptInv, Kept, RemovesRecorded, HandBacked, RestoreCovers

\* The drain loop takes a step and the process lives.
LEMMA SurviveKeeps ==
  ASSUME TypeOK, KeptInv, Survive, proc \in {"up", "stopping"},
         \A r \in Requests : Shelved(r) \/ InHand(r) => Shelved(r)' \/ InHand(r)',
         RemovesRecorded',
         Busy' /\ ~At("push")' => In(processing, w.job.id)' \/ Recorded(w.job.id, "sent")'
  PROVE  KeptInv'
<1>1. Kept'
  BY DEF KeptInv, Kept, Survive, Enqueued
<1> QED BY <1>1 DEF KeptInv, HandBacked, RestoreCovers, Survive

\* Nothing happens to a job.
LEMMA QuietKeeps ==
  ASSUME TypeOK, KeptInv,
         UNCHANGED <<pending, processing, dead, backlog, w, lost>>,
         events \subseteq events',
         \A r \in Requests : Enqueued(r)' => Enqueued(r),
         proc' = proc \/ (proc = "up" /\ proc' = "stopping") \/ (proc = "down" /\ proc' = "range")
  PROVE  KeptInv'
<1>1. \A r \in Requests : Shelved(r) => Shelved(r)'
  BY DEF Shelved, Recorded, In
<1>2. \A r \in Requests : InHand(r)' <=> InHand(r)
  BY DEF InHand, Busy
<1>3. Kept'
  BY <1>1, <1>2 DEF KeptInv, Kept
<1>4. RemovesRecorded'
  BY DEF KeptInv, RemovesRecorded, At, Recorded
<1>5. HandBacked'
  BY DEF KeptInv, HandBacked, At, Busy, Recorded, In
<1>6. RestoreCovers'
  BY DEF KeptInv, RestoreCovers, In
<1> QED BY <1>3, <1>4, <1>5, <1>6 DEF KeptInv

----------------------------------------------------------------------------
(* No email disappears: the steps of Next *)

\* A step of an enqueue call keeps KeptInv.
LEMMA EnqueueKeeps ==
  ASSUME TypeOK, KeptInv, NEW r \in Requests, Enqueue(r)
  PROVE  KeptInv'
<1>0. req \in [Requests -> RequestSteps] /\ pending \in Seq(Jobs)
  BY Zenon DEF TypeOK
<1>1. CASE Reserve(r) \/ RejectDuplicate(r) \/ RecordRequested(r)
  <2>1. UNCHANGED <<pending, processing, dead, backlog, w, lost, proc>>
    BY <1>1 DEF Reserve, RejectDuplicate, RecordRequested, redis
  <2>2. events \subseteq events'
    BY <1>1 DEF Reserve, RejectDuplicate, RecordRequested, EventOk, EventFails
  <2>3. \A s \in Requests : Enqueued(s)' => Enqueued(s)
    BY <1>0, <1>1 DEF Reserve, RejectDuplicate, RecordRequested, Enqueued
  <2> QED BY <2>1, <2>2, <2>3, QuietKeeps
<1>2. CASE PushPending(r)
  <2> DEFINE job == [id |-> r, attempts |-> 0]
  <2>1. job \in Jobs /\ job.id = r
    BY DEF Jobs
  <2> HIDE DEF job
  <2>2. \A s \in Requests : In(LPush(pending, job), s) <=> r = s \/ In(pending, s)
    BY <1>0, <2>1, InLPush
  <2>3. /\ UNCHANGED <<processing, dead, events, proc, backlog, w, lost>>
        /\ \A s \in Requests : s # r => req'[s] = req[s]
        /\ \/ pending' = LPush(pending, job)
           \/ UNCHANGED pending /\ ~Enqueued(r)'
    BY <1>0, <1>2 DEF PushPending, Enqueued, job
  <2>4. \A s \in Requests : In(pending, s) => In(pending', s)
    BY <2>2, <2>3
  <2>5. \A s \in Requests : Shelved(s) => Shelved(s)'
    BY <2>3, <2>4 DEF Shelved, Recorded, In
  <2>6. Enqueued(r)' => Shelved(r)'
    BY <2>2, <2>3 DEF Shelved, In
  <2>7. \A s \in Requests : s # r => (Enqueued(s)' <=> Enqueued(s))
    BY <2>3 DEF Enqueued
  <2>8. \A s \in Requests : InHand(s)' <=> InHand(s)
    BY <2>3 DEF InHand, Busy
  <2>9. Kept'
    BY <2>5, <2>6, <2>7, <2>8 DEF KeptInv, Kept
  <2>10. RemovesRecorded' /\ HandBacked'
    BY <2>3 DEF KeptInv, RemovesRecorded, HandBacked, At, Busy, Recorded, In
  <2>11. RestoreCovers'
    BY <2>3, <2>4 DEF KeptInv, RestoreCovers, In
  <2> QED BY <2>9, <2>10, <2>11 DEF KeptInv
<1> QED BY <1>1, <1>2 DEF Enqueue

\* A kill, a shutdown, an exit, a restart and the expiry of a key keep KeptInv.
LEMMA ProcessKeeps ==
  ASSUME TypeOK, KeptInv, Crash \/ Shutdown \/ Exit \/ Restart \/ \E k \in Keys : Expire(k)
  PROVE  KeptInv'
<1>1. CASE Crash \/ Exit
  <2>1. Die(InWindow) /\ UNCHANGED <<pending, processing, dead, events>>
    BY <1>1 DEF Crash, Exit, redis
  <2>2. \A r \in Requests : Shelved(r) => Shelved(r)'
    BY <2>1 DEF Shelved, Recorded, In, Die
  <2>3. \A r \in Requests : At("push") /\ InHand(r) => Shelved(r)'
    BY <2>1 DEF Shelved, InHand, InWindow, At, Die
  <2> QED BY <2>1, <2>2, <2>3, DieKeeps
<1>2. CASE Shutdown
  BY <1>2, QuietKeeps DEF Shutdown, redis, Enqueued
<1>3. CASE Restart
  BY <1>3, QuietKeeps DEF Restart, redis, Enqueued
<1>4. CASE \E k \in Keys : Expire(k)
  BY <1>4, QuietKeeps DEF Expire, redis, Enqueued
<1> QED BY <1>1, <1>2, <1>3, <1>4

\* A step of the restoration keeps KeptInv.
LEMMA RestoreKeeps ==
  ASSUME TypeOK, RestoreShape, KeptInv, Restore
  PROVE  KeptInv'
<1>0. /\ pending \in Seq(Jobs) /\ processing \in Seq(Jobs) /\ backlog \in Seq(Jobs)
      /\ UNCHANGED <<dead, events>>
  BY Zenon DEF TypeOK, Restore, RestoreRange, RestorePush, RestoreDel, redis
<1>1. ~Busy /\ proc \in {"range", "push", "del"}
  BY DEF KeptInv, HandBacked, Restore, RestoreRange, RestorePush, RestoreDel
<1>2. ASSUME NEW r \in Requests PROVE In(pending, r) => In(pending', r)
  <2>1. CASE RestorePush
    <3>1. backlog # <<>>
      BY <2>1 DEF RestorePush, RestoreShape
    <3>2. pending' \in {pending, LPush(pending, Head(backlog))}
      BY <2>1, Zenon DEF RestorePush
    <3> QED BY <1>0, <3>1, <3>2, TailEntries, InLPush
  <2>2. CASE RestoreRange \/ RestoreDel
    BY <2>2 DEF RestoreRange, RestoreDel, redis
  <2> QED BY <2>1, <2>2 DEF Restore
<1>3. ASSUME NEW r \in Requests, In(processing, r), ~In(processing', r)
      PROVE  In(pending, r)
  <2>1. proc = "del" /\ backlog = <<>>
    BY <1>3 DEF Restore, RestoreRange, RestorePush, RestoreDel, redis, RestoreShape
  <2> QED BY <1>3, <2>1, InEmpty DEF KeptInv, RestoreCovers
<1>4. \A r \in Requests : Shelved(r) /\ (lost \subseteq lost') => Shelved(r)'
  BY <1>0, <1>2, <1>3 DEF Shelved, Recorded, In
<1>5. CASE Die({})
  <2>1. lost \subseteq lost'
    BY <1>5 DEF Die
  <2> QED BY <1>1, <1>4, <1>5, <2>1, DieKeeps DEF InHand
<1>6. CASE ~Die({})
  <2>1. UNCHANGED <<req, w, lost>>
    BY <1>6, Zenon DEF Restore, RestoreRange, RestorePush, RestoreDel
  <2>2. Kept'
    BY <1>1, <1>4, <2>1 DEF KeptInv, Kept, Enqueued, InHand, Busy
  <2>3. RemovesRecorded' /\ HandBacked'
    BY <1>1, <2>1 DEF RemovesRecorded, HandBacked, Busy, At
  <2>4. RestoreCovers'
    <3>1. CASE RestoreRange
      <4>1. UNCHANGED <<pending, processing>> /\ backlog' = Reverse(processing)
        BY <1>6, <3>1 DEF RestoreRange, redis
      <4> QED BY <1>0, <4>1, InReverse DEF RestoreCovers
    <3>2. CASE RestorePush
      <4>1. backlog # <<>> /\ proc = "push" /\ UNCHANGED processing
        BY <3>2 DEF RestorePush, RestoreShape
      <4>2. pending' = LPush(pending, Head(backlog)) /\ backlog' = Tail(backlog)
        BY <1>6, <3>2, Zenon DEF RestorePush
      <4>3. Head(backlog) \in Jobs
        BY <1>0, <4>1, TailEntries
      <4>4. ASSUME NEW r \in Requests, In(processing, r)
            PROVE  In(pending', r) \/ In(backlog', r)
        <5>1. In(pending, r) \/ In(backlog, r)
          BY <4>1, <4>4 DEF KeptInv, RestoreCovers
        <5>2. In(backlog, r) => Head(backlog).id = r \/ In(Tail(backlog), r)
          BY <1>0, <4>1, InTail
        <5>3. Head(backlog).id = r \/ In(pending, r) => In(pending', r)
          BY <1>0, <4>2, <4>3, InLPush
        <5> QED BY <4>2, <5>1, <5>2, <5>3
      <4> QED BY <4>1, <4>4 DEF RestoreCovers, In
    <3>3. CASE RestoreDel
      BY <1>6, <3>3 DEF RestoreDel, RestoreCovers
    <3> QED BY <3>1, <3>2, <3>3 DEF Restore
  <2> QED BY <2>2, <2>3, <2>4 DEF KeptInv
<1> QED BY <1>5, <1>6

\* RPOPLPUSH keeps KeptInv.
LEMMA PollKeeps ==
  ASSUME TypeOK, KeptInv, Poll
  PROVE  KeptInv'
<1>0. /\ pending \in Seq(Jobs) /\ processing \in Seq(Jobs)
      /\ proc = "up" /\ ~Busy /\ UNCHANGED <<dead, events>>
  BY Zenon DEF TypeOK, Poll
<1>1. \/ UNCHANGED <<pending, processing>> /\ Die({})
      \/ /\ pending # <<>>
         /\ processing' = LPush(processing, Last(pending)) /\ pending' = Front(pending)
  BY DEF Poll
<1>2. pending # <<>> => Last(pending) \in Jobs
  BY <1>0, RPopEntries
<1>3. ASSUME NEW r \in Requests, In(pending, r) \/ In(processing, r)
      PROVE  In(pending', r) \/ In(processing', r)
  <2>1. CASE UNCHANGED <<pending, processing>>
    BY <1>3, <2>1
  <2>2. CASE pending # <<>> /\ processing' = LPush(processing, Last(pending))
             /\ pending' = Front(pending)
    <3>1. In(pending, r) => Last(pending).id = r \/ In(Front(pending), r)
      BY <1>0, <2>2, InRPop
    <3>2. Last(pending).id = r \/ In(processing, r) => In(LPush(processing, Last(pending)), r)
      BY <1>0, <1>2, <2>2, InLPush
    <3> QED BY <1>3, <2>2, <3>1, <3>2
  <2> QED BY <1>1, <2>1, <2>2
<1>4. \A r \in Requests : Shelved(r) /\ lost \subseteq lost' => Shelved(r)'
  BY <1>0, <1>3 DEF Shelved, Recorded, In
<1>5. CASE Die({})
  <2>1. lost \subseteq lost'
    BY <1>5 DEF Die
  <2> QED BY <1>0, <1>4, <1>5, <2>1, DieKeeps DEF InHand
<1>6. CASE ~Die({})
  <2>1. /\ pending # <<>> /\ processing' = LPush(processing, Last(pending))
        /\ w' = StartJob(Last(pending)) /\ Survive
    BY <1>6 DEF Poll
  <2>2. w'.job = Last(pending) /\ w'.pc \in {"send", "skipEvent"}
    BY <2>1 DEF StartJob
  <2>3. In(processing', w'.job.id)
    <3>1. Last(pending).id \in Requests
      BY <1>2, <2>1 DEF Jobs
    <3>2. In(LPush(processing, Last(pending)), Last(pending).id)
      BY <1>0, <1>2, <2>1, <3>1, InLPush
    <3> QED BY <2>1, <2>2, <3>2
  <2>4. \A r \in Requests : Shelved(r) \/ InHand(r) => Shelved(r)' \/ InHand(r)'
    BY <1>0, <1>4, <2>1 DEF Survive, InHand
  <2>5. RemovesRecorded'
    BY <2>2 DEF RemovesRecorded, At
  <2> QED BY <1>0, <2>1, <2>3, <2>4, <2>5, SurviveKeeps DEF In
<1> QED BY <1>5, <1>6

\* What the removal of the job in hand leaves in the processing list.
LEMMA RemovalKeepsOthers ==
  ASSUME TypeOK, Busy, processing' \in {processing, LRem(processing, w.job)}
  PROVE  \A r \in Requests : r # w.job.id => (In(processing, r) <=> In(processing', r))
BY InLRem DEF TypeOK

\* A step of processJob keeps KeptInv.
LEMMA ProcessJobKeeps ==
  ASSUME TypeOK, KeptInv, ProcessJob
  PROVE  KeptInv'
<1>0. Busy /\ proc \in {"up", "stopping"} /\ w.job \in Jobs /\ w.job.id \in Requests
  <2>1. Busy
    BY DEF ProcessJob, Busy, At, TryProvider, RecordSent, RemoveSent, RecordSkipped,
           RemoveSkipped, RecordFailed, RemoveFailed, PushFailed
  <2> QED BY <2>1, InHandType DEF KeptInv, HandBacked
<1>w. w \in [pc : WorkerSteps, job : Jobs \cup {NoJob}, next : Nat]
  BY Zenon DEF TypeOK
<1>1. CASE TryProvider
  <2>1. /\ UNCHANGED <<pending, processing, dead, events, lost>> /\ Survive
        /\ w.pc = "send"
    BY <1>1 DEF TryProvider, redis, Survive, At
  <2>2. w'.job = w.job /\ w'.pc \in {"send", "sentEvent", "failEvent", "skipEvent"}
    BY <1>w, <1>1, <2>1 DEF TryProvider, NextProvider, Goto
  <2>3. \A r \in Requests : Shelved(r) \/ InHand(r) => Shelved(r)' \/ InHand(r)'
    BY <2>1, <2>2 DEF Shelved, InHand, Recorded, In, Busy
  <2>4. RemovesRecorded'
    BY <2>2 DEF RemovesRecorded, At
  <2>5. In(processing, w.job.id)' \/ Recorded(w.job.id, "sent")'
    BY <1>0, <2>1, <2>2 DEF KeptInv, HandBacked, At, In, Recorded
  <2> QED BY <1>0, <2>1, <2>3, <2>4, <2>5, SurviveKeeps
<1>2. CASE RecordSent
  <2>1. /\ UNCHANGED <<pending, processing, dead, lost>> /\ Survive
        /\ w.pc = "sentEvent" /\ events \subseteq events'
        /\ \/ w' = [w EXCEPT !.pc = "sentRem"]
              /\ Event(w.job.id, "sent", w.job.attempts + 1) \in events'
           \/ w' = [w EXCEPT !.pc = "failEvent"]
    BY <1>2 DEF RecordSent, redis, Survive, At, EventOk, EventFails, Goto
  <2>2. /\ w'.job = w.job /\ w'.pc \in {"sentRem", "failEvent"}
        /\ w'.pc = "sentRem" => Recorded(w.job.id, "sent")'
    BY <1>w, <2>1 DEF Recorded, Event
  <2>3. \A r \in Requests : Shelved(r) \/ InHand(r) => Shelved(r)' \/ InHand(r)'
    BY <2>1, <2>2 DEF Shelved, InHand, Recorded, In, Busy
  <2>4. RemovesRecorded'
    BY <2>2 DEF RemovesRecorded, At, Recorded
  <2>5. In(processing, w.job.id)' \/ Recorded(w.job.id, "sent")'
    BY <1>0, <2>1, <2>2 DEF KeptInv, HandBacked, At, In, Recorded
  <2> QED BY <1>0, <2>1, <2>3, <2>4, <2>5, SurviveKeeps
<1>3. CASE RemoveSent
  <2>1. /\ UNCHANGED <<pending, dead, events, lost>> /\ Survive /\ w.pc = "sentRem"
        /\ processing' \in {processing, LRem(processing, w.job)}
        /\ w' = IdleWorker \/ w' = [w EXCEPT !.pc = "failEvent"]
    BY <1>3 DEF RemoveSent, Survive, At, Finish, Goto
  <2>2. Recorded(w.job.id, "sent") /\ Recorded(w.job.id, "sent")
    BY <2>1 DEF KeptInv, RemovesRecorded, At
  <2>3. ASSUME NEW r \in Requests, Shelved(r) \/ InHand(r) PROVE Shelved(r)'
    <3>1. CASE r = w.job.id
      BY <2>1, <2>2, <3>1 DEF Shelved, Recorded
    <3>2. CASE r # w.job.id
      BY <1>0, <2>1, <2>3, <3>2, RemovalKeepsOthers DEF Shelved, Recorded, In, InHand
    <3> QED BY <3>1, <3>2
  <2>4. w'.pc \in {"idle", "failEvent"} /\ (w'.pc # "idle" => w'.job = w.job)
    BY <1>w, <2>1 DEF IdleWorker
  <2>5. RemovesRecorded'
    BY <2>4 DEF RemovesRecorded, At
  <2>6. Busy' => Recorded(w.job.id, "sent")'
    BY <2>1, <2>2, <2>4 DEF Busy, Recorded
  <2> QED BY <1>0, <2>1, <2>3, <2>5, <2>6, SurviveKeeps
<1>4. CASE RecordSkipped \/ RecordFailed
  <2>1. /\ UNCHANGED <<pending, processing, dead>> /\ events \subseteq events'
        /\ w.pc \in {"skipEvent", "failEvent"}
        /\ \/ Die({})
           \/ /\ Survive
              /\ \/ w' = [w EXCEPT !.pc = "skipRem"]
                    /\ Event(w.job.id, "skipped", w.job.attempts + 1) \in events'
                 \/ w' = [w EXCEPT !.pc = "failRem"]
    BY <1>4 DEF RecordSkipped, RecordFailed, redis, At, EventOk, EventFails, Goto
  <2>2. \A r \in Requests : Shelved(r) /\ lost \subseteq lost' => Shelved(r)'
    BY <2>1 DEF Shelved, Recorded, In
  <2>3. CASE Die({})
    <3>1. lost \subseteq lost'
      BY <2>3 DEF Die
    <3> QED BY <2>1, <2>2, <2>3, <3>1, DieKeeps DEF At
  <2>4. CASE ~Die({})
    <3>1. /\ Survive /\ w'.job = w.job /\ w'.pc \in {"skipRem", "failRem"}
          /\ w'.pc = "skipRem" => Recorded(w.job.id, "skipped")'
      BY <1>w, <2>1, <2>4 DEF Recorded, Event
    <3>2. \A r \in Requests : Shelved(r) \/ InHand(r) => Shelved(r)' \/ InHand(r)'
      BY <1>0, <2>2, <3>1 DEF InHand, Busy, Survive
    <3>3. RemovesRecorded'
      BY <3>1 DEF RemovesRecorded, At, Recorded
    <3>4. In(processing, w.job.id)' \/ Recorded(w.job.id, "sent")'
      BY <1>0, <2>1, <3>1 DEF KeptInv, HandBacked, At, In, Recorded
    <3> QED BY <1>0, <3>1, <3>2, <3>3, <3>4, SurviveKeeps
  <2> QED BY <2>3, <2>4
<1>5. CASE RemoveSkipped
  <2>1. /\ UNCHANGED <<pending, dead, events>> /\ w.pc = "skipRem"
        /\ processing' \in {processing, LRem(processing, w.job)}
        /\ Die({}) \/ (Survive /\ w' = IdleWorker)
        /\ lost \subseteq lost'
    BY <1>5 DEF RemoveSkipped, Survive, Die, At, Finish
  <2>2. Recorded(w.job.id, "skipped")
    BY <2>1 DEF KeptInv, RemovesRecorded, At
  <2>3. ASSUME NEW r \in Requests, Shelved(r) \/ InHand(r) PROVE Shelved(r)'
    <3>1. CASE r = w.job.id
      BY <2>1, <2>2, <3>1 DEF Shelved, Recorded
    <3>2. CASE r # w.job.id
      BY <1>0, <2>1, <2>3, <3>2, RemovalKeepsOthers DEF Shelved, Recorded, In, InHand
    <3> QED BY <3>1, <3>2
  <2>4. CASE Die({})
    BY <2>1, <2>3, <2>4, DieKeeps DEF At
  <2>5. CASE Survive /\ w' = IdleWorker
    <3>1. ~Busy' /\ RemovesRecorded'
      BY <2>5 DEF IdleWorker, Busy, RemovesRecorded, At
    <3> QED BY <1>0, <2>3, <2>5, <3>1, SurviveKeeps
  <2> QED BY <2>1, <2>4, <2>5
<1>6. CASE RemoveFailed
  <2>1. /\ UNCHANGED <<pending, dead, events>> /\ w.pc = "failRem"
        /\ lost \subseteq lost'
        /\ \/ /\ processing' \in {processing, LRem(processing, w.job)}
              /\ Survive /\ w' = [w EXCEPT !.pc = "push"]
           \/ /\ processing' = LRem(processing, w.job) /\ Die({w.job.id})
           \/ UNCHANGED processing /\ Die({})
    BY <1>6 DEF RemoveFailed, Survive, Die, At, Goto
  <2>2. ASSUME NEW r \in Requests, Shelved(r), r # w.job.id PROVE Shelved(r)'
    BY <1>0, <2>1, <2>2, RemovalKeepsOthers DEF Shelved, Recorded, In
  <2>3. CASE Die({w.job.id})
    <3>1. ASSUME NEW r \in Requests, Shelved(r) PROVE Shelved(r)'
      <4>1. r = w.job.id => r \in lost'
        BY <2>3 DEF Die
      <4> QED BY <2>2, <3>1, <4>1 DEF Shelved
    <3> QED BY <3>1, <2>1, <2>2, <2>3, DieKeeps DEF At
  <2>4. CASE UNCHANGED processing /\ Die({})
    <3>1. \A r \in Requests : Shelved(r) => Shelved(r)'
      BY <2>1, <2>4 DEF Shelved, Recorded, In
    <3> QED BY <2>1, <2>4, <3>1, DieKeeps DEF At
  <2>5. CASE Survive /\ w' = [w EXCEPT !.pc = "push"]
    <3>1. Busy' /\ At("push")' /\ w'.job = w.job /\ RemovesRecorded'
      BY <1>w, <2>5 DEF Busy, RemovesRecorded, At
    <3>2. \A r \in Requests : Shelved(r) \/ InHand(r) => Shelved(r)' \/ InHand(r)'
      BY <2>2, <3>1 DEF InHand
    <3> QED BY <1>0, <2>5, <3>1, <3>2, SurviveKeeps
  <2> QED BY <2>1, <2>3, <2>4, <2>5
<1>7. CASE PushFailed
  <2> DEFINE job == [w.job EXCEPT !.attempts = @ + 1]
  <2>0. job \in Jobs /\ job.id = w.job.id
    BY <1>0 DEF Jobs
  <2>1. /\ UNCHANGED <<processing, events>> /\ w.pc = "push"
        /\ lost \subseteq lost'
        /\ \/ Requeue(job) /\ (Die({}) \/ (Survive /\ w' = IdleWorker))
           \/ UNCHANGED <<pending, dead>> /\ Die({w.job.id})
    BY <1>7 DEF PushFailed, Survive, Die, At, Finish
  <2> HIDE DEF job
  <2>2. /\ \A r \in Requests : In(LPush(pending, job), r) <=> job.id = r \/ In(pending, r)
        /\ \A r \in Requests : In(LPush(dead, job), r) <=> job.id = r \/ In(dead, r)
    BY <2>0, InLPush DEF TypeOK
  <2>3. CASE Requeue(job)
    <3>1. \A r \in Requests :
            In(pending, r) \/ In(dead, r) \/ r = w.job.id => In(pending', r) \/ In(dead', r)
      BY <2>0, <2>2, <2>3 DEF Requeue
    <3>2. \A r \in Requests : Shelved(r) \/ InHand(r) => Shelved(r)'
      BY <2>1, <3>1 DEF Shelved, InHand, Recorded, In
    <3>3. CASE Die({})
      BY <3>2, <3>3, DieKeeps
    <3>4. CASE Survive /\ w' = IdleWorker
      <4>1. ~Busy' /\ RemovesRecorded'
        BY <3>4 DEF IdleWorker, Busy, RemovesRecorded, At
      <4> QED BY <1>0, <3>2, <3>4, <4>1, SurviveKeeps
    <3>5. CASE Die({w.job.id})
      BY <3>2, <3>5, DieKeeps
    <3> QED BY <2>1, <3>3, <3>4, <3>5
  <2>4. CASE UNCHANGED <<pending, dead>> /\ Die({w.job.id})
    <3>1. \A r \in Requests : Shelved(r) \/ InHand(r) => Shelved(r)'
      BY <2>1, <2>4 DEF Shelved, InHand, Recorded, In, Die
    <3> QED BY <2>4, <3>1, DieKeeps
  <2> QED BY <2>1, <2>3, <2>4
<1> QED BY <1>1, <1>2, <1>3, <1>4, <1>5, <1>6, <1>7 DEF ProcessJob

\* KeptInv is inductive, given the types.
LEMMA KeptInvInductive ==
  /\ Init => KeptInv
  /\ TypeOK /\ RestoreShape /\ KeptInv /\ [Next]_vars => KeptInv'
<1>1. ASSUME Init PROVE KeptInv
  <2>1. \A r \in Requests : ~Enqueued(r)
    BY <1>1 DEF Init, Enqueued
  <2>2. ~Busy /\ ~At("sentRem") /\ ~At("skipRem") /\ proc = "range"
    BY <1>1 DEF Init, IdleWorker, Busy, At
  <2> QED BY <2>1, <2>2 DEF KeptInv, Kept, RemovesRecorded, HandBacked, RestoreCovers
<1>2. ASSUME TypeOK, RestoreShape, KeptInv, [Next]_vars PROVE KeptInv'
  <2>1. CASE UNCHANGED vars
    BY <1>2, <2>1, QuietKeeps DEF vars, Enqueued
  <2>2. CASE Next
    BY <1>2, <2>2, EnqueueKeeps, ProcessKeeps, RestoreKeeps, PollKeeps, ProcessJobKeeps
       DEF Next
  <2> QED BY <1>2, <2>1, <2>2
<1> QED BY <1>1, <1>2

\* No job that entered the pending list disappears silently: it is still in the queue,
\* or has a recorded end, or was in the only window in which it is in no list (between
\* the LREM and the LPUSH of a retry) when the process ended.
THEOREM AccountedHolds == Spec => []Accounted
<1>1. KeptInv => Accounted
  BY DEF KeptInv, Kept, Accounted, Shelved, InHand, Owed
<1> QED BY <1>1, TypeCorrect, KeptInvInductive, PTL DEF Spec

----------------------------------------------------------------------------
(* The processing list *)

\* What makes ProcessingIsInHand inductive: the list is empty in the window of a retry,
\* and nobody has a job in hand during a restoration.
HandInv == /\ ProcessingIsInHand
           /\ At("push") => processing = <<>>
           /\ Busy => proc \in {"up", "stopping"}

\* LREM of the only entry leaves nothing.
LEMMA LRemOnly ==
  ASSUME NEW job \in Jobs, NEW list \in {<<>>, <<job>>}
  PROVE  LRem(list, job) = <<>>
<1>1. <<>> \in Seq(Jobs) /\ <<job>> \in Seq(Jobs) /\ Len(<<job>>) = 1
  BY EmptySeq
<1>2. CASE list = <<>>
  <2>1. LRem(list, job) \in Seq(Jobs) /\ ToSet(LRem(list, job)) \subseteq ToSet(list)
    BY <1>1, LRemEntries
  <2>2. ToSet(list) = {}
    BY <1>2 DEF ToSet
  <2> QED BY <2>1, <2>2, EntryOf, EmptySeq
<1>3. CASE list = <<job>>
  <2>1. job \in ToSet(list) /\ list \in Seq(Jobs) /\ Len(list) = 1
    BY <1>1, <1>3 DEF ToSet
  <2> DEFINE rest == LRem(list, job)
  <2>2. rest \in Seq(Jobs) /\ Len(rest) = Len(list) - 1
    BY <2>1, LRemEntries
  <2> HIDE DEF rest
  <2>3. rest = <<>>
    BY <2>1, <2>2, EmptySeq
  <2> QED BY <2>3 DEF rest
<1> QED BY <1>2, <1>3

\* Once the process is down, or restoring, the list may hold anything.
LEMMA DownKeepsHand ==
  ASSUME NEW gone, Die(gone)
  PROVE  HandInv'
BY DEF Die, HandInv, ProcessingIsInHand, IdleWorker, Busy, At

\* Steps that do not touch the list nor the job in hand.
LEMMA IdleStepsKeepHand ==
  ASSUME HandInv, UNCHANGED <<processing, w>>,
         proc' = proc \/ (proc = "up" /\ proc' = "stopping") \/ (proc = "down" /\ proc' = "range")
  PROVE  HandInv'
BY DEF HandInv, ProcessingIsInHand, Busy, At

\* Every step keeps HandInv.
LEMMA HandStep ==
  ASSUME TypeOK, HandInv, Next
  PROVE  HandInv'
<1>1. ASSUME NEW r \in Requests, Enqueue(r) PROVE HandInv'
  BY <1>1, IdleStepsKeepHand DEF Enqueue, Reserve, RejectDuplicate, RecordRequested,
                                 PushPending, redis
<1>2. ASSUME NEW k \in Keys, Expire(k) PROVE HandInv'
  BY <1>2, IdleStepsKeepHand DEF Expire, redis
<1>3. CASE Crash \/ Exit
  BY <1>3, DownKeepsHand DEF Crash, Exit
<1>4. CASE Shutdown \/ Restart
  BY <1>4, IdleStepsKeepHand DEF Shutdown, Restart, redis
<1>5. CASE Restore
  <2>1. ~Busy
    BY <1>5 DEF HandInv, Restore, RestoreRange, RestorePush, RestoreDel
  <2>2. CASE Die({})
    BY <2>2, DownKeepsHand
  <2>3. CASE ~Die({})
    <3>1. /\ UNCHANGED w
          /\ proc' \in {"push", "del"} \/ processing' = <<>>
      <4>1. CASE RestoreRange
        BY <2>3, <4>1 DEF RestoreRange, redis
      <4>2. CASE RestorePush
        BY <2>3, <4>2, Zenon DEF RestorePush
      <4>3. CASE RestoreDel
        BY <2>3, <4>3 DEF RestoreDel
      <4> QED BY <1>5, <4>1, <4>2, <4>3 DEF Restore
    <3> QED BY <2>1, <3>1 DEF HandInv, ProcessingIsInHand, Busy, At
  <2> QED BY <2>2, <2>3
<1>6. CASE Poll
  <2>1. CASE Die({})
    BY <2>1, DownKeepsHand
  <2>2. CASE ~Die({})
    <3>1. /\ proc = "up" /\ UNCHANGED proc /\ pending # <<>>
          /\ processing' = LPush(processing, Last(pending))
          /\ w' = StartJob(Last(pending))
      BY <1>6, <2>2 DEF Poll, Survive
    <3>2. processing = <<>>
      BY <1>6 DEF HandInv, ProcessingIsInHand, Poll
    <3>3. processing' = <<Last(pending)>>
      <4>1. Last(pending) \in Jobs
        BY <3>1, RPopEntries DEF TypeOK
      <4> QED BY <3>1, <3>2, <4>1 DEF LPush
    <3>4. w'.job = Last(pending) /\ w'.pc \in {"send", "skipEvent"}
      BY <3>1 DEF StartJob
    <3> QED BY <3>1, <3>3, <3>4 DEF HandInv, ProcessingIsInHand, Busy, At
  <2> QED BY <2>1, <2>2
<1>7. CASE ProcessJob
  <2>0. Busy /\ proc \in {"up", "stopping"} /\ w.job \in Jobs
    <3>1. Busy
      BY <1>7 DEF ProcessJob, Busy, At, TryProvider, RecordSent, RemoveSent, RecordSkipped,
                  RemoveSkipped, RecordFailed, RemoveFailed, PushFailed
    <3> QED BY <3>1, InHandType DEF HandInv
  <2>w. w \in [pc : WorkerSteps, job : Jobs \cup {NoJob}, next : Nat]
    BY Zenon DEF TypeOK
  <2>1. processing \in {<<>>, <<w.job>>} /\ LRem(processing, w.job) = <<>>
    BY <2>0, LRemOnly DEF HandInv, ProcessingIsInHand
  <2>2. CASE \E gone : Die(gone)
    BY <2>2, DownKeepsHand
  <2>3. CASE /\ UNCHANGED proc
             /\ w'.pc # "idle" => w'.job = w.job
             /\ w'.pc \in {"idle", "push"} => processing' = <<>>
             /\ processing' \in {processing, <<>>}
    BY <2>0, <2>1, <2>3 DEF HandInv, ProcessingIsInHand, Busy, At
  <2>4. ASSUME ~ \E gone : Die(gone)
        PROVE  /\ UNCHANGED proc
               /\ w'.pc # "idle" => w'.job = w.job
               /\ w'.pc \in {"idle", "push"} => processing' = <<>>
               /\ processing' \in {processing, <<>>}
    <3>1. CASE TryProvider \/ RecordSent \/ RecordSkipped \/ RecordFailed
      <4>1. UNCHANGED <<processing, proc>>
        BY <2>4, <3>1 DEF TryProvider, RecordSent, RecordSkipped, RecordFailed, Survive, redis
      <4>2. w'.job = w.job /\ w'.pc \notin {"idle", "push"}
        BY <2>w, <2>4, <3>1 DEF TryProvider, RecordSent, RecordSkipped, RecordFailed,
                                NextProvider, Goto, At
      <4> QED BY <4>1, <4>2
    <3>2. CASE RemoveSent \/ RemoveSkipped \/ RemoveFailed
      <4>1. UNCHANGED proc /\ processing' \in {processing, <<>>}
        BY <2>1, <2>4, <3>2 DEF RemoveSent, RemoveSkipped, RemoveFailed, Survive
      <4>2. \/ w' = IdleWorker /\ processing' = <<>>
            \/ w' = [w EXCEPT !.pc = "push"] /\ processing' = <<>>
            \/ w' = [w EXCEPT !.pc = "failEvent"]
        BY <2>1, <2>4, <3>2 DEF RemoveSent, RemoveSkipped, RemoveFailed, Finish, Goto
      <4>3. /\ w'.pc # "idle" => w'.job = w.job
            /\ w'.pc \in {"idle", "push"} => processing' = <<>>
        BY <2>w, <4>2 DEF IdleWorker
      <4> QED BY <4>1, <4>3
    <3>3. CASE PushFailed
      <4>1. UNCHANGED <<processing, proc>> /\ w' = IdleWorker /\ processing = <<>>
        BY <2>4, <3>3 DEF PushFailed, Survive, Finish, HandInv
      <4> QED BY <4>1 DEF IdleWorker
    <3> QED BY <1>7, <3>1, <3>2, <3>3 DEF ProcessJob
  <2> QED BY <2>2, <2>3, <2>4
<1> QED BY <1>1, <1>2, <1>3, <1>4, <1>5, <1>6, <1>7 DEF Next

\* The invariant behind ProcessingIsInHand and MailBudget.
LEMMA HandInvInductive == Spec => []HandInv
<1>1. Init => HandInv
  BY DEF Init, HandInv, ProcessingIsInHand, IdleWorker, Busy, At
<1>2. TypeOK /\ HandInv /\ [Next]_vars => HandInv'
  <2>1. UNCHANGED vars /\ HandInv => HandInv'
    BY IdleStepsKeepHand DEF vars
  <2> QED BY <2>1, HandStep
<1> QED BY <1>1, <1>2, TypeCorrect, PTL DEF Spec

\* The LREM of one entry and the DEL of the whole list never drop another job, because
\* outside a restoration the processing list holds the job in hand and nothing else.
THEOREM ProcessingIsInHandHolds == Spec => []ProcessingIsInHand
<1>1. HandInv => ProcessingIsInHand
  BY DEF HandInv
<1> QED BY <1>1, HandInvInductive, PTL

----------------------------------------------------------------------------
(* The attempts *)

Counted(job) == AttemptsLeft(job) /\ AttemptsRecorded(job)
Spent(job)   == job.attempts = MaxAttempts /\ AttemptsRecorded(job)

\* Where a job that still has attempts left can be.
Alive == ToSet(pending) \cup ToSet(processing) \cup ToSet(backlog)
           \cup (IF Busy THEN {w.job} ELSE {})

\* What makes RetriesAreCounted inductive: it holds of the job in hand and of the copy
\* the restoration read, and the attempt about to be counted is recorded.
CountInv ==
  /\ \A job \in Alive : Counted(job)
  /\ \A job \in ToSet(dead) : Spent(job)
  /\ w.pc \in {"failRem", "push"} =>
       Event(w.job.id, "failed", w.job.attempts + 1) \in events

\* Steps that create no entry and forget no event.
LEMMA OldEntriesKeepCount ==
  ASSUME CountInv, Alive' \subseteq Alive, ToSet(dead)' \subseteq ToSet(dead),
         events \subseteq events',
         (w.pc \in {"failRem", "push"} =>
           Event(w.job.id, "failed", w.job.attempts + 1) \in events)'
  PROVE  CountInv'
BY DEF CountInv, Counted, Spent, AttemptsLeft, AttemptsRecorded

\* Every step keeps CountInv.
LEMMA CountStep ==
  ASSUME TypeOK, RestoreShape, CountInv, Next
  PROVE  CountInv'
<1>0. /\ pending \in Seq(Jobs) /\ processing \in Seq(Jobs) /\ dead \in Seq(Jobs)
      /\ backlog \in Seq(Jobs)
      /\ w \in [pc : WorkerSteps, job : Jobs \cup {NoJob}, next : Nat]
  BY Zenon DEF TypeOK
<1>e. ToSet(<<>>) = {} /\ IdleWorker.pc = "idle"
  BY DEF ToSet, IdleWorker
<1>1. ASSUME NEW r \in Requests, Enqueue(r) PROVE CountInv'
  <2>1. CASE Reserve(r) \/ RejectDuplicate(r) \/ RecordRequested(r)
    <3>1. /\ UNCHANGED <<pending, processing, dead, backlog, w>>
          /\ events \subseteq events'
      BY <2>1 DEF Reserve, RejectDuplicate, RecordRequested, redis, EventOk, EventFails
    <3> QED BY <3>1, OldEntriesKeepCount DEF Alive, CountInv, Busy
  <2>2. CASE PushPending(r)
    <3> DEFINE job == [id |-> r, attempts |-> 0]
    <3>1. job \in Jobs
      BY DEF Jobs
    <3>2. Counted(job)
      BY ConstantsAssumption DEF Counted, AttemptsLeft, AttemptsRecorded
    <3> HIDE DEF job
    <3>3. /\ UNCHANGED <<processing, dead, events, backlog, w>>
          /\ pending' \in {pending, LPush(pending, job)}
      BY <2>2 DEF PushPending, job
    <3>4. ToSet(pending') \subseteq {job} \cup ToSet(pending)
      BY <1>0, <3>1, <3>3, LPushEntries
    <3>5. Alive' \subseteq {job} \cup Alive
      BY <3>3, <3>4 DEF Alive, Busy
    <3> QED BY <3>2, <3>3, <3>5
            DEF CountInv, Counted, Spent, AttemptsLeft, AttemptsRecorded
  <2> QED BY <1>1, <2>1, <2>2 DEF Enqueue
<1>2. CASE (\E k \in Keys : Expire(k)) \/ Shutdown \/ Restart
  <2>1. UNCHANGED <<pending, processing, dead, events, backlog, w>>
    BY <1>2 DEF Expire, Shutdown, Restart, redis
  <2> QED BY <2>1, OldEntriesKeepCount DEF Alive, CountInv, Busy
<1>3. ASSUME NEW gone, Die(gone), UNCHANGED dead, events \subseteq events',
             ToSet(pending') \cup ToSet(processing') \subseteq Alive
      PROVE  CountInv'
  <2>1. ~Busy' /\ w'.pc = "idle" /\ backlog' = <<>>
    BY <1>e, <1>3 DEF Die, Busy
  <2>2. Alive' \subseteq Alive
    BY <1>e, <1>3, <2>1 DEF Alive
  <2> QED BY <1>3, <2>1, <2>2, OldEntriesKeepCount
<1>4. CASE Crash \/ Exit
  BY <1>3, <1>4 DEF Crash, Exit, redis, Alive
<1>5. CASE Restore
  <2>1. /\ UNCHANGED <<dead, events>>
        /\ ToSet(pending') \cup ToSet(processing') \subseteq Alive
        /\ ~Die({}) => UNCHANGED w /\ ToSet(backlog') \subseteq Alive
    <3>1. CASE RestoreRange
      BY <1>0, <3>1, ReverseEntries DEF RestoreRange, redis, Alive
    <3>2. CASE RestorePush
      <4>1. backlog # <<>>
        BY <3>2 DEF RestorePush, RestoreShape
      <4>2. /\ UNCHANGED <<processing, dead, events>>
            /\ pending' \in {pending, LPush(pending, Head(backlog))}
            /\ ~Die({}) => UNCHANGED w /\ backlog' = Tail(backlog)
        BY <3>2, Zenon DEF RestorePush
      <4>3. /\ Head(backlog) \in Jobs
            /\ ToSet(backlog) = {Head(backlog)} \cup ToSet(Tail(backlog))
        BY <1>0, <4>1, TailEntries
      <4>4. ToSet(LPush(pending, Head(backlog))) = {Head(backlog)} \cup ToSet(pending)
        BY <1>0, <4>3, LPushEntries
      <4>5. ToSet(pending') \subseteq ToSet(pending) \cup ToSet(backlog)
        BY <4>2, <4>3, <4>4
      <4> QED BY <4>2, <4>3, <4>5 DEF Alive
    <3>3. CASE RestoreDel
      BY <1>e, <3>3 DEF RestoreDel, Alive
    <3> QED BY <1>5, <3>1, <3>2, <3>3 DEF Restore
  <2>2. CASE Die({})
    BY <1>3, <2>1, <2>2
  <2>3. CASE ~Die({})
    <3>1. Alive' \subseteq Alive
      BY <2>1, <2>3 DEF Alive, Busy
    <3> QED BY <2>1, <2>3, <3>1, OldEntriesKeepCount DEF CountInv
  <2> QED BY <2>2, <2>3
<1>6. CASE Poll
  <2>1. /\ UNCHANGED <<dead, events>>
        /\ \/ UNCHANGED <<pending, processing>> /\ Die({})
           \/ /\ pending # <<>> /\ pending' = Front(pending)
              /\ processing' = LPush(processing, Last(pending))
    BY <1>6 DEF Poll
  <2>2. pending # <<>> => /\ Last(pending) \in Alive
                          /\ ToSet(Front(pending)) \subseteq Alive
                          /\ ToSet(LPush(processing, Last(pending))) \subseteq Alive
    <3> SUFFICES ASSUME pending # <<>>
                 PROVE  /\ Last(pending) \in Alive
                        /\ ToSet(Front(pending)) \subseteq Alive
                        /\ ToSet(LPush(processing, Last(pending))) \subseteq Alive
      OBVIOUS
    <3>1. /\ Last(pending) \in Jobs
          /\ ToSet(pending) = {Last(pending)} \cup ToSet(Front(pending))
      BY <1>0, RPopEntries
    <3>2. ToSet(LPush(processing, Last(pending))) = {Last(pending)} \cup ToSet(processing)
      BY <1>0, <3>1, LPushEntries
    <3> QED BY <3>1, <3>2 DEF Alive
  <2>3. ToSet(pending') \cup ToSet(processing') \subseteq Alive
    BY <2>1, <2>2 DEF Alive
  <2>4. CASE Die({})
    BY <1>3, <2>1, <2>3, <2>4
  <2>5. CASE ~Die({})
    <3>1. pending # <<>> /\ w' = StartJob(Last(pending)) /\ Survive
      BY <1>6, <2>5 DEF Poll
    <3>2. w'.job \in Alive /\ w'.pc \in {"send", "skipEvent"}
      BY <2>2, <3>1 DEF StartJob
    <3>3. Alive' \subseteq Alive
      BY <2>3, <3>1, <3>2 DEF Alive, Survive
    <3> QED BY <2>1, <3>2, <3>3, OldEntriesKeepCount
  <2> QED BY <2>4, <2>5
<1>7. CASE ProcessJob
  <2>0. Busy /\ w.job \in Jobs /\ w.job.attempts \in Nat
    <3>1. Busy
      BY <1>7 DEF ProcessJob, Busy, At, TryProvider, RecordSent, RemoveSent, RecordSkipped,
                  RemoveSkipped, RecordFailed, RemoveFailed, PushFailed
    <3> QED BY <3>1, InHandType
  <2>1. w.job \in Alive /\ ToSet(pending) \subseteq Alive
        /\ ToSet(LRem(processing, w.job)) \subseteq ToSet(processing)
    BY <1>0, <2>0, LRemEntries DEF Alive
  <2>2. ASSUME UNCHANGED <<pending, dead>>, events \subseteq events',
               processing' \in {processing, LRem(processing, w.job)},
               \/ \E gone : Die(gone)
               \/ /\ UNCHANGED backlog /\ (w'.pc # "idle" => w'.job = w.job)
                  /\ w'.pc \in {"failRem", "push"} =>
                       Event(w.job.id, "failed", w.job.attempts + 1) \in events'
        PROVE  CountInv'
    <3>1. ToSet(pending') \cup ToSet(processing') \subseteq Alive
      BY <2>1, <2>2 DEF Alive
    <3>2. CASE \E gone : Die(gone)
      BY <1>3, <2>2, <3>1, <3>2
    <3>3. CASE ~ \E gone : Die(gone)
      <4>1. Alive' \subseteq Alive
        BY <2>0, <2>1, <2>2, <3>1, <3>3 DEF Alive, Busy
      <4>2. (w.pc \in {"failRem", "push"} =>
              Event(w.job.id, "failed", w.job.attempts + 1) \in events)'
        BY <2>2, <3>3
      <4> QED BY <2>2, <4>1, <4>2, OldEntriesKeepCount
    <3> QED BY <3>2, <3>3
  <2>3. CASE TryProvider \/ RecordSent \/ RecordSkipped \/ RecordFailed
    <3>1. UNCHANGED <<pending, dead, processing>>
      BY <2>3 DEF TryProvider, RecordSent, RecordSkipped, RecordFailed, redis
    <3>2. events \subseteq events'
      BY <2>3 DEF TryProvider, RecordSent, RecordSkipped, RecordFailed, EventOk, EventFails
    <3>3. ASSUME ~ \E gone : Die(gone)
          PROVE  UNCHANGED backlog /\ w'.job = w.job
      BY <1>0, <2>3, <3>3 DEF TryProvider, RecordSent, RecordSkipped, RecordFailed,
                              NextProvider, Goto, Survive
    <3>4. ASSUME ~ \E gone : Die(gone), w'.pc \in {"failRem", "push"}
          PROVE  Event(w.job.id, "failed", w.job.attempts + 1) \in events'
      <4>1. RecordFailed
        BY <1>0, <2>3, <3>4 DEF TryProvider, RecordSent, RecordSkipped, NextProvider, Goto, At
      <4> QED BY <3>4, <4>1 DEF RecordFailed, EventOk
    <3> QED BY <2>2, <3>1, <3>2, <3>3, <3>4
  <2>4. CASE RemoveSent \/ RemoveSkipped \/ RemoveFailed
    <3>1. /\ UNCHANGED <<pending, dead, events>>
          /\ processing' \in {processing, LRem(processing, w.job)}
      BY <2>4 DEF RemoveSent, RemoveSkipped, RemoveFailed
    <3>2. ASSUME ~ \E gone : Die(gone)
          PROVE  /\ UNCHANGED backlog
                 /\ \/ w' = IdleWorker
                    \/ w' = [w EXCEPT !.pc = "failEvent"]
                    \/ w' = [w EXCEPT !.pc = "push"] /\ w.pc = "failRem"
      BY <2>4, <3>2 DEF RemoveSent, RemoveSkipped, RemoveFailed, Finish, Goto, Survive, At
    <3>3. ASSUME ~ \E gone : Die(gone)
          PROVE  /\ UNCHANGED backlog /\ (w'.pc # "idle" => w'.job = w.job)
                 /\ w'.pc \in {"failRem", "push"} =>
                      Event(w.job.id, "failed", w.job.attempts + 1) \in events'
      BY <1>0, <1>e, <3>1, <3>2, <3>3 DEF CountInv
    <3> QED BY <2>2, <3>1, <3>3
  <2>5. CASE PushFailed
    <3> DEFINE job == [w.job EXCEPT !.attempts = @ + 1]
    <3>1. job \in Jobs /\ job.id = w.job.id /\ job.attempts = w.job.attempts + 1
      BY <2>0 DEF Jobs
    <3>2. AttemptsRecorded(job)
      <4>1. AttemptsRecorded(w.job) /\ Event(w.job.id, "failed", w.job.attempts + 1) \in events
        BY <2>1, <2>5 DEF CountInv, Counted, PushFailed, At
      <4>2. \A n \in 1..(w.job.attempts + 1) : n \in 1..w.job.attempts \/ n = w.job.attempts + 1
        BY <2>0
      <4> HIDE DEF job
      <4> QED BY <3>1, <4>1, <4>2 DEF AttemptsRecorded
    <3>3. /\ WillRetry(job.attempts) => Counted(job)
          /\ ~WillRetry(job.attempts) => Spent(job)
      <4>1. w.job.attempts < MaxAttempts /\ MaxAttempts \in Nat
        BY <2>1, ConstantsAssumption DEF CountInv, Counted, AttemptsLeft
      <4> HIDE DEF job
      <4> QED BY <2>0, <3>1, <3>2, <4>1 DEF WillRetry, Counted, Spent, AttemptsLeft
    <3>4. /\ UNCHANGED <<processing, events>>
          /\ Requeue(job) \/ UNCHANGED <<pending, dead>>
          /\ w'.pc = "idle" /\ (UNCHANGED backlog \/ backlog' = <<>>)
      BY <1>e, <2>5 DEF PushFailed, Die, Finish, Survive
    <3> HIDE DEF job
    <3>5. CASE UNCHANGED <<pending, dead>>
      <4>1. Alive' \subseteq Alive
        BY <1>e, <3>4, <3>5 DEF Alive, Busy
      <4> QED BY <3>4, <3>5, <4>1, OldEntriesKeepCount
    <3>6. CASE Requeue(job)
      <4>1. /\ ToSet(pending') \subseteq Alive \cup (IF WillRetry(job.attempts) THEN {job} ELSE {})
            /\ ToSet(dead') \subseteq
                 ToSet(dead) \cup (IF WillRetry(job.attempts) THEN {} ELSE {job})
        <5>1. /\ ToSet(LPush(pending, job)) = {job} \cup ToSet(pending)
              /\ ToSet(LPush(dead, job)) = {job} \cup ToSet(dead)
          BY <1>0, <3>1, LPushEntries
        <5>2. CASE WillRetry(job.attempts)
          BY <2>1, <3>6, <5>1, <5>2 DEF Requeue
        <5>3. CASE ~WillRetry(job.attempts)
          BY <2>1, <3>6, <5>1, <5>3 DEF Requeue
        <5> QED BY <5>2, <5>3
      <4>2. Alive' \subseteq Alive \cup (IF WillRetry(job.attempts) THEN {job} ELSE {})
        BY <1>e, <3>4, <4>1 DEF Alive, Busy
      <4>3. \A j : /\ Counted(j)' <=> Counted(j)
                   /\ Spent(j)' <=> Spent(j)
        BY <3>4 DEF Counted, Spent, AttemptsLeft, AttemptsRecorded
      <4> QED BY <3>3, <3>4, <4>1, <4>2, <4>3 DEF CountInv
    <3> QED BY <3>4, <3>5, <3>6
  <2> QED BY <1>7, <2>3, <2>4, <2>5 DEF ProcessJob
<1> QED BY <1>1, <1>2, <1>4, <1>5, <1>6, <1>7 DEF Next

\* Nothing is tried more than OPS_EMAIL_MAX_ATTEMPTS times per entry, whatever restarts:
\* what waits has an attempt left, a dead letter has none, and each counted attempt
\* left its `failed` event.
THEOREM RetriesAreCountedHolds == Spec => []RetriesAreCounted
<1>1. Init => CountInv
  BY DEF Init, CountInv, Alive, ToSet, IdleWorker, Busy
<1>2. TypeOK /\ RestoreShape /\ CountInv /\ [Next]_vars => CountInv'
  <2>1. UNCHANGED vars /\ CountInv => CountInv'
    BY OldEntriesKeepCount DEF vars, Alive, Busy, CountInv
  <2> QED BY <2>1, CountStep
<1>3. CountInv => RetriesAreCounted
  BY DEF CountInv, Alive, Counted, Spent, RetriesAreCounted
<1> QED BY <1>1, <1>2, <1>3, TypeCorrect, PTL DEF Spec

----------------------------------------------------------------------------
(* The copies of a job in a list *)

CopiesAt(list, r) == {i \in 1..Len(list) : list[i].id = r}
Copies(list, r)   == Cardinality(CopiesAt(list, r))
One(b) == IF b THEN 1 ELSE 0

\* A list has finitely many entries.
LEMMA CopiesType ==
  ASSUME NEW list \in Seq(Jobs), NEW r
  PROVE  IsFiniteSet(CopiesAt(list, r)) /\ Copies(list, r) \in Nat
<1>1. IsFiniteSet(1..Len(list))
  BY FS_Interval
<1>2. CopiesAt(list, r) \subseteq 1..Len(list)
  BY DEF CopiesAt
<1> QED BY <1>1, <1>2, FS_Subset, FS_CardinalityType DEF Copies

\* A list without entries of r has no copy.
LEMMA CopiesEmpty == \A r : Copies(<<>>, r) = 0
BY FS_EmptySet DEF Copies, CopiesAt

\* LPUSH adds one copy.
LEMMA CopiesLPush ==
  ASSUME NEW list \in Seq(Jobs), NEW job \in Jobs, NEW r
  PROVE  Copies(LPush(list, job), r) = Copies(list, r) + One(job.id = r)
<1> DEFINE S == CopiesAt(list, r)
           U == {i + 1 : i \in S}
           f == [i \in S |-> i + 1]
<1>1. /\ Len(LPush(list, job)) = Len(list) + 1
      /\ LPush(list, job)[1] = job
      /\ \A i \in 1..Len(list) : LPush(list, job)[i + 1] = list[i]
  BY DEF LPush
<1>2. S \subseteq Nat \ {0} /\ IsFiniteSet(S)
  <2>1. S \subseteq Nat \ {0}
    BY DEF CopiesAt
  <2> QED BY <2>1, CopiesType
<1>3. f \in Bijection(S, U)
  <2>1. f \in [S -> U] /\ \A t \in U : \E s \in S : f[s] = t
    OBVIOUS
  <2>2. \A a, b \in S : f[a] = f[b] => a = b
    BY <1>2
  <2> HIDE DEF f, S, U
  <2> QED BY <2>1, <2>2, Fun_IsBij
<1>4. IsFiniteSet(U) /\ Cardinality(U) = Cardinality(S)
  BY <1>2, <1>3, FS_Bijection DEF ExistsBijection
<1>5. CopiesAt(LPush(list, job), r) = IF job.id = r THEN U \cup {1} ELSE U
  <2>1. ASSUME NEW i \in CopiesAt(LPush(list, job), r), i # 1 PROVE i \in U
    <3>1. i - 1 \in 1..Len(list) /\ i = (i - 1) + 1 /\ LPush(list, job)[i].id = r
      BY <1>1, <2>1 DEF CopiesAt
    <3>2. LPush(list, job)[i] = list[i - 1]
      BY <1>1, <3>1
    <3>3. i - 1 \in S
      BY <3>1, <3>2 DEF CopiesAt
    <3> QED BY <3>1, <3>3
  <2>2. ASSUME NEW k \in S PROVE k + 1 \in CopiesAt(LPush(list, job), r)
    BY <1>1 DEF CopiesAt
  <2>3. 1 \in CopiesAt(LPush(list, job), r) <=> job.id = r
    BY <1>1 DEF CopiesAt
  <2>4. 1 \notin U
    BY <1>2
  <2> HIDE DEF S
  <2> QED BY <2>1, <2>2, <2>3, <2>4
<1>6. 1 \notin U
  BY <1>2
<1>7. Cardinality(U \cup {1}) = Cardinality(U) + 1
  <2> HIDE DEF U
  <2> QED BY <1>4, <1>6, FS_AddElement
<1>8. Cardinality(S) \in Nat /\ Copies(list, r) = Cardinality(S)
  BY <1>2, FS_CardinalityType DEF Copies
<1> HIDE DEF S, U
<1>9. Copies(LPush(list, job), r) = IF job.id = r THEN Cardinality(U) + 1 ELSE Cardinality(U)
  BY <1>5, <1>7 DEF Copies
<1> QED BY <1>4, <1>8, <1>9 DEF One

\* RPOP takes one copy of its job.
LEMMA CopiesRPop ==
  ASSUME NEW list \in Seq(Jobs), list # <<>>, NEW r
  PROVE  Copies(list, r) = Copies(Front(list), r) + One(Last(list).id = r)
<1> DEFINE n == Len(list)
           S == CopiesAt(Front(list), r)
<1>1. n \in Nat \ {0} /\ Last(list) = list[n]
  BY DEF Last
<1>2. /\ Front(list) \in Seq(Jobs)
      /\ Len(Front(list)) = n - 1
      /\ \A i \in 1..(n - 1) : Front(list)[i] = list[i]
  BY FrontPositions
<1>3. IsFiniteSet(S) /\ n \notin S
  <2>1. n \notin S
    BY <1>1, <1>2 DEF CopiesAt
  <2> QED BY <1>2, <2>1, CopiesType
<1>4. CopiesAt(list, r) = IF Last(list).id = r THEN S \cup {n} ELSE S
  BY <1>1, <1>2 DEF CopiesAt
<1>5. Cardinality(S \cup {n}) = Cardinality(S) + 1
  <2> HIDE DEF S, n
  <2> QED BY <1>3, FS_AddElement
<1>6. Cardinality(S) \in Nat
  BY <1>3, FS_CardinalityType
<1> HIDE DEF S, n
<1> QED BY <1>4, <1>5, <1>6 DEF Copies, One, S

----------------------------------------------------------------------------
(* The mails *)

\* A call that may still push its job.
ToPush(r) == req[r] \in {"new", "requested", "push"}

\* An entry of the processing list that the next restoration puts back.
ToRestore(r) == In(processing, r) /\ proc \notin {"up", "del"}

\* A job in hand that may still send, or come back to the pending list and send then.
ToSend(r) == /\ Busy /\ w.job.id = r
             /\ At("send") \/ (proc = "up" /\ w.pc \in {"failEvent", "failRem", "push"})

\* The mails of r that left, and those that may leave without another failure.
Chances(r) == One(ToPush(r)) + One(ToRestore(r)) + One(ToSend(r))
Due(r)     == mails[r] + Copies(pending, r) + Chances(r)

\* What makes MailBudget inductive: also what is due is paid for, and the restoration never
\* has more than one entry to put back.
OneToRestore == /\ Len(processing) <= 1 /\ Len(backlog) <= 1
                /\ proc = "push" => ToSet(backlog) \subseteq ToSet(processing)
BudgetInv == OneToRestore /\ \A r \in Requests : Due(r) <= 1 + (faults + crashes)

\* What is due grows only by what is paid.
Paid(r) == Due(r)' + (faults + crashes) <= Due(r) + (faults' + crashes')

LEMMA DueType ==
  ASSUME TypeOK, NEW r \in Requests
  PROVE  /\ mails[r] \in Nat /\ Copies(pending, r) \in Nat
         /\ Chances(r) \in Nat /\ Due(r) \in Nat /\ (faults + crashes) \in Nat
<1>1. mails[r] \in Nat /\ Copies(pending, r) \in Nat /\ (faults + crashes) \in Nat
  <2>1. pending \in Seq(Jobs) /\ mails \in [Requests -> Nat] /\ faults \in Nat /\ crashes \in Nat
    BY DEF TypeOK
  <2> QED BY <2>1, CopiesType
<1>2. Chances(r) \in Nat
  BY DEF Chances, One
<1> QED BY <1>1, <1>2 DEF Due

LEMMA DueTypeNext ==
  ASSUME TypeOK', NEW r \in Requests
  PROVE  /\ mails'[r] \in Nat /\ Copies(pending', r) \in Nat
         /\ Chances(r)' \in Nat /\ (faults' + crashes') \in Nat
<1>0. /\ pending' \in Seq(Jobs) /\ mails' \in [Requests -> Nat]
      /\ faults' \in Nat /\ crashes' \in Nat
  BY DEF TypeOK
<1>1. mails'[r] \in Nat
  BY <1>0
<1>4. faults' + crashes' \in Nat
  <2>1. \A a, b \in Nat : a + b \in Nat
    OBVIOUS
  <2> QED BY <1>0, <2>1
<1>2. Copies(pending', r) \in Nat
  BY <1>0, CopiesType
<1>3. Chances(r)' \in Nat
  BY DEF Chances, One
<1> QED BY <1>1, <1>2, <1>3, <1>4

\* The ways in which a step pays for what it makes due: nothing changes; a mail uses up a
\* chance, or is paid; a copy uses up a chance, or is paid, or becomes one; a chance is paid.
Settled(m, c, h, x, m1, c1, h1, x1) ==
  \/ m1 = m     /\ c1 <= c     /\ h1 <= h     /\ x1 >= x
  \/ m1 = m + 1 /\ c1 <= c     /\ h1 + 1 <= h /\ x1 >= x
  \/ m1 = m + 1 /\ c1 <= c     /\ h1 <= h     /\ x1 >= x + 1
  \/ m1 = m     /\ c1 = c + 1  /\ h1 + 1 <= h /\ x1 >= x
  \/ m1 = m     /\ c1 = c + 1  /\ h1 <= h     /\ x1 >= x + 1
  \/ m1 = m     /\ c = c1 + 1  /\ h1 <= h + 1 /\ x1 >= x
  \/ m1 = m     /\ c1 <= c     /\ h1 <= h + 1 /\ x1 >= x + 1

LEMMA SettledSum ==
  \A m, c, h, x, m1, c1, h1, x1 \in Nat :
    Settled(m, c, h, x, m1, c1, h1, x1) => (m1 + c1 + h1) + x <= (m + c + h) + x1
BY DEF Settled

LEMMA SettledIsPaid ==
  ASSUME TypeOK, TypeOK', NEW r \in Requests,
         Settled(mails[r], Copies(pending, r), Chances(r), (faults + crashes),
                 mails'[r], Copies(pending', r), Chances(r)', (faults' + crashes'))
  PROVE  Paid(r)
<1>1. /\ mails[r] \in Nat /\ Copies(pending, r) \in Nat
      /\ Chances(r) \in Nat /\ (faults + crashes) \in Nat
  BY DueType
<1>2. /\ mails'[r] \in Nat /\ Copies(pending', r) \in Nat
      /\ Chances(r)' \in Nat /\ (faults' + crashes') \in Nat
  BY DueTypeNext
<1>3. Due(r)' = mails'[r] + Copies(pending', r) + Chances(r)'
  BY DEF Due
<1>4. (mails'[r] + Copies(pending', r) + Chances(r)') + (faults + crashes)
        <= (mails[r] + Copies(pending, r) + Chances(r)) + (faults' + crashes')
  BY <1>1, <1>2, SettledSum
<1> QED BY <1>3, <1>4 DEF Paid, Due

\* What a step pays.
LEMMA Prices ==
  ASSUME TypeOK, TypeOK'
  PROVE  /\ UNCHANGED <<faults, crashes>> => faults' + crashes' >= faults + crashes
         /\ Fault /\ UNCHANGED crashes => faults' + crashes' >= faults + crashes + 1
         /\ UNCHANGED faults /\ crashes' = crashes + 1 =>
              faults' + crashes' >= faults + crashes + 1
         /\ faults' + crashes' >= faults + crashes + 1 => faults' + crashes' >= faults + crashes
<1>1. faults \in Nat /\ crashes \in Nat /\ faults' \in Nat /\ crashes' \in Nat
  BY DEF TypeOK
<1>2. \A a, b, c, d \in Nat : a + b >= c + d + 1 => a + b >= c + d
  OBVIOUS
<1>3. faults' + crashes' >= faults + crashes + 1 => faults' + crashes' >= faults + crashes
  BY <1>1, <1>2
<1>4. UNCHANGED <<faults, crashes>> => faults' + crashes' >= faults + crashes
  BY <1>1
<1>5. ASSUME Fault, UNCHANGED crashes PROVE faults' + crashes' >= faults + crashes + 1
  BY <1>1, <1>5 DEF Fault
<1>6. ASSUME UNCHANGED faults, crashes' = crashes + 1
      PROVE  faults' + crashes' >= faults + crashes + 1
  BY <1>1, <1>6
<1> QED BY <1>3, <1>4, <1>5, <1>6

\* How the chances of a request change with their parts.
LEMMA ChancesChange ==
  ASSUME NEW r, ToPush(r)' => ToPush(r)
  PROVE  /\ ~ToSend(r)' => Chances(r)' <= Chances(r) + 1
         /\ ~ToSend(r)' /\ (ToRestore(r)' => ToRestore(r)) => Chances(r)' <= Chances(r)
         /\ (ToSend(r)' => ToSend(r)) /\ (ToRestore(r)' => ToRestore(r))
              => Chances(r)' <= Chances(r)
         /\ ~ToSend(r)' /\ ToSend(r) /\ (ToRestore(r)' => ToRestore(r))
              => Chances(r)' + 1 <= Chances(r)
         /\ ~ToSend(r)' /\ ToSend(r) => Chances(r)' <= Chances(r)
         /\ ToSend(r)' /\ (ToRestore(r)' => ToRestore(r)) => Chances(r)' <= Chances(r) + 1
BY DEF Chances, One

\* The process dies: what was in hand is restored at most once, and that is paid for by the
\* fault or the crash, or was counted when the process began to stop.
LEMMA DieIsPaid ==
  ASSUME TypeOK, TypeOK', NEW r \in Requests, NEW gone, Die(gone), UNCHANGED mails,
         Copies(pending', r) <= Copies(pending, r),
         \/ faults' + crashes' >= faults + crashes + 1
         \/ /\ proc = "stopping" /\ UNCHANGED processing
            /\ faults' + crashes' >= faults + crashes
  PROVE  Paid(r)
<1>1. ToPush(r)' => ToPush(r)
  BY DEF Die, ToPush
<1>2. ~ToSend(r)'
  BY DEF Die, ToSend, Busy, IdleWorker
<1>3. CASE faults' + crashes' >= faults + crashes + 1
  <2>1. Chances(r)' <= Chances(r) + 1
    BY <1>1, <1>2, ChancesChange
  <2> QED BY <1>3, <2>1, SettledIsPaid DEF Settled
<1>4. CASE /\ proc = "stopping" /\ UNCHANGED processing
           /\ faults' + crashes' >= faults + crashes
  <2>1. ToRestore(r)' => ToRestore(r)
    BY <1>4 DEF ToRestore, In
  <2>2. Chances(r)' <= Chances(r)
    BY <1>1, <1>2, <2>1, ChancesChange
  <2> QED BY <1>4, <2>2, SettledIsPaid DEF Settled
<1> QED BY <1>3, <1>4

\* Steps that touch no list, no job in hand and no mail.
LEMMA QuietIsPaid ==
  ASSUME TypeOK, TypeOK', NEW r \in Requests, UNCHANGED <<pending, processing, w, mails>>,
         ToPush(r)' => ToPush(r),
         \/ proc' = proc
         \/ proc = "down" /\ proc' = "range"
         \/ proc = "up" /\ proc' = "stopping" /\ faults' + crashes' >= faults + crashes + 1,
         faults' + crashes' >= faults + crashes
  PROVE  Paid(r)
<1>c. Copies(pending', r) <= Copies(pending, r)
  BY DueType
<1>1. CASE proc' = proc \/ (proc = "down" /\ proc' = "range")
  <2>1. ToRestore(r)' => ToRestore(r)
    BY <1>1 DEF ToRestore, In
  <2>2. ToSend(r)' => ToSend(r)
    BY <1>1 DEF ToSend, Busy, At
  <2>3. Chances(r)' <= Chances(r)
    BY <2>1, <2>2, ChancesChange
  <2> QED BY <1>c, <2>3, SettledIsPaid DEF Settled
<1>2. CASE /\ proc = "up" /\ proc' = "stopping"
           /\ faults' + crashes' >= faults + crashes + 1
  <2>1. ToSend(r)' => ToSend(r)
    BY <1>2 DEF ToSend, Busy, At
  <2>2. Chances(r)' <= Chances(r) + 1
    BY <1>2, <2>1 DEF Chances, One
  <2> QED BY <1>2, <1>c, <2>2, SettledIsPaid DEF Settled
<1> QED BY <1>1, <1>2

\* The calls of enqueue: a call that pushes is no longer one that may.
LEMMA EnqueueIsPaid ==
  ASSUME TypeOK, TypeOK', NEW s \in Requests, Enqueue(s), NEW r \in Requests
  PROVE  Paid(r)
<1>0. req \in [Requests -> RequestSteps] /\ pending \in Seq(Jobs)
  BY DEF TypeOK
<1>1. CASE Reserve(s) \/ RejectDuplicate(s) \/ RecordRequested(s)
  <2>1. /\ UNCHANGED <<pending, processing, w, mails, proc>>
        /\ UNCHANGED <<faults, crashes>> \/ (Fault /\ UNCHANGED crashes)
    BY <1>1 DEF Reserve, RejectDuplicate, RecordRequested, redis, RedisOk, RedisFails,
                EventOk, EventFails
  <2>2. ToPush(r)' => ToPush(r)
    BY <1>0, <1>1 DEF Reserve, RejectDuplicate, RecordRequested, ToPush
  <2> QED BY <2>1, <2>2, Prices, QuietIsPaid
<1>2. CASE PushPending(s)
  <2> DEFINE job == [id |-> s, attempts |-> 0]
  <2>1. /\ UNCHANGED <<processing, w, mails, proc>>
        /\ UNCHANGED <<faults, crashes>> \/ (Fault /\ UNCHANGED crashes)
        /\ pending' \in {pending, LPush(pending, job)}
        /\ req[s] = "push"
        /\ \E step \in {"queued", "unanswered", "failed"} : req' = [req EXCEPT ![s] = step]
    BY <1>2 DEF PushPending, redis, RedisOk, RedisFails
  <2>2. (ToPush(r)' => ToPush(r)) /\ (r = s => ToPush(r) /\ ~ToPush(r)')
    BY <1>0, <2>1 DEF ToPush
  <2>3. faults' + crashes' >= faults + crashes
    BY <2>1, Prices
  <2>4. CASE pending' = pending
    BY <2>1, <2>2, <2>3, <2>4, QuietIsPaid
  <2>5. CASE pending' = LPush(pending, job)
    <3>1. job \in Jobs /\ job.id = s
      BY DEF Jobs
    <3>2. Copies(pending', r) = Copies(pending, r) + One(job.id = r)
      <4> HIDE DEF job
      <4> QED BY <1>0, <2>5, <3>1, CopiesLPush
    <3>3. (ToRestore(r)' <=> ToRestore(r)) /\ (ToSend(r)' <=> ToSend(r))
      BY <2>1 DEF ToRestore, In, ToSend, Busy, At
    <3>4. Copies(pending, r) \in Nat
      BY DueType
    <3>5. CASE r = s
      <4>1. Chances(r)' + 1 <= Chances(r)
        BY <2>2, <3>3, <3>5 DEF Chances, One
      <4>2. Copies(pending', r) = Copies(pending, r) + 1
        BY <3>1, <3>2, <3>5 DEF One
      <4> QED BY <2>1, <2>3, <4>1, <4>2, SettledIsPaid DEF Settled
    <3>6. CASE r # s
      <4>1. Chances(r)' <= Chances(r)
        BY <2>2, <3>3, ChancesChange
      <4>2. Copies(pending', r) <= Copies(pending, r)
        BY <3>1, <3>2, <3>4, <3>6 DEF One
      <4> QED BY <2>1, <2>3, <4>1, <4>2, SettledIsPaid DEF Settled
    <3> QED BY <3>5, <3>6
  <2> QED BY <2>1, <2>4, <2>5
<1> QED BY <1>1, <1>2 DEF Enqueue

\* The restoration: the entry it puts back is no longer one to restore; what a fault leaves
\* in both lists is paid by the fault.
LEMMA RestoreIsPaid ==
  ASSUME TypeOK, TypeOK', RestoreShape, HandInv, OneToRestore, Restore, NEW r \in Requests
  PROVE  Paid(r)
<1>0. /\ pending \in Seq(Jobs) /\ processing \in Seq(Jobs) /\ backlog \in Seq(Jobs)
  BY DEF TypeOK
<1>b. ~Busy
  BY DEF Restore, RestoreRange, RestorePush, RestoreDel, HandInv
<1>c. Copies(pending, r) \in Nat
  BY DueType
<1>1. CASE RestoreRange
  <2>1. CASE Fault /\ Die({})
    <3>1. UNCHANGED <<pending, processing, mails, crashes>>
      BY <1>1 DEF RestoreRange, redis
    <3> QED BY <1>c, <2>1, <3>1, Prices, DieIsPaid
  <2>2. CASE ~(Fault /\ Die({}))
    <3>1. /\ UNCHANGED <<pending, processing, mails, w, req, faults, crashes>>
          /\ proc = "range" /\ proc' \in {"up", "push"}
      BY <1>1, <2>2 DEF RestoreRange, redis, RedisOk
    <3>2. /\ ToPush(r)' => ToPush(r)
          /\ ToRestore(r)' => ToRestore(r)
          /\ ToSend(r)' => ToSend(r)
      BY <1>b, <3>1 DEF ToPush, ToRestore, In, ToSend, Busy
    <3>3. Chances(r)' <= Chances(r)
      BY <3>2, ChancesChange
    <3> QED BY <1>c, <3>1, <3>3, Prices, SettledIsPaid DEF Settled
  <2> QED BY <2>1, <2>2
<1>2. CASE RestorePush
  <2> DEFINE job == Head(backlog)
  <2>1. backlog # <<>> /\ proc = "push"
    BY <1>2 DEF RestorePush, RestoreShape
  <2>2. job \in Jobs /\ In(processing, job.id)
    <3>1. job \in Jobs /\ job \in ToSet(backlog)
      BY <1>0, <2>1, TailEntries
    <3>2. job \in ToSet(processing)
      BY <2>1, <3>1 DEF OneToRestore
    <3> QED BY <3>1, <3>2 DEF In
  <2>3. Len(backlog) = 1
    <3>1. Len(backlog) \in Nat /\ Len(backlog) # 0
      BY <1>0, <2>1
    <3>2. Len(backlog) <= 1
      BY DEF OneToRestore
    <3>3. \A n \in Nat : n # 0 /\ n <= 1 => n = 1
      OBVIOUS
    <3> QED BY <3>1, <3>2, <3>3
  <2> HIDE DEF job
  <2>4. Copies(LPush(pending, job), r) = Copies(pending, r) + One(job.id = r)
    BY <1>0, <2>2, CopiesLPush
  <2>5. /\ UNCHANGED <<processing, mails, crashes>>
        /\ \/ /\ UNCHANGED <<w, req, faults>>
              /\ pending' = LPush(pending, job) /\ proc' = "del"
           \/ Fault /\ Die({}) /\ pending' \in {pending, LPush(pending, job)}
    BY <1>2, <2>3 DEF RestorePush, RedisOk, job
  <2>6. ToPush(r)' => ToPush(r)
    BY <2>5 DEF ToPush, Die
  <2>7. ~ToSend(r)'
    BY <1>b, <2>5 DEF ToSend, Busy, Die, IdleWorker
  <2>8. CASE /\ UNCHANGED <<w, req, faults>>
             /\ pending' = LPush(pending, job) /\ proc' = "del"
    <3>1. ~ToRestore(r)'
      BY <2>8 DEF ToRestore
    <3>2. CASE job.id = r
      <4>1. Copies(pending', r) = Copies(pending, r) + 1
        BY <2>4, <2>8, <3>2 DEF One
      <4>2. ToRestore(r)
        BY <2>1, <2>2, <3>2 DEF ToRestore
      <4>3. Chances(r)' + 1 <= Chances(r)
        BY <2>6, <2>7, <3>1, <4>2 DEF Chances, One
      <4> QED BY <2>5, <2>8, <4>1, <4>3, Prices, SettledIsPaid DEF Settled
    <3>3. CASE job.id # r
      <4>1. Copies(pending', r) <= Copies(pending, r)
        BY <1>c, <2>4, <2>8, <3>3 DEF One
      <4>2. Chances(r)' <= Chances(r)
        BY <2>6, <2>7, <3>1, ChancesChange
      <4> QED BY <2>5, <2>8, <4>1, <4>2, Prices, SettledIsPaid DEF Settled
    <3> QED BY <3>2, <3>3
  <2>9. CASE Fault /\ Die({}) /\ pending' \in {pending, LPush(pending, job)}
    <3>1. \/ Copies(pending', r) <= Copies(pending, r)
          \/ Copies(pending', r) = Copies(pending, r) + 1
      <4>1. CASE pending' = pending
        BY <1>c, <4>1
      <4>2. CASE pending' = LPush(pending, job)
        BY <1>c, <2>4, <4>2 DEF One
      <4> QED BY <2>9, <4>1, <4>2
    <3>2. ToRestore(r)' => ToRestore(r)
      BY <2>1, <2>5 DEF ToRestore, In
    <3>3. Chances(r)' <= Chances(r)
      BY <2>6, <2>7, <3>2, ChancesChange
    <3>4. faults' + crashes' >= faults + crashes + 1 /\ faults' + crashes' >= faults + crashes
      BY <2>5, <2>9, Prices
    <3> QED BY <2>5, <3>1, <3>3, <3>4, SettledIsPaid DEF Settled
  <2> QED BY <2>5, <2>8, <2>9
<1>3. CASE RestoreDel
  <2>1. CASE Fault /\ Die({})
    <3>1. UNCHANGED <<pending, mails, crashes>>
      BY <1>3 DEF RestoreDel
    <3> QED BY <1>c, <2>1, <3>1, Prices, DieIsPaid
  <2>2. CASE ~(Fault /\ Die({}))
    <3>1. UNCHANGED <<pending, mails, w, req, faults, crashes>> /\ proc' = "up"
      BY <1>3, <2>2 DEF RestoreDel, RedisOk
    <3>2. (ToPush(r)' => ToPush(r)) /\ ~ToRestore(r)' /\ ~ToSend(r)'
      BY <1>b, <3>1 DEF ToPush, ToRestore, ToSend, Busy
    <3>3. Chances(r)' <= Chances(r)
      BY <3>2, ChancesChange
    <3> QED BY <1>c, <3>1, <3>3, Prices, SettledIsPaid DEF Settled
  <2> QED BY <2>1, <2>2
<1> QED BY <1>1, <1>2, <1>3 DEF Restore

\* The job that Poll takes loses its place in the pending list and gets its chance in hand.
LEMMA PollIsPaid ==
  ASSUME TypeOK, TypeOK', Poll, NEW r \in Requests
  PROVE  Paid(r)
<1>0. pending \in Seq(Jobs) /\ Copies(pending, r) \in Nat
  BY DueType DEF TypeOK
<1>1. UNCHANGED <<mails, crashes>>
  BY DEF Poll
<1>2. ASSUME pending # <<>>, pending' = Front(pending)
      PROVE  /\ Copies(pending', r) <= Copies(pending, r)
             /\ Last(pending).id = r => Copies(pending, r) = Copies(pending', r) + 1
  <2>1. Copies(pending, r) = Copies(Front(pending), r) + One(Last(pending).id = r)
    BY <1>0, <1>2, CopiesRPop
  <2>2. Front(pending) \in Seq(Jobs)
    BY <1>0, <1>2, FrontPositions
  <2>3. Copies(Front(pending), r) \in Nat
    BY <2>2, CopiesType
  <2> QED BY <1>2, <2>1, <2>3 DEF One
<1>3. CASE Fault /\ Die({})
  <2>1. Copies(pending', r) <= Copies(pending, r)
    <3>1. pending' = pending \/ (pending # <<>> /\ pending' = Front(pending))
      BY DEF Poll
    <3> QED BY <1>0, <1>2, <3>1
  <2> QED BY <1>1, <1>3, <2>1, Prices, DieIsPaid
<1>4. CASE ~(Fault /\ Die({}))
  <2>1. /\ pending # <<>> /\ pending' = Front(pending) /\ UNCHANGED <<faults, req, proc>>
        /\ proc = "up" /\ w' = StartJob(Last(pending))
    BY <1>4 DEF Poll, Survive
  <2>2. (ToPush(r)' => ToPush(r)) /\ ~ToRestore(r)'
    BY <2>1 DEF ToPush, ToRestore
  <2>3. faults' + crashes' >= faults + crashes
    BY <1>1, <2>1, Prices
  <2>4. CASE Last(pending).id = r
    <3>1. Chances(r)' <= Chances(r) + 1
      BY <2>2 DEF Chances, One
    <3> QED BY <1>1, <1>2, <2>1, <2>3, <2>4, <3>1, SettledIsPaid DEF Settled
  <2>5. CASE Last(pending).id # r
    <3>1. ~ToSend(r)'
      BY <2>1, <2>5 DEF ToSend, StartJob
    <3>2. Chances(r)' <= Chances(r)
      BY <2>2, <3>1, ChancesChange
    <3> QED BY <1>1, <1>2, <2>1, <2>3, <3>2, SettledIsPaid DEF Settled
  <2> QED BY <2>4, <2>5
<1> QED BY <1>3, <1>4

\* The loop goes on with the job in hand, or ends with it: the job gets no chance without
\* a fault, and no other job gets one.
LEMMA ContinueIsPaid ==
  ASSUME TypeOK, TypeOK', Busy, Survive, NEW r \in Requests, UNCHANGED <<pending, mails>>,
         processing' \in {processing, LRem(processing, w.job)},
         w'.pc = "idle" \/ w'.job = w.job,
         \/ /\ \A s : s = w.job.id /\ ToSend(s)' => ToSend(s)
            /\ faults' + crashes' >= faults + crashes
         \/ faults' + crashes' >= faults + crashes + 1
  PROVE  Paid(r)
<1>0. /\ Copies(pending', r) <= Copies(pending, r)
      /\ processing \in Seq(Jobs)
  BY DueType DEF TypeOK
<1>1. (ToPush(r)' => ToPush(r)) /\ (ToRestore(r)' => ToRestore(r))
  <2>1. ToSet(processing') \subseteq ToSet(processing)
    BY <1>0, LRemEntries
  <2> QED BY <2>1 DEF Survive, ToPush, ToRestore, In
<1>2. faults' + crashes' >= faults + crashes
  BY Prices
<1>3. r # w.job.id => ~ToSend(r)'
  BY DEF ToSend, Busy
<1>4. CASE ToSend(r)' => ToSend(r)
  <2>1. Chances(r)' <= Chances(r)
    BY <1>1, <1>4, ChancesChange
  <2> QED BY <1>0, <1>2, <2>1, SettledIsPaid DEF Settled
<1>5. CASE ToSend(r)' /\ ~ToSend(r)
  <2>1. faults' + crashes' >= faults + crashes + 1
    BY <1>3, <1>5
  <2>2. Chances(r)' <= Chances(r) + 1
    BY <1>1, <1>5, ChancesChange
  <2> QED BY <1>0, <2>1, <2>2, SettledIsPaid DEF Settled
<1> QED BY <1>4, <1>5

\* A mail uses up the chance of its job, unless its answer is lost, which is paid.
LEMMA TryProviderIsPaid ==
  ASSUME TypeOK, TypeOK', Busy, TryProvider, NEW r \in Requests
  PROVE  Paid(r)
<1>0. /\ w \in [pc : WorkerSteps, job : Jobs \cup {NoJob}, next : Nat]
      /\ w.job.id \in Requests /\ mails \in [Requests -> Nat]
  BY InHandType DEF TypeOK
<1>1. At("send") /\ Survive /\ UNCHANGED <<pending, processing, crashes>>
  BY DEF TryProvider, redis
<1>2. /\ w'.job = w.job /\ w'.pc \in {"sentEvent", "send", "failEvent", "skipEvent"}
      /\ \/ w'.pc = "sentEvent" /\ mails' = [mails EXCEPT ![w.job.id] = @ + 1] /\ UNCHANGED faults
         \/ UNCHANGED <<mails, faults>>
         \/ Fault /\ mails' = [mails EXCEPT ![w.job.id] = @ + 1]
  <2>1. ASSUME NEW step, NextProvider(step)
        PROVE  w'.job = w.job /\ w'.pc \in {"send", step}
    BY <1>0, <1>1, <2>1 DEF NextProvider, Goto, At
  <2>2. Goto("sentEvent") => w'.job = w.job /\ w'.pc = "sentEvent"
    BY <1>0 DEF Goto
  <2> QED BY <2>1, <2>2 DEF TryProvider
<1>3. /\ ToSend(w.job.id)
      /\ (ToPush(r)' => ToPush(r)) /\ (ToRestore(r)' <=> ToRestore(r))
      /\ Copies(pending', r) <= Copies(pending, r)
  BY <1>1, DueType DEF ToSend, Survive, ToPush, ToRestore, In
<1>4. faults' + crashes' >= faults + crashes
  BY <1>1, <1>2, Prices
<1>5. CASE UNCHANGED mails
  BY <1>1, <1>2, <1>3, <1>4, <1>5, ContinueIsPaid
<1>6. CASE r # w.job.id
  <2>1. mails'[r] = mails[r]
    BY <1>0, <1>2, <1>6
  <2>2. ~ToSend(r)'
    BY <1>2, <1>6 DEF ToSend
  <2>3. Chances(r)' <= Chances(r)
    BY <1>3, <2>2, ChancesChange
  <2> QED BY <1>3, <1>4, <2>1, <2>3, SettledIsPaid DEF Settled
<1>7. CASE r = w.job.id /\ mails' = [mails EXCEPT ![w.job.id] = @ + 1]
  <2>1. mails'[r] = mails[r] + 1
    BY <1>0, <1>7
  <2>2. CASE w'.pc = "sentEvent"
    <3>1. ~ToSend(r)'
      BY <2>2 DEF ToSend, At
    <3>2. Chances(r)' + 1 <= Chances(r)
      BY <1>3, <1>7, <3>1, ChancesChange
    <3> QED BY <1>3, <1>4, <2>1, <3>2, SettledIsPaid DEF Settled
  <2>3. CASE Fault
    <3>1. Chances(r)' <= Chances(r)
      BY <1>3, <1>7, ChancesChange
    <3>2. faults' + crashes' >= faults + crashes + 1
      BY <1>1, <2>3, Prices
    <3> QED BY <1>3, <2>1, <3>1, <3>2, SettledIsPaid DEF Settled
  <2> QED BY <1>2, <1>5, <2>2, <2>3
<1> QED BY <1>2, <1>5, <1>6, <1>7

\* What a command that fails pays: a fault, or nothing once the process is stopping, when it
\* has no effect.
LEMMA FailurePays ==
  ASSUME TypeOK, TypeOK', UNCHANGED crashes,
         Fault \/ (proc = "stopping" /\ UNCHANGED faults)
  PROVE  \/ faults' + crashes' >= faults + crashes + 1
         \/ proc = "stopping" /\ faults' + crashes' >= faults + crashes
BY Prices

\* The events and removals of the drain loop.
LEMMA RecordIsPaid ==
  ASSUME TypeOK, TypeOK', Busy, NEW r \in Requests,
         RecordSent \/ RecordSkipped \/ RecordFailed \/ RemoveSent \/ RemoveSkipped \/ RemoveFailed
  PROVE  Paid(r)
<1>0. /\ w \in [pc : WorkerSteps, job : Jobs \cup {NoJob}, next : Nat]
      /\ Copies(pending', r) <= Copies(pending, r)
  <2>1. UNCHANGED pending
    BY DEF RecordSent, RecordSkipped, RecordFailed, RemoveSent, RemoveSkipped, RemoveFailed, redis
  <2>2. Copies(pending, r) \in Nat
    BY DueType
  <2>3. Copies(pending', r) <= Copies(pending, r)
    BY <2>1, <2>2
  <2> QED BY <2>3 DEF TypeOK
<1>1. UNCHANGED <<pending, mails, crashes>>
  BY DEF RecordSent, RecordSkipped, RecordFailed, RemoveSent, RemoveSkipped, RemoveFailed, redis
<1>2. CASE RecordSent \/ RemoveSent
  <2>1. /\ Survive /\ w.pc \in {"sentEvent", "sentRem"}
        /\ processing' \in {processing, LRem(processing, w.job)}
        /\ \/ UNCHANGED faults /\ (Goto("sentRem") \/ Finish)
           \/ Goto("failEvent") /\ (Fault \/ (proc = "stopping" /\ UNCHANGED faults))
    BY <1>2 DEF RecordSent, RemoveSent, At, EventOk, EventFails, RedisOk, RedisFails, redis
  <2>2. CASE UNCHANGED faults /\ (Goto("sentRem") \/ Finish)
    <3>1. w'.pc \in {"idle", "sentRem"} /\ (w'.pc = "idle" \/ w'.job = w.job)
      BY <1>0, <2>2 DEF Goto, Finish, IdleWorker
    <3>2. \A s : ~ToSend(s)'
      BY <3>1 DEF ToSend, Busy, At
    <3> QED BY <1>1, <2>1, <2>2, <3>1, <3>2, Prices, ContinueIsPaid
  <2>3. CASE Goto("failEvent") /\ (Fault \/ (proc = "stopping" /\ UNCHANGED faults))
    <3>1. w'.pc = "failEvent" /\ w'.job = w.job
      BY <1>0, <2>3 DEF Goto
    <3>2. proc = "stopping" => \A s : ~ToSend(s)'
      BY <2>1, <3>1 DEF ToSend, At, Survive
    <3> QED BY <1>1, <2>1, <2>3, <3>1, <3>2, FailurePays, ContinueIsPaid
  <2> QED BY <2>1, <2>2, <2>3
<1>3. CASE RecordSkipped \/ RemoveSkipped \/ RecordFailed \/ RemoveFailed
  <2>1. /\ w.pc \in {"skipEvent", "skipRem", "failEvent", "failRem"}
        /\ processing' \in {processing, LRem(processing, w.job)}
        /\ \/ /\ UNCHANGED faults /\ Survive
              /\ \/ Finish
                 \/ w.pc = "skipEvent" /\ Goto("skipRem")
                 \/ w.pc = "failEvent" /\ Goto("failRem")
                 \/ w.pc = "failRem" /\ Goto("push")
           \/ /\ \E gone : Die(gone)
              /\ Fault \/ (proc = "stopping" /\ UNCHANGED <<faults, processing>>)
    BY <1>3 DEF RecordSkipped, RemoveSkipped, RecordFailed, RemoveFailed, At, EventOk,
                EventFails, RedisOk, RedisFails, redis
  <2>2. CASE UNCHANGED faults /\ Survive
    <3>1. \/ w'.pc = "idle"
          \/ w'.pc = "skipRem" /\ w'.job = w.job
          \/ w'.pc \in {"failRem", "push"} /\ w'.job = w.job /\ w.pc \in {"failEvent", "failRem"}
      <4>1. CASE \E gone : Die(gone)
        BY <4>1 DEF Die, IdleWorker
      <4>2. CASE ~ \E gone : Die(gone)
        BY <1>0, <2>1, <4>2 DEF Goto, Finish, IdleWorker
      <4> QED BY <4>1, <4>2
    <3>2. \A s : s = w.job.id /\ ToSend(s)' => ToSend(s)
      BY <2>2, <3>1 DEF ToSend, Busy, At, Survive
    <3> QED BY <1>1, <2>1, <2>2, <3>1, <3>2, Prices, ContinueIsPaid
  <2>3. CASE /\ \E gone : Die(gone)
             /\ Fault \/ (proc = "stopping" /\ UNCHANGED <<faults, processing>>)
    <3>1. PICK gone : Die(gone)
      BY <2>3
    <3> QED BY <1>0, <1>1, <2>3, <3>1, Prices, DieIsPaid
  <2> QED BY <2>1, <2>2, <2>3
<1> QED BY <1>2, <1>3

\* The retry brings the chance of the job back to the pending list, or ends it.
LEMMA PushFailedIsPaid ==
  ASSUME TypeOK, TypeOK', Busy, HandInv, PushFailed, NEW r \in Requests
  PROVE  Paid(r)
<1> DEFINE job == [w.job EXCEPT !.attempts = @ + 1]
<1>0. /\ pending \in Seq(Jobs) /\ Copies(pending, r) \in Nat
      /\ proc \in {"up", "stopping"} /\ w.pc = "push"
      /\ w.job \in Jobs
  BY DueType, InHandType DEF TypeOK, HandInv, PushFailed, At
<1>1. job \in Jobs /\ job.id = w.job.id
  BY <1>0 DEF Jobs
<1>2. /\ UNCHANGED <<processing, mails, crashes>>
      /\ \/ proc = "up" /\ UNCHANGED faults /\ Requeue(job) /\ Finish /\ Survive
         \/ proc = "up" /\ Fault /\ Requeue(job) /\ Die({})
         \/ /\ UNCHANGED pending /\ Die({w.job.id})
            /\ Fault \/ (proc = "stopping" /\ UNCHANGED faults)
  BY <1>0 DEF PushFailed, RedisOk, RedisFails
<1>3. ~ToSend(r)' /\ (ToPush(r)' => ToPush(r))
  BY <1>2 DEF ToSend, Busy, Finish, Die, IdleWorker, ToPush, Survive
<1> HIDE DEF job
<1>4. CASE /\ UNCHANGED pending /\ Die({w.job.id})
           /\ Fault \/ (proc = "stopping" /\ UNCHANGED faults)
  <2>1. Copies(pending', r) <= Copies(pending, r)
    BY <1>0, <1>4
  <2> QED BY <1>2, <1>4, <2>1, Prices, DieIsPaid
<1>5. CASE proc = "up" /\ Requeue(job)
  <2>1. \/ Copies(pending', r) <= Copies(pending, r)
        \/ Copies(pending', r) = Copies(pending, r) + 1 /\ r = w.job.id
    <3>1. Copies(LPush(pending, job), r) = Copies(pending, r) + One(job.id = r)
      BY <1>0, <1>1, CopiesLPush
    <3>2. CASE pending' = pending
      BY <1>0, <3>2
    <3>3. CASE pending' = LPush(pending, job)
      BY <1>0, <1>1, <3>1, <3>3 DEF One
    <3> QED BY <1>5, <3>2, <3>3 DEF Requeue
  <2>2. r = w.job.id => ToSend(r)
    BY <1>0, <1>5 DEF ToSend, Busy
  <2>3. CASE UNCHANGED faults /\ Survive
    <3>1. ToRestore(r)' => ToRestore(r)
      BY <1>2, <2>3 DEF ToRestore, In, Survive
    <3>2. /\ Chances(r)' <= Chances(r)
          /\ r = w.job.id => Chances(r)' + 1 <= Chances(r)
      BY <1>3, <2>2, <3>1, ChancesChange
    <3>3. faults' + crashes' >= faults + crashes
      BY <1>2, <2>3, Prices
    <3> QED BY <1>2, <2>1, <3>2, <3>3, SettledIsPaid DEF Settled
  <2>4. CASE Fault /\ Die({})
    <3>1. CASE Copies(pending', r) <= Copies(pending, r)
      BY <1>2, <2>4, <3>1, Prices, DieIsPaid
    <3>2. CASE Copies(pending', r) = Copies(pending, r) + 1 /\ r = w.job.id
      <4>1. Chances(r)' <= Chances(r)
        BY <1>3, <2>2, <3>2, ChancesChange
      <4>2. faults' + crashes' >= faults + crashes + 1
        BY <1>2, <2>4, Prices
      <4> QED BY <1>2, <3>2, <4>1, <4>2, SettledIsPaid DEF Settled
    <3> QED BY <2>1, <3>1, <3>2
  <2>5. (UNCHANGED faults /\ Survive) \/ (Fault /\ Die({}))
             \/ (UNCHANGED pending /\ Die({w.job.id}) /\ (Fault \/ proc = "stopping"))
    BY <1>2
  <2> QED BY <1>2, <1>4, <1>5, <2>3, <2>4, <2>5
<1> QED BY <1>2, <1>4, <1>5

\* Steps that read nothing for a restoration.
LEMMA OtherStepsKeepOne ==
  ASSUME OneToRestore, Len(processing') <= 1, backlog' \in {backlog, <<>>},
         proc' = "push" => UNCHANGED <<processing, backlog, proc>>
  PROVE  OneToRestore'
<1>1. Len(backlog') <= 1
  BY EmptySeq DEF OneToRestore
<1>2. proc' = "push" => ToSet(backlog') \subseteq ToSet(processing')
  BY DEF OneToRestore
<1> QED BY <1>1, <1>2 DEF OneToRestore

\* A restoration never has more than one entry to put back.
LEMMA OneToRestoreStep ==
  ASSUME TypeOK, RestoreShape, HandInv, OneToRestore, Next
  PROVE  OneToRestore'
<1>0. /\ pending \in Seq(Jobs) /\ processing \in Seq(Jobs) /\ backlog \in Seq(Jobs)
      /\ Len(processing) <= 1 /\ Len(backlog) <= 1 /\ Len(<<>>) <= 1
  BY EmptySeq DEF TypeOK, OneToRestore
<1>d. ASSUME NEW gone, Die(gone), processing' \in {processing, <<>>} PROVE OneToRestore'
  BY <1>0, <1>d, OtherStepsKeepOne DEF Die
<1>1. ASSUME NEW r \in Requests, Enqueue(r) PROVE OneToRestore'
  <2>1. UNCHANGED <<processing, backlog, proc>>
    BY <1>1 DEF Enqueue, Reserve, RejectDuplicate, RecordRequested, PushPending, redis
  <2> QED BY <1>0, <2>1, OtherStepsKeepOne
<1>2. ASSUME NEW k \in Keys, Expire(k) PROVE OneToRestore'
  BY <1>0, <1>2, OtherStepsKeepOne DEF Expire, redis
<1>3. CASE Crash \/ Exit
  BY <1>3, <1>d DEF Crash, Exit, redis
<1>4. CASE Shutdown \/ Restart
  BY <1>0, <1>4, OtherStepsKeepOne DEF Shutdown, Restart, redis
<1>5. CASE RestoreRange
  <2>1. CASE Die({})
    BY <1>5, <1>d, <2>1 DEF RestoreRange, redis
  <2>2. CASE ~Die({})
    <3>1. UNCHANGED processing /\ backlog' = Reverse(processing)
      BY <1>5, <2>2 DEF RestoreRange, redis
    <3>2. ToSet(backlog') = ToSet(processing) /\ Len(backlog') = Len(processing)
      BY <1>0, <3>1, ReverseEntries
    <3> QED BY <1>0, <3>1, <3>2 DEF OneToRestore
  <2> QED BY <2>1, <2>2
<1>6. CASE RestorePush
  <2>1. CASE Die({})
    BY <1>6, <1>d, <2>1 DEF RestorePush
  <2>2. CASE ~Die({})
    <3>1. UNCHANGED processing /\ backlog' = Tail(backlog) /\ backlog # <<>> /\ proc = "push"
      BY <1>6, <2>2 DEF RestorePush, RestoreShape
    <3>2. /\ ToSet(Tail(backlog)) \subseteq ToSet(backlog) /\ Len(backlog) \in Nat
          /\ Len(Tail(backlog)) = Len(backlog) - 1
      BY <1>0, <3>1, TailEntries
    <3>3. Len(Tail(backlog)) <= 1
      BY <1>0, <3>2
    <3>4. ToSet(backlog') \subseteq ToSet(processing') /\ Len(backlog') <= 1
      BY <3>1, <3>2, <3>3 DEF OneToRestore
    <3> QED BY <1>0, <3>1, <3>4 DEF OneToRestore
  <2> QED BY <2>1, <2>2
<1>7. CASE RestoreDel
  <2>1. CASE Die({})
    BY <1>7, <1>d, <2>1 DEF RestoreDel
  <2>2. CASE ~Die({})
    <3>1. processing' = <<>> /\ UNCHANGED backlog /\ proc' = "up"
      BY <1>7, <2>2 DEF RestoreDel
    <3> QED BY <1>0, <3>1, OtherStepsKeepOne
  <2> QED BY <2>1, <2>2
<1>8. CASE Poll
  <2>1. processing = <<>> /\ proc = "up"
    BY <1>8 DEF HandInv, ProcessingIsInHand, Poll
  <2>2. processing' = processing \/ Len(processing') = 1
    <3>1. ASSUME pending # <<>>, processing' = LPush(processing, Last(pending))
          PROVE  Len(processing') = 1
      <4>1. Last(pending) \in Jobs
        BY <1>0, <3>1, RPopEntries
      <4>2. processing' = <<Last(pending)>>
        BY <2>1, <3>1, <4>1 DEF LPush
      <4>3. \A job \in Jobs : Len(<<job>>) = 1
        OBVIOUS
      <4> QED BY <4>1, <4>2, <4>3
    <3> QED BY <1>8, <3>1 DEF Poll
  <2>3. Len(processing') <= 1
    <3>1. \A n : n = 1 => n <= 1
      OBVIOUS
    <3> QED BY <1>0, <2>2, <3>1
  <2>4. backlog' \in {backlog, <<>>} /\ proc' # "push"
    BY <1>8, <2>1 DEF Poll, Survive, Die
  <2> QED BY <2>3, <2>4, OtherStepsKeepOne
<1>9. CASE ProcessJob
  <2>1. Busy
    BY <1>9 DEF ProcessJob, Busy, At, TryProvider, RecordSent, RemoveSent, RecordSkipped,
                RemoveSkipped, RecordFailed, RemoveFailed, PushFailed
  <2>2. LRem(processing, w.job) = <<>> /\ proc # "push"
    <3>1. w.job \in Jobs /\ processing \in {<<>>, <<w.job>>}
      BY <2>1, InHandType DEF HandInv, ProcessingIsInHand
    <3> QED BY <2>1, <3>1, LRemOnly DEF HandInv
  <2>3. processing' \in {processing, <<>>}
    BY <1>9, <2>2 DEF ProcessJob, TryProvider, RecordSent, RemoveSent, RecordSkipped,
                      RemoveSkipped, RecordFailed, RemoveFailed, PushFailed, redis
  <2>4. backlog' \in {backlog, <<>>} /\ proc' # "push"
    <3>1. Survive \/ \E gone : Die(gone)
      BY <1>9 DEF ProcessJob, TryProvider, RecordSent, RemoveSent, RecordSkipped,
                  RemoveSkipped, RecordFailed, RemoveFailed, PushFailed
    <3> QED BY <2>2, <3>1 DEF Survive, Die
  <2> QED BY <1>0, <2>3, <2>4, OtherStepsKeepOne
<1> QED BY <1>1, <1>2, <1>3, <1>4, <1>5, <1>6, <1>7, <1>8, <1>9 DEF Next, Restore

\* Every step pays for what it makes due.
LEMMA EveryStepIsPaid ==
  ASSUME TypeOK, TypeOK', RestoreShape, HandInv, OneToRestore, Next, NEW r \in Requests
  PROVE  Paid(r)
<1>c. Copies(pending, r) \in Nat
  BY DueType
<1>1. ASSUME NEW s \in Requests, Enqueue(s) PROVE Paid(r)
  BY <1>1, EnqueueIsPaid
<1>2. ASSUME NEW k \in Keys, Expire(k) PROVE Paid(r)
  <2>1. UNCHANGED <<pending, processing, w, mails, proc, faults, crashes>> /\ UNCHANGED ToPush(r)
    BY <1>2 DEF Expire, redis, ToPush
  <2> QED BY <2>1, Prices, QuietIsPaid
<1>3. CASE Crash \/ Exit
  <2>1. /\ UNCHANGED <<pending, processing, mails, faults>> /\ \E gone : Die(gone)
        /\ crashes' = crashes + 1 \/ (proc = "stopping" /\ UNCHANGED crashes)
    BY <1>3 DEF Crash, Exit, redis, bounds
  <2>2. PICK gone : Die(gone)
    BY <2>1
  <2>3. Copies(pending', r) <= Copies(pending, r)
    BY <1>c, <2>1
  <2> QED BY <2>1, <2>2, <2>3, Prices, DieIsPaid
<1>4. CASE Shutdown
  <2>1. /\ UNCHANGED <<pending, processing, w, mails, faults>> /\ UNCHANGED ToPush(r)
        /\ proc = "up" /\ proc' = "stopping" /\ crashes' = crashes + 1
    BY <1>4 DEF Shutdown, redis, ToPush
  <2> QED BY <2>1, Prices, QuietIsPaid
<1>5. CASE Restart
  <2>1. /\ UNCHANGED <<pending, processing, w, mails, faults, crashes>> /\ UNCHANGED ToPush(r)
        /\ proc = "down" /\ proc' = "range"
    BY <1>5 DEF Restart, redis, bounds, ToPush
  <2> QED BY <2>1, Prices, QuietIsPaid
<1>6. CASE Restore
  BY <1>6, RestoreIsPaid
<1>7. CASE Poll
  BY <1>7, PollIsPaid
<1>8. CASE ProcessJob
  <2>1. Busy
    BY <1>8 DEF ProcessJob, Busy, At, TryProvider, RecordSent, RemoveSent, RecordSkipped,
                RemoveSkipped, RecordFailed, RemoveFailed, PushFailed
  <2> QED BY <1>8, <2>1, TryProviderIsPaid, RecordIsPaid, PushFailedIsPaid DEF ProcessJob
<1> QED BY <1>1, <1>2, <1>3, <1>4, <1>5, <1>6, <1>7, <1>8 DEF Next

\* At the beginning each request has one chance: its call of enqueue.
LEMMA BudgetInit == Init => BudgetInv
<1> SUFFICES ASSUME Init PROVE BudgetInv
  OBVIOUS
<1>1. OneToRestore
  BY EmptySeq DEF Init, OneToRestore
<1>2. ASSUME NEW r \in Requests PROVE Due(r) <= 1 + (faults + crashes)
  <2>1. mails[r] = 0 /\ faults = 0 /\ crashes = 0 /\ Copies(pending, r) = 0
    BY CopiesEmpty DEF Init
  <2>2. Chances(r) \in {0, 1}
    BY DEF Init, Chances, One, ToRestore, ToSend, Busy, IdleWorker, In, ToSet
  <2> QED BY <2>1, <2>2 DEF Due
<1> QED BY <1>1, <1>2 DEF BudgetInv

\* Every step keeps BudgetInv.
LEMMA BudgetStep ==
  ASSUME TypeOK, TypeOK', RestoreShape, HandInv, BudgetInv, Next
  PROVE  BudgetInv'
<1>1. OneToRestore'
  BY OneToRestoreStep DEF BudgetInv
<1>2. ASSUME NEW r \in Requests PROVE (Due(r) <= 1 + (faults + crashes))'
  <2>1. Due(r) \in Nat /\ (faults + crashes) \in Nat
    BY DueType
  <2>2. Due(r)' \in Nat /\ (faults' + crashes') \in Nat
    <3>1. /\ mails'[r] \in Nat /\ Copies(pending', r) \in Nat
          /\ Chances(r)' \in Nat /\ (faults' + crashes') \in Nat
      BY DueTypeNext
    <3>2. \A a, b, c \in Nat : a + b + c \in Nat
      OBVIOUS
    <3>3. mails'[r] + Copies(pending', r) + Chances(r)' \in Nat
      BY <3>1, <3>2
    <3> QED BY <3>1, <3>3 DEF Due
  <2>3. Due(r)' + (faults + crashes) <= Due(r) + (faults' + crashes')
    BY EveryStepIsPaid DEF BudgetInv, Paid
  <2>4. Due(r) <= 1 + (faults + crashes)
    BY DEF BudgetInv
  <2>5. \A d, x, d1, x1 \in Nat : d1 + x <= d + x1 /\ d <= 1 + x => d1 <= 1 + x1
    OBVIOUS
  <2>6. Due(r)' <= 1 + (faults' + crashes')
    BY <2>1, <2>2, <2>3, <2>4, <2>5
  <2> QED BY <2>6
<1> QED BY <1>1, <1>2 DEF BudgetInv

\* Steps that leave every variable alone.
LEMMA BudgetStutter ==
  ASSUME BudgetInv, UNCHANGED vars
  PROVE  BudgetInv'
BY DEF vars, BudgetInv, OneToRestore, Due, Chances, ToPush, ToRestore, ToSend, Busy, At, In

\* What is due is paid for in every state.
LEMMA BudgetInvInductive == Spec => []BudgetInv
<1>1. TypeOK /\ TypeOK' /\ RestoreShape /\ HandInv /\ BudgetInv /\ [Next]_vars => BudgetInv'
  BY BudgetStep, BudgetStutter
<1> QED BY <1>1, BudgetInit, HandInvInductive, TypeCorrect, PTL DEF Spec

\* Mails are bounded from above: one failed command, lost answer, kill or shutdown leaves at most
\* one more copy of a mail, wherever in enqueue, the restoration or the drain loop it strikes.
THEOREM MailBudgetHolds == Spec => []MailBudget
<1>1. TypeOK /\ BudgetInv => MailBudget
  <2> SUFFICES ASSUME TypeOK, BudgetInv, NEW r \in Requests
               PROVE  mails[r] <= 1 + faults + crashes
    BY DEF MailBudget
  <2>1. /\ mails[r] \in Nat /\ Copies(pending, r) \in Nat
        /\ Chances(r) \in Nat /\ faults \in Nat /\ crashes \in Nat
    BY DueType DEF TypeOK
  <2>2. mails[r] + Copies(pending, r) + Chances(r) <= 1 + (faults + crashes)
    BY DEF BudgetInv, Due
  <2> QED BY <2>1, <2>2
<1> QED BY <1>1, BudgetInvInductive, TypeCorrect, PTL

----------------------------------------------------------------------------
(* The delivery that the callers of enqueue are promised *)

\* Only a job that entered the pending list is in a list or in hand.
OwedIsEnqueued == \A r \in Requests : Owed(r) => Enqueued(r)

\* A mail left for every job that was, or is about to be, recorded as sent.
SentWereMailed == /\ \A r \in Requests : Recorded(r, "sent") => mails[r] > 0
                  /\ At("sentEvent") => mails[w.job.id] > 0

DeliverInv == OwedIsEnqueued /\ SentWereMailed

\* A job that no step settles any more keeps its end.
EndStays(r) == /\ Recorded(r, "sent")' <=> Recorded(r, "sent")
               /\ Recorded(r, "skipped")' <=> Recorded(r, "skipped")
               /\ In(dead', r) <=> In(dead, r)

\* A step that sends no mail and accepts no email settles those that it leaves nowhere.
LEMMA CalmStepDelivers ==
  ASSUME UNCHANGED mails, OwedIsEnqueued,
         \A r \in Requests : Enqueued(r)' <=> Enqueued(r),
         \A r \in Requests : Owed(r)' => Owed(r),
         \A r \in Requests : ~Owed(r) => EndStays(r),
         \A r \in Requests : Recorded(r, "sent")' => mails[r] > 0
  PROVE  OwedIsEnqueued' /\ [Delivery!Next]_(Delivery!vars)
<1> DEFINE R == {r \in Requests : Owed(r) /\ ~Owed(r)'}
<1>1. OwedIsEnqueued'
  BY DEF OwedIsEnqueued
<1>2. ASSUME NEW r \in R
      PROVE  /\ Verdict(r) = "owed" /\ Verdict(r)' \in Delivery!Verdicts
             /\ Verdict(r)' = "sent" => mails[r] > 0
  BY DEF OwedIsEnqueued, Verdict, Delivery!Verdicts
<1>3. ASSUME NEW r \in Requests \ R PROVE Verdict(r)' = Verdict(r)
  <2>1. CASE Owed(r)
    BY <1>3, <2>1 DEF Verdict
  <2>2. CASE ~Owed(r)
    BY <2>2 DEF Verdict, EndStays
  <2> QED BY <2>1, <2>2
<1> HIDE DEF R
<1>4. R \in SUBSET Requests
  BY DEF R
<1>5. CASE R = {}
  BY <1>1, <1>3, <1>5 DEF Delivery!vars
<1>6. CASE R # {}
  <2>1. Delivery!Settle(R)
    <3> DEFINE v == [r \in R |-> Verdict(r)']
    <3>1. v \in [R -> Delivery!Verdicts] /\ \A r \in R : v[r] = "sent" => mails[r] > 0
      BY <1>2
    <3>2. [r \in Requests |-> Verdict(r)]'
            = [r \in Requests |-> IF r \in R THEN v[r] ELSE [q \in Requests |-> Verdict(q)][r]]
      BY <1>3, <1>4
    <3>3. \A r \in R : [q \in Requests |-> Verdict(q)][r] = "owed"
      BY <1>2, <1>4
    <3> HIDE DEF v
    <3> QED BY <1>6, <3>1, <3>2, <3>3 DEF Delivery!Settle
  <2> QED BY <1>1, <1>4, <2>1 DEF Delivery!Next
<1> QED BY <1>5, <1>6

\* An event of one request leaves the records of the others, and of other ends, alone.
LEMMA OneRecord ==
  ASSUME NEW s, NEW status, NEW n, events' \in {events, events \cup {Event(s, status, n)}}
  PROVE  \A r, end : r # s \/ end # status => (Recorded(r, end)' <=> Recorded(r, end))
BY DEF Recorded, Event

\* The end of the process, or its life, leaves what was enqueued alone.
LEMMA SameEnqueued ==
  ASSUME TypeOK, (\E gone : Die(gone)) \/ UNCHANGED req
  PROVE  \A r \in Requests : Enqueued(r)' <=> Enqueued(r)
BY DEF TypeOK, Die, Enqueued, InProgress

\* What a step of the drain loop does to the jobs that it has not in hand: nothing, except that
\* it may leave fewer of their entries.
LEMMA JobStepOfOthers ==
  ASSUME TypeOK, Busy, ProcessJob
  PROVE  /\ \A r \in Requests : Enqueued(r)' <=> Enqueued(r)
         /\ \A r \in Requests : Owed(r)' => Owed(r)
         /\ \A r \in Requests : ~Owed(r) => EndStays(r)
<1>0. /\ w.job \in Jobs /\ pending \in Seq(Jobs) /\ processing \in Seq(Jobs) /\ dead \in Seq(Jobs)
      /\ w \in [pc : WorkerSteps, job : Jobs \cup {NoJob}, next : Nat]
  BY InHandType DEF TypeOK
<1> DEFINE job == [w.job EXCEPT !.attempts = @ + 1]
<1>1. job \in Jobs /\ job.id = w.job.id
  <2>1. w.job \in [id : Requests, attempts : Nat]
    BY <1>0 DEF Jobs
  <2> QED BY <2>1 DEF Jobs
<1>2. Survive \/ \E gone : Die(gone)
  BY DEF ProcessJob, TryProvider, RecordSent, RemoveSent, RecordSkipped, RemoveSkipped,
         RecordFailed, RemoveFailed, PushFailed
<1>3. \A r \in Requests : Enqueued(r)' <=> Enqueued(r)
  BY <1>2, SameEnqueued DEF Survive
<1>4. /\ processing' \in {processing, LRem(processing, w.job)}
      /\ \/ UNCHANGED <<pending, dead>>
         \/ pending' = LPush(pending, job) /\ UNCHANGED dead
         \/ dead' = LPush(dead, job) /\ UNCHANGED pending
  BY DEF ProcessJob, TryProvider, RecordSent, RemoveSent, RecordSkipped, RemoveSkipped,
         RecordFailed, RemoveFailed, PushFailed, Requeue, redis
<1>5. \E status \in Statuses : \E n : events' \in {events, events \cup {Event(w.job.id, status, n)}}
  BY DEF ProcessJob, TryProvider, RecordSent, RemoveSent, RecordSkipped, RemoveSkipped,
         RecordFailed, RemoveFailed, PushFailed, EventOk, EventFails, Statuses
<1>6. w'.pc = "idle" \/ w'.job = w.job
  <2>1. CASE \E gone : Die(gone)
    BY <2>1 DEF Die, IdleWorker
  <2>2. CASE TryProvider
    <3>1. \E step : w' = [w EXCEPT !.pc = step] \/ w' = [w EXCEPT !.next = @ + 1]
      BY <2>2 DEF TryProvider, NextProvider, Goto
    <3> QED BY <1>0, <3>1
  <2>3. CASE ~TryProvider /\ ~ \E gone : Die(gone)
    <3>1. w' = IdleWorker \/ \E step : w' = [w EXCEPT !.pc = step]
      BY <2>3 DEF ProcessJob, RecordSent, RemoveSent, RecordSkipped, RemoveSkipped,
         RecordFailed, RemoveFailed, PushFailed, Goto, Finish
    <3> QED BY <1>0, <3>1 DEF IdleWorker
  <2> QED BY <2>1, <2>2, <2>3
<1> HIDE DEF job
<1>7. ASSUME NEW r \in Requests, r # w.job.id
      PROVE  /\ In(pending', r) <=> In(pending, r)
             /\ In(processing', r) => In(processing, r)
             /\ EndStays(r)
  <2>1. In(LPush(pending, job), r) <=> In(pending, r)
    BY <1>0, <1>1, <1>7, InLPush
  <2>2. In(LPush(dead, job), r) <=> In(dead, r)
    BY <1>0, <1>1, <1>7, InLPush
  <2>3. In(LRem(processing, w.job), r) <=> In(processing, r)
    BY <1>0, <1>7, InLRem
  <2>4. \A end : Recorded(r, end)' <=> Recorded(r, end)
    BY <1>5, <1>7, OneRecord
  <2> QED BY <1>4, <2>1, <2>2, <2>3, <2>4 DEF EndStays
<1>8. \A r \in Requests : Owed(r)' => Owed(r)
  <2>1. ASSUME NEW r \in Requests, Owed(r)', r # w.job.id PROVE Owed(r)
    BY <1>6, <1>7, <2>1 DEF Owed, Busy, In
  <2>2. Owed(w.job.id)
    BY DEF Owed
  <2> QED BY <2>1, <2>2
<1>9. \A r \in Requests : ~Owed(r) => EndStays(r)
  <2>1. Owed(w.job.id)
    BY DEF Owed
  <2> QED BY <1>7, <2>1
<1> QED BY <1>3, <1>8, <1>9

\* The mails: one leaves for a job that was, or is about to be, recorded as sent.
LEMMA SentStep ==
  ASSUME TypeOK, SentWereMailed, Next
  PROVE  SentWereMailed'
<1>0. /\ w \in [pc : WorkerSteps, job : Jobs \cup {NoJob}, next : Nat]
      /\ mails \in [Requests -> Nat]
  BY DEF TypeOK
<1>c. ASSUME UNCHANGED mails, \A q \in Requests : Recorded(q, "sent")' => Recorded(q, "sent"),
             At("sentEvent")' => At("sentEvent") /\ UNCHANGED w
      PROVE  SentWereMailed'
  BY <1>c DEF SentWereMailed, At
<1>d. ASSUME NEW gone, Die(gone) PROVE ~At("sentEvent")'
  BY <1>d DEF Die, IdleWorker, At
<1>1. ASSUME NEW r \in Requests, Enqueue(r) PROVE SentWereMailed'
  <2>1. UNCHANGED <<w, mails>>
    BY <1>1 DEF Enqueue, Reserve, RejectDuplicate, RecordRequested, PushPending
  <2>2. \E status \in {"requested", "duplicate"} :
          events' \in {events, events \cup {Event(r, status, 0)}}
    BY <1>1 DEF Enqueue, Reserve, RejectDuplicate, RecordRequested, PushPending, EventOk, EventFails
  <2>3. \A q \in Requests : Recorded(q, "sent")' <=> Recorded(q, "sent")
    BY <2>2, OneRecord
  <2> QED BY <1>c, <2>1, <2>3 DEF At
<1>2. CASE \/ \E k \in Keys : Expire(k)
           \/ Crash \/ Shutdown \/ Exit \/ Restart \/ Restore \/ Poll
  <2>1. UNCHANGED <<events, mails>>
    BY <1>2 DEF Expire, Crash, Shutdown, Exit, Restart, Restore, RestoreRange, RestorePush,
                RestoreDel, Poll
  <2>2. UNCHANGED w \/ (\E gone : Die(gone)) \/ w' = StartJob(Last(pending))
    BY <1>2 DEF Expire, Crash, Shutdown, Exit, Restart, Restore, RestoreRange, RestorePush,
                RestoreDel, Poll
  <2>3. At("sentEvent")' => At("sentEvent") /\ UNCHANGED w
    BY <1>d, <2>2 DEF StartJob, At
  <2> QED BY <1>c, <2>1, <2>3 DEF Recorded
<1>3. CASE TryProvider
  <2>0. w.job.id \in Requests /\ UNCHANGED events
    <3>1. Busy
      BY <1>3 DEF TryProvider, Busy, At
    <3> QED BY <1>3, <3>1, InHandType DEF TryProvider
  <2>1. mails' \in {mails, [mails EXCEPT ![w.job.id] = @ + 1]}
    BY <1>3 DEF TryProvider
  <2>2. \A q \in Requests : mails[q] > 0 => mails'[q] > 0
    BY <1>0, <2>1
  <2>3. At("sentEvent")' => mails'[w'.job.id] > 0
    <3>1. CASE Goto("sentEvent") /\ mails' = [mails EXCEPT ![w.job.id] = @ + 1]
      <4>1. w'.job = w.job
        BY <1>0, <3>1 DEF Goto
      <4>2. mails'[w.job.id] > 0
        BY <1>0, <2>0, <3>1
      <4> QED BY <4>1, <4>2
    <3>2. CASE NextProvider("failEvent") \/ NextProvider("skipEvent")
      <4>1. w' \in {[w EXCEPT !.next = w.next + 1], [w EXCEPT !.pc = "failEvent"],
                    [w EXCEPT !.pc = "skipEvent"]}
        BY <3>2 DEF NextProvider, Goto
      <4>2. w.pc = "send"
        BY <1>3 DEF TryProvider, At
      <4> QED BY <1>0, <4>1, <4>2 DEF At
    <3> QED BY <1>3, <3>1, <3>2 DEF TryProvider
  <2> QED BY <2>0, <2>2, <2>3 DEF SentWereMailed, Recorded
<1>4. CASE RecordSent
  <2>1. /\ UNCHANGED mails /\ At("sentEvent")
        /\ \E n : events' \in {events, events \cup {Event(w.job.id, "sent", n)}}
        /\ Goto("sentRem") \/ Goto("failEvent")
    BY <1>4 DEF RecordSent, EventOk, EventFails
  <2>2. \A q \in Requests : Recorded(q, "sent")' => Recorded(q, "sent") \/ q = w.job.id
    BY <2>1, OneRecord
  <2>3. ~At("sentEvent")'
    BY <1>0, <2>1 DEF Goto, At
  <2> QED BY <2>1, <2>2, <2>3 DEF SentWereMailed
<1>5. CASE \/ RemoveSent \/ RecordSkipped \/ RemoveSkipped
           \/ RecordFailed \/ RemoveFailed \/ PushFailed
  <2>1. /\ UNCHANGED mails
        /\ \E status \in {"skipped", "failed"} :
             \E n : events' \in {events, events \cup {Event(w.job.id, status, n)}}
    BY <1>5 DEF RemoveSent, RecordSkipped, RemoveSkipped, RecordFailed, RemoveFailed, PushFailed,
                EventOk, EventFails
  <2>2. \A q \in Requests : Recorded(q, "sent")' <=> Recorded(q, "sent")
    BY <2>1, OneRecord
  <2>3. (\E gone : Die(gone)) \/ w' = IdleWorker
          \/ \E step \in WorkerSteps \ {"sentEvent"} : w' = [w EXCEPT !.pc = step]
    BY <1>5 DEF RemoveSent, RecordSkipped, RemoveSkipped, RecordFailed, RemoveFailed, PushFailed,
                Goto, Finish, WorkerSteps
  <2>4. ~At("sentEvent")'
    BY <1>0, <1>d, <2>3 DEF IdleWorker, At
  <2> QED BY <1>c, <2>1, <2>2, <2>4
<1> QED BY <1>1, <1>2, <1>3, <1>4, <1>5 DEF Next, ProcessJob

\* The acceptance: the LPUSH of enqueue, answered or not.
LEMMA PushAccepts ==
  ASSUME TypeOK, OwedIsEnqueued, UNCHANGED <<mails, processing, dead, events, w>>,
         NEW r \in Requests, req[r] = "push",
         pending' = LPush(pending, [id |-> r, attempts |-> 0]),
         NEW step \in {"queued", "unanswered"}, req' = [req EXCEPT ![r] = step]
  PROVE  OwedIsEnqueued' /\ [Delivery!Next]_(Delivery!vars)
<1>1. pending \in Seq(Jobs) /\ [id |-> r, attempts |-> 0] \in Jobs
      /\ req \in [Requests -> RequestSteps]
  BY DEF TypeOK, Jobs
<1>2. \A q \in Requests : In(pending', q) <=> q = r \/ In(pending, q)
  BY <1>1, InLPush
<1>3. /\ \A q \in Requests : In(processing', q) <=> In(processing, q)
      /\ \A q \in Requests : In(dead', q) <=> In(dead, q)
      /\ Busy' <=> Busy
  BY DEF In, Busy
<1>4. \A q \in Requests : Owed(q)' <=> q = r \/ Owed(q)
  BY <1>2, <1>3 DEF Owed
<1>5. /\ ~Enqueued(r) /\ Enqueued(r)'
      /\ \A q \in Requests : q # r => (Enqueued(q)' <=> Enqueued(q))
  BY <1>1 DEF Enqueued
<1>6. OwedIsEnqueued'
  BY <1>4, <1>5 DEF OwedIsEnqueued
<1>7. Verdict(r) = "new" /\ Verdict(r)' = "owed"
  BY <1>4, <1>5 DEF Verdict
<1>8. ASSUME NEW q \in Requests, q # r PROVE Verdict(q)' = Verdict(q)
  <2>1. \A status : Recorded(q, status)' <=> Recorded(q, status)
    BY DEF Recorded
  <2> QED BY <1>3, <1>4, <1>5, <1>8, <2>1 DEF Verdict
<1>9. Delivery!Accept(r)
  BY <1>7, <1>8 DEF Delivery!Accept
<1> QED BY <1>6, <1>9 DEF Delivery!Next

\* The other steps of enqueue, and a push that is refused: nothing is owed yet.
LEMMA EnqueueDelivers ==
  ASSUME TypeOK, DeliverInv, SentWereMailed', NEW r \in Requests, Enqueue(r)
  PROVE  OwedIsEnqueued' /\ [Delivery!Next]_(Delivery!vars)
<1>1. /\ UNCHANGED <<processing, dead, w, mails>>
      /\ req[r] \in {"new", "dup", "requested", "push"} /\ req \in [Requests -> RequestSteps]
  BY DEF Enqueue, Reserve, RejectDuplicate, RecordRequested, PushPending, redis, TypeOK
<1>2. \/ UNCHANGED pending /\ \E step \in {"requested", "dup", "failed", "duplicate", "push"} :
                                 req' = [req EXCEPT ![r] = step]
      \/ /\ req[r] = "push" /\ UNCHANGED events
         /\ pending' = LPush(pending, [id |-> r, attempts |-> 0])
         /\ \E step \in {"queued", "unanswered"} : req' = [req EXCEPT ![r] = step]
  <2>1. CASE Reserve(r)
    BY <2>1 DEF Reserve, redis
  <2>2. CASE RejectDuplicate(r) \/ RecordRequested(r)
    BY <2>2 DEF RejectDuplicate, RecordRequested, redis
  <2>3. CASE PushPending(r)
    BY <2>3 DEF PushPending
  <2> QED BY <2>1, <2>2, <2>3 DEF Enqueue
<1>3. CASE UNCHANGED pending /\ \E step \in {"requested", "dup", "failed", "duplicate", "push"} :
                                  req' = [req EXCEPT ![r] = step]
  <2>1. \A q \in Requests : Enqueued(q)' <=> Enqueued(q)
    BY <1>1, <1>3 DEF Enqueued
  <2>2. \A q \in Requests : Owed(q)' <=> Owed(q)
    BY <1>1, <1>3 DEF Owed, In, Busy
  <2>3. \E status \in {"requested", "duplicate"} :
          events' \in {events, events \cup {Event(r, status, 0)}}
    BY DEF Enqueue, Reserve, RejectDuplicate, RecordRequested, PushPending, EventOk, EventFails
  <2>4. \A q \in Requests : EndStays(q)
    <3>1. \A q \in Requests : \A end \in {"sent", "skipped"} :
             Recorded(q, end)' <=> Recorded(q, end)
      BY <2>3, OneRecord
    <3> QED BY <1>1, <3>1 DEF EndStays, In
  <2> QED BY <1>1, <2>1, <2>2, <2>4, CalmStepDelivers DEF DeliverInv, SentWereMailed
<1>4. CASE ~UNCHANGED pending \/ ~\E step \in {"requested", "dup", "failed", "duplicate", "push"} :
                                  req' = [req EXCEPT ![r] = step]
  BY <1>1, <1>2, <1>4, PushAccepts DEF DeliverInv
<1> QED BY <1>3, <1>4

\* The environment, the restoration and the timer: an entry that they move was owed, and is
\* owed until they drop it.
LEMMA HostDelivers ==
  ASSUME TypeOK, RestoreShape, OneToRestore, DeliverInv, SentWereMailed',
         \/ \E k \in Keys : Expire(k)
         \/ Crash \/ Shutdown \/ Exit \/ Restart \/ Restore \/ Poll
  PROVE  OwedIsEnqueued' /\ [Delivery!Next]_(Delivery!vars)
<1>0. pending \in Seq(Jobs) /\ processing \in Seq(Jobs) /\ backlog \in Seq(Jobs)
  BY DEF TypeOK
<1>1. /\ UNCHANGED <<mails, events, dead>>
      /\ UNCHANGED req \/ \E gone : Die(gone)
  BY DEF Expire, Crash, Shutdown, Exit, Restart, Restore, RestoreRange, RestorePush, RestoreDel,
         Poll, Survive, redis
<1>2. \A q \in Requests : Enqueued(q)' <=> Enqueued(q)
  BY <1>1, SameEnqueued
<1>3. \A q \in Requests : EndStays(q)
  BY <1>1 DEF EndStays, Recorded, In
<1>4. ASSUME \A q \in Requests : In(pending', q) => Owed(q),
             \A q \in Requests : In(processing', q) => Owed(q),
             \A q \in Requests : Busy' /\ w'.job.id = q => Owed(q)
      PROVE  OwedIsEnqueued' /\ [Delivery!Next]_(Delivery!vars)
  <2>1. \A q \in Requests : Owed(q)' => Owed(q)
    BY <1>4 DEF Owed
  <2> QED BY <1>1, <1>2, <1>3, <2>1, CalmStepDelivers DEF DeliverInv, SentWereMailed
<1>5. ASSUME UNCHANGED w \/ \E gone : Die(gone), NEW q \in Requests, Busy', w'.job.id = q
      PROVE  Owed(q)
  BY <1>5 DEF Die, IdleWorker, Busy, Owed
<1>6. CASE (\E k \in Keys : Expire(k)) \/ Crash \/ Shutdown \/ Exit \/ Restart \/ RestoreRange
  <2>1. UNCHANGED <<pending, processing>> /\ (UNCHANGED w \/ \E gone : Die(gone))
    BY <1>6 DEF Expire, Crash, Shutdown, Exit, Restart, RestoreRange, redis
  <2>2. \A q \in Requests : (In(pending', q) => Owed(q)) /\ (In(processing', q) => Owed(q))
    BY <2>1 DEF Owed, In
  <2> QED BY <1>4, <1>5, <2>1, <2>2
<1>7. CASE RestorePush
  <2>1. Head(backlog) \in Jobs /\ Head(backlog) \in ToSet(processing)
    <3>1. backlog # <<>> /\ ToSet(backlog) \subseteq ToSet(processing)
      BY <1>7 DEF RestorePush, RestoreShape, OneToRestore
    <3>2. Head(backlog) \in Jobs /\ Head(backlog) \in ToSet(backlog)
      BY <1>0, <3>1, TailEntries
    <3> QED BY <3>1, <3>2
  <2>2. /\ pending' \in {pending, LPush(pending, Head(backlog))} /\ UNCHANGED processing
        /\ UNCHANGED w \/ \E gone : Die(gone)
    BY <1>7 DEF RestorePush
  <2>3. \A q \in Requests : In(pending', q) => In(pending, q) \/ In(processing, q)
    <3>1. \A q \in Requests : In(LPush(pending, Head(backlog)), q)
                              <=> Head(backlog).id = q \/ In(pending, q)
      BY <1>0, <2>1, InLPush
    <3>2. In(processing, Head(backlog).id)
      BY <2>1 DEF In
    <3> QED BY <2>2, <3>1, <3>2
  <2>4. \A q \in Requests : (In(pending', q) => Owed(q)) /\ (In(processing', q) => Owed(q))
    BY <2>2, <2>3 DEF Owed
  <2> QED BY <1>4, <1>5, <2>2, <2>4
<1>8. CASE RestoreDel
  <2>1. /\ UNCHANGED pending /\ processing' \in {processing, <<>>}
        /\ UNCHANGED w \/ \E gone : Die(gone)
    BY <1>8 DEF RestoreDel
  <2>2. \A q \in Requests : (In(pending', q) => Owed(q)) /\ (In(processing', q) => Owed(q))
    BY <2>1, InEmpty DEF Owed
  <2> QED BY <1>4, <1>5, <2>1, <2>2
<1>9. CASE Poll
  <2>1. CASE UNCHANGED <<pending, processing>> /\ \E gone : Die(gone)
    <3>1. \A q \in Requests : (In(pending', q) => Owed(q)) /\ (In(processing', q) => Owed(q))
      BY <2>1 DEF Owed, In
    <3> QED BY <1>4, <1>5, <2>1, <3>1
  <2>2. CASE /\ pending # <<>> /\ pending' = Front(pending)
             /\ processing' = LPush(processing, Last(pending))
             /\ w' = StartJob(Last(pending)) \/ \E gone : Die(gone)
    <3>1. Last(pending) \in Jobs /\ Front(pending) \in Seq(Jobs)
      BY <1>0, <2>2, RPopEntries
    <3>2. \A q \in Requests : In(pending, q) <=> Last(pending).id = q \/ In(Front(pending), q)
      BY <1>0, <2>2, InRPop
    <3>3. \A q \in Requests : In(LPush(processing, Last(pending)), q)
                              <=> Last(pending).id = q \/ In(processing, q)
      BY <1>0, <3>1, InLPush
    <3>4. \A q \in Requests : (In(pending', q) => Owed(q)) /\ (In(processing', q) => Owed(q))
      BY <2>2, <3>2, <3>3 DEF Owed
    <3>5. \A q \in Requests : Busy' /\ w'.job.id = q => Owed(q)
      <4>1. w' = StartJob(Last(pending)) => w'.job = Last(pending)
        BY DEF StartJob
      <4> QED BY <1>5, <2>2, <3>2, <4>1 DEF Owed
    <3> QED BY <1>4, <3>4, <3>5
  <2> QED BY <1>9, <2>1, <2>2 DEF Poll
<1> QED BY <1>6, <1>7, <1>8, <1>9 DEF Restore

\* A mail leaves: its email is owed, before and after.
LEMMA MailDelivers ==
  ASSUME TypeOK, OwedIsEnqueued, Busy, UNCHANGED <<pending, processing, dead, events, req>>,
         w'.job = w.job, w'.pc # "idle", mails' = [mails EXCEPT ![w.job.id] = @ + 1]
  PROVE  OwedIsEnqueued' /\ [Delivery!Next]_(Delivery!vars)
<1>1. w.job.id \in Requests
  BY InHandType
<1>2. \A q \in Requests : Owed(q)' <=> Owed(q)
  BY DEF Owed, In, Busy
<1>3. \A q \in Requests : Enqueued(q)' <=> Enqueued(q)
  BY DEF Enqueued
<1>4. \A q \in Requests : Verdict(q)' = Verdict(q)
  <2>1. ASSUME NEW q \in Requests PROVE EndStays(q)
    BY DEF EndStays, Recorded, In
  <2> QED BY <1>2, <1>3, <2>1 DEF Verdict, EndStays
<1>5. Verdict(w.job.id) = "owed"
  BY <1>1 DEF OwedIsEnqueued, Verdict, Owed
<1>6. Delivery!Mail(w.job.id)
  BY <1>1, <1>4, <1>5 DEF Delivery!Mail
<1>7. OwedIsEnqueued'
  BY <1>2, <1>3 DEF OwedIsEnqueued
<1>8. Delivery!Next
  <2>1. PICK r \in Requests : r = w.job.id
    BY <1>1
  <2>2. Delivery!Mail(r)
    BY <1>6, <2>1
  <2> QED BY <2>2 DEF Delivery!Next
<1> QED BY <1>7, <1>8

\* The drain loop.
LEMMA JobDelivers ==
  ASSUME TypeOK, DeliverInv, SentWereMailed', ProcessJob
  PROVE  OwedIsEnqueued' /\ [Delivery!Next]_(Delivery!vars)
<1>1. Busy
  BY DEF ProcessJob, Busy, At, TryProvider, RecordSent, RemoveSent, RecordSkipped,
         RemoveSkipped, RecordFailed, RemoveFailed, PushFailed
<1>2. CASE UNCHANGED mails
  <2>1. \A r \in Requests : Recorded(r, "sent")' => mails[r] > 0
    BY <1>2 DEF SentWereMailed
  <2> QED BY <1>1, <1>2, <2>1, JobStepOfOthers, CalmStepDelivers DEF DeliverInv
<1>3. CASE ~UNCHANGED mails
  <2>1. /\ UNCHANGED <<pending, processing, dead, events, req>>
        /\ mails' = [mails EXCEPT ![w.job.id] = @ + 1]
        /\ w.pc = "send"
        /\ Goto("sentEvent") \/ NextProvider("failEvent")
    BY <1>3 DEF ProcessJob, TryProvider, RecordSent, RemoveSent, RecordSkipped, RemoveSkipped,
                RecordFailed, RemoveFailed, PushFailed, Survive, redis, At
  <2>2. w'.job = w.job /\ w'.pc # "idle"
    <3>1. w \in [pc : WorkerSteps, job : Jobs \cup {NoJob}, next : Nat]
      BY DEF TypeOK
    <3>2. w' \in {[w EXCEPT !.pc = "sentEvent"], [w EXCEPT !.pc = "failEvent"],
                  [w EXCEPT !.next = w.next + 1]}
      BY <2>1 DEF Goto, NextProvider
    <3> QED BY <2>1, <3>1, <3>2
  <2> QED BY <1>1, <2>1, <2>2, MailDelivers DEF DeliverInv
<1> QED BY <1>2, <1>3

\* With Redis, whatever is killed, restarted or refused on the way, the callers of enqueue get
\* what EmailDelivery promises: an accepted email is owed until it has one final verdict, `sent`
\* only if a mail left, and no mail leaves before the acceptance or after the verdict.
THEOREM QueueDelivers == Spec => Delivery!SafeSpec
<1>1. Init => Delivery!Init /\ DeliverInv
  <2> SUFFICES ASSUME Init PROVE Delivery!Init /\ DeliverInv
    OBVIOUS
  <2>1. \A r \in Requests : ~Enqueued(r) /\ ~Owed(r)
    BY DEF Init, Enqueued, Owed, In, ToSet, Busy, IdleWorker
  <2>2. \A r \in Requests : Verdict(r) = "new"
    BY <2>1 DEF Verdict
  <2>3. OwedIsEnqueued
    BY <2>1 DEF OwedIsEnqueued
  <2>4. SentWereMailed
    BY DEF Init, SentWereMailed, Recorded, At, IdleWorker
  <2>5. Delivery!Init
    BY <2>2 DEF Init, Delivery!Init
  <2> QED BY <2>3, <2>4, <2>5 DEF DeliverInv
<1>2. TypeOK /\ RestoreShape /\ BudgetInv /\ DeliverInv /\ [Next]_vars =>
        DeliverInv' /\ [Delivery!Next]_(Delivery!vars)
  <2> SUFFICES ASSUME TypeOK, RestoreShape, BudgetInv, DeliverInv, [Next]_vars
               PROVE  DeliverInv' /\ [Delivery!Next]_(Delivery!vars)
    OBVIOUS
  <2>1. CASE Next
    <3>1. SentWereMailed'
      BY <2>1, SentStep DEF DeliverInv
    <3>2. OwedIsEnqueued' /\ [Delivery!Next]_(Delivery!vars)
      BY <2>1, <3>1, EnqueueDelivers, HostDelivers, JobDelivers DEF Next, BudgetInv
    <3> QED BY <3>1, <3>2 DEF DeliverInv
  <2>2. CASE UNCHANGED vars
    <3>1. \A q \in Requests : (Owed(q)' <=> Owed(q)) /\ (Enqueued(q)' <=> Enqueued(q))
      BY <2>2 DEF vars, Owed, Enqueued, In, Busy
    <3>4. \A q \in Requests : EndStays(q)
      BY <2>2 DEF vars, EndStays, In, Recorded
    <3>2. SentWereMailed'
      BY <2>2 DEF vars, DeliverInv, SentWereMailed, Recorded, At
    <3>3. UNCHANGED mails
      BY <2>2 DEF vars
    <3>5. \A q \in Requests : Recorded(q, "sent")' => mails[q] > 0
      BY <3>2, <3>3 DEF SentWereMailed
    <3> QED BY <3>1, <3>2, <3>3, <3>4, <3>5, CalmStepDelivers DEF DeliverInv
  <2> QED BY <2>1, <2>2
<1> QED BY <1>1, <1>2, BudgetInvInductive, TypeCorrect, PTL DEF Spec, Delivery!SafeSpec
=============================================================================
