------------------------ MODULE OpsEmailMemoryProofs ------------------------
(***************************************************************************)
(* The queue without Redis keeps its promises for any calls, keys,         *)
(* providers and settings, and for any number of faults and stops.         *)
(***************************************************************************)
EXTENDS OpsEmailMemory, FiniteSetTheorems, TLAPS

\* A key that is still running for some job of this process is in the map.
RunningKeysAreHeld ==
  \A r \in DOMAIN reserved :
    reserved[r].life = crashes /\ now < reserved[r].time + Ttl =>
      /\ KeyOf[r] \in DOMAIN memory
      /\ memory[KeyOf[r]] >= reserved[r].time + Ttl

\* What makes the properties of the keys inductive.
KeyInv == /\ RunningKeysAreHeld
          /\ OneJobPerKeyAndLife
          /\ IsFiniteSet(DOMAIN memory)
          /\ MemoryIsBounded

\* What is known of the mails of a job at each await.
BeforeAnyAnswer == {"new", "requested", "dup", "duplicate", "failed",
                    "send", "skipEvent", "failEvent"}
MailsOf(r) ==
  /\ mails[r] <= 1 + faults
  /\ call[r] \in BeforeAnyAnswer => mails[r] <= faults
  /\ call[r] \in {"sentEvent", "failEvent"} /\ faults = 0 => ~Recorded(r, "sent")
  /\ call[r] \in BeforeAnyAnswer /\ faults = 0 => ~Recorded(r, "sent")
  /\ call[r] = "sentEvent" => mails[r] > 0
  /\ Recorded(r, "failed") => call[r] \in {"ended", "cut"}
  /\ call[r] \in InHand \cup {"ended", "cut", "requested"} => r \in DOMAIN reserved
JobInv == /\ \A r \in Requests : MailsOf(r)
          /\ AcceptedIsAccounted

IInv == TypeOK /\ KeyInv /\ JobInv

----------------------------------------------------------------------------
(* The map of keys *)

LEMMA EmptyDomain == DOMAIN << >> = {}
OBVIOUS

\* A live key is never dropped by the compaction, and no key is made up by it.
LEMMA CompactKeepsLive ==
  ASSUME NEW map, IsFiniteSet(DOMAIN map),
         \A k \in DOMAIN map : map[k] \in Nat /\ map[k] <= now + Ttl,
         now \in Nat
  PROVE  LET c == compactMemoryIdempotency(map) IN
         /\ DOMAIN c \subseteq DOMAIN map
         /\ \A k \in DOMAIN c : c[k] = map[k]
         /\ \A k \in DOMAIN map : map[k] > now => k \in DOMAIN c
         /\ IsFiniteSet(DOMAIN c)
         /\ Cardinality(DOMAIN c) >= CompactFrom => \A k \in DOMAIN c : c[k] > now
<1> DEFINE c == compactMemoryIdempotency(map)
           live == [k \in {x \in DOMAIN map : map[x] > now} |-> map[k]]
<1>0. Cardinality(DOMAIN map) \in Nat /\ CompactFrom \in Nat
  BY FS_CardinalityType, ConstantsAssumption
<1>1. CASE Cardinality(DOMAIN map) < CompactFrom
  <2>1. c = map
    BY <1>1 DEF compactMemoryIdempotency
  <2>2. ~(Cardinality(DOMAIN c) >= CompactFrom)
    BY <1>0, <1>1, <2>1
  <2> HIDE DEF c
  <2>3. /\ DOMAIN c \subseteq DOMAIN map
        /\ \A k \in DOMAIN c : c[k] = map[k]
        /\ \A k \in DOMAIN map : map[k] > now => k \in DOMAIN c
        /\ IsFiniteSet(DOMAIN c)
    BY <2>1
  <2> QED BY <2>2, <2>3 DEF c
<1>2. CASE ~(Cardinality(DOMAIN map) < CompactFrom)
  <2>1. c = live
    BY <1>2 DEF compactMemoryIdempotency
  <2>2. /\ DOMAIN c = {x \in DOMAIN map : map[x] > now}
        /\ \A k \in DOMAIN c : c[k] = map[k]
    <3> HIDE DEF c
    <3> QED BY <2>1
  <2>3. IsFiniteSet(DOMAIN c)
    <3> HIDE DEF c
    <3> QED BY <2>2, FS_Subset
  <2> HIDE DEF c
  <2>4. /\ DOMAIN c \subseteq DOMAIN map
        /\ \A k \in DOMAIN map : map[k] > now => k \in DOMAIN c
        /\ \A k \in DOMAIN c : c[k] > now
    BY <2>2
  <2> QED BY <2>2, <2>3, <2>4 DEF c
<1> QED BY <1>1, <1>2

----------------------------------------------------------------------------
(* Steps *)

\* A step that touches neither the keys nor the process: one call or job goes on.
Advance(r) ==
  /\ UNCHANGED <<memory, reserved, now, crashes>>
  /\ faults' \in Nat /\ faults <= faults'
  /\ \/ UNCHANGED call
     \/ \E step \in Steps \ {"new"} : Goto(r, step)

LEMMA FaultType ==
  ASSUME TypeOK, Fault \/ UNCHANGED faults
  PROVE  faults' \in Nat /\ faults <= faults' /\ (Fault => faults' = faults + 1)
BY DEF TypeOK, Fault

LEMMA AnswerAdvances ==
  ASSUME TypeOK, NEW r \in Requests, Answer(r)
  PROVE  Advance(r) /\ UNCHANGED <<next, mails>>
<1>1. Fault \/ UNCHANGED faults
  BY DEF Answer
<1>2. faults' \in Nat /\ faults <= faults'
  BY <1>1, FaultType
<1>3. UNCHANGED <<memory, reserved, now, crashes, next, mails>>
  BY DEF Answer
<1>4. call[r] \in Answering /\ \E step \in {"duplicate", "send", "failed"} : Goto(r, step)
  BY DEF Answer, At, Answering
<1>5. call[r] # "new"
  BY <1>4 DEF Answering
<1>6. \E step \in Steps \ {"new"} : Goto(r, step)
  BY <1>4 DEF Steps, InHand, Answering
<1> QED BY <1>2, <1>3, <1>5, <1>6 DEF Advance

LEMMA NoSenderAdvances ==
  ASSUME TypeOK, NEW r \in Requests, NoSender(r)
  PROVE  Advance(r) /\ UNCHANGED <<next, mails, events, faults>>
<1>1. UNCHANGED <<memory, reserved, now, crashes, next, mails, events, faults>>
  BY DEF NoSender
<1>2. call[r] # "new" /\ Goto(r, "skipEvent")
  BY DEF NoSender, At
<1>3. "skipEvent" \in Steps \ {"new"} /\ faults' \in Nat /\ faults <= faults'
  BY <1>1 DEF Steps, InHand, TypeOK
<1> QED BY <1>1, <1>2, <1>3 DEF Advance

LEMMA GoOnType ==
  ASSUME TypeOK, NEW r \in Requests, NEW step, GoOn(r, step)
  PROVE  /\ next' \in [Requests -> Nat]
         /\ \A q \in Requests : next'[q] \in 1..Len(Order[q])
         /\ UNCHANGED call \/ Goto(r, step)
<1>0. Len(Order[r]) \in Nat
  BY ConstantsAssumption
<1>1. CASE next[r] < Len(Order[r])
  <2>1. next' = [next EXCEPT ![r] = next[r] + 1] /\ UNCHANGED call
    BY <1>1 DEF GoOn
  <2>2. next \in [Requests -> Nat] /\ \A q \in Requests : next[q] \in 1..Len(Order[q])
    BY DEF TypeOK
  <2>3. next[r] + 1 \in 1..Len(Order[r]) /\ next[r] + 1 \in Nat
    BY <1>0, <1>1, <2>2
  <2> QED BY <2>1, <2>2, <2>3
<1>2. CASE ~(next[r] < Len(Order[r]))
  BY <1>2 DEF TypeOK, GoOn
<1> QED BY <1>1, <1>2

LEMMA TryAdvances ==
  ASSUME TypeOK, NEW r \in Requests, TryProvider(r)
  PROVE  /\ Advance(r) /\ UNCHANGED events
         /\ next' \in [Requests -> Nat]
         /\ \A q \in Requests : next'[q] \in 1..Len(Order[q])
         /\ mails' \in [Requests -> Nat]
         /\ \A q \in Requests : q # r => mails'[q] = mails[q]
         /\ call[r] = "send"
         /\ \/ call'[r] = "sentEvent" /\ mails'[r] = mails[r] + 1 /\ UNCHANGED faults
            \/ /\ call'[r] \in {"send", "skipEvent", "failEvent"}
               /\ mails'[r] = mails[r] /\ UNCHANGED faults
            \/ /\ call'[r] \in {"send", "failEvent"}
               /\ mails'[r] = mails[r] + 1 /\ faults' = faults + 1
<1>0. /\ UNCHANGED <<memory, events, now, reserved, crashes>>
      /\ call[r] = "send" /\ call \in [Requests -> Steps] /\ mails \in [Requests -> Nat]
      /\ next \in [Requests -> Nat] /\ \A q \in Requests : next[q] \in 1..Len(Order[q])
      /\ faults \in Nat
  BY DEF TryProvider, At, TypeOK
<1> DEFINE More == mails' = [mails EXCEPT ![r] = @ + 1]
<1>1. \/ Goto(r, "sentEvent") /\ More /\ UNCHANGED <<next, faults>>
      \/ GoOn(r, "failEvent") /\ UNCHANGED <<mails, faults>>
      \/ Fault /\ GoOn(r, "failEvent") /\ More
      \/ GoOn(r, "skipEvent") /\ UNCHANGED <<mails, faults>>
  BY DEF TryProvider
<1>2. More => /\ mails' \in [Requests -> Nat]
              /\ \A q \in Requests : q # r => mails'[q] = mails[q]
              /\ mails'[r] = mails[r] + 1
  BY <1>0
<1>3. {"sentEvent", "failEvent", "skipEvent", "send"} \subseteq Steps \ {"new"}
  BY DEF Steps, InHand
<1>4. \A step : Goto(r, step) => call'[r] = step
  BY <1>0 DEF Goto
<1> HIDE DEF More
<1>5. CASE Goto(r, "sentEvent") /\ More /\ UNCHANGED <<next, faults>>
  <2>1. Advance(r)
    BY <1>0, <1>3, <1>5 DEF Advance
  <2> QED BY <1>0, <1>2, <1>4, <1>5, <2>1
<1>6. CASE GoOn(r, "failEvent") /\ UNCHANGED <<mails, faults>>
  <2>1. Advance(r)
    BY <1>0, <1>3, <1>6, GoOnType DEF Advance
  <2>2. call'[r] \in {"send", "failEvent"}
    BY <1>0, <1>4, <1>6, GoOnType
  <2> QED BY <1>0, <1>6, <2>1, <2>2, GoOnType
<1>7. CASE Fault /\ GoOn(r, "failEvent") /\ More
  <2>0. faults' = faults + 1 /\ faults' \in Nat /\ faults <= faults'
    BY <1>0, <1>7 DEF Fault
  <2>1. Advance(r)
    BY <1>0, <1>3, <1>7, <2>0, GoOnType DEF Advance
  <2>2. call'[r] \in {"send", "failEvent"}
    BY <1>0, <1>4, <1>7, GoOnType
  <2> QED BY <1>0, <1>2, <1>7, <2>0, <2>1, <2>2, GoOnType
<1>8. CASE GoOn(r, "skipEvent") /\ UNCHANGED <<mails, faults>>
  <2>1. Advance(r)
    BY <1>0, <1>3, <1>8, GoOnType DEF Advance
  <2>2. call'[r] \in {"send", "skipEvent"}
    BY <1>0, <1>4, <1>8, GoOnType
  <2> QED BY <1>0, <1>8, <2>1, <2>2, GoOnType
<1> QED BY <1>1, <1>5, <1>6, <1>7, <1>8

LEMMA RecordSentAdvances ==
  ASSUME TypeOK, NEW r \in Requests, RecordSent(r)
  PROVE  Advance(r) /\ UNCHANGED <<next, mails>>
<1>1. Fault \/ UNCHANGED faults
  BY DEF RecordSent
<1>2. faults' \in Nat /\ faults <= faults'
  BY <1>1, FaultType
<1>3. UNCHANGED <<memory, reserved, now, crashes, next, mails>>
  BY DEF RecordSent
<1>4. call[r] = "sentEvent" /\ \E step \in {"ended", "failEvent"} : Goto(r, step)
  BY DEF RecordSent, At
<1>5. \E step \in Steps \ {"new"} : Goto(r, step)
  BY <1>4 DEF Steps, InHand
<1> QED BY <1>2, <1>3, <1>4, <1>5 DEF Advance

\* A job whose end is recorded is over, or its process is.
LEMMA RecordFailureSteps ==
  ASSUME TypeOK, NEW r \in Requests, RecordFailure(r)
  PROVE  /\ UNCHANGED <<next, mails, now, reserved>>
         /\ \/ Advance(r) /\ Goto(r, "ended") /\ UNCHANGED faults
            \/ Die /\ faults' = faults + 1
<1>1. UNCHANGED <<next, mails, now, reserved>>
  BY DEF RecordFailure
<1>2. \/ Goto(r, "ended") /\ UNCHANGED <<memory, faults, crashes>>
      \/ Die /\ faults' = faults + 1
  BY DEF RecordFailure, Fault
<1>3. call[r] # "new" /\ "ended" \in Steps \ {"new"} /\ faults \in Nat
  BY DEF RecordFailure, At, Steps, TypeOK
<1> QED BY <1>1, <1>2, <1>3 DEF Advance

----------------------------------------------------------------------------
(* Types *)

LEMMA AdvanceKeepsTypes ==
  ASSUME TypeOK, NEW r \in Requests, Advance(r),
         next' \in [Requests -> Nat], mails' \in [Requests -> Nat],
         \A q \in Requests : next'[q] \in 1..Len(Order[q])
  PROVE  TypeOK'
<1>1. call' \in [Requests -> Steps] /\ \A q \in Requests : call[q] # "new" => call'[q] # "new"
  BY DEF Advance, TypeOK, Goto
<1>2. /\ UNCHANGED <<memory, reserved, now, crashes>> /\ faults' \in Nat
  BY DEF Advance
<1>3. DOMAIN reserved \subseteq {q \in Requests : call'[q] # "new"}
  BY <1>1 DEF TypeOK
<1> QED BY <1>1, <1>2, <1>3 DEF TypeOK

LEMMA DieKeepsTypes ==
  ASSUME TypeOK, Die, UNCHANGED <<next, mails, now, reserved>>, faults' \in Nat
  PROVE  TypeOK'
<1>1. /\ call' \in [Requests -> Steps]
      /\ \A q \in Requests : call[q] # "new" => call'[q] # "new"
  BY DEF Die, TypeOK, Steps, Answering, InHand
<1>2. memory' = << >> /\ DOMAIN memory' = {}
  BY EmptyDomain DEF Die
<1>3. crashes' = crashes + 1
  BY DEF Die
<1>4. DOMAIN reserved \subseteq {q \in Requests : call'[q] # "new"}
  BY <1>1 DEF TypeOK
<1>5. \A q \in DOMAIN reserved : reserved[q].life \in 0..crashes'
  BY <1>3 DEF TypeOK
<1>6. next' \in [Requests -> Nat] /\ \A q \in Requests : next'[q] \in 1..Len(Order[q])
  BY DEF TypeOK
<1>7. mails' \in [Requests -> Nat] /\ now' \in Nat /\ crashes' \in Nat
  BY <1>3 DEF TypeOK
<1>8. \A q \in DOMAIN reserved : reserved[q].time \in 0..now
  BY DEF TypeOK
<1> QED BY <1>1, <1>2, <1>4, <1>5, <1>6, <1>7, <1>8 DEF TypeOK

\* What a reservation that is granted does.
Grants(r) ==
  /\ call[r] = "new" /\ call' = [call EXCEPT ![r] = "requested"]
  /\ ~IsLive(memory, KeyOf[r])
  /\ memory' = compactMemoryIdempotency(Set(KeyOf[r]))
  /\ reserved' = [x \in DOMAIN reserved \cup {r} |->
                    IF x = r THEN [life |-> crashes, time |-> now] ELSE reserved[x]]
  /\ UNCHANGED <<next, events, now, mails, faults, crashes>>
Refuses(r) ==
  /\ call[r] = "new" /\ call' = [call EXCEPT ![r] = "dup"]
  /\ UNCHANGED <<memory, reserved, next, events, now, mails, faults, crashes>>

LEMMA ReserveSteps ==
  ASSUME NEW r \in Requests, Reserve(r)
  PROVE  Grants(r) \/ Refuses(r)
BY DEF Reserve, Grants, Refuses, At, Goto

\* The map after a reservation that is granted.
LEMMA GrantedMap ==
  ASSUME TypeOK, IsFiniteSet(DOMAIN memory), NEW r \in Requests, Grants(r)
  PROVE  /\ DOMAIN memory' \subseteq DOMAIN memory \cup {KeyOf[r]}
         /\ KeyOf[r] \in DOMAIN memory' /\ memory'[KeyOf[r]] = now + Ttl
         /\ \A k \in DOMAIN memory' : k # KeyOf[r] => k \in DOMAIN memory /\ memory'[k] = memory[k]
         /\ \A k \in DOMAIN memory : k # KeyOf[r] /\ memory[k] > now => k \in DOMAIN memory'
         /\ IsFiniteSet(DOMAIN memory')
         /\ Cardinality(DOMAIN memory') >= CompactFrom =>
              \A k \in DOMAIN memory' : memory'[k] > now
<1> DEFINE map == Set(KeyOf[r])
<1>1. /\ DOMAIN map = DOMAIN memory \cup {KeyOf[r]}
      /\ map[KeyOf[r]] = now + Ttl
      /\ \A k \in DOMAIN memory : k # KeyOf[r] => map[k] = memory[k]
  BY DEF Set
<1>2. now \in Nat /\ Ttl \in Nat \ {0}
  BY ConstantsAssumption DEF TypeOK
<1>3. \A k \in DOMAIN memory : memory[k] \in Nat /\ memory[k] <= now + Ttl
  BY DEF TypeOK
<1>4. IsFiniteSet(DOMAIN map)
  BY <1>1, FS_AddElement
<1> HIDE DEF map
<1>5. \A k \in DOMAIN map : map[k] \in Nat /\ map[k] <= now + Ttl
  BY <1>1, <1>2, <1>3
<1>6. memory' = compactMemoryIdempotency(map)
  BY DEF Grants, map
<1>7. /\ DOMAIN memory' \subseteq DOMAIN map
      /\ \A k \in DOMAIN memory' : memory'[k] = map[k]
      /\ \A k \in DOMAIN map : map[k] > now => k \in DOMAIN memory'
      /\ IsFiniteSet(DOMAIN memory')
      /\ Cardinality(DOMAIN memory') >= CompactFrom => \A k \in DOMAIN memory' : memory'[k] > now
  BY <1>2, <1>4, <1>5, <1>6, CompactKeepsLive
<1>8. map[KeyOf[r]] > now
  BY <1>1, <1>2
<1> QED BY <1>1, <1>7, <1>8

LEMMA GrantKeepsTypes ==
  ASSUME TypeOK, IsFiniteSet(DOMAIN memory), NEW r \in Requests, Grants(r)
  PROVE  TypeOK'
<1>1. KeyOf[r] \in Keys /\ Ttl \in Nat /\ now \in Nat /\ crashes \in Nat
  BY ConstantsAssumption DEF TypeOK
<1>2. DOMAIN memory' \subseteq Keys
  BY <1>1, GrantedMap DEF TypeOK
<1>3. \A k \in DOMAIN memory' : memory'[k] \in Nat /\ memory'[k] <= now + Ttl
  BY <1>1, GrantedMap DEF TypeOK
<1>4. UNCHANGED <<next, mails, now, faults, crashes>>
  BY DEF Grants
<1>5. call' \in [Requests -> Steps] /\ call'[r] # "new" /\ \A q \in Requests : q # r => call'[q] = call[q]
  BY DEF Grants, TypeOK, Steps, Answering
<1>6. /\ DOMAIN reserved' = DOMAIN reserved \cup {r}
      /\ reserved'[r].life = crashes /\ reserved'[r].time = now
      /\ \A q \in DOMAIN reserved : q # r => reserved'[q] = reserved[q]
  BY DEF Grants
<1>7. DOMAIN reserved' \subseteq {q \in Requests : call'[q] # "new"}
  BY <1>5, <1>6 DEF TypeOK
<1>8. \A q \in DOMAIN reserved' : reserved'[q].life \in 0..crashes /\ reserved'[q].time \in 0..now
  BY <1>1, <1>6 DEF TypeOK
<1> QED BY <1>2, <1>3, <1>4, <1>5, <1>7, <1>8 DEF TypeOK

----------------------------------------------------------------------------
(* Keys *)

LEMMA GrantKeepsKeys ==
  ASSUME TypeOK, KeyInv, NEW r \in Requests, Grants(r)
  PROVE  KeyInv'
<1>0. /\ now \in Nat /\ crashes \in Nat /\ Ttl \in Nat \ {0}
      /\ now' = now /\ crashes' = crashes /\ IsFiniteSet(DOMAIN memory)
      /\ r \notin DOMAIN reserved
      /\ \A q \in DOMAIN reserved : reserved[q].time \in 0..now
      /\ \A k \in DOMAIN memory : memory[k] \in Nat /\ memory[k] <= now + Ttl
  BY ConstantsAssumption DEF TypeOK, Grants, KeyInv
<1>1. /\ DOMAIN reserved' = DOMAIN reserved \cup {r}
      /\ reserved'[r].life = crashes /\ reserved'[r].time = now
      /\ \A q \in DOMAIN reserved : reserved'[q] = reserved[q]
  BY <1>0 DEF Grants
<1>2. \A q \in DOMAIN reserved :
         KeyOf[q] = KeyOf[r] /\ reserved[q].life = crashes => reserved[q].time + Ttl <= now
  <2> SUFFICES ASSUME NEW q \in DOMAIN reserved, KeyOf[q] = KeyOf[r],
                      reserved[q].life = crashes, now < reserved[q].time + Ttl
               PROVE  FALSE
    BY <1>0
  <2>1. KeyOf[r] \in DOMAIN memory /\ memory[KeyOf[r]] >= reserved[q].time + Ttl
    BY DEF KeyInv, RunningKeysAreHeld
  <2>2. memory[KeyOf[r]] > now
    BY <1>0, <2>1
  <2> QED BY <2>1, <2>2 DEF Grants, IsLive
<1>3. RunningKeysAreHeld'
  <2> SUFFICES ASSUME NEW q \in DOMAIN reserved', reserved'[q].life = crashes,
                      now < reserved'[q].time + Ttl
               PROVE  KeyOf[q] \in DOMAIN memory' /\ memory'[KeyOf[q]] >= reserved'[q].time + Ttl
    BY <1>0 DEF RunningKeysAreHeld
  <2>1. CASE KeyOf[q] = KeyOf[r]
    <3>1. q = r
      BY <1>0, <1>1, <1>2, <2>1
    <3> QED BY <1>0, <1>1, <3>1, GrantedMap
  <2>2. CASE KeyOf[q] # KeyOf[r]
    <3>1. q \in DOMAIN reserved /\ reserved'[q] = reserved[q]
      BY <1>1, <2>2
    <3>2. KeyOf[q] \in DOMAIN memory /\ memory[KeyOf[q]] >= reserved[q].time + Ttl
      BY <3>1 DEF KeyInv, RunningKeysAreHeld
    <3>3. memory[KeyOf[q]] > now
      BY <1>0, <3>1, <3>2
    <3>4. KeyOf[q] \in DOMAIN memory' /\ memory'[KeyOf[q]] = memory[KeyOf[q]]
      BY <1>0, <2>2, <3>2, <3>3, GrantedMap
    <3> QED BY <3>1, <3>2, <3>4
  <2> QED BY <2>1, <2>2
<1>4. OneJobPerKeyAndLife'
  <2> SUFFICES ASSUME NEW p \in DOMAIN reserved', NEW q \in DOMAIN reserved',
                      p # q, KeyOf[p] = KeyOf[q], reserved'[p].life = reserved'[q].life,
                      reserved'[p].time <= reserved'[q].time
               PROVE  reserved'[p].time + Ttl <= reserved'[q].time
    BY DEF OneJobPerKeyAndLife
  <2>1. CASE q = r
    BY <1>0, <1>1, <1>2, <2>1
  <2>2. CASE p = r
    <3>1. /\ q \in DOMAIN reserved /\ reserved'[q] = reserved[q]
          /\ reserved[q].time + Ttl <= now
      BY <1>1, <1>2, <2>2
    <3>2. now <= reserved[q].time
      BY <1>1, <2>2, <3>1
    <3> QED BY <1>0, <3>1, <3>2
  <2>3. CASE p # r /\ q # r
    BY <1>1, <2>3 DEF KeyInv, OneJobPerKeyAndLife
  <2> QED BY <2>1, <2>2, <2>3
<1>5. IsFiniteSet(DOMAIN memory')
  BY <1>0, GrantedMap
<1>6. MemoryIsBounded'
  <2> SUFFICES ASSUME Cardinality(DOMAIN memory') >= CompactFrom,
                      NEW k \in DOMAIN memory', NEW l \in DOMAIN memory'
               PROVE  memory'[l] < memory'[k] + Ttl
    BY DEF MemoryIsBounded
  <2>1. memory'[k] > now
    BY <1>0, GrantedMap
  <2>2. memory'[l] \in Nat /\ memory'[k] \in Nat /\ memory'[l] <= now + Ttl
    BY <1>0, GrantedMap
  <2> QED BY <1>0, <2>1, <2>2
<1> QED BY <1>3, <1>4, <1>5, <1>6 DEF KeyInv

\* Other steps add no key; time passes, or the process and all keys end.
LEMMA OthersKeepKeys ==
  ASSUME TypeOK, KeyInv, UNCHANGED reserved, now' \in Nat, now <= now',
         \/ UNCHANGED <<memory, crashes>>
         \/ DOMAIN memory' = {} /\ crashes' = crashes + 1
  PROVE  KeyInv'
<1>1. OneJobPerKeyAndLife'
  BY DEF KeyInv, OneJobPerKeyAndLife
<1>2. CASE UNCHANGED <<memory, crashes>>
  <2>1. MemoryIsBounded' /\ IsFiniteSet(DOMAIN memory')
    BY <1>2 DEF KeyInv, MemoryIsBounded
  <2>2. RunningKeysAreHeld'
    <3> SUFFICES ASSUME NEW q \in DOMAIN reserved, reserved[q].life = crashes,
                        now' < reserved[q].time + Ttl
                 PROVE  KeyOf[q] \in DOMAIN memory /\ memory[KeyOf[q]] >= reserved[q].time + Ttl
      BY <1>2 DEF RunningKeysAreHeld
    <3>1. now < reserved[q].time + Ttl
      BY ConstantsAssumption DEF TypeOK
    <3> QED BY <3>1 DEF KeyInv, RunningKeysAreHeld
  <2> QED BY <1>1, <2>1, <2>2 DEF KeyInv
<1>3. CASE DOMAIN memory' = {} /\ crashes' = crashes + 1
  <2>1. MemoryIsBounded' /\ IsFiniteSet(DOMAIN memory')
    BY <1>3, FS_EmptySet DEF MemoryIsBounded
  <2>2. \A q \in DOMAIN reserved : reserved[q].life # crashes'
    BY <1>3 DEF TypeOK
  <2>3. RunningKeysAreHeld'
    BY <2>2 DEF RunningKeysAreHeld
  <2> QED BY <1>1, <2>1, <2>3 DEF KeyInv
<1> QED BY <1>2, <1>3

----------------------------------------------------------------------------
(* Jobs *)

\* What one call and its job look like, in terms of values.
Fits(step, m, f, sent, skipped, failed, isReserved) ==
  /\ m <= 1 + f
  /\ step \in BeforeAnyAnswer => m <= f
  /\ step \in {"sentEvent", "failEvent"} /\ f = 0 => ~sent
  /\ step \in BeforeAnyAnswer /\ f = 0 => ~sent
  /\ step = "sentEvent" => m > 0
  /\ failed => step \in {"ended", "cut"}
  /\ step \in InHand \cup {"ended", "cut", "requested"} => isReserved
  /\ step = "ended" => sent \/ skipped \/ failed
  /\ step = "ended" /\ f = 0 => (sent <=> m > 0)
JobFits(r) == Fits(call[r], mails[r], faults, Recorded(r, "sent"), Recorded(r, "skipped"),
                   Recorded(r, "failed"), r \in DOMAIN reserved)
CutIsPast == \A r \in Requests : call[r] = "cut" => reserved[r].life < crashes

LEMMA JobInvIs == JobInv <=> (\A r \in Requests : JobFits(r)) /\ CutIsPast
BY DEF JobInv, MailsOf, AcceptedIsAccounted, JobFits, Fits, CutIsPast

\* Faults only widen what is allowed of a job that does not move.
LEMMA FitsWidens ==
  \A m, f, g \in Nat : \A step, sent, skipped, failed, isReserved :
    f <= g /\ Fits(step, m, f, sent, skipped, failed, isReserved)
      => Fits(step, m, g, sent, skipped, failed, isReserved)
<1> TAKE m, f, g \in Nat
<1> TAKE step, sent, skipped, failed, isReserved
<1> HAVE f <= g /\ Fits(step, m, f, sent, skipped, failed, isReserved)
<1>1. m <= 1 + f => m <= 1 + g
  OBVIOUS
<1>2. m <= f => m <= g
  OBVIOUS
<1>3. g = 0 => f = 0
  OBVIOUS
<1> QED BY <1>1, <1>2, <1>3 DEF Fits

\* The jobs that a step does not move.
Rests(q) == /\ call'[q] = call[q] /\ mails'[q] = mails[q]
            /\ \A s \in {"sent", "skipped", "failed"} : Recorded(q, s)' <=> Recorded(q, s)
            /\ q \in DOMAIN reserved' <=> q \in DOMAIN reserved

LEMMA RestsFits ==
  ASSUME TypeOK, NEW q \in Requests, JobFits(q), Rests(q), faults' \in Nat, faults <= faults'
  PROVE  JobFits(q)'
<1>1. mails[q] \in Nat /\ faults \in Nat
  BY DEF TypeOK
<1>2. Fits(call[q], mails[q], faults', Recorded(q, "sent"), Recorded(q, "skipped"),
           Recorded(q, "failed"), q \in DOMAIN reserved)
  BY <1>1, FitsWidens DEF JobFits
<1>3. /\ call'[q] = call[q] /\ mails'[q] = mails[q]
      /\ Recorded(q, "sent")' <=> Recorded(q, "sent")
      /\ Recorded(q, "skipped")' <=> Recorded(q, "skipped")
      /\ Recorded(q, "failed")' <=> Recorded(q, "failed")
      /\ q \in DOMAIN reserved' <=> q \in DOMAIN reserved
  BY DEF Rests
<1> QED BY <1>2, <1>3 DEF JobFits, Fits

\* An event of one request leaves the events of the others alone.
LEMMA OthersEvents ==
  ASSUME NEW r, NEW status, events' = events \/ events' = Written(r, status),
         NEW q, NEW s, q # r \/ s # status
  PROVE  Recorded(q, s)' <=> Recorded(q, s)
BY DEF Recorded, Written

\* A step of one call or job keeps JobInv when what it leaves of that one fits.
LEMMA OneMoves ==
  ASSUME TypeOK, JobInv, NEW r \in Requests, Advance(r), call'[r] # "cut", JobFits(r)',
         \A q \in Requests : q # r => mails'[q] = mails[q],
         \A q \in Requests : q # r =>
           \A s \in {"sent", "skipped", "failed"} : Recorded(q, s)' <=> Recorded(q, s)
  PROVE  JobInv'
<1>0. /\ UNCHANGED <<reserved, crashes>> /\ faults' \in Nat /\ faults <= faults'
      /\ \A q \in Requests : q # r => call'[q] = call[q]
  BY DEF Advance, Goto, TypeOK
<1>1. ASSUME NEW q \in Requests, q # r PROVE JobFits(q)'
  <2>1. Rests(q)
    BY <1>0, <1>1 DEF Rests
  <2>2. JobFits(q)
    BY JobInvIs
  <2> QED BY <1>0, <2>1, <2>2, RestsFits
<1>2. CutIsPast'
  <2>1. CutIsPast
    BY JobInvIs
  <2> QED BY <1>0, <2>1 DEF CutIsPast
<1>3. (\A q \in Requests : JobFits(q)') /\ CutIsPast'
  BY <1>1, <1>2
<1> QED
  <2>1. JobInv' <=> (\A q \in Requests : JobFits(q)') /\ CutIsPast'
    BY JobInvIs DEF JobInv, MailsOf, AcceptedIsAccounted, JobFits, Fits, CutIsPast
  <2> QED BY <1>3, <2>1

LEMMA AnswerKeepsJobs ==
  ASSUME TypeOK, JobInv, NEW r \in Requests, Answer(r)
  PROVE  JobInv'
<1>1. Advance(r) /\ UNCHANGED mails /\ UNCHANGED reserved
  BY AnswerAdvances DEF Answer
<1>2. PICK step \in Answering, status \in {"duplicate", "requested"} :
        /\ call[r] = step
        /\ status = "requested" <=> step = "requested"
        /\ \/ /\ events' = Written(r, status) /\ UNCHANGED faults
              /\ Goto(r, IF step = "dup" THEN "duplicate" ELSE "send")
           \/ Fault /\ events' \in {events, Written(r, status)} /\ Goto(r, "failed")
  BY DEF Answer, At, Answering
<1>3. \A q \in Requests : \A s \in {"sent", "skipped", "failed"} : Recorded(q, s)' <=> Recorded(q, s)
  BY <1>2, OthersEvents
<1>4. JobFits(r) /\ faults \in Nat /\ mails[r] \in Nat /\ call \in [Requests -> Steps]
  BY JobInvIs DEF TypeOK
<1>5. /\ call'[r] \in {"duplicate", "send", "failed"} /\ faults' \in Nat /\ faults <= faults'
      /\ call'[r] = "send" => call[r] = "requested"
      /\ call[r] \in {"requested", "dup"}
  BY <1>1, <1>2, <1>4 DEF Goto, Answering, Advance
<1>6. Fits(call[r], mails[r], faults', Recorded(r, "sent"), Recorded(r, "skipped"),
           Recorded(r, "failed"), r \in DOMAIN reserved)
  BY <1>4, <1>5, FitsWidens DEF JobFits
<1>7. Fits(call'[r], mails[r], faults', Recorded(r, "sent"), Recorded(r, "skipped"),
           Recorded(r, "failed"), r \in DOMAIN reserved)
  BY <1>5, <1>6 DEF Fits, BeforeAnyAnswer, InHand
<1>8. JobFits(r)'
  BY <1>1, <1>3, <1>7 DEF JobFits, Fits
<1> QED BY <1>1, <1>3, <1>5, <1>8, OneMoves

LEMMA NoSenderKeepsJobs ==
  ASSUME TypeOK, JobInv, NEW r \in Requests, NoSender(r)
  PROVE  JobInv'
<1>1. Advance(r) /\ UNCHANGED <<mails, events, faults, reserved>>
  BY NoSenderAdvances DEF NoSender
<1>2. call[r] = "send" /\ call'[r] = "skipEvent"
  BY DEF NoSender, At, Goto, TypeOK
<1>3. JobFits(r)
  BY JobInvIs
<1>4. JobFits(r)'
  BY <1>1, <1>2, <1>3 DEF JobFits, Fits, BeforeAnyAnswer, InHand, Recorded
<1>5. \A q, s : Recorded(q, s)' <=> Recorded(q, s)
  BY <1>1 DEF Recorded
<1> QED BY <1>1, <1>2, <1>4, <1>5, OneMoves

LEMMA TryKeepsJobs ==
  ASSUME TypeOK, JobInv, NEW r \in Requests, TryProvider(r)
  PROVE  JobInv'
<1>1. /\ Advance(r) /\ UNCHANGED <<events, reserved>> /\ call[r] = "send"
      /\ \A q \in Requests : q # r => mails'[q] = mails[q]
  BY TryAdvances DEF TryProvider
<1>2. \A q, s : Recorded(q, s)' <=> Recorded(q, s)
  BY <1>1 DEF Recorded
<1>3. /\ JobFits(r) /\ faults \in Nat /\ mails[r] \in Nat
  BY JobInvIs DEF TypeOK
<1>4. /\ mails[r] <= faults /\ (faults = 0 => ~Recorded(r, "sent"))
      /\ ~Recorded(r, "failed") /\ r \in DOMAIN reserved
  BY <1>1, <1>3 DEF JobFits, Fits, BeforeAnyAnswer, InHand
<1>5. CASE call'[r] = "sentEvent" /\ mails'[r] = mails[r] + 1 /\ UNCHANGED faults
  <2>1. JobFits(r)'
    BY <1>1, <1>2, <1>3, <1>4, <1>5 DEF JobFits, Fits, BeforeAnyAnswer
  <2> QED BY <1>1, <1>2, <1>5, <2>1, OneMoves
<1>6. CASE /\ call'[r] \in {"send", "skipEvent", "failEvent"}
           /\ mails'[r] = mails[r] /\ UNCHANGED faults
  <2>1. JobFits(r)'
    BY <1>1, <1>2, <1>3, <1>4, <1>6 DEF JobFits, Fits, BeforeAnyAnswer
  <2> QED BY <1>1, <1>2, <1>6, <2>1, OneMoves
<1>7. CASE /\ call'[r] \in {"send", "failEvent"}
           /\ mails'[r] = mails[r] + 1 /\ faults' = faults + 1
  <2>1. JobFits(r)'
    BY <1>1, <1>2, <1>3, <1>4, <1>7 DEF JobFits, Fits, BeforeAnyAnswer
  <2> QED BY <1>1, <1>2, <1>7, <2>1, OneMoves
<1> QED BY <1>5, <1>6, <1>7, TryAdvances

LEMMA RecordSentKeepsJobs ==
  ASSUME TypeOK, JobInv, NEW r \in Requests, RecordSent(r)
  PROVE  JobInv'
<1>1. Advance(r) /\ UNCHANGED <<mails, reserved>>
  BY RecordSentAdvances DEF RecordSent
<1>2. /\ call[r] = "sentEvent"
      /\ events' = events \/ events' = Written(r, "sent")
      /\ \/ call'[r] = "ended" /\ events' = Written(r, "sent") /\ UNCHANGED faults
         \/ call'[r] = "failEvent" /\ faults' = faults + 1
  BY DEF RecordSent, At, Goto, Fault, TypeOK
<1>3. \A q \in Requests : \A s \in {"sent", "skipped", "failed"} :
        q # r \/ s # "sent" => (Recorded(q, s)' <=> Recorded(q, s))
  BY <1>2, OthersEvents
<1>4. JobFits(r) /\ faults \in Nat /\ mails[r] \in Nat
  BY JobInvIs DEF TypeOK
<1>5. /\ mails[r] <= 1 + faults /\ mails[r] > 0 /\ r \in DOMAIN reserved
      /\ ~Recorded(r, "failed") /\ ~Recorded(r, "failed")'
  BY <1>2, <1>3, <1>4 DEF JobFits, Fits, InHand
<1>6. CASE call'[r] = "ended" /\ events' = Written(r, "sent") /\ UNCHANGED faults
  <2>1. Recorded(r, "sent")'
    BY <1>6 DEF Recorded, Written
  <2>2. JobFits(r)'
    BY <1>1, <1>4, <1>5, <1>6, <2>1 DEF JobFits, Fits, BeforeAnyAnswer
  <2> QED BY <1>1, <1>3, <1>6, <2>2, OneMoves
<1>7. CASE call'[r] = "failEvent" /\ faults' = faults + 1
  <2>1. JobFits(r)'
    BY <1>1, <1>4, <1>5, <1>7 DEF JobFits, Fits, BeforeAnyAnswer
  <2> QED BY <1>1, <1>3, <1>7, <2>1, OneMoves
<1> QED BY <1>2, <1>6, <1>7

\* A process that ends cuts its jobs and its calls.
LEMMA DieKeepsJobs ==
  ASSUME TypeOK, JobInv, Die, UNCHANGED <<mails, reserved>>,
         faults' \in Nat, faults <= faults',
         NEW r \in Requests, NEW status,
         events' = events \/ events' = Written(r, status),
         status = "failed" => call[r] = "failEvent",
         status # "sent"
  PROVE  JobInv'
<1>1. ASSUME NEW q \in Requests PROVE JobFits(q)'
  <2>1. Fits(call[q], mails[q], faults', Recorded(q, "sent"), Recorded(q, "skipped"),
             Recorded(q, "failed"), q \in DOMAIN reserved)
    BY JobInvIs, FitsWidens DEF TypeOK, JobFits
  <2>2. \/ call'[q] = "failed" /\ call[q] \in Answering
        \/ call'[q] = "cut" /\ call[q] \in InHand
        \/ call'[q] = call[q] /\ call[q] \notin InHand \cup Answering
    BY DEF Die
  <2>3. Recorded(q, "sent")' <=> Recorded(q, "sent")
    BY OthersEvents
  <2>4. Recorded(q, "failed")' => Recorded(q, "failed") \/ call[q] = "failEvent"
    BY OthersEvents
  <2>5. Recorded(q, "skipped") => Recorded(q, "skipped")'
    BY DEF Recorded, Written
  <2>6. Recorded(q, "failed") => Recorded(q, "failed")'
    BY DEF Recorded, Written
  <2> HIDE DEF Die
  <2>a. CASE call'[q] = "failed" /\ call[q] \in Answering
    BY <2>1, <2>a, <2>3, <2>4 DEF JobFits, Fits, BeforeAnyAnswer, InHand, Answering
  <2>b. CASE call'[q] = "cut" /\ call[q] \in InHand
    BY <2>1, <2>b, <2>3, <2>4 DEF JobFits, Fits, BeforeAnyAnswer, InHand, Answering
  <2>c. CASE call'[q] = call[q] /\ call[q] \notin InHand \cup Answering
    <3>1. call[q] # "failEvent"
      BY <2>c DEF InHand
    <3> QED BY <2>1, <2>c, <2>3, <2>4, <2>5, <2>6, <3>1 DEF JobFits, Fits
  <2> QED BY <2>2, <2>a, <2>b, <2>c
<1>2. CutIsPast'
  <2> SUFFICES ASSUME NEW q \in Requests, call'[q] = "cut"
               PROVE  reserved[q].life < crashes'
    BY DEF CutIsPast
  <2>1. call[q] \in InHand \/ call[q] = "cut"
    BY DEF Die
  <2>2. q \in DOMAIN reserved
    BY <2>1, JobInvIs DEF JobFits, Fits
  <2> QED BY <2>2 DEF TypeOK, Die
<1> QED
  <2>1. JobInv' <=> (\A q \in Requests : JobFits(q)') /\ CutIsPast'
    BY JobInvIs DEF JobInv, MailsOf, AcceptedIsAccounted, JobFits, Fits, CutIsPast
  <2> QED BY <1>1, <1>2, <2>1

LEMMA RecordFailureKeepsJobs ==
  ASSUME TypeOK, JobInv, NEW r \in Requests, RecordFailure(r)
  PROVE  JobInv'
<1>0. PICK status : status = IF At(r, "failEvent") THEN "failed" ELSE "skipped"
  OBVIOUS
<1>1. /\ UNCHANGED <<mails, reserved>> /\ call[r] \in {"failEvent", "skipEvent"}
      /\ status = "failed" <=> call[r] = "failEvent"
      /\ status \in {"failed", "skipped"}
  BY <1>0 DEF RecordFailure, At
<1>2. \/ Die /\ faults' = faults + 1 /\ (events' = events \/ events' = Written(r, status))
      \/ Goto(r, "ended") /\ UNCHANGED faults /\ events' = Written(r, status) /\ UNCHANGED <<memory, crashes>>
  BY <1>0 DEF RecordFailure, Fault
<1>3. JobFits(r) /\ faults \in Nat /\ mails[r] \in Nat /\ call \in [Requests -> Steps]
  BY JobInvIs DEF TypeOK
<1>4. CASE Die /\ faults' = faults + 1 /\ (events' = events \/ events' = Written(r, status))
  <2>1. faults' \in Nat /\ faults <= faults'
    BY <1>3, <1>4
  <2>2. status = "failed" => call[r] = "failEvent"
    BY <1>1
  <2>3. status # "sent"
    BY <1>1
  <2> QED BY <1>1, <1>4, <2>1, <2>2, <2>3, DieKeepsJobs
<1>5. CASE /\ Goto(r, "ended") /\ UNCHANGED faults /\ events' = Written(r, status)
           /\ UNCHANGED <<memory, crashes>>
  <2>1. call'[r] = "ended" /\ call[r] # "new"
    BY <1>1, <1>3, <1>5 DEF Goto
  <2>2. Advance(r)
    <3>1. "ended" \in Steps \ {"new"}
      BY DEF Steps
    <3>2. UNCHANGED now
      BY DEF RecordFailure
    <3> QED BY <1>1, <1>3, <1>5, <2>1, <3>1, <3>2 DEF Advance
  <2>3. \A q \in Requests : \A s \in {"sent", "skipped", "failed"} :
          q # r \/ s # status => (Recorded(q, s)' <=> Recorded(q, s))
    BY <1>5, OthersEvents
  <2>4. Recorded(r, status)'
    BY <1>5 DEF Recorded, Written
  <2>5. /\ Recorded(r, "sent")' <=> Recorded(r, "sent")
        /\ Recorded(r, "skipped")' \/ Recorded(r, "failed")'
    BY <1>1, <2>3, <2>4
  <2>6. JobFits(r)'
    BY <1>1, <1>3, <1>5, <2>1, <2>5 DEF JobFits, Fits, BeforeAnyAnswer, InHand
  <2> QED BY <1>1, <2>1, <2>2, <2>3, <2>6, OneMoves
<1> QED BY <1>2, <1>4, <1>5

----------------------------------------------------------------------------
(* The theorems *)

LEMMA InitInv == Init => IInv
<1> SUFFICES ASSUME Init PROVE IInv
  OBVIOUS
<1>1. DOMAIN memory = {} /\ DOMAIN reserved = {}
  BY EmptyDomain DEF Init
<1>2. TypeOK
  <2>1. \A r \in Requests : next[r] = 1 /\ Len(Order[r]) \in Nat /\ Len(Order[r]) # 0
    <3> TAKE r \in Requests
    <3>1. Order[r] \in Seq({"resend", "smtp"}) /\ Order[r] # << >>
      BY ConstantsAssumption
    <3> QED BY <3>1 DEF Init
  <2>2. \A r \in Requests : next[r] \in 1..Len(Order[r])
    BY <2>1
  <2> QED BY <1>1, <2>2 DEF Init, TypeOK, Steps
<1>3. KeyInv
  BY <1>1, FS_EmptySet DEF KeyInv, RunningKeysAreHeld, OneJobPerKeyAndLife, MemoryIsBounded
<1>4. JobInv
  BY DEF Init, JobInv, MailsOf, AcceptedIsAccounted, BeforeAnyAnswer, InHand, Recorded
<1> QED BY <1>2, <1>3, <1>4 DEF IInv

LEMMA StepInv == IInv /\ [Next]_vars => IInv'
<1> SUFFICES ASSUME IInv, [Next]_vars PROVE IInv'
  OBVIOUS
<1>0. TypeOK /\ KeyInv /\ JobInv /\ IsFiniteSet(DOMAIN memory)
  BY DEF IInv, KeyInv
<1>a. /\ next \in [Requests -> Nat] /\ mails \in [Requests -> Nat]
      /\ \A q \in Requests : next[q] \in 1..Len(Order[q])
      /\ now \in Nat /\ faults \in Nat
  BY <1>0 DEF TypeOK
<1>1. ASSUME NEW r \in Requests, Reserve(r) PROVE IInv'
  <2>1. CASE Grants(r)
    <3>1. JobFits(r) /\ mails[r] \in Nat
      BY <1>0, JobInvIs DEF TypeOK
    <3>2. \A q \in Requests : q # r => Rests(q)
      BY <2>1 DEF Rests, Grants, Recorded
    <3>3. /\ call[r] = "new" /\ call'[r] = "requested" /\ UNCHANGED <<mails, events, faults, crashes>>
          /\ r \in DOMAIN reserved' /\ \A q \in DOMAIN reserved : q # r => reserved'[q] = reserved[q]
          /\ \A q \in Requests : q # r => call'[q] = call[q]
      BY <1>0, <2>1 DEF Grants, TypeOK
    <3>4. JobFits(r)'
      BY <3>1, <3>3 DEF JobFits, Fits, BeforeAnyAnswer, InHand, Recorded
    <3>5. \A q \in Requests : JobFits(q)'
      BY <1>0, <1>a, <3>2, <3>3, <3>4, JobInvIs, RestsFits
    <3>6. CutIsPast'
      <4> SUFFICES ASSUME NEW q \in Requests, call'[q] = "cut" PROVE reserved'[q].life < crashes'
        BY DEF CutIsPast
      <4>1. q # r /\ call[q] = "cut"
        BY <3>3
      <4>2. q \in DOMAIN reserved /\ reserved[q].life < crashes
        BY <1>0, <4>1, JobInvIs DEF CutIsPast, JobFits, Fits
      <4> QED BY <3>3, <4>1, <4>2
    <3>7. JobInv'
      <4>1. JobInv' <=> (\A q \in Requests : JobFits(q)') /\ CutIsPast'
        BY JobInvIs DEF JobInv, MailsOf, AcceptedIsAccounted, JobFits, Fits, CutIsPast
      <4> QED BY <3>5, <3>6, <4>1
    <3> QED BY <1>0, <2>1, <3>7, GrantKeepsTypes, GrantKeepsKeys DEF IInv
  <2>2. CASE Refuses(r)
    <3>1. /\ call[r] = "new" /\ call'[r] = "dup" /\ Goto(r, "dup")
          /\ UNCHANGED <<memory, reserved, next, events, now, mails, faults, crashes>>
      BY <1>0, <2>2 DEF Refuses, Goto, TypeOK
    <3>2. Advance(r)
      <4>1. "dup" \in Steps \ {"new"} /\ faults' \in Nat /\ faults <= faults'
        BY <1>a, <3>1 DEF Steps, Answering
      <4> QED BY <3>1, <4>1 DEF Advance
    <3>3. JobFits(r)'
      BY <1>0, <3>1, JobInvIs DEF JobFits, Fits, BeforeAnyAnswer, InHand, Recorded
    <3>4. \A q, s : Recorded(q, s)' <=> Recorded(q, s)
      BY <3>1 DEF Recorded
    <3>5. JobInv'
      BY <1>0, <3>1, <3>2, <3>3, <3>4, OneMoves
    <3>6. TypeOK'
      BY <1>0, <1>a, <3>1, <3>2, AdvanceKeepsTypes
    <3>7. KeyInv'
      BY <1>0, <1>a, <3>1, OthersKeepKeys
    <3> QED BY <3>5, <3>6, <3>7 DEF IInv
  <2> QED BY <1>1, <2>1, <2>2, ReserveSteps
<1>2. ASSUME NEW r \in Requests, Advance(r), JobInv',
             next' \in [Requests -> Nat], mails' \in [Requests -> Nat],
             \A q \in Requests : next'[q] \in 1..Len(Order[q])
      PROVE  IInv'
  <2>1. TypeOK'
    BY <1>0, <1>2, AdvanceKeepsTypes
  <2>2. KeyInv'
    BY <1>0, <1>a, <1>2, OthersKeepKeys DEF Advance
  <2> QED BY <1>2, <2>1, <2>2 DEF IInv
<1>3. ASSUME NEW r \in Requests, Answer(r) PROVE IInv'
  BY <1>0, <1>2, <1>3, <1>a, AnswerAdvances, AnswerKeepsJobs
<1>4. ASSUME NEW r \in Requests, NoSender(r) PROVE IInv'
  BY <1>0, <1>2, <1>4, <1>a, NoSenderAdvances, NoSenderKeepsJobs
<1>5. ASSUME NEW r \in Requests, TryProvider(r) PROVE IInv'
  BY <1>0, <1>2, <1>5, TryAdvances, TryKeepsJobs
<1>6. ASSUME NEW r \in Requests, RecordSent(r) PROVE IInv'
  BY <1>0, <1>2, <1>6, <1>a, RecordSentAdvances, RecordSentKeepsJobs
<1>7. ASSUME Die, UNCHANGED <<next, mails, now, reserved>>, faults' \in Nat, JobInv' PROVE IInv'
  <2>1. TypeOK'
    BY <1>0, <1>7, DieKeepsTypes
  <2>2. DOMAIN memory' = {} /\ crashes' = crashes + 1
    BY <1>7, EmptyDomain DEF Die
  <2>3. KeyInv'
    BY <1>0, <1>a, <1>7, <2>2, OthersKeepKeys
  <2> QED BY <1>7, <2>1, <2>3 DEF IInv
<1>8. ASSUME NEW r \in Requests, RecordFailure(r) PROVE IInv'
  <2>1. JobInv'
    BY <1>0, <1>8, RecordFailureKeepsJobs
  <2>2. UNCHANGED <<next, mails, now, reserved>>
    BY <1>0, <1>8, RecordFailureSteps
  <2>3. CASE Advance(r)
    BY <1>2, <1>a, <2>1, <2>2, <2>3
  <2>4. CASE Die /\ faults' = faults + 1
    BY <1>7, <1>a, <2>1, <2>2, <2>4
  <2> QED BY <1>0, <1>8, <2>3, <2>4, RecordFailureSteps
<1>9. CASE Crash
  <2>1. Die /\ UNCHANGED <<next, events, now, mails, reserved, faults>>
    BY <1>9 DEF Crash
  <2>2. JobInv'
    <3>1. CASE Requests = {}
      BY <3>1 DEF JobInv, AcceptedIsAccounted
    <3>2. CASE Requests # {}
      <4>1. PICK r \in Requests : TRUE
        BY <3>2
      <4>2. events' = events /\ faults' \in Nat /\ faults <= faults'
        BY <1>a, <2>1
      <4>3. "skipped" # "failed" /\ "skipped" # "sent"
        OBVIOUS
      <4> QED BY <1>0, <2>1, <4>2, <4>3, DieKeepsJobs
    <3> QED BY <3>1, <3>2
  <2> QED BY <1>7, <1>a, <2>1, <2>2
<1>10. CASE Tick
  <2>1. /\ UNCHANGED <<memory, call, next, events, mails, reserved, faults, crashes>>
        /\ now' = now + 1
    BY <1>10 DEF Tick
  <2>2. TypeOK'
    <3>1. /\ \A k \in DOMAIN memory : memory[k] \in Nat /\ memory[k] <= now' + Ttl
          /\ \A q \in DOMAIN reserved : reserved[q].time \in 0..now'
      BY <1>0, <1>a, <2>1, ConstantsAssumption DEF TypeOK
    <3> QED BY <1>0, <1>a, <2>1, <3>1 DEF TypeOK
  <2>3. KeyInv'
    BY <1>0, <1>a, <2>1, OthersKeepKeys
  <2>4. JobInv'
    BY <1>0, <2>1 DEF JobInv, MailsOf, AcceptedIsAccounted, Recorded
  <2> QED BY <2>2, <2>3, <2>4 DEF IInv
<1>11. CASE UNCHANGED vars
  <2>1. TypeOK' /\ JobInv'
    BY <1>0, <1>11 DEF vars, TypeOK, JobInv, MailsOf, AcceptedIsAccounted, Recorded
  <2>2. KeyInv'
    BY <1>0, <1>a, <1>11, OthersKeepKeys DEF vars
  <2> QED BY <2>1, <2>2 DEF IInv
<1> QED BY <1>1, <1>3, <1>4, <1>5, <1>6, <1>8, <1>9, <1>10, <1>11 DEF Next, Job

LEMMA Inductive == Spec => []IInv
BY InitInv, StepInv, PTL DEF Spec

\* Variables keep their types, for any requests, keys and settings.
THEOREM MemoryTypeCorrect == Spec => []TypeOK
<1>1. IInv => TypeOK
  BY DEF IInv
<1> QED BY <1>1, Inductive, PTL

\* One key makes one job per life of the process and Ttl: no compaction of the map drops a
\* key whose time runs.
THEOREM OneJobPerKeyAndLifeHolds == Spec => []OneJobPerKeyAndLife
<1>1. IInv => OneJobPerKeyAndLife
  BY DEF IInv, KeyInv
<1> QED BY <1>1, Inductive, PTL

\* The map of keys is bounded by the traffic of one Ttl: when the compaction leaves it large,
\* all its keys were live together.
THEOREM MemoryIsBoundedHolds == Spec => []MemoryIsBounded
<1>1. IInv => MemoryIsBounded
  BY DEF IInv, KeyInv
<1> QED BY <1>1, Inductive, PTL

\* A job that ended has the right end in the log; one without an end was cut off.
THEOREM AcceptedIsAccountedHolds == Spec => []AcceptedIsAccounted
<1>1. IInv => AcceptedIsAccounted
  BY DEF IInv, JobInv
<1> QED BY <1>1, Inductive, PTL

\* Only a lost answer sends a mail again, whatever stops and starts.
THEOREM OneMailPerAnswerHolds == Spec => []OneMailPerAnswer
<1>1. IInv => OneMailPerAnswer
  BY DEF IInv, JobInv, MailsOf, OneMailPerAnswer
<1> QED BY <1>1, Inductive, PTL

\* No mail leaves after a failure was recorded.
THEOREM FailureIsFinalHolds == Spec => FailureIsFinal
<1> DEFINE Kept == \A r \in Requests : Recorded(r, "failed") => mails'[r] = mails[r]
<1>1. IInv /\ [Next]_vars => [Kept]_vars
  <2> SUFFICES ASSUME IInv, Next PROVE Kept
    BY DEF vars
  <2> SUFFICES ASSUME NEW q \in Requests, Recorded(q, "failed") PROVE mails'[q] = mails[q]
    OBVIOUS
  <2>1. call[q] \in {"ended", "cut"} /\ TypeOK
    BY DEF IInv, JobInv, MailsOf
  <2>2. ASSUME NEW r \in Requests, TryProvider(r) PROVE mails'[q] = mails[q]
    <3>1. q # r
      BY <2>1, <2>2, TryAdvances
    <3> QED BY <2>1, <2>2, <3>1, TryAdvances
  <2>3. ASSUME NEW r \in Requests, Reserve(r) \/ Answer(r) \/ NoSender(r) \/ RecordSent(r) \/ RecordFailure(r)
        PROVE  mails' = mails
    BY <2>3 DEF Reserve, Answer, NoSender, RecordSent, RecordFailure
  <2>4. Crash \/ Tick => mails' = mails
    BY DEF Crash, Tick
  <2> QED BY <2>2, <2>3, <2>4 DEF Next, Job
<1> QED BY <1>1, Inductive, PTL DEF Spec, FailureIsFinal

----------------------------------------------------------------------------
(* The delivery that the callers of enqueue are promised *)

\* A mail left for every job that was, or is about to be, recorded as sent.
SentWereMailed ==
  \A r \in Requests : Recorded(r, "sent") \/ At(r, "sentEvent") => mails[r] > 0

\* The steps of the abstract delivery, in terms of the verdicts.
LEMMA AcceptStep ==
  ASSUME NEW r \in Requests, Verdict(r) = "new", Verdict(r)' = "owed", UNCHANGED mails,
         \A q \in Requests : q # r => Verdict(q)' = Verdict(q)
  PROVE  Delivery!Next
<1>1. Delivery!Accept(r)
  BY DEF Delivery!Accept
<1> QED BY <1>1 DEF Delivery!Next

LEMMA MailStep ==
  ASSUME NEW r \in Requests, Verdict(r) = "owed", mails' = [mails EXCEPT ![r] = @ + 1],
         \A q \in Requests : Verdict(q)' = Verdict(q)
  PROVE  Delivery!Next
<1>1. Delivery!Mail(r)
  BY DEF Delivery!Mail
<1> QED BY <1>1 DEF Delivery!Next

LEMMA SettleStep ==
  ASSUME NEW R \in SUBSET Requests, UNCHANGED mails,
         \A r \in R : /\ Verdict(r) = "owed" /\ Verdict(r)' \in Delivery!Verdicts
                      /\ Verdict(r)' = "sent" => mails[r] > 0,
         \A r \in Requests \ R : Verdict(r)' = Verdict(r)
  PROVE  [Delivery!Next]_(Delivery!vars)
<1>1. CASE R = {}
  BY <1>1 DEF Delivery!vars
<1>2. CASE R # {}
  <2>1. Delivery!Settle(R)
    <3> DEFINE v == [r \in R |-> Verdict(r)']
    <3>1. v \in [R -> Delivery!Verdicts]
      OBVIOUS
    <3>2. \A r \in R : v[r] = "sent" => mails[r] > 0
      OBVIOUS
    <3>3. [r \in Requests |-> Verdict(r)]' = [r \in Requests |-> IF r \in R THEN v[r] ELSE [q \in Requests |-> Verdict(q)][r]]
      OBVIOUS
    <3> HIDE DEF v
    <3> QED BY <1>2, <3>1, <3>2, <3>3 DEF Delivery!Settle
  <2> QED BY <2>1 DEF Delivery!Next
<1> QED BY <1>1, <1>2

\* The verdict of a request by where its call or job stands.
LEMMA VerdictOf ==
  ASSUME NEW r \in Requests, call[r] \in Steps
  PROVE  /\ Verdict(r) = "new" <=> ~Accepted(r)
         /\ Verdict(r) = "owed" <=> call[r] \in InHand
         /\ call[r] \in {"ended", "cut"} =>
              /\ Verdict(r) \in Delivery!Verdicts
              /\ Verdict(r) = "sent" => Recorded(r, "sent")
BY DEF Verdict, Accepted, InHand, Steps, Delivery!Verdicts

\* A call or job that a step leaves alone keeps its verdict.
LEMMA VerdictRests ==
  ASSUME NEW q \in Requests, call'[q] = call[q],
         call[q] \notin InHand =>
           \A s \in {"sent", "skipped", "failed"} : Recorded(q, s)' <=> Recorded(q, s)
  PROVE  Verdict(q)' = Verdict(q)
<1>1. Accepted(q)' <=> Accepted(q)
  BY DEF Accepted
<1>2. CASE call[q] \in InHand
  BY <1>1, <1>2 DEF Verdict
<1>3. CASE call[q] \notin InHand
  <2>1. /\ Recorded(q, "sent")' <=> Recorded(q, "sent")
        /\ Recorded(q, "skipped")' <=> Recorded(q, "skipped")
        /\ Recorded(q, "failed")' <=> Recorded(q, "failed")
    BY <1>3
  <2> QED BY <1>1, <2>1 DEF Verdict
<1> QED BY <1>2, <1>3

\* A step of one call or job leaves the verdicts of the others alone.
LEMMA OthersRest ==
  ASSUME TypeOK, NEW r \in Requests, \A q \in Requests : q # r => call'[q] = call[q],
         NEW status, events' = events \/ events' = Written(r, status)
  PROVE  \A q \in Requests : q # r => Verdict(q)' = Verdict(q)
<1> SUFFICES ASSUME NEW q \in Requests, q # r PROVE Verdict(q)' = Verdict(q)
  OBVIOUS
<1>1. \A s \in {"sent", "skipped", "failed"} : Recorded(q, s)' <=> Recorded(q, s)
  BY OthersEvents
<1> QED BY <1>1, VerdictRests

\* A call that goes on before its answer, or a job that goes on in hand, keeps its verdict too.
LEMMA GoesOn ==
  ASSUME TypeOK, TypeOK', NEW r \in Requests, \A q \in Requests : q # r => call'[q] = call[q],
         NEW status, events' = events \/ events' = Written(r, status),
         \/ ~Accepted(r) /\ ~Accepted(r)'
         \/ call[r] \in InHand /\ call'[r] \in InHand
  PROVE  \A q \in Requests : Verdict(q)' = Verdict(q)
<1>1. Verdict(r)' = Verdict(r)
  BY DEF Verdict, Accepted
<1>2. \A q \in Requests : q # r => Verdict(q)' = Verdict(q)
  BY OthersRest
<1> QED BY <1>1, <1>2

\* A process that ends settles the jobs it had in hand.
LEMMA DieSettles ==
  ASSUME TypeOK, TypeOK', SentWereMailed, Die, UNCHANGED mails,
         NEW r \in Requests, call[r] \in InHand \/ UNCHANGED events, NEW status, status # "sent",
         events' = events \/ events' = Written(r, status)
  PROVE  [Delivery!Next]_(Delivery!vars)
<1> DEFINE R == {q \in Requests : call[q] \in InHand}
<1>0. call \in [Requests -> Steps] /\ call' \in [Requests -> Steps]
  BY DEF TypeOK
<1>1. \A q \in Requests : \/ call[q] \in Answering /\ call'[q] = "failed"
                          \/ call[q] \in InHand /\ call'[q] = "cut"
                          \/ call[q] \notin InHand \cup Answering /\ call'[q] = call[q]
  BY DEF Die
<1>2. \A q \in Requests : \A s : q # r \/ s = "sent" =>
         (Recorded(q, s)' <=> Recorded(q, s))
  BY OthersEvents
<1>3. ASSUME NEW q \in R
      PROVE  /\ Verdict(q) = "owed" /\ Verdict(q)' \in Delivery!Verdicts
             /\ Verdict(q)' = "sent" => mails[q] > 0
  <2>1. q \in Requests /\ call[q] \in InHand /\ call'[q] = "cut"
    BY <1>1 DEF InHand, Answering
  <2>2. Verdict(q) = "owed"
    BY <1>0, <2>1, VerdictOf
  <2>3. Verdict(q)' \in Delivery!Verdicts /\ (Verdict(q)' = "sent" => Recorded(q, "sent")')
    BY <2>1 DEF Verdict, Accepted, InHand, Delivery!Verdicts
  <2>4. Recorded(q, "sent")' <=> Recorded(q, "sent")
    BY <1>2, <2>1
  <2> QED BY <2>1, <2>2, <2>3, <2>4 DEF SentWereMailed
<1>4. ASSUME NEW q \in Requests \ R PROVE Verdict(q)' = Verdict(q)
  <2>1. CASE call[q] \in Answering
    BY <1>1, <2>1 DEF Verdict, Accepted, Answering, InHand
  <2>2. CASE call[q] \notin InHand \cup Answering /\ call'[q] = call[q]
    <3>1. q # r \/ UNCHANGED events
      BY <2>2
    <3>2. \A s \in {"sent", "skipped", "failed"} : Recorded(q, s)' <=> Recorded(q, s)
      BY <1>2, <3>1 DEF Recorded
    <3> QED BY <2>2, <3>2, VerdictRests
  <2> QED BY <1>1, <1>4, <2>1, <2>2
<1> HIDE DEF R
<1>5. R \in SUBSET Requests
  BY DEF R
<1> QED BY <1>3, <1>4, <1>5, SettleStep

\* Every step of the service maps to a step of the delivery, or to none.
LEMMA DeliveryStep ==
  ASSUME TypeOK, TypeOK', SentWereMailed, Next
  PROVE  [Delivery!Next]_(Delivery!vars)
<1>0. /\ call \in [Requests -> Steps] /\ mails \in [Requests -> Nat]
      /\ mails' \in [Requests -> Nat] /\ call' \in [Requests -> Steps]
  BY DEF TypeOK
<1>s. ASSUME UNCHANGED mails, \A q \in Requests : Verdict(q)' = Verdict(q)
      PROVE  [Delivery!Next]_(Delivery!vars)
  BY <1>s DEF Delivery!vars
<1>g. ASSUME NEW r \in Requests, NEW step, Goto(r, step)
      PROVE  call'[r] = step /\ \A q \in Requests : q # r => call'[q] = call[q]
  BY <1>0, <1>g DEF Goto
<1>e. ASSUME NEW r \in Requests, UNCHANGED mails, Goto(r, "ended"), call[r] \in InHand,
             NEW status \in {"sent", "skipped", "failed"}, events' = Written(r, status),
             status = "sent" => mails[r] > 0
      PROVE  [Delivery!Next]_(Delivery!vars)
  <2>1. Verdict(r) = "owed"
    BY <1>0, <1>e, VerdictOf
  <2>2. Verdict(r)' \in Delivery!Verdicts /\ (Verdict(r)' = "sent" => Recorded(r, "sent")')
    BY <1>e, <1>g DEF Verdict, Accepted, InHand, Delivery!Verdicts
  <2>3. Recorded(r, "sent")' => mails[r] > 0
    BY <1>e, OthersEvents DEF SentWereMailed
  <2>4. \A q \in Requests : q # r => Verdict(q)' = Verdict(q)
    BY <1>e, <1>g, OthersRest
  <2> DEFINE R == {r}
  <2>5. R \in SUBSET Requests /\ \A q \in R : q = r
    OBVIOUS
  <2>6. \A q \in Requests \ R : Verdict(q)' = Verdict(q)
    BY <2>4
  <2> HIDE DEF R
  <2>7. \A q \in R : /\ Verdict(q) = "owed" /\ Verdict(q)' \in Delivery!Verdicts
                     /\ Verdict(q)' = "sent" => mails[q] > 0
    BY <2>1, <2>2, <2>3, <2>5
  <2> QED BY <1>e, <2>5, <2>6, <2>7, SettleStep
<1>1. ASSUME NEW r \in Requests, Reserve(r) PROVE [Delivery!Next]_(Delivery!vars)
  <2>1. /\ call[r] = "new" /\ UNCHANGED <<events, mails>>
        /\ \E step \in Answering : Goto(r, step)
    BY <1>1, ReserveSteps DEF Grants, Refuses, Goto, Answering
  <2>2. ~Accepted(r) /\ ~Accepted(r)'
    BY <1>g, <2>1 DEF Accepted, Answering, InHand
  <2> QED BY <1>g, <1>s, <2>1, <2>2, GoesOn
<1>2. ASSUME NEW r \in Requests, Answer(r) PROVE [Delivery!Next]_(Delivery!vars)
  <2>1. PICK step \in {"duplicate", "send", "failed"}, status \in {"duplicate", "requested"} :
          /\ call[r] \in Answering /\ Goto(r, step) /\ UNCHANGED mails
          /\ events' \in {events, Written(r, status)}
    BY <1>2 DEF Answer, At
  <2>2. ~Accepted(r) /\ call'[r] = step
    BY <1>g, <2>1 DEF Accepted, Answering, InHand
  <2>3. \A q \in Requests : q # r => call'[q] = call[q]
    BY <1>g, <2>1
  <2>4. CASE step # "send"
    <3>1. ~Accepted(r)'
      BY <2>1, <2>2, <2>4 DEF Accepted, InHand
    <3> QED BY <1>s, <2>1, <2>2, <2>3, <3>1, GoesOn
  <2>5. CASE step = "send"
    <3>1. Verdict(r) = "new" /\ Verdict(r)' = "owed"
      BY <2>2, <2>5 DEF Verdict, Accepted, InHand
    <3>2. \A q \in Requests : q # r => Verdict(q)' = Verdict(q)
      BY <2>1, <2>3, OthersRest
    <3> QED BY <2>1, <3>1, <3>2, AcceptStep
  <2> QED BY <2>4, <2>5
<1>3. ASSUME NEW r \in Requests, NoSender(r) PROVE [Delivery!Next]_(Delivery!vars)
  <2>1. call[r] = "send" /\ Goto(r, "skipEvent") /\ UNCHANGED <<events, mails>>
    BY <1>3 DEF NoSender, At
  <2>2. call[r] \in InHand /\ call'[r] \in InHand
    BY <1>g, <2>1 DEF InHand
  <2> QED BY <1>g, <1>s, <2>1, <2>2, GoesOn
<1>4. ASSUME NEW r \in Requests, TryProvider(r) PROVE [Delivery!Next]_(Delivery!vars)
  <2>1. /\ call[r] = "send" /\ call'[r] \in InHand /\ UNCHANGED events
        /\ \A q \in Requests : q # r => mails'[q] = mails[q]
        /\ mails'[r] = mails[r] \/ mails'[r] = mails[r] + 1
    BY <1>4, TryAdvances DEF InHand
  <2>2. \A q \in Requests : q # r => call'[q] = call[q]
    BY <1>4, <1>g, TryAdvances DEF Advance
  <2>3. call[r] \in InHand
    BY <2>1 DEF InHand
  <2>4. \A q \in Requests : Verdict(q)' = Verdict(q)
    BY <2>1, <2>2, <2>3, GoesOn
  <2>5. CASE mails'[r] = mails[r]
    <3>1. mails' = mails
      BY <1>0, <2>1, <2>5
    <3> QED BY <1>s, <2>4, <3>1
  <2>6. CASE mails'[r] = mails[r] + 1
    <3>1. mails' = [mails EXCEPT ![r] = @ + 1]
      BY <1>0, <2>1, <2>6
    <3>2. Verdict(r) = "owed"
      BY <1>0, <2>3, VerdictOf
    <3> QED BY <2>4, <3>1, <3>2, MailStep
  <2> QED BY <2>1, <2>5, <2>6
<1>5. ASSUME NEW r \in Requests, RecordSent(r) PROVE [Delivery!Next]_(Delivery!vars)
  <2>1. /\ call[r] = "sentEvent" /\ UNCHANGED mails /\ mails[r] > 0 /\ call[r] \in InHand
        /\ \/ Goto(r, "ended") /\ events' = Written(r, "sent")
           \/ Goto(r, "failEvent") /\ events' \in {events, Written(r, "sent")}
    BY <1>5 DEF RecordSent, At, SentWereMailed, InHand
  <2>2. CASE Goto(r, "ended") /\ events' = Written(r, "sent")
    BY <1>e, <2>1, <2>2
  <2>3. CASE Goto(r, "failEvent") /\ events' \in {events, Written(r, "sent")}
    <3>1. call'[r] \in InHand
      BY <1>g, <2>3 DEF InHand
    <3> QED BY <1>g, <1>s, <2>1, <2>3, <3>1, GoesOn
  <2> QED BY <2>1, <2>2, <2>3
<1>6. ASSUME NEW r \in Requests, RecordFailure(r) PROVE [Delivery!Next]_(Delivery!vars)
  <2>1. PICK status \in {"failed", "skipped"} :
          /\ call[r] \in InHand /\ UNCHANGED mails
          /\ \/ Goto(r, "ended") /\ events' = Written(r, status)
             \/ Die /\ events' \in {events, Written(r, status)}
    BY <1>6 DEF RecordFailure, At, InHand
  <2>2. CASE Goto(r, "ended") /\ events' = Written(r, status)
    BY <1>e, <2>1, <2>2
  <2>3. CASE Die /\ events' \in {events, Written(r, status)}
    BY <2>1, <2>3, DieSettles
  <2> QED BY <2>1, <2>2, <2>3
<1>7. CASE Crash
  <2>1. Die /\ UNCHANGED <<mails, events>>
    BY <1>7 DEF Crash
  <2>2. CASE Requests = {}
    BY <1>s, <2>1, <2>2
  <2>3. CASE Requests # {}
    <3>1. PICK r \in Requests : TRUE
      BY <2>3
    <3>2. "failed" # "sent"
      OBVIOUS
    <3> QED BY <2>1, <3>1, <3>2, DieSettles
  <2> QED BY <2>2, <2>3
<1>8. CASE Tick
  BY <1>8, <1>s, VerdictRests DEF Tick, Recorded
<1> QED BY <1>1, <1>2, <1>3, <1>4, <1>5, <1>6, <1>7, <1>8 DEF Next, Job

\* A mail has left for every job whose mail is recorded.
LEMMA SentStep ==
  ASSUME TypeOK, TypeOK', SentWereMailed, Next
  PROVE  SentWereMailed'
<1>0. /\ call \in [Requests -> Steps] /\ mails \in [Requests -> Nat]
      /\ mails' \in [Requests -> Nat]
  BY DEF TypeOK
<1>k. ASSUME UNCHANGED mails, \A q \in Requests : /\ call'[q] = "sentEvent" => call[q] = "sentEvent"
                                                  /\ Recorded(q, "sent")' =>
                                                       Recorded(q, "sent") \/ call[q] = "sentEvent"
      PROVE  SentWereMailed'
  BY <1>k DEF SentWereMailed, At
<1>g. ASSUME NEW r \in Requests, NEW step, Goto(r, step), step # "sentEvent"
      PROVE  \A q \in Requests : call'[q] = "sentEvent" => call[q] = "sentEvent"
  BY <1>0, <1>g DEF Goto
<1>1. ASSUME NEW r \in Requests, Reserve(r) \/ NoSender(r) PROVE SentWereMailed'
  <2>1. /\ UNCHANGED <<mails, events>>
        /\ \E step \in {"requested", "dup", "skipEvent"} : Goto(r, step)
    BY <1>1 DEF Reserve, NoSender
  <2> QED BY <1>g, <1>k, <2>1 DEF Recorded
<1>2. ASSUME NEW r \in Requests, Answer(r) PROVE SentWereMailed'
  <2>1. PICK status \in {"duplicate", "requested"} :
          /\ events' = events \/ events' = Written(r, status)
          /\ \E step \in {"duplicate", "send", "failed"} : Goto(r, step)
          /\ UNCHANGED mails
    BY <1>2 DEF Answer
  <2>2. \A q \in Requests : Recorded(q, "sent")' <=> Recorded(q, "sent")
    BY <2>1, OthersEvents
  <2> QED BY <1>g, <1>k, <2>1, <2>2
<1>3. ASSUME NEW r \in Requests, TryProvider(r) PROVE SentWereMailed'
  <2>1. /\ UNCHANGED events
        /\ \A q \in Requests : q # r => mails'[q] = mails[q] /\ call'[q] = call[q]
        /\ \/ mails'[r] = mails[r] + 1
           \/ mails'[r] = mails[r] /\ call'[r] # "sentEvent"
    <3>1. \A q \in Requests : q # r => call'[q] = call[q]
      BY <1>0, <1>3, TryAdvances DEF Advance, Goto
    <3> QED BY <1>3, <3>1, TryAdvances
  <2>2. SentWereMailed' <=> \A q \in Requests :
          Recorded(q, "sent")' \/ call'[q] = "sentEvent" => mails'[q] > 0
    BY DEF SentWereMailed, At
  <2> QED BY <1>0, <2>1, <2>2 DEF SentWereMailed, At, Recorded
<1>4. ASSUME NEW r \in Requests, RecordSent(r) PROVE SentWereMailed'
  <2>1. /\ call[r] = "sentEvent" /\ UNCHANGED mails
        /\ \E step \in {"ended", "failEvent"} : Goto(r, step)
        /\ events' = events \/ events' = Written(r, "sent")
    BY <1>4 DEF RecordSent, At
  <2>2. \A q \in Requests : q # r => (Recorded(q, "sent")' <=> Recorded(q, "sent"))
    BY <2>1, OthersEvents
  <2> QED BY <1>g, <1>k, <2>1, <2>2
<1>5. ASSUME NEW r \in Requests, RecordFailure(r) PROVE SentWereMailed'
  <2>1. PICK status \in {"failed", "skipped"} :
          /\ UNCHANGED mails
          /\ events' = events \/ events' = Written(r, status)
          /\ Goto(r, "ended") \/ Die
    BY <1>5 DEF RecordFailure
  <2>2. \A q \in Requests : Recorded(q, "sent")' <=> Recorded(q, "sent")
    BY <2>1, OthersEvents
  <2>3. \A q \in Requests : call'[q] = "sentEvent" => call[q] = "sentEvent"
    <3>1. ASSUME Die, NEW q \in Requests PROVE call'[q] # "sentEvent" \/ call[q] = "sentEvent"
      BY <3>1 DEF Die
    <3>2. Goto(r, "ended") => \A q \in Requests : call'[q] = "sentEvent" => call[q] = "sentEvent"
      BY <1>g
    <3> QED BY <2>1, <3>1, <3>2
  <2> QED BY <1>k, <2>1, <2>2, <2>3
<1>6. CASE Crash \/ Tick
  <2>1. UNCHANGED <<mails, events>> /\ (Die \/ UNCHANGED call)
    BY <1>6 DEF Crash, Tick
  <2>2. ASSUME NEW q \in Requests PROVE call'[q] # "sentEvent" \/ call[q] = "sentEvent"
    BY <2>1 DEF Die
  <2> QED BY <1>k, <2>1, <2>2 DEF Recorded
<1> QED BY <1>1, <1>2, <1>3, <1>4, <1>5, <1>6 DEF Next, Job

(* Without Redis too, the callers of enqueue get what EmailDelivery promises: an accepted *)
(* email is owed until it has one final verdict, `sent` only if a mail left, and no mail  *)
(* leaves before the acceptance or after the verdict.                                     *)
THEOREM MemoryDelivers == Spec => Delivery!SafeSpec
<1>1. Init => Delivery!Init /\ SentWereMailed
  <2>1. Init => \A r \in Requests : Verdict(r) = "new"
    BY DEF Init, Verdict, Accepted, InHand
  <2> QED BY <2>1 DEF Init, Delivery!Init, SentWereMailed, Recorded, At
<1>2. TypeOK /\ TypeOK' /\ SentWereMailed /\ [Next]_vars =>
        SentWereMailed' /\ [Delivery!Next]_(Delivery!vars)
  <2> SUFFICES ASSUME TypeOK, TypeOK', SentWereMailed, [Next]_vars
               PROVE  SentWereMailed' /\ [Delivery!Next]_(Delivery!vars)
    OBVIOUS
  <2>1. CASE Next
    BY <2>1, SentStep, DeliveryStep
  <2>2. CASE UNCHANGED vars
    <3>1. SentWereMailed'
      BY <2>2 DEF vars, SentWereMailed, Recorded, At
    <3>2. \A q \in Requests : Verdict(q)' = Verdict(q)
      BY <2>2, VerdictRests DEF vars, Recorded
    <3> QED BY <2>2, <3>1, <3>2 DEF vars, Delivery!vars
  <2> QED BY <2>1, <2>2
<1>3. Spec => []TypeOK
  BY MemoryTypeCorrect
<1> QED BY <1>1, <1>2, <1>3, PTL DEF Spec, Delivery!SafeSpec
=============================================================================
