----------------------- MODULE OpsNotificationsProofs -----------------------
(***************************************************************************)
(* The throttle of the alerts, for any events, fingerprints, settings,     *)
(* faults and stops: an event is silenced only for another one that was    *)
(* sent, or was about to be, and no alert is repeated in a window that the *)
(* event's check could see.                                                *)
(***************************************************************************)
EXTENDS OpsNotifications, TLAPS

LEMMA EmptyMemory == DOMAIN << >> = {}
OBVIOUS

\* The settings of the throttle, checked as the code checks them, give no negative time.
LEMMA SecondsType == \A e \in Events : Seconds(e) \in Nat
BY NotificationsAssumption DEF Seconds, ThrottleFor

----------------------------------------------------------------------------
(* Types, of the memory and of the ghosts too *)

LEMMA CompactType ==
  ASSUME NEW m, DOMAIN m \subseteq Fingerprints, m \in [DOMAIN m -> Nat]
  PROVE  DOMAIN Compact(m) \subseteq Fingerprints /\ Compact(m) \in [DOMAIN Compact(m) -> Nat]
BY DEF Compact, RestrictValues, Restrict

LEMMA DecideType ==
  ASSUME TypeOK, NEW e \in Events, DecideInMemory(e)
  PROVE  /\ DOMAIN memory' \subseteq Fingerprints /\ memory' \in [DOMAIN memory' -> Nat]
         /\ window' \in [Events -> Nat] /\ st' \in [Events -> States]
<1> DEFINE until == now + Seconds(e)
           fps   == DOMAIN memory \cup {FingerprintOf[e]}
           m     == [f \in fps |-> IF f = FingerprintOf[e] THEN until ELSE memory[f]]
<1>1. until \in Nat
  BY SecondsType DEF TypeOK
<1>2. CASE InMemory(e)
  BY <1>2 DEF DecideInMemory, TypeOK, Become, States
<1>3. CASE ~InMemory(e)
  <2>1. memory' = Compact(m)
    BY <1>3 DEF DecideInMemory
  <2>2. DOMAIN m \subseteq Fingerprints /\ m \in [DOMAIN m -> Nat]
    BY <1>1, NotificationsAssumption DEF TypeOK
  <2> HIDE DEF m
  <2>3. DOMAIN memory' \subseteq Fingerprints /\ memory' \in [DOMAIN memory' -> Nat]
    BY <2>1, <2>2, CompactType
  <2>4. window' \in [Events -> Nat] /\ st' \in [Events -> States]
    BY <1>1, <1>3 DEF DecideInMemory, TypeOK, Become, States, Open
  <2> QED BY <2>3, <2>4
<1> QED BY <1>2, <1>3

LEMMA EventType ==
  ASSUME TypeOK, NEW e \in Events, Ingest(e) \/ ProcessEvent(e)
  PROVE  TypeOK'
<1>1. now + Seconds(e) \in Nat /\ FingerprintOf[e] \in Fingerprints
  BY SecondsType, NotificationsAssumption DEF TypeOK
<1>2. \A s \in States : Become(e, s) => st' \in [Events -> States]
  BY DEF TypeOK, Become
<1>3. Open(e) => window' \in [Events -> Nat]
  BY <1>1 DEF Open, TypeOK
<1>4. Check(e) => covered' \in [Events -> SUBSET Events]
  BY DEF Check, TypeOK, SameFingerprint
<1>5. Fault => faults' \in Nat
  BY DEF Fault, TypeOK
<1>6. CASE Ingest(e)
  BY <1>2, <1>6 DEF Ingest, TypeOK, config, ghosts, States
<1>7. CASE Begin(e)
  <2>1. UNCHANGED <<enabled, redisOn, now, redis, crashes, faults>>
    BY <1>7 DEF Begin, config
  <2>2. CASE (Become(e, "skipped") \/ Become(e, "send")) /\ UNCHANGED <<memory, window, covered>>
    BY <1>2, <2>1, <2>2 DEF TypeOK, States
  <2>3. CASE Become(e, "get") /\ Check(e) /\ UNCHANGED <<memory, window>>
    BY <1>2, <1>4, <2>1, <2>3 DEF TypeOK, States
  <2>4. CASE Check(e) /\ DecideInMemory(e)
    BY <1>4, <2>1, <2>4, DecideType DEF TypeOK
  <2> QED BY <1>7, <2>2, <2>3, <2>4 DEF Begin, ghosts
<1>8. CASE Get(e)
  <2>1. UNCHANGED <<enabled, redisOn, now, redis, covered, crashes>>
    BY <1>8 DEF Get, config
  <2>2. CASE (Become(e, "throttled") \/ Become(e, "setex")) /\ UNCHANGED <<memory, window, faults>>
    BY <1>2, <2>1, <2>2 DEF TypeOK, States
  <2>3. CASE Fault /\ DecideInMemory(e)
    BY <1>5, <2>1, <2>3, DecideType DEF TypeOK
  <2> QED BY <1>8, <2>2, <2>3 DEF Get
<1>9. CASE SetEx(e)
  <2>1. UNCHANGED <<enabled, redisOn, now, covered, crashes>>
    BY <1>9 DEF SetEx, config
  <2>2. redis' \in [Fingerprints -> Nat]
    BY <1>1, <1>9 DEF SetEx, TypeOK
  <2>3. CASE Become(e, "answer") /\ Open(e) /\ UNCHANGED <<memory, faults>>
    BY <1>2, <1>3, <2>1, <2>2, <2>3 DEF TypeOK, States
  <2>4. CASE Fault /\ DecideInMemory(e)
    BY <1>5, <2>1, <2>2, <2>4, DecideType DEF TypeOK
  <2> QED BY <1>9, <2>3, <2>4 DEF SetEx
<1>10. CASE Send(e)
  BY <1>2, <1>10 DEF Send, TypeOK, config, ghosts, States
<1>11. CASE Answer(e)
  <2>1. UNCHANGED <<enabled, redisOn, now, redis, covered, crashes>>
    BY <1>11 DEF Answer, config
  <2>2. CASE Become(e, "send") /\ UNCHANGED <<memory, window, faults>>
    BY <1>2, <2>1, <2>2 DEF TypeOK, States
  <2>3. CASE Fault /\ DecideInMemory(e)
    BY <1>5, <2>1, <2>3, DecideType DEF TypeOK
  <2> QED BY <1>11, <2>2, <2>3 DEF Answer
<1> QED BY <1>6, <1>7, <1>8, <1>9, <1>10, <1>11 DEF ProcessEvent

LEMMA TypeInductive == TypeOK /\ [Next]_vars => TypeOK'
<1> SUFFICES ASSUME TypeOK, [Next]_vars PROVE TypeOK'
  OBVIOUS
<1>1. ASSUME NEW e \in Events, Ingest(e) \/ ProcessEvent(e) PROVE TypeOK'
  BY <1>1, EventType
<1>2. CASE Crash
  <2>1. DOMAIN memory' \subseteq Fingerprints /\ memory' \in [DOMAIN memory' -> Nat]
    BY <1>2, EmptyMemory DEF Crash, Die
  <2> QED BY <1>2, <2>1 DEF Crash, Die, TypeOK, config, ghosts, States
<1>3. CASE Tick
  BY <1>3 DEF Tick, TypeOK, config, ghosts
<1>4. CASE UNCHANGED vars
  BY <1>4 DEF vars, TypeOK
<1> QED BY <1>1, <1>2, <1>3, <1>4 DEF Next

\* The throttle remembers only fingerprints and times of the clock, also when a setting of its
\* length is invalid (ThrottleFor).
THEOREM TypeCorrect == Spec => []TypeOK
<1>1. Init => TypeOK
  <2> SUFFICES ASSUME Init PROVE TypeOK
    OBVIOUS
  <2>1. DOMAIN memory \subseteq Fingerprints /\ memory \in [DOMAIN memory -> Nat]
    BY EmptyMemory DEF Init
  <2> QED BY <2>1 DEF Init, TypeOK, States
<1> QED BY <1>1, TypeInductive, PTL DEF Spec

----------------------------------------------------------------------------
(* What the throttle remembers is somebody's alert. *)

\* What is remembered of f until a time is d, whose window lasts as long if no command failed.
Behind(f, until, d) ==
  FingerprintOf[d] = f /\ Noticed(d) /\ (faults = 0 => until <= window[d])

KeyBehind(f)    == \E d \in Events : Behind(f, redis[f], d)
MemoryBehind(f) == \E d \in Events : Attempted(d) /\ Behind(f, memory[f], d)

Remembered ==
  /\ \A f \in Fingerprints : redis[f] > 0 => KeyBehind(f)
  /\ \A f \in DOMAIN memory : MemoryBehind(f)

\* An event that is being checked has no window before its SETEX, and one after it.
Undecided == {"new", "accepted", "get", "setex"}
EventInv ==
  /\ \A e \in Events : st[e] \in Undecided => window[e] = 0
  /\ \A e \in Events : st[e] \in {"get", "setex", "answer"} => Seconds(e) # 0 /\ redisOn
  /\ \A e \in Events : st[e] = "answer" => window[e] > 0

IInv == TypeOK /\ Remembered /\ EventInv

\* Compaction makes up no entry and changes none.
LEMMA CompactOnlyDrops ==
  ASSUME NEW m
  PROVE  /\ DOMAIN Compact(m) \subseteq DOMAIN m
         /\ \A f \in DOMAIN Compact(m) : Compact(m)[f] = m[f]
BY DEF Compact, RestrictValues, Restrict

\* Steps that open no window and leave what is remembered as it is, or forget it.
LEMMA RestKeeps ==
  ASSUME IInv, TypeOK', UNCHANGED <<redis, window, redisOn, faults>>,
         DOMAIN memory' \subseteq DOMAIN memory,
         \A f \in DOMAIN memory' : memory'[f] = memory[f],
         \A e \in Events : \/ st'[e] = st[e]
                           \/ st[e] \in Undecided /\ st'[e] \notin {"get", "setex", "answer"}
                           \/ st[e] \in Undecided /\ st'[e] # "answer" /\ Seconds(e) # 0 /\ redisOn
                           \/ st[e] = "answer" /\ st'[e] \in {"send", "cut"}
                           \/ st[e] = "send" /\ st'[e] \in {"sent", "failed", "unheard"}
  PROVE  IInv'
<1>1. ASSUME NEW d \in Events, Noticed(d)
      PROVE  Noticed(d)' /\ (Attempted(d) => Attempted(d)')
  <2>1. window[d] > 0 /\ st[d] \notin Undecided
    BY <1>1 DEF Noticed, IInv, EventInv, Undecided
  <2>2. st[d] = "answer" => redisOn
    BY DEF IInv, EventInv
  <2> QED BY <1>1, <2>1, <2>2 DEF Noticed, Attempted
<1>2. ASSUME NEW f, NEW until, NEW d \in Events, Behind(f, until, d)
      PROVE  Behind(f, until, d)' /\ (Attempted(d) => Attempted(d)')
  BY <1>1, <1>2 DEF Behind
<1>3. Remembered'
  <2>1. ASSUME NEW f \in Fingerprints, redis'[f] > 0 PROVE KeyBehind(f)'
    <3>1. PICK d \in Events : Behind(f, redis[f], d)
      BY <2>1 DEF IInv, Remembered, KeyBehind
    <3>2. Noticed(d)' /\ FingerprintOf[d] = f /\ (faults = 0 => redis[f] <= window[d])
      BY <1>1, <3>1 DEF Behind
    <3> QED BY <3>2 DEF KeyBehind, Behind
  <2>2. ASSUME NEW f \in DOMAIN memory' PROVE MemoryBehind(f)'
    <3>1. PICK d \in Events : Attempted(d) /\ Behind(f, memory[f], d)
      BY DEF IInv, Remembered, MemoryBehind
    <3>2. /\ Noticed(d)' /\ Attempted(d)'
          /\ FingerprintOf[d] = f /\ (faults = 0 => memory[f] <= window[d])
      BY <1>1, <3>1 DEF Behind
    <3> QED BY <3>2 DEF MemoryBehind, Behind
  <2> QED BY <2>1, <2>2 DEF Remembered
<1>4. EventInv'
  <2>1. ASSUME NEW e \in Events, st'[e] \in Undecided PROVE window'[e] = 0
    BY <2>1 DEF IInv, EventInv, Undecided
  <2>2. ASSUME NEW e \in Events, st'[e] \in {"get", "setex", "answer"} PROVE Seconds(e) # 0 /\ redisOn
    BY <2>2 DEF IInv, EventInv, Undecided
  <2>3. ASSUME NEW e \in Events, st'[e] = "answer" PROVE window'[e] > 0
    BY <2>3 DEF IInv, EventInv
  <2> QED BY <2>1, <2>2, <2>3 DEF EventInv, Seconds
<1> QED BY <1>3, <1>4 DEF IInv

\* The step that decides in memory, at once or after a failed command.
InMemoryStep(e) ==
  /\ DecideInMemory(e) /\ UNCHANGED <<now, redis, redisOn>> /\ Seconds(e) # 0
  /\ \/ st[e] = "accepted" /\ UNCHANGED faults
     \/ st[e] \in {"get", "setex", "answer"} /\ faults' > 0

\* The memory silences an event only for one that was sent to Slack.
LEMMA MemorySilences ==
  ASSUME IInv, NEW e \in Events, InMemoryStep(e), InMemory(e)
  PROVE  \E d \in Events : /\ d # e /\ FingerprintOf[d] = FingerprintOf[e]
                           /\ Attempted(d) /\ Noticed(d) /\ (faults' = 0 => window[d] > now)
<1>1. FingerprintOf[e] \in DOMAIN memory /\ memory[FingerprintOf[e]] > now
  BY DEF InMemory
<1>2. PICK d \in Events : Attempted(d) /\ Behind(FingerprintOf[e], memory[FingerprintOf[e]], d)
  BY <1>1 DEF IInv, Remembered, MemoryBehind
<1>3. d # e
  BY <1>2 DEF InMemoryStep, Attempted
<1>4. faults' = 0 => window[d] > now
  <2>1. memory[FingerprintOf[e]] \in Nat /\ window[d] \in Nat /\ now \in Nat
    BY <1>1 DEF IInv, TypeOK
  <2>2. faults' = 0 => faults = 0
    BY DEF InMemoryStep
  <2> QED BY <1>1, <1>2, <2>1, <2>2 DEF Behind
<1> QED BY <1>2, <1>3, <1>4 DEF Behind

LEMMA MemoryKeeps ==
  ASSUME IInv, TypeOK', NEW e \in Events, InMemoryStep(e)
  PROVE  IInv'
<1>1. /\ now \in Nat /\ Seconds(e) \in Nat /\ Seconds(e) # 0
      /\ st \in [Events -> States] /\ window \in [Events -> Nat]
      /\ st[e] \in {"accepted", "get", "setex", "answer"}
      /\ UNCHANGED <<redis, redisOn>>
      /\ faults' = 0 => faults = 0 /\ st[e] = "accepted"
  BY SecondsType DEF InMemoryStep, IInv, TypeOK
<1>2. CASE InMemory(e)
  <2>1. st' = [st EXCEPT ![e] = "throttled"] /\ UNCHANGED <<memory, window>>
    BY <1>2 DEF InMemoryStep, DecideInMemory, Become
  <2>2. ASSUME NEW d \in Events, Noticed(d), d # e PROVE Noticed(d)' /\ (Attempted(d) => Attempted(d)')
    BY <1>1, <2>1, <2>2 DEF Noticed, Attempted
  <2>3. Remembered'
    <3>1. ASSUME NEW f \in Fingerprints, redis'[f] > 0 PROVE KeyBehind(f)'
      <4>1. PICK d \in Events : FingerprintOf[d] = f /\ Noticed(d) /\ (faults = 0 => redis[f] <= window[d])
        BY <1>1, <3>1 DEF IInv, Remembered, KeyBehind, Behind
      <4>2. CASE d # e
        <5>1. Noticed(d)'
          BY <2>2, <4>1, <4>2
        <5> QED BY <1>1, <2>1, <4>1, <5>1 DEF KeyBehind, Behind
      <4>3. CASE d = e
        <5>1. faults' # 0
          BY <1>1, <4>1, <4>3 DEF Noticed, Attempted
        <5>2. PICK q \in Events : q # e /\ FingerprintOf[q] = f /\ Noticed(q)
          BY <1>2, <4>1, <4>3, MemorySilences
        <5>3. Noticed(q)'
          BY <2>2, <5>2
        <5> QED BY <5>1, <5>2, <5>3 DEF KeyBehind, Behind
      <4> QED BY <4>2, <4>3
    <3>2. ASSUME NEW f \in DOMAIN memory' PROVE MemoryBehind(f)'
      <4>1. PICK d \in Events : /\ Attempted(d) /\ FingerprintOf[d] = f /\ Noticed(d)
                                /\ faults = 0 => memory[f] <= window[d]
        BY <2>1 DEF IInv, Remembered, MemoryBehind, Behind
      <4>2. d # e
        BY <1>1, <4>1 DEF Attempted
      <4>3. Noticed(d)' /\ Attempted(d)'
        BY <2>2, <4>1, <4>2
      <4> QED BY <1>1, <2>1, <4>1, <4>3 DEF MemoryBehind, Behind
    <3> QED BY <3>1, <3>2 DEF Remembered
  <2>4. EventInv'
    <3>1. \A d \in Events : st'[d] = st[d] \/ st'[d] = "throttled"
      BY <1>1, <2>1
    <3>2. \A d \in Events : st'[d] \in Undecided => window'[d] = 0
      BY <2>1, <3>1 DEF IInv, EventInv, Undecided
    <3>3. \A d \in Events : st'[d] \in {"get", "setex", "answer"} => Seconds(d) # 0 /\ redisOn'
      BY <1>1, <3>1 DEF IInv, EventInv
    <3>4. \A d \in Events : st'[d] = "answer" => window'[d] > 0
      BY <2>1, <3>1 DEF IInv, EventInv
    <3> QED BY <3>2, <3>3, <3>4 DEF EventInv, Seconds
  <2> QED BY <2>3, <2>4 DEF IInv
<1>3. CASE ~InMemory(e)
  <2> DEFINE until == now + Seconds(e)
             fps   == DOMAIN memory \cup {FingerprintOf[e]}
             m     == [f \in fps |-> IF f = FingerprintOf[e] THEN until ELSE memory[f]]
  <2>1. /\ st' = [st EXCEPT ![e] = "send"] /\ window' = [window EXCEPT ![e] = until]
        /\ memory' = Compact(m)
    BY <1>3 DEF InMemoryStep, DecideInMemory, Become, Open
  <2>2. until > 0 /\ until \in Nat
    BY <1>1
  <2>3. DOMAIN m = fps /\ \A f \in fps : m[f] = IF f = FingerprintOf[e] THEN until ELSE memory[f]
    OBVIOUS
  <2> HIDE DEF m, until
  <2>4. /\ st'[e] = "send" /\ window'[e] = until
        /\ \A d \in Events : d # e => st'[d] = st[d] /\ window'[d] = window[d]
    BY <1>1, <2>1
  <2>5. /\ DOMAIN memory' \subseteq DOMAIN memory \cup {FingerprintOf[e]}
        /\ \A f \in DOMAIN memory' : memory'[f] = IF f = FingerprintOf[e] THEN until ELSE memory[f]
    BY <2>1, <2>3, CompactOnlyDrops
  <2>6. Noticed(e)' /\ Attempted(e)'
    BY <2>2, <2>4 DEF Noticed, Attempted
  <2>7. ASSUME NEW d \in Events, Noticed(d), d # e PROVE Noticed(d)' /\ (Attempted(d) => Attempted(d)')
    BY <1>1, <2>4, <2>7 DEF Noticed, Attempted
  <2>8. Remembered'
    <3>1. ASSUME NEW f \in Fingerprints, redis'[f] > 0 PROVE KeyBehind(f)'
      <4>1. PICK d \in Events : FingerprintOf[d] = f /\ Noticed(d) /\ (faults = 0 => redis[f] <= window[d])
        BY <1>1, <3>1 DEF IInv, Remembered, KeyBehind, Behind
      <4>2. CASE d # e
        <5>1. Noticed(d)' /\ window'[d] = window[d]
          BY <2>4, <2>7, <4>1, <4>2
        <5> QED BY <1>1, <4>1, <5>1 DEF KeyBehind, Behind
      <4>3. CASE d = e
        <5>1. faults' # 0
          BY <1>1, <4>1, <4>3 DEF Noticed, Attempted
        <5> QED BY <2>6, <4>1, <4>3, <5>1 DEF KeyBehind, Behind
      <4> QED BY <4>2, <4>3
    <3>2. ASSUME NEW f \in DOMAIN memory' PROVE MemoryBehind(f)'
      <4>1. CASE f = FingerprintOf[e]
        <5>1. memory'[f] <= window'[e]
          BY <2>2, <2>4, <2>5, <4>1
        <5> QED BY <2>6, <4>1, <5>1 DEF MemoryBehind, Behind
      <4>2. CASE f # FingerprintOf[e]
        <5>1. f \in DOMAIN memory /\ memory'[f] = memory[f]
          BY <2>5, <4>2
        <5>2. PICK d \in Events : /\ Attempted(d) /\ FingerprintOf[d] = f /\ Noticed(d)
                                  /\ faults = 0 => memory[f] <= window[d]
          BY <5>1 DEF IInv, Remembered, MemoryBehind, Behind
        <5>3. d # e
          BY <4>2, <5>2
        <5>4. Noticed(d)' /\ Attempted(d)' /\ window'[d] = window[d]
          BY <2>4, <2>7, <5>2, <5>3
        <5> QED BY <1>1, <5>1, <5>2, <5>4 DEF MemoryBehind, Behind
      <4> QED BY <4>1, <4>2
    <3> QED BY <3>1, <3>2 DEF Remembered
  <2>9. EventInv'
    <3>1. \A d \in Events : d = e \/ (st'[d] = st[d] /\ window'[d] = window[d])
      BY <2>4
    <3>2. \A d \in Events : st'[d] \in Undecided => window'[d] = 0
      BY <2>4, <3>1 DEF IInv, EventInv, Undecided
    <3>3. \A d \in Events : st'[d] \in {"get", "setex", "answer"} => Seconds(d) # 0 /\ redisOn'
      BY <1>1, <2>4, <3>1 DEF IInv, EventInv
    <3>4. \A d \in Events : st'[d] = "answer" => window'[d] > 0
      BY <2>4, <3>1 DEF IInv, EventInv
    <3> QED BY <3>2, <3>3, <3>4 DEF EventInv, Seconds
  <2> QED BY <2>8, <2>9 DEF IInv
<1> QED BY <1>2, <1>3

----------------------------------------------------------------------------
LEMMA InitInvariant == Init => IInv
<1> SUFFICES ASSUME Init PROVE IInv
  OBVIOUS
<1>1. TypeOK
  <2>1. DOMAIN memory \subseteq Fingerprints /\ memory \in [DOMAIN memory -> Nat]
    BY EmptyMemory DEF Init
  <2> QED BY <2>1 DEF Init, TypeOK, States
<1>2. Remembered
  BY EmptyMemory DEF Init, Remembered
<1>3. EventInv
  BY DEF Init, EventInv
<1> QED BY <1>1, <1>2, <1>3 DEF IInv

LEMMA BeginKeeps ==
  ASSUME IInv, TypeOK', NEW e \in Events, Begin(e)
  PROVE  IInv'
<1>1. /\ UNCHANGED <<now, redis, redisOn, faults>>
      /\ st[e] = "accepted" /\ st \in [Events -> States]
  BY DEF Begin, IInv, TypeOK, config
<1>2. CASE (Become(e, "skipped") \/ Become(e, "send")) /\ UNCHANGED <<memory, window>>
  <2>1. \A d \in Events : st'[d] = st[d] \/ (st[d] \in Undecided /\ st'[d] \notin {"get", "setex", "answer"})
    BY <1>1, <1>2 DEF Become, Undecided
  <2> QED BY <1>1, <1>2, <2>1, RestKeeps
<1>3. CASE Seconds(e) # 0 /\ redisOn /\ Become(e, "get") /\ UNCHANGED <<memory, window>>
  <2>1. \A d \in Events : \/ st'[d] = st[d]
                          \/ st[d] \in Undecided /\ st'[d] # "answer" /\ Seconds(d) # 0 /\ redisOn
    BY <1>1, <1>3 DEF Become, Undecided
  <2> QED BY <1>1, <1>3, <2>1, RestKeeps
<1>4. CASE Seconds(e) # 0 /\ DecideInMemory(e)
  BY <1>1, <1>4, MemoryKeeps DEF InMemoryStep
<1> QED BY <1>2, <1>3, <1>4 DEF Begin, ghosts

LEMMA GetKeeps ==
  ASSUME IInv, TypeOK', NEW e \in Events, Get(e)
  PROVE  IInv'
<1>1. /\ UNCHANGED <<now, redis, redisOn>> /\ faults \in Nat
      /\ st[e] = "get" /\ st \in [Events -> States] /\ Seconds(e) # 0 /\ redisOn
  BY DEF Get, IInv, TypeOK, EventInv, config
<1>2. CASE (Become(e, "throttled") \/ Become(e, "setex")) /\ UNCHANGED <<memory, window, faults>>
  <2>1. \A d \in Events : \/ st'[d] = st[d]
                          \/ st[d] \in Undecided /\ st'[d] # "answer" /\ Seconds(d) # 0 /\ redisOn
    BY <1>1, <1>2 DEF Become, Undecided
  <2> QED BY <1>1, <1>2, <2>1, RestKeeps
<1>3. CASE Fault /\ DecideInMemory(e)
  BY <1>1, <1>3, MemoryKeeps DEF InMemoryStep, Fault
<1> QED BY <1>2, <1>3 DEF Get

LEMMA SetExKeeps ==
  ASSUME IInv, TypeOK', NEW e \in Events, SetEx(e)
  PROVE  IInv'
<1>1. /\ UNCHANGED <<now, redisOn>> /\ faults \in Nat /\ now \in Nat /\ Seconds(e) \in Nat
      /\ st[e] = "setex" /\ st \in [Events -> States] /\ Seconds(e) # 0 /\ redisOn
      /\ window \in [Events -> Nat] /\ redis \in [Fingerprints -> Nat] /\ window[e] = 0
  BY SecondsType DEF SetEx, IInv, TypeOK, EventInv, config, Undecided
<1>2. CASE /\ redis' = [redis EXCEPT ![FingerprintOf[e]] = now + Seconds(e)]
           /\ Become(e, "answer") /\ Open(e) /\ UNCHANGED <<memory, faults>>
  <2>1. PICK until \in Nat : until = now + Seconds(e) /\ until > 0
    BY <1>1
  <2>2. /\ st'[e] = "answer" /\ window'[e] = until
        /\ \A d \in Events : d # e => st'[d] = st[d] /\ window'[d] = window[d]
    BY <1>1, <1>2, <2>1 DEF Become, Open
  <2>3. \A f \in Fingerprints : redis'[f] = IF f = FingerprintOf[e] THEN until ELSE redis[f]
    BY <1>1, <1>2, <2>1
  <2>4. Noticed(e)'
    BY <2>1, <2>2 DEF Noticed
  <2>5. ASSUME NEW d \in Events, Noticed(d)
        PROVE  d # e /\ Noticed(d)' /\ window'[d] = window[d] /\ (Attempted(d) => Attempted(d)')
    BY <1>1, <2>2, <2>5 DEF Noticed, Attempted
  <2>6. Remembered'
    <3>1. ASSUME NEW f \in Fingerprints, redis'[f] > 0 PROVE KeyBehind(f)'
      <4>1. CASE f = FingerprintOf[e]
        BY <2>1, <2>2, <2>3, <2>4, <4>1 DEF KeyBehind, Behind
      <4>2. CASE f # FingerprintOf[e]
        <5>1. PICK d \in Events : FingerprintOf[d] = f /\ Noticed(d) /\ (faults = 0 => redis[f] <= window[d])
          BY <2>3, <3>1, <4>2 DEF IInv, Remembered, KeyBehind, Behind
        <5>2. Noticed(d)' /\ window'[d] = window[d] /\ redis'[f] = redis[f]
          BY <2>3, <2>5, <4>2, <5>1
        <5> QED BY <1>2, <5>1, <5>2 DEF KeyBehind, Behind
      <4> QED BY <4>1, <4>2
    <3>2. ASSUME NEW f \in DOMAIN memory' PROVE MemoryBehind(f)'
      <4>1. PICK d \in Events : /\ Attempted(d) /\ FingerprintOf[d] = f /\ Noticed(d)
                                /\ faults = 0 => memory[f] <= window[d]
        BY <1>2 DEF IInv, Remembered, MemoryBehind, Behind
      <4>2. Noticed(d)' /\ Attempted(d)' /\ window'[d] = window[d]
        BY <2>5, <4>1
      <4> QED BY <1>2, <4>1, <4>2 DEF MemoryBehind, Behind
    <3> QED BY <3>1, <3>2 DEF Remembered
  <2>7. EventInv'
    <3>1. \A d \in Events : d = e \/ (st'[d] = st[d] /\ window'[d] = window[d])
      BY <2>2
    <3>2. \A d \in Events : st'[d] \in Undecided => window'[d] = 0
      BY <2>2, <3>1 DEF IInv, EventInv, Undecided
    <3>3. \A d \in Events : st'[d] \in {"get", "setex", "answer"} => Seconds(d) # 0 /\ redisOn'
      BY <1>1, <3>1 DEF IInv, EventInv
    <3>4. \A d \in Events : st'[d] = "answer" => window'[d] > 0
      BY <2>1, <2>2, <3>1 DEF IInv, EventInv
    <3> QED BY <3>2, <3>3, <3>4 DEF EventInv, Seconds
  <2> QED BY <2>6, <2>7 DEF IInv
<1>3. CASE Fault /\ DecideInMemory(e) /\ UNCHANGED redis
  BY <1>1, <1>3, MemoryKeeps DEF InMemoryStep, Fault
<1> QED BY <1>2, <1>3 DEF SetEx

LEMMA AnswerKeeps ==
  ASSUME IInv, TypeOK', NEW e \in Events, Answer(e)
  PROVE  IInv'
<1>1. /\ UNCHANGED <<now, redis, redisOn>> /\ faults \in Nat
      /\ st[e] = "answer" /\ st \in [Events -> States] /\ Seconds(e) # 0
  BY DEF Answer, IInv, TypeOK, EventInv, config
<1>2. CASE Become(e, "send") /\ UNCHANGED <<memory, window, faults>>
  <2>1. \A d \in Events : st'[d] = st[d] \/ (st[d] = "answer" /\ st'[d] \in {"send", "cut"})
    BY <1>1, <1>2 DEF Become
  <2> QED BY <1>1, <1>2, <2>1, RestKeeps
<1>3. CASE Fault /\ DecideInMemory(e)
  BY <1>1, <1>3, MemoryKeeps DEF InMemoryStep, Fault
<1> QED BY <1>2, <1>3 DEF Answer

\* Steps that accept an event, end an alert, end the process, or move the clock.
LEMMA OthersKeep ==
  ASSUME IInv, TypeOK',
         (\E e \in Events : Ingest(e) \/ Send(e)) \/ Crash \/ Tick \/ UNCHANGED vars
  PROVE  IInv'
<1>1. UNCHANGED <<redis, window, redisOn, faults>>
  BY DEF Ingest, Send, Crash, Tick, vars, config, ghosts
<1>2. DOMAIN memory' \subseteq DOMAIN memory /\ \A f \in DOMAIN memory' : memory'[f] = memory[f]
  BY EmptyMemory DEF Ingest, Send, Crash, Die, Tick, vars
<1>3. st \in [Events -> States]
  BY DEF IInv, TypeOK
<1>4. ASSUME NEW e \in Events
      PROVE  \/ st'[e] = st[e]
             \/ st[e] \in Undecided /\ st'[e] \notin {"get", "setex", "answer"}
             \/ st[e] = "answer" /\ st'[e] \in {"send", "cut"}
             \/ st[e] = "send" /\ st'[e] \in {"sent", "failed", "unheard"}
  <2>1. CASE \E d \in Events : Ingest(d) \/ Send(d)
    BY <1>3, <2>1 DEF Ingest, Send, Become, Undecided
  <2>2. CASE Crash
    BY <2>2 DEF Crash, Die, Checking, Undecided
  <2>3. CASE Tick \/ UNCHANGED vars
    BY <2>3 DEF Tick, vars
  <2> QED BY <2>1, <2>2, <2>3
<1> QED BY <1>1, <1>2, <1>4, RestKeeps

LEMMA Inductive == IInv /\ [Next]_vars => IInv'
<1> SUFFICES ASSUME IInv, [Next]_vars PROVE IInv'
  OBVIOUS
<1>0. TypeOK'
  BY TypeInductive DEF IInv
<1>1. ASSUME NEW e \in Events, Begin(e) PROVE IInv'
  BY <1>0, <1>1, BeginKeeps
<1>2. ASSUME NEW e \in Events, Get(e) PROVE IInv'
  BY <1>0, <1>2, GetKeeps
<1>3. ASSUME NEW e \in Events, SetEx(e) PROVE IInv'
  BY <1>0, <1>3, SetExKeeps
<1>4. ASSUME NEW e \in Events, Answer(e) PROVE IInv'
  BY <1>0, <1>4, AnswerKeeps
<1>5. CASE (\E e \in Events : Ingest(e) \/ Send(e)) \/ Crash \/ Tick \/ UNCHANGED vars
  BY <1>0, <1>5, OthersKeep
<1> QED BY <1>1, <1>2, <1>3, <1>4, <1>5 DEF Next, ProcessEvent

----------------------------------------------------------------------------
\* The event for which e is silenced.
SilencedFor(e) == \E d \in SameFingerprint(e) \ {e} :
                    Noticed(d) /\ (faults' = 0 => window[d] > now)

LEMMA MemoryTells ==
  ASSUME IInv, NEW e \in Events, InMemoryStep(e), st'[e] = "throttled"
  PROVE  SilencedFor(e)
<1>1. InMemory(e)
  BY DEF InMemoryStep, DecideInMemory, Become, IInv, TypeOK
<1> QED BY <1>1, MemorySilences DEF SilencedFor, SameFingerprint

LEMMA EventTells ==
  ASSUME IInv, NEW e \in Events, ProcessEvent(e), st[e] # "throttled", st'[e] = "throttled"
  PROVE  SilencedFor(e)
<1>1. st \in [Events -> States] /\ faults \in Nat
  BY DEF IInv, TypeOK
<1>2. CASE Begin(e)
  <2>1. Seconds(e) # 0 /\ DecideInMemory(e)
    BY <1>1, <1>2 DEF Begin, Become
  <2>2. InMemoryStep(e)
    BY <1>2, <2>1 DEF Begin, InMemoryStep, config
  <2> QED BY <2>2, MemoryTells
<1>3. CASE Get(e) /\ redis[FingerprintOf[e]] > now /\ UNCHANGED faults
  <2>1. FingerprintOf[e] \in Fingerprints
    BY NotificationsAssumption
  <2>2. redis[FingerprintOf[e]] \in Nat /\ now \in Nat
    BY <2>1 DEF IInv, TypeOK
  <2>3. PICK d \in Events : Behind(FingerprintOf[e], redis[FingerprintOf[e]], d)
    BY <1>3, <2>1, <2>2 DEF IInv, Remembered, KeyBehind
  <2>4. d # e
    BY <1>3, <2>3 DEF Behind, Noticed, Attempted, Get
  <2>5. window[d] \in Nat
    BY DEF IInv, TypeOK
  <2> QED BY <1>3, <2>2, <2>3, <2>4, <2>5 DEF SilencedFor, SameFingerprint, Behind
<1>4. CASE (Get(e) \/ SetEx(e) \/ Answer(e)) /\ Fault /\ DecideInMemory(e) /\ UNCHANGED redis
  <2>1. st[e] \in {"get", "setex", "answer"} /\ faults' > 0 /\ UNCHANGED <<now, redisOn>>
    BY <1>1, <1>4 DEF Get, SetEx, Answer, Fault, config
  <2>2. Seconds(e) # 0
    BY <2>1 DEF IInv, EventInv
  <2>3. InMemoryStep(e)
    BY <1>4, <2>1, <2>2 DEF InMemoryStep
  <2> QED BY <2>3, MemoryTells
<1>5. CASE Send(e)
  BY <1>1, <1>5 DEF Send, Become
<1>6. CASE Get(e)
  <2>1. CASE Become(e, IF redis[FingerprintOf[e]] > now THEN "throttled" ELSE "setex") /\ UNCHANGED faults
    <3>1. redis[FingerprintOf[e]] > now
      BY <1>1, <2>1 DEF Become
    <3> QED BY <1>3, <1>6, <2>1, <3>1
  <2> QED BY <1>4, <1>6, <2>1 DEF Get
<1>7. CASE SetEx(e) \/ Answer(e)
  <2>1. CASE Become(e, "answer") \/ Become(e, "send")
    BY <1>1, <2>1 DEF Become
  <2> QED BY <1>4, <1>7, <2>1 DEF SetEx, Answer
<1> QED BY <1>2, <1>5, <1>6, <1>7 DEF ProcessEvent

\* Nobody is silenced but for another event of the fingerprint that was sent, or was about to be,
\* whatever Redis answers and however often the process ends (isThrottled and its fall-back to
\* memory); a process that ends between the SETEX and the call of Slack is the one exception.
THEOREM ThrottledHasAlertHolds == Spec => ThrottledHasAlert
<1>1. IInv /\ [Next]_vars =>
        [\A e \in Events : st[e] # "throttled" /\ st'[e] = "throttled" =>
           \E d \in SameFingerprint(e) \ {e} :
             Noticed(d) /\ (faults' = 0 => window[d] > now)]_vars
  <2> SUFFICES ASSUME IInv, Next, NEW e \in Events, st[e] # "throttled", st'[e] = "throttled"
               PROVE  SilencedFor(e)
    BY DEF SilencedFor
  <2>1. st \in [Events -> States]
    BY DEF IInv, TypeOK
  <2>2. CASE ProcessEvent(e)
    BY <2>2, EventTells
  <2>3. ASSUME NEW d \in Events, Ingest(d) \/ (ProcessEvent(d) /\ d # e) PROVE FALSE
    BY <2>1, <2>3 DEF Ingest, ProcessEvent, Begin, Get, SetEx, Answer, Send, DecideInMemory, Become
  <2>4. CASE Crash \/ Tick
    BY <2>4 DEF Crash, Die, Tick
  <2> QED BY <2>2, <2>3, <2>4 DEF Next
<1> QED BY <1>1, InitInvariant, Inductive, PTL DEF Spec, ThrottledHasAlert

----------------------------------------------------------------------------
(* No alert is repeated in a window that its check could see. *)

Excused  == faults > 0 \/ (crashes > 0 /\ ~redisOn)
Alike(e) == \A d \in SameFingerprint(e) : Seconds(d) = Seconds(e)

\* Where the throttle works, the window of an alert is remembered, in Redis for good and in the
\* memory while it is open.
WindowKept(e) ==
  /\ window[e] > 0 /\ redisOn => window[e] <= redis[FingerprintOf[e]]
  /\ window[e] > now /\ ~redisOn => /\ FingerprintOf[e] \in DOMAIN memory
                                    /\ window[e] <= memory[FingerprintOf[e]]

\* An event that Redis let through saw every alert of its check end.
SeenEnd(e) == st[e] = "setex" => \A d \in covered[e] : window[d] <= now

CoveredAlerts(e) == \A d \in covered[e] : d \in SameFingerprint(e) /\ window[d] > 0

WindowInv ==
  /\ \A e \in Events : st[e] \in {"get", "setex"} => redisOn
  /\ \A e \in Events : window[e] <= now + Seconds(e)
  /\ \A e \in Events : CoveredAlerts(e)
  /\ \A e \in Events : Alike(e) /\ ~Excused => WindowKept(e) /\ SeenEnd(e)
  /\ NoRepeatInWindow

\* Two events with one fingerprint agree on what is alike.
LEMMA AlikeShared ==
  ASSUME NEW e \in Events, NEW d \in SameFingerprint(e)
  PROVE  /\ d \in Events /\ FingerprintOf[d] = FingerprintOf[e]
         /\ SameFingerprint(d) = SameFingerprint(e)
         /\ Alike(e) => Alike(d) /\ Seconds(d) = Seconds(e)
<1>1. d \in Events /\ FingerprintOf[d] = FingerprintOf[e] /\ SameFingerprint(d) = SameFingerprint(e)
  BY DEF SameFingerprint
<1>2. Alike(e) => Seconds(d) = Seconds(e)
  BY DEF Alike
<1> QED BY <1>1, <1>2 DEF Alike

\* Steps that open no window.
LEMMA WindowsRest ==
  ASSUME TypeOK, TypeOK', WindowInv, UNCHANGED <<window, redisOn>>, now <= now',
         Excused => Excused',
         redis' = redis \/ Excused', memory' = memory \/ redisOn \/ Excused',
         \A e \in Events : st'[e] \in {"get", "setex"} => redisOn,
         \A e \in Events : st'[e] = "setex" =>
             \/ st[e] = "setex" /\ covered'[e] = covered[e]
             \/ Alike(e) /\ ~Excused' => \A d \in covered'[e] : window[d] <= now,
         \A e \in Events : \/ covered'[e] = covered[e]
                           \/ /\ window[e] = 0
                              /\ covered'[e] = {d \in SameFingerprint(e) : window[d] > now}
  PROVE  WindowInv'
<1>1. /\ window \in [Events -> Nat] /\ now \in Nat /\ now' \in Nat
      /\ covered \in [Events -> SUBSET Events]
  BY DEF TypeOK
<1>2. \A e \in Events : st'[e] \in {"get", "setex"} => redisOn'
  OBVIOUS
<1>3. ASSUME NEW e \in Events PROVE window'[e] <= now' + Seconds(e)
  <2>1. Seconds(e) \in Nat /\ window[e] <= now + Seconds(e)
    BY SecondsType DEF WindowInv
  <2> QED BY <1>1, <2>1
<1>4. ASSUME NEW e \in Events PROVE CoveredAlerts(e)'
  <2>1. CASE covered'[e] = covered[e]
    BY <2>1 DEF WindowInv, CoveredAlerts, SameFingerprint
  <2>2. CASE covered'[e] = {d \in SameFingerprint(e) : window[d] > now}
    BY <1>1, <2>2 DEF CoveredAlerts, SameFingerprint
  <2> QED BY <2>1, <2>2
<1>5. ASSUME NEW e \in Events, Alike(e), ~Excused' PROVE WindowKept(e)' /\ SeenEnd(e)'
  <2>1. WindowKept(e) /\ SeenEnd(e)
    BY <1>5 DEF WindowInv
  <2>2. WindowKept(e)'
    BY <1>1, <1>5, <2>1 DEF WindowKept
  <2>3. ASSUME NEW d \in covered'[e], st'[e] = "setex" PROVE window'[d] <= now'
    <3>1. d \in Events /\ window[d] \in Nat
      BY <2>3 DEF TypeOK
    <3>2. window[d] <= now
      BY <1>5, <2>1, <2>3 DEF SeenEnd
    <3> QED BY <1>1, <3>1, <3>2
  <2> QED BY <2>2, <2>3 DEF SeenEnd
<1>6. NoRepeatInWindow'
  <2> SUFFICES ASSUME NEW e \in Events, window[e] > 0, ~Excused', Alike(e)
               PROVE  \A d \in covered'[e] : window[d] <= window[e] - Seconds(e)
    BY DEF NoRepeatInWindow, Excused, Alike, SameFingerprint, Seconds
  <2>1. covered'[e] = covered[e] /\ ~Excused
    BY <1>1
  <2> QED BY <2>1 DEF WindowInv, NoRepeatInWindow, Excused, Alike
<1> QED BY <1>2, <1>3, <1>4, <1>5, <1>6 DEF WindowInv, Alike, SameFingerprint, Seconds

\* A step that opens the window of e, and remembers it where the throttle works.
LEMMA WindowOpens ==
  ASSUME TypeOK, TypeOK', WindowInv, NEW e \in Events, window[e] = 0, Open(e), Seconds(e) # 0,
         st'[e] \notin {"get", "setex"}, \A d \in Events : d # e => st'[d] = st[d] /\ covered'[d] = covered[d],
         UNCHANGED <<now, redisOn>>, Excused => Excused',
         \A d \in covered'[e] : d \in SameFingerprint(e) /\ window[d] > 0,
         Alike(e) /\ ~Excused' => \A d \in covered'[e] : window[d] <= now,
         ~Excused' =>
           /\ redisOn => redis' = [redis EXCEPT ![FingerprintOf[e]] = now + Seconds(e)]
           /\ ~redisOn => /\ FingerprintOf[e] \in DOMAIN memory'
                         /\ memory'[FingerprintOf[e]] = now + Seconds(e)
                         /\ \A f \in DOMAIN memory : f # FingerprintOf[e] /\ memory[f] > now =>
                              f \in DOMAIN memory' /\ memory'[f] = memory[f]
  PROVE  WindowInv'
<1>1. /\ window \in [Events -> Nat] /\ now \in Nat /\ redis \in [Fingerprints -> Nat]
      /\ covered' \in [Events -> SUBSET Events] /\ covered \in [Events -> SUBSET Events]
      /\ DOMAIN memory \subseteq Fingerprints /\ memory \in [DOMAIN memory -> Nat]
  BY DEF TypeOK
<1>2. Seconds(e) \in Nat /\ now + Seconds(e) \in Nat /\ now + Seconds(e) > 0
  BY <1>1, SecondsType
<1>3. window'[e] = now + Seconds(e) /\ \A d \in Events : d # e => window'[d] = window[d]
  BY <1>1 DEF Open
<1>4. \A d \in Events : FingerprintOf[d] \in Fingerprints
  BY NotificationsAssumption
<1>5. \A d \in Events : st'[d] \in {"get", "setex"} => redisOn'
  BY DEF WindowInv
<1>6. \A d \in Events : window'[d] <= now' + Seconds(d)
  BY <1>2, <1>3 DEF WindowInv
<1>7. ASSUME NEW q \in Events PROVE CoveredAlerts(q)'
  <2> SUFFICES ASSUME NEW d \in covered'[q] PROVE d \in SameFingerprint(q) /\ window'[d] > 0
    BY DEF CoveredAlerts, SameFingerprint
  <2>1. d \in SameFingerprint(q) /\ window[d] > 0 /\ d \in Events
    BY <1>1 DEF WindowInv, CoveredAlerts
  <2> QED BY <1>2, <1>3, <2>1
<1>8. ASSUME NEW q \in Events, Alike(q), ~Excused' PROVE WindowKept(q)' /\ SeenEnd(q)'
  <2>1. WindowKept(q) /\ SeenEnd(q) /\ window[q] <= now + Seconds(q) /\ Seconds(q) \in Nat
    BY <1>8, SecondsType DEF WindowInv
  <2>2. WindowKept(q)'
    <3>1. CASE q = e
      BY <1>1, <1>2, <1>3, <1>4, <1>8, <3>1 DEF WindowKept
    <3>2. CASE q # e /\ FingerprintOf[q] = FingerprintOf[e]
      <4>1. Seconds(q) = Seconds(e)
        BY <1>8, <3>2 DEF Alike, SameFingerprint
      <4>2. window'[q] = window[q] /\ window[q] <= now + Seconds(e)
        BY <1>3, <2>1, <3>2, <4>1
      <4>3. redisOn => redis'[FingerprintOf[q]] = now + Seconds(e)
        BY <1>1, <1>4, <1>8, <3>2
      <4>4. ~redisOn => FingerprintOf[q] \in DOMAIN memory' /\ memory'[FingerprintOf[q]] = now + Seconds(e)
        BY <1>8, <3>2
      <4> QED BY <4>2, <4>3, <4>4 DEF WindowKept
    <3>3. CASE FingerprintOf[q] # FingerprintOf[e]
      <4>1. q # e /\ window'[q] = window[q] /\ window[q] \in Nat
        BY <1>1, <1>3, <3>3
      <4>2. redisOn => redis'[FingerprintOf[q]] = redis[FingerprintOf[q]]
        BY <1>1, <1>4, <1>8, <3>3
      <4>3. ~redisOn /\ window[q] > now =>
              /\ FingerprintOf[q] \in DOMAIN memory /\ memory[FingerprintOf[q]] > now
        <5>1. ~redisOn /\ window[q] > now =>
                FingerprintOf[q] \in DOMAIN memory /\ window[q] <= memory[FingerprintOf[q]]
          BY <2>1 DEF WindowKept
        <5>2. FingerprintOf[q] \in DOMAIN memory => memory[FingerprintOf[q]] \in Nat
          BY <1>1
        <5> QED BY <1>1, <4>1, <5>1, <5>2
      <4>4. ~redisOn /\ window[q] > now =>
              /\ FingerprintOf[q] \in DOMAIN memory'
              /\ memory'[FingerprintOf[q]] = memory[FingerprintOf[q]]
        BY <1>8, <3>3, <4>3
      <4> QED BY <2>1, <4>1, <4>2, <4>4 DEF WindowKept
    <3> QED BY <3>1, <3>2, <3>3
  <2>3. SeenEnd(q)'
    <3> SUFFICES ASSUME st'[q] = "setex", NEW d \in covered'[q] PROVE window'[d] <= now
      BY DEF SeenEnd
    <3>1. q # e /\ st[q] = "setex" /\ d \in covered[q]
      OBVIOUS
    <3>2. window[d] > 0 /\ d \in Events /\ window[d] <= now
      BY <1>1, <2>1, <3>1 DEF WindowInv, CoveredAlerts, SeenEnd
    <3> QED BY <1>3, <3>2
  <2> QED BY <2>2, <2>3
<1>9. NoRepeatInWindow'
  <2> SUFFICES ASSUME NEW q \in Events, window'[q] > 0, ~Excused', Alike(q), NEW d \in covered'[q]
               PROVE  window'[d] <= window'[q] - Seconds(q)
    BY DEF NoRepeatInWindow, Excused, Alike, SameFingerprint, Seconds
  <2>1. d \in Events /\ window[d] > 0 /\ d # e
    BY <1>1 DEF WindowInv, CoveredAlerts
  <2>2. CASE q = e
    BY <1>1, <1>2, <1>3, <2>1, <2>2
  <2>3. CASE q # e
    BY <1>3, <2>1, <2>3 DEF WindowInv, NoRepeatInWindow, Excused, Alike
  <2> QED BY <2>2, <2>3
<1> QED BY <1>5, <1>6, <1>7, <1>8, <1>9 DEF WindowInv, Alike, SameFingerprint, Seconds

LEMMA CompactKeeps ==
  ASSUME NEW m, NEW f \in DOMAIN m, m[f] > now
  PROVE  f \in DOMAIN Compact(m) /\ Compact(m)[f] = m[f]
BY DEF Compact, RestrictValues, Restrict

\* The memory lets e through: its window is remembered, and so are those that are open.
LEMMA MemoryOpens ==
  ASSUME TypeOK, NEW e \in Events, Seconds(e) # 0, DecideInMemory(e), ~InMemory(e)
  PROVE  /\ Become(e, "send") /\ Open(e)
         /\ FingerprintOf[e] \in DOMAIN memory' /\ memory'[FingerprintOf[e]] = now + Seconds(e)
         /\ \A f \in DOMAIN memory : f # FingerprintOf[e] /\ memory[f] > now =>
                f \in DOMAIN memory' /\ memory'[f] = memory[f]
<1> DEFINE until == now + Seconds(e)
           fps   == DOMAIN memory \cup {FingerprintOf[e]}
           m     == [f \in fps |-> IF f = FingerprintOf[e] THEN until ELSE memory[f]]
<1>1. Become(e, "send") /\ Open(e) /\ memory' = Compact(m)
  BY DEF DecideInMemory
<1>2. until > now
  BY SecondsType DEF TypeOK
<1>3. /\ FingerprintOf[e] \in DOMAIN m /\ m[FingerprintOf[e]] = until
      /\ \A f \in DOMAIN memory : f # FingerprintOf[e] => f \in DOMAIN m /\ m[f] = memory[f]
  OBVIOUS
<1> HIDE DEF m
<1> QED BY <1>1, <1>2, <1>3, CompactKeeps

\* The decision in memory after a failed command is an excused one.
LEMMA FaultWindows ==
  ASSUME IInv, TypeOK, TypeOK', WindowInv, NEW e \in Events, st[e] \in {"get", "setex", "answer"},
         Fault, DecideInMemory(e), UNCHANGED <<now, redisOn, covered>>
  PROVE  WindowInv'
<1>1. /\ faults' > 0 /\ now \in Nat /\ Seconds(e) \in Nat /\ window \in [Events -> Nat]
      /\ covered \in [Events -> SUBSET Events] /\ st \in [Events -> States]
  BY SecondsType DEF Fault, TypeOK
<1>2. /\ st'[e] \notin {"get", "setex"} /\ \A d \in Events : d # e => st'[d] = st[d]
      /\ \/ UNCHANGED window
         \/ window' = [window EXCEPT ![e] = now + Seconds(e)] /\ now + Seconds(e) > 0
  <2>1. Seconds(e) # 0
    BY DEF IInv, EventInv
  <2> QED BY <1>1, <2>1 DEF DecideInMemory, Become, Open
<1>3. \A d \in Events : st'[d] \in {"get", "setex"} => redisOn'
  BY <1>2 DEF WindowInv
<1>4. \A d \in Events : window'[d] <= now' + Seconds(d)
  BY <1>1, <1>2 DEF WindowInv
<1>5. ASSUME NEW q \in Events PROVE CoveredAlerts(q)'
  <2> SUFFICES ASSUME NEW d \in covered[q] PROVE d \in SameFingerprint(q) /\ window'[d] > 0
    BY DEF CoveredAlerts, SameFingerprint
  <2>1. d \in SameFingerprint(q) /\ window[d] > 0 /\ d \in Events
    BY <1>1 DEF WindowInv, CoveredAlerts
  <2> QED BY <1>1, <1>2, <2>1
<1>6. Excused' /\ NoRepeatInWindow'
  BY <1>1 DEF Excused, NoRepeatInWindow
<1> QED BY <1>3, <1>4, <1>5, <1>6 DEF WindowInv, Seconds

LEMMA BeginWindows ==
  ASSUME IInv, TypeOK, TypeOK', WindowInv, NEW e \in Events, Begin(e)
  PROVE  WindowInv'
<1>1. /\ UNCHANGED <<enabled, redisOn, now, redis, crashes, faults>> /\ now \in Nat
      /\ st[e] = "accepted" /\ st \in [Events -> States] /\ window[e] = 0
      /\ covered \in [Events -> SUBSET Events] /\ window \in [Events -> Nat]
      /\ memory \in [DOMAIN memory -> Nat]
  BY DEF Begin, config, TypeOK, IInv, EventInv, Undecided
<1>2. Excused' = Excused
  BY <1>1 DEF Excused
<1>3. Check(e) => /\ covered'[e] = {d \in SameFingerprint(e) : window[d] > now}
                  /\ \A d \in Events : d # e => covered'[d] = covered[d]
  BY <1>1 DEF Check
<1>4. CASE (Become(e, "skipped") \/ Become(e, "send")) /\ UNCHANGED <<memory, window, covered>>
  <2>1. \A d \in Events : st'[d] \in {"get", "setex"} => st'[d] = st[d]
    BY <1>1, <1>4 DEF Become
  <2>2. \A d \in Events : st'[d] \in {"get", "setex"} => redisOn
    BY <2>1 DEF WindowInv
  <2>3. \A d \in Events : st'[d] = "setex" => st[d] = "setex"
    BY <2>1
  <2> QED BY <1>1, <1>2, <1>4, <2>2, <2>3, WindowsRest
<1>5. CASE redisOn /\ Become(e, "get") /\ Check(e) /\ UNCHANGED <<memory, window>>
  <2>1. \A d \in Events : st'[d] = "setex" => st[d] = "setex" /\ d # e
    BY <1>1, <1>5 DEF Become
  <2> QED BY <1>1, <1>2, <1>3, <1>5, <2>1, WindowsRest
<1>6. CASE ~redisOn /\ Seconds(e) # 0 /\ Check(e) /\ DecideInMemory(e) /\ InMemory(e)
  <2>1. Become(e, "throttled") /\ UNCHANGED <<memory, window>>
    BY <1>6 DEF DecideInMemory
  <2>2. \A d \in Events : st'[d] \in {"get", "setex"} => st'[d] = st[d] /\ d # e
    BY <1>1, <2>1 DEF Become
  <2>3. \A d \in Events : st'[d] \in {"get", "setex"} => redisOn
    BY <2>2 DEF WindowInv
  <2>4. \A d \in Events : st'[d] = "setex" => st[d] = "setex" /\ d # e
    BY <2>2
  <2> QED BY <1>1, <1>2, <1>3, <1>6, <2>1, <2>3, <2>4, WindowsRest
<1>7. CASE ~redisOn /\ Seconds(e) # 0 /\ Check(e) /\ DecideInMemory(e) /\ ~InMemory(e)
  <2>1. /\ Become(e, "send") /\ Open(e)
        /\ FingerprintOf[e] \in DOMAIN memory' /\ memory'[FingerprintOf[e]] = now + Seconds(e)
        /\ \A f \in DOMAIN memory : f # FingerprintOf[e] /\ memory[f] > now =>
               f \in DOMAIN memory' /\ memory'[f] = memory[f]
    BY <1>7, MemoryOpens
  <2>2. st'[e] = "send" /\ \A d \in Events : d # e => st'[d] = st[d]
    BY <1>1, <2>1 DEF Become
  <2>3. \A d \in covered'[e] : d \in SameFingerprint(e) /\ d \in Events /\ window[d] > 0
    BY <1>1, <1>3, <1>7 DEF SameFingerprint
  <2>4. ASSUME Alike(e), ~Excused, NEW d \in covered'[e] PROVE window[d] <= now
    <3>1. /\ d \in Events /\ FingerprintOf[d] = FingerprintOf[e] /\ Alike(d)
      BY <2>3, <2>4, AlikeShared
    <3>2. WindowKept(d)
      BY <2>4, <3>1 DEF WindowInv
    <3>3. window[d] \in Nat /\ (FingerprintOf[d] \in DOMAIN memory => memory[FingerprintOf[d]] \in Nat)
      BY <1>1, <3>1
    <3> QED BY <1>1, <1>7, <3>1, <3>2, <3>3 DEF WindowKept, InMemory
  <2> QED BY <1>1, <1>2, <1>3, <1>7, <2>1, <2>2, <2>3, <2>4, WindowOpens
<1> QED BY <1>4, <1>5, <1>6, <1>7 DEF Begin, ghosts

LEMMA GetWindows ==
  ASSUME IInv, TypeOK, TypeOK', WindowInv, NEW e \in Events, Get(e)
  PROVE  WindowInv'
<1>1. /\ UNCHANGED <<enabled, redisOn, now, redis, covered, crashes>> /\ now \in Nat /\ redisOn
      /\ st[e] = "get" /\ st \in [Events -> States] /\ window \in [Events -> Nat]
      /\ redis \in [Fingerprints -> Nat] /\ covered \in [Events -> SUBSET Events]
  BY DEF Get, config, TypeOK, WindowInv
<1>2. CASE Become(e, "throttled") /\ UNCHANGED <<memory, window, faults>>
  <2>1. \A d \in Events : st'[d] \in {"get", "setex"} => st'[d] = st[d]
    BY <1>1, <1>2 DEF Become
  <2> QED BY <1>1, <1>2, <2>1, WindowsRest DEF Excused
<1>3. CASE redis[FingerprintOf[e]] <= now /\ Become(e, "setex") /\ UNCHANGED <<memory, window, faults>>
  <2>1. \A d \in Events : st'[d] = "setex" => st[d] = "setex" \/ d = e
    BY <1>1, <1>3 DEF Become
  <2>2. ASSUME Alike(e), ~Excused, NEW d \in covered[e] PROVE window[d] <= now
    <3>1. d \in SameFingerprint(e) /\ window[d] > 0
      BY DEF WindowInv, CoveredAlerts
    <3>2. d \in Events /\ FingerprintOf[d] = FingerprintOf[e] /\ Alike(d)
      BY <2>2, <3>1, AlikeShared
    <3>3. window[d] <= redis[FingerprintOf[e]]
      BY <1>1, <2>2, <3>1, <3>2 DEF WindowInv, WindowKept
    <3>4. FingerprintOf[e] \in Fingerprints
      BY NotificationsAssumption
    <3> QED BY <1>1, <1>3, <3>2, <3>3, <3>4
  <2> QED BY <1>1, <1>3, <2>1, <2>2, WindowsRest DEF Excused
<1>4. CASE Fault /\ DecideInMemory(e)
  BY <1>1, <1>4, FaultWindows
<1>5. redis[FingerprintOf[e]] > now \/ redis[FingerprintOf[e]] <= now
  BY <1>1, NotificationsAssumption
<1> QED BY <1>2, <1>3, <1>4, <1>5 DEF Get

LEMMA SetExWindows ==
  ASSUME IInv, TypeOK, TypeOK', WindowInv, NEW e \in Events, SetEx(e)
  PROVE  WindowInv'
<1>1. /\ UNCHANGED <<enabled, redisOn, now, covered, crashes>> /\ redisOn
      /\ st[e] = "setex" /\ st \in [Events -> States] /\ window[e] = 0 /\ Seconds(e) # 0
  BY DEF SetEx, config, TypeOK, WindowInv, IInv, EventInv, Undecided
<1>2. CASE /\ redis' = [redis EXCEPT ![FingerprintOf[e]] = now + Seconds(e)]
           /\ Become(e, "answer") /\ Open(e) /\ UNCHANGED <<memory, faults>>
  <2>1. st'[e] = "answer" /\ \A d \in Events : d # e => st'[d] = st[d]
    BY <1>1, <1>2 DEF Become
  <2>2. Excused' = Excused
    BY <1>1, <1>2 DEF Excused
  <2>3. \A d \in covered'[e] : d \in SameFingerprint(e) /\ window[d] > 0
    BY <1>1 DEF WindowInv, CoveredAlerts
  <2>4. Alike(e) /\ ~Excused => \A d \in covered'[e] : window[d] <= now
    BY <1>1 DEF WindowInv, SeenEnd
  <2> QED BY <1>1, <1>2, <2>1, <2>2, <2>3, <2>4, WindowOpens
<1>3. CASE Fault /\ DecideInMemory(e)
  BY <1>1, <1>3, FaultWindows
<1> QED BY <1>2, <1>3 DEF SetEx

LEMMA AnswerWindows ==
  ASSUME IInv, TypeOK, TypeOK', WindowInv, NEW e \in Events, Answer(e)
  PROVE  WindowInv'
<1>1. /\ UNCHANGED <<enabled, redisOn, now, redis, covered, crashes>> /\ now \in Nat
      /\ st[e] = "answer" /\ st \in [Events -> States]
  BY DEF Answer, config, TypeOK
<1>2. CASE Become(e, "send") /\ UNCHANGED <<memory, window, faults>>
  <2>1. \A d \in Events : st'[d] \in {"get", "setex"} => st'[d] = st[d]
    BY <1>1, <1>2 DEF Become
  <2>2. /\ \A d \in Events : st'[d] \in {"get", "setex"} => redisOn
        /\ \A d \in Events : st'[d] = "setex" => st[d] = "setex"
    BY <2>1 DEF WindowInv
  <2> QED BY <1>1, <1>2, <2>2, WindowsRest DEF Excused
<1>3. CASE Fault /\ DecideInMemory(e)
  BY <1>1, <1>3, FaultWindows
<1> QED BY <1>2, <1>3 DEF Answer

\* Steps that only move events on, end the process, or move the clock.
LEMMA OtherWindows ==
  ASSUME TypeOK, TypeOK', WindowInv,
         (\E e \in Events : Ingest(e) \/ Send(e)) \/ Crash \/ Tick \/ UNCHANGED vars
  PROVE  WindowInv'
<1>1. /\ UNCHANGED <<redisOn, redis, window, covered>> /\ now \in Nat /\ now' \in Nat
      /\ now' = now \/ now' = now + 1
  BY DEF Ingest, Send, Crash, Tick, vars, config, ghosts, TypeOK
<1>2. \A d \in Events : st'[d] \in {"get", "setex"} => st'[d] = st[d]
  BY DEF Ingest, Send, Crash, Die, Tick, vars, Become, TypeOK
<1>3. \/ UNCHANGED <<memory, crashes, faults>>
      \/ crashes' = crashes + 1 /\ crashes \in Nat /\ faults' = faults
  BY DEF Ingest, Send, Crash, Tick, vars, TypeOK
<1>4. /\ Excused => Excused'
      /\ memory' = memory \/ redisOn \/ Excused'
  BY <1>1, <1>3 DEF Excused, TypeOK
<1>5. now <= now'
  BY <1>1
<1>6. /\ \A d \in Events : st'[d] \in {"get", "setex"} => redisOn
      /\ \A d \in Events : st'[d] = "setex" => st[d] = "setex"
  BY <1>2 DEF WindowInv
<1> QED BY <1>1, <1>4, <1>5, <1>6, WindowsRest

\* Two events with one fingerprint whose checks do not overlap alert once per window (isThrottled),
\* whatever the other events do; what excuses a second alert is named by the property.
THEOREM NoRepeatInWindowHolds == Spec => []NoRepeatInWindow
<1>1. Init => TypeOK /\ IInv /\ WindowInv
  <2> SUFFICES ASSUME Init PROVE TypeOK /\ IInv /\ WindowInv
    OBVIOUS
  <2>1. DOMAIN memory \subseteq Fingerprints /\ memory \in [DOMAIN memory -> Nat]
    BY EmptyMemory DEF Init
  <2>2. TypeOK
    BY <2>1 DEF Init, TypeOK, States
  <2>3. \A e \in Events : window[e] <= now + Seconds(e)
    BY SecondsType DEF Init
  <2>4. \A e \in Events : CoveredAlerts(e) /\ WindowKept(e) /\ SeenEnd(e)
    BY DEF Init, CoveredAlerts, WindowKept, SeenEnd
  <2> QED BY <2>2, <2>3, <2>4, InitInvariant DEF Init, WindowInv, NoRepeatInWindow
<1>2. TypeOK /\ IInv /\ WindowInv /\ [Next]_vars => TypeOK' /\ IInv' /\ WindowInv'
  <2> SUFFICES ASSUME TypeOK, IInv, WindowInv, [Next]_vars PROVE WindowInv'
    BY TypeInductive, Inductive
  <2>1. TypeOK'
    BY TypeInductive
  <2>2. ASSUME NEW e \in Events, Begin(e) PROVE WindowInv'
    BY <2>1, <2>2, BeginWindows
  <2>3. ASSUME NEW e \in Events, Get(e) PROVE WindowInv'
    BY <2>1, <2>3, GetWindows
  <2>4. ASSUME NEW e \in Events, SetEx(e) PROVE WindowInv'
    BY <2>1, <2>4, SetExWindows
  <2>6. ASSUME NEW e \in Events, Answer(e) PROVE WindowInv'
    BY <2>1, <2>6, AnswerWindows
  <2>5. CASE (\E e \in Events : Ingest(e) \/ Send(e)) \/ Crash \/ Tick \/ UNCHANGED vars
    BY <2>1, <2>5, OtherWindows
  <2> QED BY <2>2, <2>3, <2>4, <2>5, <2>6 DEF Next, ProcessEvent
<1>3. WindowInv => NoRepeatInWindow
  BY DEF WindowInv
<1> QED BY <1>1, <1>2, <1>3, PTL DEF Spec
=============================================================================
