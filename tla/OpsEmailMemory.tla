--------------------------- MODULE OpsEmailMemory ---------------------------
(***************************************************************************)
(* The email queue of ceres-api without Redis (REDIS_HOST is not set): an  *)
(* accepted job is processed once, in the process that accepted it, while  *)
(* other jobs are; idempotency keys are kept in a map of the process.      *)
(* OpsEmailQueue is the same service with Redis.                           *)
(***************************************************************************)
EXTENDS Naturals, Sequences, FiniteSets

CONSTANTS
  Requests,      \* calls of enqueue
  Keys,          \* idempotency keys
  KeyOf,         \* the idempotencyKey of each request
  Order,         \* the providers of the strategy of each request, in order
  Configured,    \* the providers that have credentials
  HasSender,     \* the requests whose template has an address to send from
  Ttl,           \* OPS_EMAIL_IDEMPOTENCY_TTL_SECONDS
  CompactFrom,   \* the number of keys from which the map is compacted (1000)
  MaxAttempts,   \* OPS_EMAIL_MAX_ATTEMPTS
  MaxTime, MaxFaults, MaxCrashes     \* bounds of a run

ASSUME ConstantsAssumption ==
  /\ KeyOf \in [Requests -> Keys]
  /\ Order \in [Requests -> Seq({"resend", "smtp"}) \ {<< >>}]
  /\ {Ttl, CompactFrom, MaxAttempts} \subseteq Nat \ {0}

VARIABLES
  memory,      \* memoryIdempotency: when each key it has expires
  call,        \* where each call of enqueue, and then its job, stands
  next,        \* the provider the loop of send is at
  events,      \* the rows of ops_event_log
  now,         \* Date.now()
  mails,       \* ghost: mails the providers accepted for each request
  reserved,    \* ghost: the process and the time in which each key was reserved
  faults, crashes
vars == <<memory, call, next, events, now, mails, reserved, faults, crashes>>

Answering == {"requested", "dup"}                               \* before the answer
InHand == {"send", "sentEvent", "skipEvent", "failEvent"}       \* after it
Steps == {"new", "duplicate", "failed", "ended", "cut"} \cup Answering \cup InHand
At(r, step) == call[r] = step
Goto(r, step) == call' = [call EXCEPT ![r] = step]

Fault == faults < MaxFaults /\ faults' = faults + 1

Init == /\ memory = << >>
        /\ call = [r \in Requests |-> "new"]
        /\ next = [r \in Requests |-> 1]
        /\ events = {}
        /\ now = 0
        /\ mails = [r \in Requests |-> 0]
        /\ reserved = << >>
        /\ faults = 0 /\ crashes = 0

----------------------------------------------------------------------------
(* enqueue *)

IsLive(map, k) == k \in DOMAIN map /\ map[k] > now
Set(k) == [x \in DOMAIN memory \cup {k} |-> IF x = k THEN now + Ttl ELSE memory[x]]

\* Plausible bug: the comparison of the compaction is the wrong way round.
CompactLive(map) ==
  IF Cardinality(DOMAIN map) < CompactFrom THEN map
  ELSE [k \in {x \in DOMAIN map : map[x] <= now} |-> map[k]]
\* Plausible bug: compaction begins one key late.
CompactLate(map) ==
  IF Cardinality(DOMAIN map) <= CompactFrom THEN map
  ELSE [k \in {x \in DOMAIN map : map[x] > now} |-> map[k]]
compactMemoryIdempotency(map) ==
  IF Cardinality(DOMAIN map) < CompactFrom THEN map
  ELSE [k \in {x \in DOMAIN map : map[x] > now} |-> map[k]]

\* reserveIdempotency has no await: the test, the entry and the compaction are one step.
Reserve(r) ==
  /\ At(r, "new")
  /\ IF IsLive(memory, KeyOf[r])
       THEN Goto(r, "dup") /\ UNCHANGED <<memory, reserved>>
       ELSE /\ Goto(r, "requested")
            /\ memory' = compactMemoryIdempotency(Set(KeyOf[r]))
            /\ reserved' = [x \in DOMAIN reserved \cup {r} |->
                              IF x = r THEN [life |-> crashes, time |-> now]
                              ELSE reserved[x]]
  /\ UNCHANGED <<next, events, now, mails, faults, crashes>>

Written(r, status) == events \cup {[id |-> r, status |-> status]}

\* createEvent of the call; when it throws the caller gets an error and the key stays.
Answer(r) ==
  \E step \in Answering :
    /\ At(r, step)
    /\ LET told == IF step = "dup" THEN "duplicate" ELSE "requested" IN
       \/ /\ events' = Written(r, told) /\ UNCHANGED faults
          /\ Goto(r, IF step = "dup" THEN "duplicate" ELSE "send")   \* setImmediate
       \/ Fault /\ events' \in {events, Written(r, told)} /\ Goto(r, "failed")
    /\ UNCHANGED <<memory, next, now, mails, reserved, crashes>>

----------------------------------------------------------------------------
(* processJob without an entry of a list *)

GoOn(r, step) ==
  IF next[r] < Len(Order[r])
    THEN next' = [next EXCEPT ![r] = @ + 1] /\ UNCHANGED call
    ELSE Goto(r, step) /\ UNCHANGED next

NoSender(r) ==
  /\ At(r, "send") /\ r \notin HasSender
  /\ Goto(r, "skipEvent")
  /\ UNCHANGED <<memory, next, events, now, mails, reserved, faults, crashes>>

\* Plausible bug: the answer of the provider is not looked at.
TryProviderUnchecked(r) ==
  /\ At(r, "send") /\ r \in HasSender
  /\ Goto(r, "sentEvent")
  /\ mails' \in {mails, [mails EXCEPT ![r] = @ + 1]}
  /\ UNCHANGED <<memory, next, events, now, reserved, faults, crashes>>
\* One turn of the loop of send.
TryProvider(r) ==
  /\ At(r, "send") /\ r \in HasSender
  /\ IF Order[r][next[r]] \in Configured
       THEN \/ /\ Goto(r, "sentEvent")
               /\ mails' = [mails EXCEPT ![r] = @ + 1]
               /\ UNCHANGED <<next, faults>>
            \/ GoOn(r, "failEvent") /\ UNCHANGED <<mails, faults>>
            \/ /\ Fault                        \* accepted, but the answer is lost
               /\ GoOn(r, "failEvent")
               /\ mails' = [mails EXCEPT ![r] = @ + 1]
       ELSE GoOn(r, "skipEvent") /\ UNCHANGED <<mails, faults>>
  /\ UNCHANGED <<memory, events, now, reserved, crashes>>

\* createEvent `sent` is inside the try: its error is handled as a failed send.
RecordSent(r) ==
  /\ At(r, "sentEvent")
  /\ \/ events' = Written(r, "sent") /\ Goto(r, "ended") /\ UNCHANGED faults
     \/ Fault /\ events' \in {events, Written(r, "sent")} /\ Goto(r, "failEvent")
  /\ UNCHANGED <<memory, next, now, mails, reserved, crashes>>

\* What a process that ends leaves: nothing of its map, of its calls or of its jobs.
Die == /\ memory' = << >>
       /\ call' = [r \in Requests |->
                     CASE call[r] \in Answering -> "failed"
                       [] call[r] \in InHand -> "cut"
                       [] OTHER -> call[r]]
       /\ crashes' = crashes + 1

\* Plausible bug: a failure is recorded only when no attempt is left.
RecordLastFailure(r) ==
  /\ At(r, "failEvent")
  /\ events' = IF 1 < MaxAttempts THEN events ELSE Written(r, "failed")
  /\ Goto(r, "ended")
  /\ UNCHANGED <<memory, next, now, mails, reserved, faults, crashes>>
\* Plausible bug: a failure that may be retried is retried at once, from its catch.
RecordAndRetry(r) ==
  /\ At(r, "failEvent")
  /\ events' = Written(r, "failed")
  /\ IF 1 < MaxAttempts THEN Goto(r, "send") ELSE Goto(r, "ended")
  /\ next' = [next EXCEPT ![r] = 1]
  /\ UNCHANGED <<memory, now, mails, reserved, faults, crashes>>
(* createEvent `failed` or `skipped` ends the job: there is no list to put it  *)
(* back into, whatever willRetry says.  Nobody handles an error of its own, and *)
(* Node ends the process, with every other job in hand.                        *)
RecordFailure(r) ==
  /\ At(r, "failEvent") \/ At(r, "skipEvent")
  /\ LET status == IF At(r, "failEvent") THEN "failed" ELSE "skipped" IN
     \/ /\ events' = Written(r, status)
        /\ Goto(r, "ended")
        /\ UNCHANGED <<memory, faults, crashes>>
     \/ Fault /\ events' \in {events, Written(r, status)} /\ Die
  /\ UNCHANGED <<next, now, mails, reserved>>

----------------------------------------------------------------------------
(* The environment and the specification *)

\* The process stops and the container is started again.
Crash == /\ crashes < MaxCrashes /\ Die
         /\ UNCHANGED <<next, events, now, mails, reserved, faults>>

Tick == /\ now < MaxTime /\ now' = now + 1
        /\ UNCHANGED <<memory, call, next, events, mails, reserved, faults, crashes>>

Job(r) == NoSender(r) \/ TryProvider(r) \/ RecordSent(r) \/ RecordFailure(r)

Next == \/ \E r \in Requests : Reserve(r) \/ Answer(r) \/ Job(r)
        \/ Crash \/ Tick
Spec == Init /\ [][Next]_vars

\* Providers and PostgreSQL answer or time out: a job that began goes on.
FairSpec == Spec /\ \A r \in Requests : WF_vars(Job(r))

----------------------------------------------------------------------------
(* Properties *)

Recorded(r, status) == [id |-> r, status |-> status] \in events
Accepted(r) == call[r] \in InHand \cup {"ended", "cut"}

(* Variables keep their types, keys expire within Ttl, and what is reserved *)
(* was reserved by a call that began, in this life or an earlier one.       *)
TypeOK ==
  /\ DOMAIN memory \subseteq Keys
  /\ \A k \in DOMAIN memory : memory[k] \in Nat /\ memory[k] <= now + Ttl
  /\ call \in [Requests -> Steps]
  /\ next \in [Requests -> Nat]
  /\ \A r \in Requests : next[r] \in 1..Len(Order[r])
  /\ mails \in [Requests -> Nat]
  /\ DOMAIN reserved \subseteq {r \in Requests : call[r] # "new"}
  /\ \A r \in DOMAIN reserved : /\ reserved[r].life \in 0..crashes
                               /\ reserved[r].time \in 0..now
  /\ now \in Nat /\ faults \in Nat /\ crashes \in Nat

(* Two calls with one key make two jobs in one life of the process only    *)
(* when the time of the key is over, however large the map grew and        *)
(* whatever was dropped from it in between.                                *)
OneJobPerKeyAndLife ==
  \A r, s \in DOMAIN reserved :
    /\ r # s /\ KeyOf[r] = KeyOf[s] /\ reserved[r].life = reserved[s].life
    /\ reserved[r].time <= reserved[s].time
    => reserved[r].time + Ttl <= reserved[s].time

(* The map never holds CompactFrom keys or more unless all of them were    *)
(* live when the youngest was reserved: it is bounded by the traffic of    *)
(* one Ttl.                                                                *)
MemoryIsBounded ==
  Cardinality(DOMAIN memory) >= CompactFrom =>
    \A k, l \in DOMAIN memory : memory[l] < memory[k] + Ttl

(* A job that ended has its end in the log, and the right one: that a mail *)
(* left is recorded as sent unless an answer or an insert was lost.  A job *)
(* without an end was in hand when its process stopped.                    *)
AcceptedIsAccounted ==
  \A r \in Requests :
    /\ call[r] = "ended" =>
         Recorded(r, "sent") \/ Recorded(r, "skipped") \/ Recorded(r, "failed")
    /\ call[r] = "ended" /\ faults = 0 => (Recorded(r, "sent") <=> mails[r] > 0)
    /\ call[r] = "cut" => reserved[r].life < crashes

(* A failure is final, in contrast with OpsEmailQueue: whatever the field  *)
(* willRetry of its event says, no mail leaves after it.                   *)
FailureIsFinal ==
  [][\A r \in Requests : Recorded(r, "failed") => mails'[r] = mails[r]]_vars

(* A mail leaves twice only by lost answers: a restart does not send again *)
(* what it interrupted, in contrast with OpsEmailQueue.                    *)
OneMailPerAnswer == \A r \in Requests : mails[r] <= 1 + faults

(* What the callers of enqueue are promised (EmailDelivery), in terms of   *)
(* this mode: `dead` is a recorded failure, `lost` a job the process had   *)
(* in hand when it stopped.                                                *)
Verdict(r) ==
  IF ~Accepted(r)                THEN "new"
  ELSE IF call[r] \in InHand     THEN "owed"
  ELSE IF Recorded(r, "sent")    THEN "sent"
  ELSE IF Recorded(r, "skipped") THEN "skipped"
  ELSE IF Recorded(r, "failed")  THEN "dead"
  ELSE "lost"

Delivery == INSTANCE EmailDelivery WITH state <- [r \in Requests |-> Verdict(r)]
DeliverySpec == Delivery!Spec
=============================================================================
