-------------------------- MODULE OpsNotifications --------------------------
(***************************************************************************)
(* The alerts of ops-notifications.service.ts: operative events, from the  *)
(* HTTP API, from the middleware (5xx answers) and from services, become   *)
(* Slack alerts, filtered by severity and throttled by fingerprint.        *)
(*                                                                         *)
(* processEvent runs concurrently for any number of events; each await is  *)
(* the end of a step.  The throttle lives in Redis and, when a command     *)
(* fails or Redis is not configured, in the memory of the process.         *)
(***************************************************************************)
EXTENDS Integers, FiniteSets, Functions

CONSTANTS
  Events,           \* the calls of ingestExternalEvent
  Fingerprints,
  FingerprintOf,    \* per event: fingerprint, source and severity
  SourceOf,
  SeverityOf,
  MinSeverity,      \* OPS_ALERT_MIN_SEVERITY, "invalid" when it is none
  MinSeverityBot,   \* OPS_ALERT_MIN_SEVERITY_BOT
  Throttle,         \* OPS_ALERT_THROTTLE_SECONDS, negative when it is invalid
  ThrottleBot,      \* OPS_ALERT_THROTTLE_SECONDS_BOT
  DefaultThrottle,  \* the 300 seconds of the code, in units of the clock
  CompactAt,        \* the 1000 entries of the code
  MaxTime,          \* bound: the clock
  MaxCrashes,       \* bound: ends of the process
  MaxFaults         \* bound: failed Redis commands

SeverityRank == [info |-> 10, warn |-> 20, error |-> 30, critical |-> 40]
Severities == DOMAIN SeverityRank

ASSUME NotificationsAssumption ==
  /\ FingerprintOf \in [Events -> Fingerprints]
  /\ SourceOf \in [Events -> {"bot", "backend"}]
  /\ SeverityOf \in [Events -> Severities]
  /\ MinSeverity \in Severities \cup {"invalid"}
  /\ MinSeverityBot \in Severities \cup {"invalid"}
  /\ Throttle \in Int /\ ThrottleBot \in Int
  /\ DefaultThrottle \in Nat \ {0} /\ CompactAt \in Nat
  /\ MaxTime \in Nat /\ MaxCrashes \in Nat /\ MaxFaults \in Nat

VARIABLES
  enabled,  \* OPS_ALERTS_ENABLED
  redisOn,  \* REDIS_HOST is set
  now,      \* the clock
  redis,    \* ops:alerts:throttle:*, the time at which each key expires (0: none)
  memory,   \* memoryThrottle, from fingerprints to expiry times
  st,       \* where each event stands
  window,   \* ghost: the end of the window in which each event silences others (0: none)
  covered,  \* ghost: the events whose windows were open when an event's check began
  crashes, faults

config == <<enabled, redisOn>>
ghosts == <<window, covered>>
vars == <<enabled, redisOn, now, redis, memory, st, window, covered, crashes, faults>>

----------------------------------------------------------------------------
(* Configuration *)

MinSeverityFor(source) ==
  CASE source = "bot" /\ MinSeverityBot # "invalid" -> MinSeverityBot
    [] OTHER -> IF MinSeverity # "invalid" THEN MinSeverity ELSE "error"

ThrottleFor(source) ==
  CASE source = "bot" /\ ThrottleBot >= 0 -> ThrottleBot
    [] OTHER -> IF Throttle >= 0 THEN Throttle ELSE DefaultThrottle

Seconds(e) == ThrottleFor(SourceOf[e])
Severe(e)  == SeverityRank[SeverityOf[e]] >= SeverityRank[MinSeverityFor(SourceOf[e])]

----------------------------------------------------------------------------
(* The throttle *)

\* "answer": the key is written and its answer is on its way.  A process that ends leaves an
\* event "cut" before the call of Slack, and "unheard" between the call and its answer.
States   == {"new", "accepted", "get", "setex", "answer", "send",
             "skipped", "throttled", "sent", "failed", "cut", "unheard"}
Checking == {"accepted", "get", "setex", "answer"}

\* sendSlack was called.
Attempted(e) == st[e] \in {"send", "sent", "failed", "unheard"}

Become(e, s) == st' = [st EXCEPT ![e] = s]
Fault == faults < MaxFaults /\ faults' = faults + 1

SameFingerprint(e) == {d \in Events : FingerprintOf[d] = FingerprintOf[e]}

\* Ghosts: the check of e begins; the throttle remembers e, in Redis or in memory.
Check(e) == covered' = [covered EXCEPT ![e] = {d \in SameFingerprint(e) : window[d] > now}]
Open(e)  == window' = [window EXCEPT ![e] = now + Seconds(e)]

InMemory(e) == /\ FingerprintOf[e] \in DOMAIN memory
               /\ memory[FingerprintOf[e]] > now

Compact(m) == IF Cardinality(DOMAIN m) < CompactAt
                THEN m ELSE RestrictValues(m, LAMBDA until : until > now)

\* isThrottledInMemory, in one step.
DecideInMemory(e) ==
  IF InMemory(e)
    THEN Become(e, "throttled") /\ UNCHANGED <<memory, window>>
    ELSE /\ Become(e, "send") /\ Open(e)
         /\ LET until == now + Seconds(e)
                fps   == DOMAIN memory \cup {FingerprintOf[e]} IN
            memory' = Compact([f \in fps |-> IF f = FingerprintOf[e] THEN until ELSE memory[f]])

\* The process ends and starts again: nobody processes what was in progress, and the
\* memory is empty.
Die == /\ st' = [e \in Events |-> CASE st[e] \in Checking -> "cut"
                                    [] st[e] = "send"     -> "unheard"
                                    [] OTHER              -> st[e]]
       /\ memory' = << >>

----------------------------------------------------------------------------
(* processEvent *)

\* The call is answered before processEvent runs.
Ingest(e) ==
  /\ st[e] = "new"
  /\ Become(e, "accepted")
  /\ UNCHANGED <<config, now, redis, memory, ghosts, crashes, faults>>

\* The filters, and isThrottled up to its first await.
Begin(e) ==
  /\ st[e] = "accepted"
  /\ \/ ~(enabled /\ Severe(e)) /\ Become(e, "skipped") /\ UNCHANGED <<memory, ghosts>>
     \/ /\ enabled /\ Severe(e) /\ Seconds(e) = 0
        /\ Become(e, "send") /\ UNCHANGED <<memory, ghosts>>
     \/ /\ enabled /\ Severe(e) /\ Seconds(e) # 0 /\ redisOn
        /\ Become(e, "get") /\ Check(e) /\ UNCHANGED <<memory, window>>
     \/ /\ enabled /\ Severe(e) /\ Seconds(e) # 0 /\ ~redisOn
        /\ Check(e) /\ DecideInMemory(e)
  /\ UNCHANGED <<config, now, redis, crashes, faults>>

\* Plausible bug: the key is written before it is read, and the event finds its own.
GetAfterSetEx(e) ==
  /\ st[e] = "get"
  /\ redis' = [redis EXCEPT ![FingerprintOf[e]] = now + Seconds(e)]
  /\ Become(e, "throttled")
  /\ UNCHANGED <<config, now, memory, ghosts, crashes, faults>>
\* The GET of isThrottled; an error is logged and the memory decides.
Get(e) ==
  /\ st[e] = "get"
  /\ \/ /\ Become(e, IF redis[FingerprintOf[e]] > now THEN "throttled" ELSE "setex")
        /\ UNCHANGED <<memory, window, faults>>
     \/ Fault /\ DecideInMemory(e)
  /\ UNCHANGED <<config, now, redis, covered, crashes>>

\* Plausible bug: the key is not written.
SetExForgotten(e) ==
  /\ st[e] = "setex"
  /\ Become(e, "answer") /\ Open(e)
  /\ UNCHANGED <<config, now, redis, memory, covered, crashes, faults>>
\* The SETEX that follows a GET that found no key: Redis writes the key, or the command is
\* lost on its way.
SetEx(e) ==
  /\ st[e] = "setex"
  /\ \/ /\ redis' = [redis EXCEPT ![FingerprintOf[e]] = now + Seconds(e)]
        /\ Become(e, "answer") /\ Open(e)
        /\ UNCHANGED <<memory, faults>>
     \/ Fault /\ DecideInMemory(e) /\ UNCHANGED redis
  /\ UNCHANGED <<config, now, covered, crashes>>

\* The answer of the SETEX, with the call of Slack it leads to; or it is lost, and the
\* memory decides while the key stands.
Answer(e) ==
  /\ st[e] = "answer"
  /\ \/ Become(e, "send") /\ UNCHANGED <<memory, window, faults>>
     \/ Fault /\ DecideInMemory(e)
  /\ UNCHANGED <<config, now, redis, covered, crashes>>

\* The answer of Slack, or the error that is caught.
Send(e) ==
  /\ st[e] = "send"
  /\ Become(e, "sent") \/ Become(e, "failed")
  /\ UNCHANGED <<config, now, redis, memory, ghosts, crashes, faults>>
----------------------------------------------------------------------------
(* The specification *)

Crash ==
  /\ crashes < MaxCrashes /\ crashes' = crashes + 1
  /\ Die
  /\ UNCHANGED <<config, now, redis, ghosts, faults>>

Tick ==
  /\ now < MaxTime /\ now' = now + 1
  /\ UNCHANGED <<config, redis, memory, st, ghosts, crashes, faults>>

Init ==
  /\ enabled \in BOOLEAN /\ redisOn \in BOOLEAN
  /\ now = 0
  /\ redis = [f \in Fingerprints |-> 0] /\ memory = << >>
  /\ st = [e \in Events |-> "new"]
  /\ window = [e \in Events |-> 0] /\ covered = [e \in Events |-> {}]
  /\ crashes = 0 /\ faults = 0

ProcessEvent(e) == Begin(e) \/ Get(e) \/ SetEx(e) \/ Answer(e) \/ Send(e)

Next == \/ \E e \in Events : Ingest(e) \/ ProcessEvent(e)
        \/ Crash \/ Tick

Spec == Init /\ [][Next]_vars

----------------------------------------------------------------------------
(* Properties *)

\* Types; the expiry times are those a window of a valid length can have.
TypeOK ==
  /\ enabled \in BOOLEAN /\ redisOn \in BOOLEAN /\ now \in Nat
  /\ redis \in [Fingerprints -> Nat]
  /\ DOMAIN memory \subseteq Fingerprints /\ memory \in [DOMAIN memory -> Nat]
  /\ st \in [Events -> States]
  /\ window \in [Events -> Nat] /\ covered \in [Events -> SUBSET Events]
  /\ crashes \in Nat /\ faults \in Nat

\* An event whose check began while the window of an earlier one with its fingerprint was
\* open does not alert inside that window, in whatever order the steps of both and of others
\* are taken, unless a Redis command failed (the memory knows nothing of the keys), or the
\* memory was lost, or sources with windows of different lengths share the fingerprint.
NoRepeatInWindow ==
  \A e \in Events : window[e] > 0 =>
    \/ \A d \in covered[e] : window[d] <= window[e] - Seconds(e)
    \/ faults > 0 \/ (crashes > 0 /\ ~redisOn)
    \/ \E d \in SameFingerprint(e) : Seconds(d) # Seconds(e)

\* Somebody was told of d, or is about to be; or the process that wrote its key ended before
\* the call of Slack.
Noticed(d) == /\ window[d] > 0
              /\ Attempted(d) \/ st[d] = "answer" \/ (st[d] = "cut" /\ redisOn)

\* An event is silenced only for another one of its fingerprint that was sent to Slack, or is
\* about to be, and whose window is open (unless a command failed: a lost answer leaves a key
\* that ends after what the memory knows).  The exception the code leaves is in Noticed: a
\* process that ends between the SETEX and the call of Slack leaves a key that silences a
\* problem nobody was told of, until it expires.
ThrottledHasAlert ==
  [][\A e \in Events : st[e] # "throttled" /\ st'[e] = "throttled" =>
       \E d \in SameFingerprint(e) \ {e} :
         Noticed(d) /\ (faults' = 0 => window[d] > now)]_vars

\* docs/migracion/27: the throttle is by fingerprint, and distributed with Redis.
OneAlertPerWindow ==
  \A d, e \in Events :
    /\ FingerprintOf[d] = FingerprintOf[e] /\ Attempted(d) /\ Attempted(e)
    /\ window[d] > now /\ window[e] > now
    => d = e
=============================================================================
