----------------------------- MODULE QrTracking -----------------------------
(***************************************************************************)
(* QR codes that count their scans (src/modules/qr-tracking).  A code is   *)
(* printed with a slug made from its name; the unique index on the slug is *)
(* the only thing that keeps two creations apart.  A scan finds the code,  *)
(* adds one to its count and dates it, in three steps.                     *)
(*                                                                         *)
(* A name is shorter than a slug may be (120 characters of 160), and so is *)
(* the host that stands for one.  A slug is a sequence of words: the words *)
(* of the name, joined by hyphens in the code, and the number that an      *)
(* attempt adds.                                                           *)
(***************************************************************************)
EXTENDS Integers, Sequences, FiniteSets

CONSTANTS Names,         \* names as officials type them
          Words,         \* the words each name leaves once normalised
          Numeral,       \* the word of a number
          Reserved,      \* RESERVED_SLUGS
          MaxLength,     \* MAX_SLUG_LENGTH, in words
          MaxAttempts,   \* MAX_SLUG_GENERATION_ATTEMPTS
          Creators, Scanners,
          MaxCodes, MaxTime, MaxDeletes, MaxScans    \* bounds of a run

WordsAssumption ==
    \A n \in Names : Words[n] \in Seq(STRING) /\ Len(Words[n]) < MaxLength
LengthAssumption == MaxLength \in Nat /\ MaxLength > 1 /\ MaxAttempts \in Nat \ {0}
\* Numbers differ in their words, and in the word the base of a page of the site gets.
NumeralAssumption ==
    /\ \A i \in 1..MaxAttempts : Numeral[i] \in STRING \ {"link"}
    /\ \A i, j \in 1..MaxAttempts : Numeral[i] = Numeral[j] => i = j
\* The pages of the site; those of several words (robots-txt) end in no number.
ReservedAssumption ==
    \A r \in Reserved : Len(r) > 1 =>
        r[Len(r)] # "link" /\ \A i \in 1..MaxAttempts : r[Len(r)] # Numeral[i]
VisitorsAssumption == IsFiniteSet(Scanners)

VARIABLES codes,     \* qr_tracking: [slug, target, scans, scanned]
          creating,  \* the creation each official is waiting for
          scan,      \* the redirect each visitor is waiting for
          now,
          last,      \* codes created so far; a code goes to the target of its number
          deletes,
          scans,
          redirects, \* ghost: redirects answered per code
          printed,   \* ghost: slugs handed out, with their targets
          refused    \* ghost: creations that ended without a slug
vars == <<codes, creating, scan, now, last, deletes, scans,
          redirects, printed, refused>>

Idle == [step |-> "idle"]
Never == -1

----------------------------------------------------------------------------
Truncate(base, suffix) ==
    SubSeq(base, 1, IF Len(base) < MaxLength - suffix THEN Len(base)
                    ELSE MaxLength - suffix)

\* The base of a name, which is never empty nor a word of the site.
SlugBase(n) ==
    LET base == IF Words[n] = << >> THEN <<"qr">> ELSE Words[n]
    IN  IF base \in Reserved THEN Truncate(Append(base, "link"), 0) ELSE base

\* Attempt 0 is the base itself, attempt n the base and n + 1.
Candidate(base, attempt) ==
    IF attempt = 0 THEN base
    ELSE Append(Truncate(base, 1), Numeral[attempt + 1])

----------------------------------------------------------------------------
Init == /\ codes = << >>
        /\ creating = [o \in Creators |-> Idle]
        /\ scan = [v \in Scanners |-> Idle]
        /\ now = 0 /\ last = 0 /\ deletes = 0 /\ scans = 0
        /\ redirects = << >>
        /\ printed = {}
        /\ refused = {}

Tick == /\ now < MaxTime
        /\ now' = now + 1
        /\ UNCHANGED <<codes, creating, scan, last, deletes, scans, redirects, printed, refused>>

Live == {i \in DOMAIN codes : codes[i].live}
Holder(slug) == {i \in Live : codes[i].slug = slug}

\* POST /qr-tracking.
Create(o, n) ==
    /\ creating[o] = Idle
    /\ last < MaxCodes
    /\ last' = last + 1
    /\ creating' = [creating EXCEPT ![o] = [step |-> "save", name |-> n,
                                            attempt |-> 0, target |-> last']]
    /\ UNCHANGED <<codes, scan, now, deletes, scans, redirects, printed, refused>>

\* What a save does when the slug is taken: the next attempt, or giving up.
\* Plausible bug: the code that holds the slug is overwritten.
SaveOver(o) ==
    LET c == creating[o]  slug == Candidate(SlugBase(c.name), c.attempt)
    IN  /\ c # Idle
        /\ creating' = [creating EXCEPT ![o] = Idle]
        /\ codes' = Append([i \in DOMAIN codes |->
                        [codes[i] EXCEPT !.live = @ /\ codes[i].slug # slug]],
                        [slug |-> slug, target |-> c.target, scans |-> 0,
                         scanned |-> Never, live |-> TRUE])
        /\ redirects' = Append(redirects, 0)
        /\ printed' = printed \cup {[slug |-> slug, target |-> c.target]}
        /\ UNCHANGED <<scan, now, last, deletes, scans, refused>>
Save(o) ==
    LET c == creating[o]  slug == Candidate(SlugBase(c.name), c.attempt)
    IN  /\ c # Idle
        /\ UNCHANGED <<scan, now, last, deletes, scans>>
        /\ \/ /\ Holder(slug) = {}
              /\ creating' = [creating EXCEPT ![o] = Idle]
              /\ codes' = Append(codes,
                    [slug |-> slug, target |-> c.target, scans |-> 0,
                     scanned |-> Never, live |-> TRUE])
              /\ redirects' = Append(redirects, 0)
              /\ printed' = printed \cup {[slug |-> slug, target |-> c.target]}
              /\ UNCHANGED refused
           \/ /\ Holder(slug) # {}
              /\ UNCHANGED <<codes, redirects, printed>>
              /\ \/ /\ c.attempt + 1 < MaxAttempts
                    /\ creating' = [creating EXCEPT ![o].attempt = @ + 1]
                    /\ UNCHANGED refused
                 \/ /\ c.attempt + 1 = MaxAttempts
                    /\ creating' = [creating EXCEPT ![o] = Idle]
                    /\ refused' = refused \cup {c.name}

\* DELETE /qr-tracking/:id.  A deleted row keeps its place in the model only.
Delete(i) ==
    /\ deletes < MaxDeletes /\ i \in Live
    /\ deletes' = deletes + 1
    /\ codes' = [codes EXCEPT ![i].live = FALSE]
    /\ UNCHANGED <<creating, scan, now, last, scans, redirects, printed, refused>>

----------------------------------------------------------------------------
\* GET /qr/:slug finds the code of the slug; without one it is a 404.
Find(v, slug) ==
    /\ scan[v] = Idle
    /\ scans < MaxScans /\ scans' = scans + 1
    /\ \E i \in Holder(slug) :
          scan' = [scan EXCEPT ![v] = [step |-> "increment", code |-> i, at |-> now,
                                       count |-> codes[i].scans]]
    /\ UNCHANGED <<codes, creating, now, last, deletes, redirects, printed, refused>>

\* UPDATE ... SET scan_count = scan_count + 1, in the database.
CountAfter(s) == codes[s.code].scans + 1

Increment(v) ==
    /\ scan[v].step = "increment"
    /\ scan' = [scan EXCEPT ![v].step = "date"]
    /\ codes' = IF codes[scan[v].code].live
                THEN [codes EXCEPT ![scan[v].code].scans = CountAfter(scan[v])]
                ELSE codes
    /\ UNCHANGED <<creating, now, last, deletes, scans, redirects, printed, refused>>

(* The date is the one taken before the count; the visitor is redirected   *)
(* even when the code has been deleted since it was found.                 *)
Date(v) ==
    /\ scan[v].step = "date"
    /\ scan' = [scan EXCEPT ![v] = Idle]
    /\ codes' = IF codes[scan[v].code].live
                THEN [codes EXCEPT ![scan[v].code].scanned = scan[v].at]
                ELSE codes
    /\ redirects' = [redirects EXCEPT ![scan[v].code] = @ + 1]
    /\ UNCHANGED <<creating, now, last, deletes, scans, printed, refused>>

Visit(v) == (\E p \in printed : Find(v, p.slug)) \/ Increment(v) \/ Date(v)

Next == \/ Tick
        \/ \E o \in Creators : (\E n \in Names : Create(o, n)) \/ Save(o)
        \/ \E i \in 1..MaxCodes : Delete(i)
        \/ \E v \in Scanners : Visit(v)
Spec == Init /\ [][Next]_vars

----------------------------------------------------------------------------
\* Slugs are not empty and fit the column; counts and dates are numbers.
TypeOK ==
    /\ \A i \in DOMAIN codes : /\ Len(codes[i].slug) \in 1..MaxLength
                               /\ codes[i].scans \in Nat
                               /\ codes[i].scanned \in {Never} \cup 0..now
    /\ \A o \in Creators : creating[o] # Idle => creating[o].attempt < MaxAttempts

(* A printed code goes where it was made to go: a slug has two targets     *)
(* only if a code was deleted in between, whoever creates at once.         *)
PrintedCodeKeepsTarget ==
    deletes = 0 => \A p, q \in printed : p.slug = q.slug => p.target = q.target

\* No slug takes the place of a page of the site.
NoReservedSlug == \A p \in printed : p.slug \notin Reserved

(* No scan is lost when several visitors scan one code at once: its count  *)
(* is the redirects answered and those between the count and the date.     *)
EveryScanCounts ==
    \A i \in Live : codes[i].scans =
        redirects[i] + Cardinality({v \in Scanners : /\ scan[v].step = "date"
                                                     /\ scan[v].code = i})

(* A creation gives up only when as many different slugs of its name as it *)
(* has attempts were taken.                                                *)
RefusedOnlyWhenTaken ==
    \A n \in refused :
        LET taken == {p.slug : p \in {q \in printed : Head(q.slug) = Head(SlugBase(n))}}
        IN  Cardinality(taken) >= MaxAttempts
=============================================================================
