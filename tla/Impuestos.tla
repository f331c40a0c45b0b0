------------------------------ MODULE Impuestos ------------------------------
(***************************************************************************)
(* Queries about taxes the bot makes through this program to the server of *)
(* the municipality (src/modules/impuestos): the PDF of a bill takes two   *)
(* queries and up to five HEAD requests, a payment slip takes one query.   *)
(*                                                                         *)
(* The server is external.  A POST gets an answer, an error or nothing for *)
(* thirty seconds, which is an error too; a HEAD has no time limit.        *)
(***************************************************************************)
EXTENDS Integers, FiniteSets

CONSTANTS Callers,
          Bills,        \* what a PDF is asked for: a type and a number
          MaxHeads,     \* the attempts of obtenerPdf
          MaxRequests   \* bound of a run

HeadsAssumption == MaxHeads \in Nat \ {0}

VARIABLES req,       \* the request of each caller
          files,     \* external: the PDFs of the server
          ordered,   \* external: the PDFs the server is making
          answer,    \* ghost: the last answer of each caller
          requests
vars == <<req, files, ordered, answer, requests>>

Idle == [step |-> "idle"]
NoAnswer == [kind |-> "none"]
At(c, step) == req[c].step = step

Init == /\ req = [c \in Callers |-> Idle]
        /\ files = {} /\ ordered = {}
        /\ answer = [c \in Callers |-> NoAnswer]
        /\ requests = 0

----------------------------------------------------------------------------
(* What the server answers to a POST: consultaPost turns every failure     *)
(* into an answer whose RESU is not OK.                                    *)

\* RESPUESTA may have a REGLOG, a path with a name, one without, or nothing.
Replies == {"error", "nothing", "value"}

Reply(c, a) ==
    /\ answer' = [answer EXCEPT ![c] = a]
    /\ req' = [req EXCEPT ![c] = Idle]

Ask(c, step, b) ==
    /\ At(c, "idle") /\ requests < MaxRequests
    /\ requests' = requests + 1
    /\ req' = [req EXCEPT ![c] = [step |-> step, bill |-> b, heads |-> 0]]
    /\ answer' = [answer EXCEPT ![c] = NoAnswer]
    /\ UNCHANGED <<files, ordered>>

Error(c, why) == [kind |-> "error", bill |-> req[c].bill, why |-> why,
                  heads |-> req[c].heads]

\* GET /impuestos/pdf: the first query gives the REGLOG of the bill ...
First(c) ==
    /\ At(c, "first")
    /\ \E r \in Replies :
          \/ r = "value" /\ req' = [req EXCEPT ![c].step = "second"] /\ UNCHANGED answer
          \/ r = "nothing" /\ Reply(c, Error(c, "no reglog"))
          \/ r = "error" /\ Reply(c, Error(c, "first"))
    /\ UNCHANGED <<files, ordered, requests>>

\* ... the second the path of its PDF, which the server goes on to make.
Second(c) ==
    /\ At(c, "second")
    /\ \E r \in Replies :
          \/ /\ r = "value"
             /\ req' = [req EXCEPT ![c].step = "head"]
             /\ ordered' = ordered \cup {req[c].bill}
             /\ UNCHANGED answer
          \/ r = "nothing" /\ Reply(c, Error(c, "no path")) /\ UNCHANGED ordered
          \* Its answer may be lost after the server has taken the order.
          \/ /\ r = "error" /\ Reply(c, Error(c, "second"))
             /\ ordered' \in {ordered, ordered \cup {req[c].bill}}
    /\ UNCHANGED <<files, requests>>

\* Another attempt is left after n of them.
MoreHeads(n) == n < MaxHeads

\* The HEAD answers 200: the PDF is there.
Found(c) == req[c].bill \in files

\* After a HEAD that found nothing, or failed, a second of rest, but the last.
NotFound(c) ==
    LET n == req[c].heads + 1
    IN  IF MoreHeads(n)
        THEN /\ req' = [req EXCEPT ![c].heads = n, ![c].step = "rest"]
             /\ UNCHANGED answer
        ELSE Reply(c, [Error(c, "not made") EXCEPT !.heads = n])

Head(c) ==
    /\ At(c, "head")
    /\ \/ Found(c) /\ Reply(c, [kind |-> "pdf", bill |-> req[c].bill])
       \/ req[c].bill \notin files /\ NotFound(c)
    /\ UNCHANGED <<files, ordered, requests>>

\* The connection fails: the attempt is over, whether the PDF is there or not.
HeadFails(c) ==
    /\ At(c, "head")
    /\ NotFound(c)
    /\ UNCHANGED <<files, ordered, requests>>

Rest(c) ==
    /\ At(c, "rest")
    /\ req' = [req EXCEPT ![c].step = "head"]
    /\ UNCHANGED <<files, ordered, answer, requests>>

\* POST /impuestos/solicitar-cedulon: a path is made a URL, and not looked at.
Slip(c) ==
    /\ At(c, "slip")
    /\ \E r \in Replies :
          \/ r = "value" /\ Reply(c, [kind |-> "slip", bill |-> req[c].bill])
          \/ r = "nothing" /\ Reply(c, Error(c, "no path"))
          \/ r = "error" /\ Reply(c, Error(c, "slip"))
    /\ UNCHANGED <<files, ordered, requests>>

----------------------------------------------------------------------------
(* The server makes the PDFs it was asked for, and clears them at times.   *)

Make == \E b \in ordered : files' = files \cup {b} /\ ordered' = ordered \ {b}
        /\ UNCHANGED <<req, answer, requests>>
Clear == /\ files # {}
         /\ \E b \in files : files' = files \ {b}
         /\ UNCHANGED <<req, ordered, answer, requests>>

Posts(c) == First(c) \/ Second(c) \/ Slip(c)

Next == \/ \E c \in Callers :
              \/ \E b \in Bills, step \in {"first", "slip"} : Ask(c, step, b)
              \/ Posts(c) \/ Head(c) \/ HeadFails(c) \/ Rest(c)
        \/ Make \/ Clear
Spec == Init /\ [][Next]_vars

\* A POST ends, by its time limit at the latest, and so does a rest.  A HEAD has no limit, and
\* nothing is assumed of it.
Fairness == \A c \in Callers : WF_vars(Posts(c)) /\ WF_vars(Rest(c))
FairSpec == Spec /\ Fairness

----------------------------------------------------------------------------
\* Attempts stay within their number, and the PDFs are of bills.
TypeOK ==
    /\ files \cup ordered \subseteq Bills
    /\ \A c \in Callers :
          /\ req[c].step \in {"idle", "first", "second", "head", "rest", "slip"}
          /\ ~At(c, "idle") => req[c].heads \in 0..MaxHeads - 1

(* A PDF is given up as not made only after all the attempts, and the      *)
(* other errors come before the first.                                     *)
GivenUpAfterAll ==
    \A c \in Callers :
        answer[c].kind = "error" => IF answer[c].why = "not made"
                                    THEN answer[c].heads = MaxHeads
                                    ELSE answer[c].heads = 0

\* A request is answered in the end, whatever fails, unless the server leaves one HEAD
\* without an answer for ever: that is the only step it can wait in.
EveryRequestIsAnswered ==
    \A c \in Callers : (~At(c, "idle")) ~> (At(c, "idle") \/ []At(c, "head"))

=============================================================================
