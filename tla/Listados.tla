------------------------------ MODULE Listados ------------------------------
(***************************************************************************)
(* The paginated lists of the administration: complaints, surveys, the     *)
(* messages and conversations of a contact, and the central events.  Each  *)
(* request runs two queries, the rows of the page and the count of all of  *)
(* them, and a client asks for page after page while rows come, change and *)
(* go.  A page is a LIMIT and OFFSET: nothing ties it to the one before.   *)
(***************************************************************************)
EXTENDS Integers, Sequences, FiniteSets, SequencesExt

CONSTANTS Lists,      \* the lists of a run, among ListNames
          Estados,    \* values of a column that changes, in alphabetical order
          Sorts,      \* the columns clients ask for
          Filters,    \* [estado, from, to]; << >> for what is not given
          Limit,      \* rows of a page
          MaxRows, MaxChanges, MaxPages    \* bounds of a run

ListNames == {"reclamos", "encuestas", "conversation", "byPhone",
              "contactConversations", "events"}
ListsAssumption == Lists \subseteq ListNames
LimitAssumption == Limit \in Nat \ {0}
\* The bound on the pages cuts no walk short.
PagesAssumption ==
    /\ MaxRows \in Nat /\ MaxChanges \in Nat /\ MaxPages \in Nat \ {0}
    /\ MaxRows <= MaxPages * Limit

VARIABLES rows,     \* the table: a row is its number, in order of creation
          estado,   \* the column that changes
          last,     \* rows created so far
          changes,  \* rows changed or deleted so far
          walk      \* the client going through one list
vars == <<rows, estado, last, changes, walk>>

\* Rows 2n-1 and 2n are created on day n.
Day(i) == (i + 1) \div 2
\* The lists of rows that officials change.
Managed == {"reclamos", "encuestas"}
NoWalk == [state |-> "none"]

----------------------------------------------------------------------------
(* The column a list is sorted by: reclamos and encuestas take it from a   *)
(* whitelist, the others go by date, newest first; a date sorts as the     *)
(* number of the row does.  Nothing breaks the ties of a column.           *)
SortField(list, sort) ==
    IF list \in Managed /\ sort \in {"id", "estado"}
    THEN sort ELSE "id"
Direction(list, dir) == IF list \in Managed THEN dir ELSE "DESC"

Key(w, i) == IF SortField(w.list, w.sort) = "estado" THEN estado[i] ELSE i
Ordered(w, i, j) == IF Direction(w.list, w.dir) = "ASC" THEN Key(w, i) <= Key(w, j)
                    ELSE Key(w, i) >= Key(w, j)

(* The WHERE of each list.  A date that is not given bounds nothing, but   *)
(* the conversations of a contact are bounded by both dates or by none.    *)
Between(i, from, to) ==
    /\ from = << >> \/ from[1] <= Day(i)
    /\ to = << >> \/ Day(i) <= to[1]

Matches(list, i, f) ==
    CASE list = "contactConversations" ->
             f.from = << >> \/ f.to = << >> \/ Between(i, f.from, f.to)
      [] list \in {"reclamos", "encuestas", "events"} ->
             /\ f.estado = << >> \/ estado[i] = f.estado[1]
             /\ Between(i, f.from, f.to)
      [] OTHER -> TRUE

Matching(w) == {i \in rows : Matches(w.list, i, w.filter)}

\* The orders PostgreSQL may return the rows in.
Sorted(w) == {s \in SetToSeqs(Matching(w)) :
                 \A a, b \in DOMAIN s : a < b => Ordered(w, s[a], s[b])}

Skip(page) == (page - 1) * Limit
TakePage(s, page) ==
    SubSeq(s, Skip(page) + 1, IF Skip(page) + Limit < Len(s) THEN Skip(page) + Limit
                              ELSE Len(s))

Pages(total) == (total + Limit - 1) \div Limit

\* Plausible bug: every list counts first, as listEvents does.
CountsFirstAlways(list) == TRUE
CountsFirst(list) == list = "events"

----------------------------------------------------------------------------
Init == /\ rows \in {1..n : n \in 0..MaxRows}
        /\ estado \in [rows -> Estados]
        /\ last = Cardinality(rows)
        /\ changes = 0
        /\ walk = NoWalk

Walking == walk.state \in {"ask", "items", "count"}

\* The bot, a citizen or a service adds a row ...
Insert(e) ==
    /\ last < MaxRows
    /\ last' = last + 1
    /\ rows' = rows \cup {last'}
    /\ estado' = [i \in rows' |-> IF i = last' THEN e ELSE estado[i]]
    \* An arrival between the two queries of a request is remembered.
    /\ walk' = IF Walking THEN [walk EXCEPT !.late = @ \/ walk.state # "ask"]
               ELSE walk
    /\ UNCHANGED changes

\* ... an official changes the column of one ...
Change(i, e) ==
    /\ changes < MaxChanges
    /\ walk # NoWalk => walk.list \in Managed
    /\ i \in rows /\ estado[i] # e
    /\ estado' = [estado EXCEPT ![i] = e]
    /\ changes' = changes + 1
    /\ UNCHANGED <<rows, last, walk>>

\* ... or deletes a survey.
Delete(i) ==
    /\ changes < MaxChanges
    /\ walk # NoWalk => walk.list = "encuestas"
    /\ i \in rows
    /\ rows' = rows \ {i}
    /\ estado' = [j \in rows' |-> estado[j]]
    /\ changes' = changes + 1
    /\ walk' = IF walk = NoWalk THEN walk ELSE [walk EXCEPT !.shrunk = TRUE]
    /\ UNCHANGED last

\* A client begins to read a list from its first page.
Open(list, sort, dir, f) ==
    /\ walk = NoWalk
    /\ walk' = [state |-> "ask", list |-> list, sort |-> sort, dir |-> dir,
                filter |-> f, page |-> 1, items |-> << >>, total |-> 0,
                seen |-> << >>, late |-> FALSE,
                shrunk |-> FALSE,
                first |-> rows, before |-> changes]
    /\ UNCHANGED <<rows, estado, last, changes>>

Request ==
    /\ walk.state = "ask"
    /\ walk' = [walk EXCEPT
          !.state = IF CountsFirst(walk.list) THEN "count" ELSE "items",
          !.items = << >>, !.total = 0, !.late = FALSE]
    /\ UNCHANGED <<rows, estado, last, changes>>

(* Once both queries are done the page is answered, and the client asks    *)
(* for the next one unless this was the last.  An empty page of a          *)
(* conversation says that there are no messages and no pages.              *)
Answered(w) ==
    LET empty == w.list = "conversation" /\ w.items = << >>
        pages == IF empty THEN 0 ELSE Pages(w.total)
    IN  [w EXCEPT !.seen = @ \o w.items,
                  !.page = @ + 1,
                  !.state = IF w.page < pages /\ w.page < MaxPages THEN "ask"
                            ELSE "done"]

FetchItems ==
    /\ walk.state = "items"
    /\ UNCHANGED <<rows, estado, last, changes>>
    /\ \E s \in Sorted(walk) :
          LET w == [walk EXCEPT !.items = TakePage(s, walk.page)]
          IN  walk' = IF CountsFirst(walk.list) THEN Answered(w)
                      ELSE [w EXCEPT !.state = "count"]

FetchCount ==
    /\ walk.state = "count"
    /\ UNCHANGED <<rows, estado, last, changes>>
    /\ LET w == [walk EXCEPT !.total = Cardinality(Matching(walk))]
       IN  walk' = IF CountsFirst(walk.list) THEN [w EXCEPT !.state = "items"]
                   ELSE Answered(w)

Next == \/ \E e \in Estados : Insert(e)
        \/ \E i \in 1..MaxRows : \E e \in Estados : Change(i, e)
        \/ \E i \in 1..MaxRows : Delete(i)
        \/ \E list \in Lists, sort \in Sorts, dir \in {"ASC", "DESC"}, f \in Filters :
              Open(list, sort, dir, f)
        \/ Request \/ FetchItems \/ FetchCount
Spec == Init /\ [][Next]_vars

----------------------------------------------------------------------------
Done == walk.state = "done"
Seen == {walk.seen[k] : k \in DOMAIN walk.seen}
Quiet == changes = walk.before
Ties == walk.list \in Managed /\ walk.sort = "estado"
Wanted == {i \in walk.first :
             /\ walk.filter.estado = << >> \/ estado[i] = walk.filter.estado[1]
             /\ walk.filter.from = << >> \/ walk.filter.from[1] <= Day(i)
             /\ walk.filter.to = << >> \/ Day(i) <= walk.filter.to[1]}
Filtered == walk.list \in {"reclamos", "encuestas", "events"}

\* Rows, the columns of rows and pages are what they say.
TypeOK ==
    /\ rows \subseteq 1..last /\ last \in 0..MaxRows
    /\ estado \in [rows -> Estados]
    /\ changes \in 0..MaxChanges
    /\ walk # NoWalk => /\ walk.page \in 1..MaxPages + 1
                        /\ Len(walk.items) <= Limit

(* A client that reads every page of a list while nothing changes sees     *)
(* each row it asked for once: the filters, the pages and their number fit *)
(* together.  A column with ties is excepted, since the code sorts by it   *)
(* alone.                                                                  *)
QuietWalkIsExact ==
    Done /\ Quiet /\ ~Ties /\ walk.first = rows /\ Filtered =>
        /\ Seen = Wanted
        /\ Len(walk.seen) = Cardinality(Wanted)

(* While rows are added, and change in a column that neither sorts nor     *)
(* filters the list, a client may see one twice, but misses none that was  *)
(* there when it began.  The lists that fetch the page before the count    *)
(* hold this without exception; listEvents counts first, and is excused    *)
(* when an event arrives between the two queries of the last request.      *)
WalkMissesNothing ==
    (/\ Done /\ ~Ties /\ ~walk.shrunk
     /\ Quiet \/ walk.filter.estado = << >>
     /\ ~(walk.list = "events" /\ walk.late))
    => {i \in walk.first : Matches(walk.list, i, walk.filter)} \subseteq Seen
=============================================================================
