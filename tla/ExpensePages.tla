---------------------------- MODULE ExpensePages ----------------------------
(***************************************************************************)
(* A client reads the list of a trip's expenses page by page while others  *)
(* change them: expenses.service listExpenses over expenses.repo           *)
(* listForTrip, with the cursor of cursor.ts.  Nothing holds the list      *)
(* still between two pages: the server keeps no state of the reader, whose *)
(* whole memory is the cursor, the place of the last row it was given.     *)
(*                                                                         *)
(* A row is in the list while it is live and passes the filters; writing,  *)
(* deleting or editing it moves it into, out of or within the list.        *)
(***************************************************************************)
EXTENDS Integers, Sequences, FiniteSets, Functions

CONSTANTS
    Ids,       \* expenses, integers: uuids are ordered too
    Instants,  \* values of spent_at, integers, to the millisecond
    Limits,    \* the page sizes the client asks for
    Start,     \* no cursor yet
    Done       \* next_cursor = null

Places == [spent_at : Instants, id : Ids]   \* of rows in the list

ASSUME LimitsAssumption == Limits \subseteq 1 .. 100
ASSUME PlacesAssumption ==
    /\ Ids \subseteq Int /\ IsFiniteSet(Ids) /\ Instants \subseteq Int
    /\ Start # Done /\ Start \notin Places /\ Done \notin Places

VARIABLES
    spent_at,  \* rows in the list -> their instant
    cursor,    \* the next_cursor the client holds
    listed,    \* history: the rows it has been given, in order
    behind     \* history: rows put into the list where the reader had been

pageVars == <<spent_at, cursor, listed, behind>>

Reading == cursor \notin {Start, Done}

Place(id, instant) == [spent_at |-> instant, id |-> id]
Rows == {Place(id, spent_at[id]) : id \in DOMAIN spent_at}

(* Mutant: the row of the cursor is given again. *)
BeforeOrAt(a, b) ==
    a.spent_at < b.spent_at \/ (a.spent_at = b.spent_at /\ a.id <= b.id)

(* Mutant: no tie-break on id. *)
BeforeByInstant(a, b) == a.spent_at < b.spent_at

(* (a.spent_at, a.id) < (b.spent_at, b.id), a comparison of row values. *)
Before(a, b) ==
    a.spent_at < b.spent_at \/ (a.spent_at = b.spent_at /\ a.id < b.id)

(* ORDER BY spent_at DESC, id DESC *)
Newer(a, b) ==
    a.spent_at > b.spent_at \/ (a.spent_at = b.spent_at /\ a.id > b.id)

(* Where the reader has been. *)
Passed(row) ==
    \/ cursor = Done
    \/ \E i \in DOMAIN listed : listed[i] = row \/ Newer(row, listed[i])

PagesInit ==
    /\ spent_at \in UNION {[ids -> Instants] : ids \in SUBSET Ids}
    /\ cursor = Start /\ listed = <<>> /\ behind = {}

-----------------------------------------------------------------------------
(* What is left of the list beyond the cursor. *)
Rest == {row \in Rows : cursor = Start \/ Before(row, cursor)}

(* ORDER BY: the list of the rows that is in order. *)
Sorted(rows) ==
    {list \in [1 .. Cardinality(rows) -> rows] :
        \A i, j \in DOMAIN list : i < j => Newer(list[i], list[j])}

(* A page is cut from it: listForTrip reads one row more, to learn whether *)
(* there are any, and the last row of a page with more to come becomes the *)
(* cursor.                                                                 *)
FetchPage(limit) ==
    /\ cursor # Done
    /\ \E rest \in Sorted(Rest) :
          IF Len(rest) > limit
             THEN /\ listed' = listed \o SubSeq(rest, 1, limit)
                  /\ cursor' = rest[limit]
             ELSE listed' = listed \o rest /\ cursor' = Done
    /\ UNCHANGED <<spent_at, behind>>

(* An expense is created, or edited: its date, or what the filters look at. *)
Put(id, instant) ==
    /\ Reading
    /\ spent_at' = [x \in DOMAIN spent_at \cup {id} |->
                       IF x = id THEN instant ELSE spent_at[x]]
    /\ behind' = IF Passed(Place(id, instant)) THEN behind \cup {id}
                                               ELSE behind \ {id}
    /\ UNCHANGED <<cursor, listed>>

(* An expense is deleted, or edited out of the filters. *)
TakeOut(id) ==
    /\ Reading /\ id \in DOMAIN spent_at
    /\ spent_at' = Restrict(spent_at, DOMAIN spent_at \ {id})
    /\ behind' = behind \ {id}
    /\ UNCHANGED <<cursor, listed>>

PagesNext ==
    \/ \E limit \in Limits : FetchPage(limit)
    \/ \E id \in Ids : (\E instant \in Instants : Put(id, instant)) \/ TakeOut(id)

PagesSpec == PagesInit /\ [][PagesNext]_pageVars

-----------------------------------------------------------------------------
(* Whatever happens between two pages, the list the client puts together   *)
(* is newest first, and it never holds a row twice with the same date: a   *)
(* row comes back only if an edit moved it to an earlier day.              *)
ListedInOrder ==
    \A i, j \in DOMAIN listed : i < j => Newer(listed[i], listed[j])

(* No page skips a row: what the reader has gone past without being given  *)
(* it was put there behind its back, and nothing removed from the list, no *)
(* matter where, makes it miss another row.                                *)
NothingSkipped ==
    \A row \in Rows :
        Passed(row) => \/ \E i \in DOMAIN listed : listed[i] = row
                       \/ row.id \in behind
=============================================================================
