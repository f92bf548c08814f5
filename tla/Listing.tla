------------------------------ MODULE Listing ------------------------------
(***************************************************************************)
(* GET /v1/plans and GET /v1/payments: a client reads a first page and     *)
(* follows next_cursor, while rows are added.  A row is its position in    *)
(* the order of (created_at, id).  The subscriptions' List has the same    *)
(* text but for its columns, which LifecycleClaims is about.               *)
(***************************************************************************)
EXTENDS Naturals, Sequences, FiniteSets, SequencesExt

CONSTANTS
  Tables,      \* {"plans", "payments"}
  Descending,  \* tables that are listed from the newest row: {"payments"}
  MaxRows,     \* bound on the rows of a table
  Limit,       \* the page's limit: 20 if none is asked for, 100 at most
  Refused, NoCursor

VARIABLES
  rows,    \* [Tables -> number of rows]
  reader   \* the client: its table, cursor, the rows it was shown, those there at the start

vars == <<rows, reader>>

Idle == [step |-> "idle"]

Init == rows = [t \in Tables |-> 0] /\ reader = Idle

(***************************************************************************)
(* The cursor: created_at and the id with a colon between, and created_at  *)
(* itself has two, between hours, minutes and seconds.  A text is the      *)
(* sequence of what stands between its colons.                             *)
(***************************************************************************)
Stamp(r) == <<[hour |-> r], [minute |-> r], [second |-> r]>>

CursorText(r) == Append(Stamp(r), [id |-> r])

\* strings.SplitN(text, ":", 2)
SplitN2(text) == <<SubSeq(text, 1, 1), Tail(text)>>

\* time.Parse of the first part and uuid.Parse of the second.
DecodeCursor(text) ==
  LET parts == SplitN2(text)
      read == {r \in 1..MaxRows : parts[1] = Stamp(r) /\ parts[2] = <<[id |-> r]>>}
  IN IF read = {} THEN Refused ELSE CHOOSE r \in read : TRUE

(***************************************************************************)
(* The query: rows after the cursor, whichever the order, one more than    *)
(* the limit; the extra row is cut off and named by the next cursor.       *)
(***************************************************************************)
Fetched(t, cursor) ==
  LET found == {r \in 1..rows[t] : cursor = NoCursor \/ r > cursor}
      ordered == SetToSortSeq(found, LAMBDA r, s : IF t \in Descending THEN r > s ELSE r < s)
  IN SubSeq(ordered, 1, IF Len(ordered) <= Limit THEN Len(ordered) ELSE Limit + 1)

Shown(fetched) ==
  {fetched[i] : i \in 1..(IF Len(fetched) > Limit THEN Limit ELSE Len(fetched))}

\* Another client's row.
AddRow(t) ==
  /\ rows[t] < MaxRows
  /\ rows' = [rows EXCEPT ![t] = @ + 1]
  /\ UNCHANGED reader

\* What the client has after a page: it goes on if there is a next cursor.
Continued(t, fetched, seen, atStart) ==
  [step |-> IF Len(fetched) > Limit THEN "next" ELSE "stopped", table |-> t,
   text |-> IF Len(fetched) > Limit THEN CursorText(fetched[Limit + 1]) ELSE <<>>,
   seen |-> seen \cup Shown(fetched), atStart |-> atStart]

FirstPage(t) ==
  /\ reader = Idle
  /\ reader' = Continued(t, Fetched(t, NoCursor), {}, 1..rows[t])
  /\ UNCHANGED rows

NextPage ==
  /\ reader.step = "next"
  /\ LET cursor == DecodeCursor(reader.text)
     IN reader' = IF cursor = Refused THEN [reader EXCEPT !.step = "stopped"]
                  ELSE Continued(reader.table, Fetched(reader.table, cursor),
                                 reader.seen, reader.atStart)
  /\ UNCHANGED rows

Next ==
  \/ \E t \in Tables : AddRow(t) \/ FirstPage(t)
  \/ NextPage

Spec == Init /\ [][Next]_vars

\* "Cursor for next page, null if last page" (api/openapi.yaml:1434): a client
\* that follows the cursors until there is none, or until it is refused, was
\* shown every row that was there when it began.
PagesReachEveryRow ==
  reader.step = "stopped" => reader.atStart \subseteq reader.seen
=============================================================================
