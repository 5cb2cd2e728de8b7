----------------------------- MODULE PagedFetch -----------------------------
(***************************************************************************)
(* fetch_paginated_dm_data of ConnectionRemote (lowlevel/connection.py):   *)
(* an async generator that asks for one page of a table at a time, sorted  *)
(* by the key fields of the table, and stops at the first empty page.      *)
(* While the generator is suspended at its yield, others edit the table.   *)
(*                                                                         *)
(* A row is its place in the sort order.  Only the rows the filter accepts *)
(* count.  The backend is external.  An operator Name_Fault is Name with   *)
(* one plausible mistake.                                                  *)
(***************************************************************************)
EXTENDS Naturals, Sequences, FiniteSetsExt, Functions

CONSTANTS
  Rows,      \* bound: the rows the table may ever have
  PageSize,  \* page_size
  MaxEdits   \* bound: edits of the table during the fetch

ASSUME RowsAssumption == Rows \subseteq Nat /\ IsFiniteSet(Rows)
ASSUME PageSizeAssumption == PageSize \in Nat \ {0}
ASSUME MaxEditsAssumption == MaxEdits \in Nat

VARIABLES
  table,     \* backend: the rows
  keyed,     \* backend: the table has key fields
  pc,        \* where the generator is
  sortBy,    \* sort_by: by the key fields, or by nothing
  startRow,  \* start_row
  out,       \* the rows yielded so far
  initial,   \* history: the rows when the fetch began
  edits      \* history: the edits since, in order

vars == <<table, keyed, pc, sortBy, startRow, out, initial, edits>>

\* The rows in the sort order.
Sorted(rows) ==
  CHOOSE s \in [1..Cardinality(rows) -> rows] : \A i, j \in DOMAIN s : i < j => s[i] < s[j]

\* What the backend may answer for the rows from .. to - 1: without a sort order
\* each request has its own arrangement of the table, so any rows, as many as the
\* page has.  (In which order within the page tells no property anything.)
Page(from, to) ==
  LET sorted == Sorted(table)
      page == SubSeq(sorted, from + 1, IF to < Len(sorted) THEN to ELSE Len(sorted))
  IN  IF sortBy = "key"
      THEN {page}
      ELSE {Sorted(rows) : rows \in kSubset(Len(page), table)}

\* get_fc: the key fields.
GetFc_Unsorted ==
  /\ pc = "fc"
  /\ sortBy' = "nothing"
  /\ pc' = "page"
  /\ UNCHANGED <<table, keyed, startRow, out, initial, edits>>
GetFc ==
  /\ pc = "fc"
  /\ sortBy' = IF keyed THEN "key" ELSE "nothing"
  /\ pc' = "page"
  /\ UNCHANGED <<table, keyed, startRow, out, initial, edits>>

\* One turn of the loop.
FetchPage_SkipsOne ==
  /\ pc = "page"
  /\ \E data \in Page(startRow, startRow + PageSize) :
        IF data = << >>
        THEN pc' = "done" /\ UNCHANGED <<startRow, out>>
        ELSE /\ out' = out \o data
             /\ startRow' = startRow + PageSize + 1
             /\ UNCHANGED pc
  /\ UNCHANGED <<table, keyed, sortBy, initial, edits>>
FetchPage_Stays ==
  /\ pc = "page"
  /\ \E data \in Page(startRow, startRow + PageSize) :
        IF data = << >>
        THEN pc' = "done" /\ UNCHANGED <<startRow, out>>
        ELSE /\ out' = data
             /\ UNCHANGED <<startRow, pc>>
  /\ UNCHANGED <<table, keyed, sortBy, initial, edits>>
FetchPage_StopsAtShortPage ==
  /\ pc = "page"
  /\ \E data \in Page(startRow, startRow + PageSize) :
        /\ pc' = IF Len(data) < PageSize THEN "done" ELSE "page"
        /\ out' = IF Len(data) < PageSize THEN out ELSE out \o data
        /\ startRow' = startRow + PageSize
  /\ UNCHANGED <<table, keyed, sortBy, initial, edits>>
FetchPage ==
  /\ pc = "page"
  /\ \E data \in Page(startRow, startRow + PageSize) :
        IF data = << >>
        THEN pc' = "done" /\ UNCHANGED <<startRow, out>>
        ELSE /\ out' = out \o data
             /\ startRow' = startRow + PageSize
             /\ UNCHANGED pc
  /\ UNCHANGED <<table, keyed, sortBy, initial, edits>>

\* The request of a page, or get_fc, raises: the generator ends.
Fails ==
  /\ pc \in {"fc", "page"}
  /\ pc' = "failed"
  /\ UNCHANGED <<table, keyed, sortBy, startRow, out, initial, edits>>

Edit(what) ==
  /\ pc \in {"fc", "page"} /\ Len(edits) < MaxEdits
  /\ edits' = Append(edits, what)

\* Another client loads rows into the table, or removes some.
Insert ==
  /\ \E row \in Rows \ table : table' = table \cup {row}
  /\ Edit("insert")
  /\ UNCHANGED <<keyed, pc, sortBy, startRow, out, initial>>
Delete ==
  /\ \E row \in table : table' = table \ {row}
  /\ Edit("delete")
  /\ UNCHANGED <<keyed, pc, sortBy, startRow, out, initial>>

\* Another client replaces the table (push_pandas, replace_existing): other rows,
\* and other key fields than those sort_by was read from.
Replace ==
  /\ \E rows \in SUBSET Rows, keys \in BOOLEAN :
        table' = rows /\ keyed' = keys /\ <<rows, keys>> # <<table, keyed>>
  /\ Edit("replace")
  /\ UNCHANGED <<pc, sortBy, startRow, out, initial>>

-----------------------------------------------------------------------------
Init ==
  /\ table \in SUBSET Rows
  /\ keyed \in BOOLEAN
  /\ pc = "fc"
  /\ sortBy = "nothing"
  /\ startRow = 0
  /\ out = << >>
  /\ initial = table
  /\ edits = << >>

Next == GetFc \/ FetchPage \/ Fails \/ Insert \/ Delete \/ Replace

Spec == Init /\ [][Next]_vars

\* The program asks for the next page, and every request is answered.
FairSpec == Spec /\ WF_vars(GetFc \/ FetchPage)

-----------------------------------------------------------------------------
(* Properties. *)

\* The state keeps its shape; the pages asked for begin at multiples of page_size.
TypeOK ==
  /\ table \subseteq Rows /\ initial \subseteq Rows /\ keyed \in BOOLEAN
  /\ pc \in {"fc", "page", "done", "failed"}
  /\ sortBy \in {"key", "nothing"}
  /\ startRow \in Nat /\ startRow % PageSize = 0
  /\ out \in Seq(Rows)
  /\ edits \in Seq({"insert", "delete", "replace"}) /\ Len(edits) <= MaxEdits

\* A fetch nobody disturbs yields the table: every row once, in order.  Of a table
\* without key fields, whose pages come from different arrangements, it yields as
\* many rows as there are; they are the rows of the table if one page holds them.
QuietFetchIsExact ==
  pc = "done" /\ edits = << >> =>
    IF keyed
    THEN out = Sorted(table)
    ELSE /\ Len(out) = Cardinality(table) /\ Range(out) \subseteq table
         /\ Len(out) <= PageSize => Range(out) = table

\* A row that is there all the time is only missed if the table was replaced or
\* rows were removed meanwhile: loads (update_table) never make a fetch lose rows.
MissesOnlyAfterDelete ==
  pc = "done" /\ sortBy = "key" /\ Range(edits) \subseteq {"insert"} => initial \subseteq Range(out)

\* The fetch ends; it goes on as long as rows come in, and those are bounded.
FetchEnds == <>(pc \in {"done", "failed"})
=============================================================================
