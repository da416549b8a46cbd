---------------------------- MODULE ResultCursor ----------------------------
(***************************************************************************)
(* What a result set promises to its reader: a cursor over the rows of the *)
(* source.  A read shows the row under the cursor, its beginning or        *)
(* nothing, never another row.  A cursor may lose its row when the rows    *)
(* cannot be fetched and finds it again by moving.                         *)
(***************************************************************************)
EXTENDS Integers

CONSTANTS
    RowCount,      \* rows of the source
    NoRow,         \* nothing is shown
    TornRow        \* the row under the cursor, whose end did not fit into memory

VARIABLES
    pos,           \* the cursor, -1 before the first row
    shown,         \* the row a read shows: an index, TornRow or NoRow
    closed

cursorVars == <<pos, shown, closed>>

CursorInit ==
    /\ pos = -1 /\ shown = NoRow /\ closed = FALSE

\* The cursor moves to a row of the source and shows what could be fetched of it.
Move ==
    /\ ~closed
    /\ pos' \in 0 .. RowCount - 1
    /\ shown' \in {pos', TornRow, NoRow}
    /\ UNCHANGED closed

\* Rows could not be fetched: the cursor stays and shows nothing.
Lose ==
    /\ shown' = NoRow
    /\ UNCHANGED <<pos, closed>>

Close ==
    /\ closed' = TRUE /\ shown' = NoRow
    /\ UNCHANGED pos

CursorNext == Move \/ Lose \/ Close

CursorSpec == CursorInit /\ [][CursorNext]_cursorVars
=============================================================================
