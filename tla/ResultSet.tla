------------------------------ MODULE ResultSet ------------------------------
(***************************************************************************)
(* DataShareResultSet (result_set.rs): a cursor over the rows of a bridge, *)
(* of which a window lies in a SharedBlock, written by a BlockWriter; and  *)
(* the stub and proxy through which another process drives the window      *)
(* (ipc/stub.rs, ipc/proxy.rs, ipc/interface.rs).  A handler runs under    *)
(* the stub's mutex: while a bridge fills the block, one call of the       *)
(* writer at a time, nothing else is done with the result set.             *)
(***************************************************************************)
EXTENDS SharedBlock, TLC

CONSTANTS
    SourceRows,      \* the rows of the bridge, a sequence of [0..Columns-1 -> value]
    Columns,         \* number of column names
    BlockSize,       \* bytes of the block, 2 MiB in the code
    FailAfterRows,   \* whether the bridge may report an error after it wrote rows
    IntBits,         \* width of an i32
    ParseLong(_),    \* str::parse::<i64>, 0 when the text is no number
    ParseDouble(_)   \* str::parse::<f64> in tenths, 0 when the text is no number

ASSUME ResultSetAssumption ==
    /\ Columns \in Nat /\ BlockSize \in Nat /\ HeaderSize + GroupSize < BlockSize
    /\ Len(SourceRows) \in Nat
    /\ \A i \in 1 .. Len(SourceRows), c \in 0 .. Columns - 1 : IsValue(SourceRows[i][c])

VARIABLES
    rs,              \* the result set
    fill,            \* how far the filling of its block is
    answer,          \* the last answer of a getter
    reply,           \* the last reply of the stub to OnGo
    pxCount,         \* the row count the proxy keeps, -1 for none
    died             \* the process of the stub has died

resultSetVars == <<rs, fill, answer, reply, pxCount, died>>

Row(i) == SourceRows[i + 1]
INIT_POS == -1
NoBlock == [size |-> 0]
NoAnswer == [row |-> INIT_POS]
NoReply == [first |-> -1, end |-> -1]

\* The block is filled with the rows first .. last for go_to_row, which then moves
\* to goal, for a client of the stub, or to be handed over by set_block.  at is
\* what the bridge has done: written whole rows, or cells up to col of a row; a
\* cell was refused; there is no room for another row.
Unfilled == [at |-> "idle", for |-> "none", first |-> 0, last |-> 0, goal |-> 0, col |-> 0]
Settled == fill.at = "idle"

----------------------------------------------------------------------------
\* on_go, first half: the block, created if there is none, is cleared and handed to
\* the bridge.  It may not be created, cleared or given its columns; then on_go
\* fails.
BlockFor(r) == IF r.block = NoBlock THEN CreateBlock(BlockSize) ELSE r.block
Ready(r) == SetColumnNum(Clear(BlockFor(r)).b, Columns)
IsReady(r) == Clear(BlockFor(r)).code = OK /\ Ready(r).code = OK

Filling(for, first, last, goal) ==
    [at |-> "rows", for |-> for, first |-> first, last |-> last, goal |-> goal, col |-> 0]

OnGoOutcomes(r, filling) ==
    (IF IsReady(r)
     THEN {[rs |-> [r EXCEPT !.block = Ready(r).b], fill |-> filling]}
     ELSE {[rs |-> [r EXCEPT !.block = Ready(r).b, !.start = -1, !.end = -1], fill |-> Unfilled]})
    \cup {[rs |-> r, fill |-> Unfilled] : x \in {y \in {r} : y.block = NoBlock}}

OnGo(for, first, last, goal) ==
    \E o \in OnGoOutcomes(rs, Filling(for, first, last, goal)) : rs' = o.rs /\ fill' = o.fill

\* ResultSetBridge::on_go with its writer, call by call.  A row is allocated and
\* its cells are written one after the other.  A bridge that was refused a row or a
\* cell writes no more; a row of which a cell was refused it cannot take back, as
\* the Writer it is handed frees no row.
BridgeAllocRow ==
    LET a == AllocRow(rs.block) IN
    /\ fill.at = "rows" /\ fill.first + rs.block.row_nums <= fill.last /\ ~died
    /\ rs' = [rs EXCEPT !.block = a.b]
    /\ fill' = [fill EXCEPT !.at = IF a.code # OK THEN "full" ELSE IF Columns = 0 THEN "rows" ELSE "cells",
                            !.col = 0]
    /\ UNCHANGED <<answer, reply, pxCount, died>>

BridgeWriteCell ==
    LET row == rs.block.row_nums - 1
        p   == Put(rs.block, row, fill.col, Row(fill.first + row)[fill.col])
    IN  /\ fill.at = "cells" /\ ~died
        /\ rs' = [rs EXCEPT !.block = p.b]
        /\ fill' = [fill EXCEPT !.at = IF p.code # OK THEN "refused"
                                       ELSE IF fill.col + 1 = Columns THEN "rows" ELSE "cells",
                                !.col = @ + 1]
        /\ UNCHANGED <<answer, reply, pxCount, died>>

\* The BlockWriter of a provider can free a row of which a cell was refused.
ProviderFreesLastRow ==
    /\ fill.for = "provider" /\ fill.at = "refused"
    /\ rs' = [rs EXCEPT !.block = FreeLastRow(rs.block).b]
    /\ fill' = [fill EXCEPT !.at = "full"]
    /\ UNCHANGED <<answer, reply, pxCount, died>>

\* Mutant: the end of the window is the row behind its last.
WindowMutant(r, ok) ==
    LET filled == ok /\ r.block.row_nums > 0
    IN  [r EXCEPT !.start = IF filled THEN fill.first ELSE -1,
                  !.end = IF filled THEN fill.first + r.block.row_nums ELSE -1]

\* on_go, second half: the window is set when rows were written and the bridge did
\* not fail, else it is -1 .. -1.  go_to_row moves the cursor if the bridge did not
\* fail; the stub replies with the end of the window.
Window(r, ok) ==
    LET filled == ok /\ r.block.row_nums > 0
    IN  [r EXCEPT !.start = IF filled THEN fill.first ELSE -1,
                  !.end = IF filled THEN fill.first + r.block.row_nums - 1 ELSE -1]

OnGoReturns(ok) ==
    /\ ~died /\ fill' = Unfilled
    /\ \/ /\ fill.for = "cursor" /\ UNCHANGED reply
          /\ rs' = [Window(rs, ok) EXCEPT !.row_pos = IF ok THEN fill.goal ELSE @]
       \/ /\ fill.for = "client" /\ rs' = Window(rs, ok)
          /\ reply' = [first |-> fill.first, end |-> Window(rs, ok).end]
    /\ UNCHANGED <<answer, pxCount, died>>

\* The bridge may stop after any number of rows and where it is refused.  It may fail
\* before the first row and - FailAfterRows - later.
BridgeStops == fill.at \in {"rows", "refused", "full"}
BridgeReturns == BridgeStops /\ OnGoReturns(TRUE)

BridgeFails ==
    /\ ~Settled /\ (rs.block.row_nums = 0 \/ FailAfterRows)
    /\ OnGoReturns(FALSE)

\* A block that its provider has filled, in the same way, becomes the block of a
\* new result set (set_block, with_block).
ProviderFillsBlock ==
    /\ Settled /\ ~rs.shared /\ ~rs.bridge /\ ~rs.is_closed /\ rs.block = NoBlock
    /\ IsReady(rs) /\ rs' = [rs EXCEPT !.block = Ready(rs).b]
    /\ fill' = Filling("provider", 0, Len(SourceRows) - 1, 0)
    /\ UNCHANGED <<answer, reply, pxCount, died>>

SetBlock ==
    /\ fill.for = "provider" /\ BridgeStops
    /\ rs' = [rs EXCEPT !.count = rs.block.row_nums, !.start = 0, !.end = rs.block.row_nums - 1]
    /\ fill' = Unfilled
    /\ UNCHANGED <<answer, reply, pxCount, died>>

----------------------------------------------------------------------------
\* Mutant: a result set that is closed still moves.
MovesMutant(position) == 0 <= position /\ position < rs.count

\* go_to_row: a row outside the window is fetched first; when that fails the
\* cursor stays where it was.
Moves(position) == ~rs.is_closed /\ 0 <= position /\ position < rs.count
Cached(position) == ~rs.bridge \/ (rs.start <= position /\ position <= rs.end)

GoToRow(position) ==
    /\ Settled /\ ~rs.shared /\ Moves(position)
    /\ \/ Cached(position) /\ rs' = [rs EXCEPT !.row_pos = position] /\ UNCHANGED fill
       \/ ~Cached(position) /\ OnGo("cursor", position, rs.count - 1, position)
    /\ answer' = NoAnswer
    /\ UNCHANGED <<reply, pxCount, died>>

\* Mutant: the window is taken to begin with row 0.
BlockRowIndexMutant(r) == r.row_pos

\* block_row_index.
BlockRowIndex(r) == IF r.start >= 0 THEN r.row_pos - r.start ELSE r.row_pos

----------------------------------------------------------------------------
\* The getters, with the conversions of result_set.rs.
Truncate32(v) == LET w == 2 ^ IntBits IN ((v + w \div 2) % w) - (w \div 2)

\* A float is kept in tenths; as an integer it is truncated towards zero.
Truncate(tenths) == IF tenths < 0 THEN -((-tenths) \div 10) ELSE tenths \div 10

GetLong(v) ==
    CASE v.type = "integer" -> v.val
      [] v.type = "float"   -> Truncate(v.val)
      [] v.type = "string"  -> ParseLong(v.val)
      [] OTHER              -> 0

GetDouble(v) ==
    CASE v.type = "integer" -> 10 * v.val
      [] v.type = "float"   -> v.val
      [] v.type = "string"  -> ParseDouble(v.val)
      [] OTHER              -> 0

GetString(v) ==
    CASE v.type = "null"              -> ""
      [] v.type \in {"string", "blob"} -> v.val   \* up to the NUL; blob as UTF-8
      [] OTHER                         -> ToString(v.val)

GetBlob(v) == IF v.type \in {"string", "blob"} THEN v.val ELSE INVALID_OPERATION
IsColumnNull(v) == v.type = "null"
GetColumnType(v) == v.type

GetAs(kind, v) ==
    CASE kind = "long"   -> GetLong(v)
      [] kind = "int"    -> Truncate32(GetLong(v))
      [] kind = "double" -> GetDouble(v)
      [] kind = "string" -> GetString(v)
      [] kind = "blob"   -> GetBlob(v)
      [] kind = "null"   -> IsColumnNull(v)
      [] kind = "type"   -> GetColumnType(v)

\* check_state, then the cell of the block row.
CheckState(r, col) == ~r.is_closed /\ col \in 0 .. Columns - 1 /\ r.row_pos # INIT_POS

Readable(r, col) ==
    /\ CheckState(r, col) /\ r.block # NoBlock
    /\ HasCell(r.block, BlockRowIndex(r), col)

ReadCell(r, col) == CellValue(r.block, BlockRowIndex(r), col)

----------------------------------------------------------------------------
\* A result set over a bridge, or over nothing until it is given a block.
OverBridge ==
    [block |-> NoBlock, bridge |-> TRUE, row_pos |-> INIT_POS, count |-> Len(SourceRows),
     is_closed |-> FALSE, start |-> -1, end |-> -1, shared |-> FALSE]

ResultSetInit ==
    /\ rs \in {OverBridge, [OverBridge EXCEPT !.bridge = FALSE, !.count = 0]}
    /\ fill = Unfilled /\ answer = NoAnswer /\ reply = NoReply
    /\ pxCount = -1 /\ died = FALSE

\* go_to_row, go_to_first_row and go_to_last_row come down to a position, go_to,
\* go_to_next_row and go_to_previous_row to an offset.  A position that is no row
\* changes nothing.
GoTo == \E position \in 0 .. Len(SourceRows) - 1 : GoToRow(position)
GoToRelative == \E offset \in {-1, 1} : GoToRow(rs.row_pos + offset)

Get(kind, col) ==
    /\ Settled /\ ~rs.shared
    /\ Readable(rs, col)
    /\ answer' = [row |-> rs.row_pos, col |-> col, kind |-> kind,
                  res |-> GetAs(kind, ReadCell(rs, col))]
    /\ UNCHANGED <<rs, fill, reply, pxCount, died>>

CloseOutcome(r) == [r EXCEPT !.is_closed = TRUE, !.block = NoBlock, !.bridge = FALSE]

CloseResultSet ==
    /\ Settled /\ ~rs.shared /\ ~rs.is_closed
    /\ rs' = CloseOutcome(rs) /\ answer' = NoAnswer
    /\ UNCHANGED <<fill, reply, pxCount, died>>

\* write_to_parcel: a bridge without a block gets an empty one, whose mapping the
\* client shares, and the result set moves into the stub.
WriteToParcel ==
    /\ Settled /\ ~rs.shared
    /\ rs' = [rs EXCEPT !.shared = TRUE,
                        !.block = IF @ = NoBlock /\ rs.bridge
                                  THEN SetColumnNum(CreateBlock(BlockSize), Columns).b ELSE @]
    /\ answer' = NoAnswer
    /\ UNCHANGED <<fill, reply, pxCount, died>>

\* handle_on_go: rows first .. target for the client, the end of the window or
\* -1 in the reply.  The client waits for the reply and reads no window meanwhile.
HandleOnGo ==
    /\ Settled /\ rs.shared /\ ~died
    /\ \E first, target \in 0 .. Len(SourceRows) - 1 :
         \/ rs.bridge /\ OnGo("client", first, target, 0)
         \/ ~rs.bridge /\ UNCHANGED <<rs, fill>>
    /\ reply' = NoReply
    /\ UNCHANGED <<answer, pxCount, died>>

\* handle_close and handle_get_row_count, the latter as the proxy asks for it:
\* the count is kept once it is known.
HandleClose ==
    /\ Settled /\ rs.shared /\ ~died /\ ~rs.is_closed
    /\ rs' = CloseOutcome(rs) /\ reply' = NoReply
    /\ UNCHANGED <<fill, answer, pxCount, died>>

ProxyGetRowCount ==
    /\ Settled /\ rs.shared /\ pxCount < 0 /\ ~died /\ ~rs.is_closed
    /\ pxCount' = rs.count
    /\ UNCHANGED <<rs, fill, answer, reply, died>>

StubDies ==
    /\ rs.shared /\ ~died /\ died' = TRUE
    /\ UNCHANGED <<rs, fill, answer, reply, pxCount>>

ResultSetNext ==
    \/ GoTo \/ GoToRelative \/ CloseResultSet \/ WriteToParcel
    \/ \E kind \in {"long", "int", "double", "string", "blob", "null", "type"}, col \in 0 .. Columns - 1 :
          Get(kind, col)
    \/ BridgeAllocRow \/ BridgeWriteCell \/ ProviderFreesLastRow \/ BridgeReturns \/ BridgeFails
    \/ ProviderFillsBlock \/ SetBlock
    \/ HandleOnGo \/ HandleClose \/ ProxyGetRowCount \/ StubDies

ResultSetSpec == ResultSetInit /\ [][ResultSetNext]_resultSetVars

----------------------------------------------------------------------------
\* The block of a result set never refers to one byte twice: header, row groups,
\* row directories and string bytes are disjoint and lie inside the mapping,
\* however often it is cleared, filled, filled up and freed of its last row.
BlockRegionsDisjoint == rs.block # NoBlock => WellFormed(rs.block)

SameValue(v, w) == v.type = w.type /\ v = w

\* Row i of a block shows the row of the source.
Whole(b, i, row) == \A c \in 0 .. Columns - 1 : SameValue(CellValue(b, i, c), row[c])

\* Row i is the last of the block and breaks off before cell k, for whose bytes there
\* is no room: the cells before it are there, it and the ones behind it are null.
NoRoomFor(b, v) == v.type \in {"string", "blob"} /\ ~AllocFits(b, v.size, FALSE)

BreaksOffAt(b, i, row, k) ==
    /\ i = b.row_nums - 1 /\ NoRoomFor(b, row[k])
    /\ \A c \in 0 .. k - 1 : SameValue(CellValue(b, i, c), row[c])
    /\ \A c \in k .. Columns - 1 : CellValue(b, i, c).type = "null"

BreaksOff(b, i, row) == \E k \in 0 .. Columns - 1 : BreaksOffAt(b, i, row, k)

\* A getter that succeeds gives the cell of the row the cursor stands on, after
\* any sequence of moves, fetches, refused fetches and short fetches.  The one
\* exception: the bridge was refused a cell of the row, which is then the last of
\* the window, and from that cell on a getter gives what a null gives.
ReadsOwnRow ==
    answer # NoAnswer =>
        \/ answer.res = GetAs(answer.kind, Row(answer.row)[answer.col])
        \/ /\ answer.row = rs.row_pos
           /\ \E k \in 0 .. answer.col : BreaksOffAt(rs.block, BlockRowIndex(rs), Row(answer.row), k)
           /\ answer.res = GetAs(answer.kind, NullCell)

\* What the stub told the client about its window is what lies in the memory
\* they share: rows first .. end, each complete, except that the last one breaks
\* off where the bridge was refused a cell.
ReplyDescribesBlock ==
    reply.end >= 0 =>
        /\ rs.block.row_nums = reply.end - reply.first + 1
        /\ \A i \in 0 .. rs.block.row_nums - 1 :
              Whole(rs.block, i, Row(reply.first + i)) \/ BreaksOff(rs.block, i, Row(reply.first + i))

\* The detailed result set is a cursor: the row a read shows is the one whose
\* cells all read as the source's, or break off where there was no room for them,
\* and none while the block is filled.
NoRow == -1
OtherRow == -2
TornRow == -3

ShownRow ==
    IF Settled /\ ~rs.shared /\ Readable(rs, 0)
    THEN IF Whole(rs.block, BlockRowIndex(rs), Row(rs.row_pos)) THEN rs.row_pos
         ELSE IF BreaksOff(rs.block, BlockRowIndex(rs), Row(rs.row_pos)) THEN TornRow
         ELSE OtherRow
    ELSE NoRow

Cursor == INSTANCE ResultCursor WITH
    RowCount <- Len(SourceRows), NoRow <- NoRow, TornRow <- TornRow,
    pos <- rs.row_pos, shown <- ShownRow, closed <- rs.is_closed

\* A result set with its window, block and bridge implements a cursor over the
\* rows of the source: no step shows a row other than the one it is on.
ImplementsCursor == Cursor!CursorSpec
=============================================================================
