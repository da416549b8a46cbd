----------------------------- MODULE SharedBlock -----------------------------
(***************************************************************************)
(* The shared memory block of a result set (shared_block.rs) as a record:  *)
(* the header, and the objects that lie in the mapping, keyed by their     *)
(* byte offset.  A row group holds the offsets of RowOffsetsNum rows; the  *)
(* chain of groups that next_group_offset links is the sequence of its     *)
(* groups.  A row is a directory of cells, a string or blob cell points to *)
(* a region of its own.  Clearing forgets the objects: the code leaves     *)
(* their bytes, but to read one before it is written again would be an     *)
(* error of TLC.  Every operation returns a record [code, b].              *)
(***************************************************************************)
EXTENDS Integers, Sequences

CONSTANTS
    HeaderSize,      \* size_of::<SharedBlockHeader>(), 28 in the code
    GroupSize,       \* size_of::<RowGroupHeader>(), 404 in the code
    CellSize,        \* size_of::<CellUnit>(), 12 in the code
    RowOffsetsNum,   \* rows per group, 100 in the code
    ColMaxNum        \* 32767 in the code

ASSUME SharedBlockAssumption ==
    /\ HeaderSize \in Nat \ {0} /\ GroupSize \in Nat \ {0} /\ CellSize \in Nat \ {0}
    /\ RowOffsetsNum \in Nat \ {0} /\ ColMaxNum \in Nat

OK == "ok"
BAD_VALUE == "bad_value"
NO_MEMORY == "no_memory"
INVALID_OPERATION == "invalid_operation"

\* A zeroed cell reads as NULL; the other cells carry their type and value, a
\* string or a blob the place of its bytes instead.
NullCell == [type |-> "null"]

Answer(code, b) == [code |-> code, b |-> b]

\* What a caller writes into a cell: a null, a number, or a text or blob of some
\* bytes, of which there may be none.
NoBytes == ""
IsValue(v) ==
    \/ v = NullCell
    \/ v.type \in {"integer", "float"} /\ v = [type |-> v.type, val |-> v.val]
    \/ /\ v.type \in {"string", "blob"} /\ v = [type |-> v.type, val |-> v.val, size |-> v.size]
       /\ v.size \in Nat /\ (v.size = 0 => v.val = NoBytes)

\* An object stored in the mapping.
Stored(f, at, object) == [o \in DOMAIN f \cup {at} |-> IF o = at THEN object ELSE f[o]]

\* A group at an offset, whose row offsets are zero.
EmptyGroup(at) == [at |-> at, offs |-> [i \in 0 .. RowOffsetsNum - 1 |-> 0]]

\* SharedBlock::create and init: a zeroed mapping with one row group behind the
\* header.
CreateBlock(size) ==
    [size |-> size, read_only |-> FALSE, unused |-> HeaderSize + GroupSize,
     row_nums |-> 0, column_nums |-> 0,
     groups |-> <<EmptyGroup(HeaderSize)>>, dirs |-> <<>>, bytes |-> <<>>]

\* The block a reader builds on the same mapping.
ReadMessageParcel(b) == [b EXCEPT !.read_only = TRUE]

\* offset_to_ptr: the mapping contains [offset, offset + n), its last byte kept
\* free.
OffsetToPtr(b, offset, n) == offset < b.size /\ offset + n < b.size

\* Mutant: the block is emptied down to its header, the first group included.
ClearMutant(b) ==
    IF b.read_only THEN Answer(INVALID_OPERATION, b)
    ELSE Answer(OK, [CreateBlock(b.size) EXCEPT !.unused = HeaderSize])

\* clear: only the header and an empty first group are left.
Clear(b) ==
    IF b.read_only THEN Answer(INVALID_OPERATION, b)
    ELSE LET reset == [b EXCEPT !.unused = HeaderSize + GroupSize,
                                !.row_nums = 0, !.column_nums = 0]
         IN  IF ~OffsetToPtr(b, HeaderSize, GroupSize) THEN Answer(BAD_VALUE, reset)
             ELSE Answer(OK, [reset EXCEPT !.groups = <<EmptyGroup(HeaderSize)>>,
                                           !.dirs = <<>>, !.bytes = <<>>])

SetColumnNum(b, n) ==
    IF \/ b.read_only
       \/ (b.column_nums > 0 \/ b.row_nums > 0) /\ b.column_nums # n
       \/ n > ColMaxNum
    THEN Answer(INVALID_OPERATION, b)
    ELSE Answer(OK, [b EXCEPT !.column_nums = n])

\* alloc: bump the unused offset, to the next multiple of 4 if aligned.
AllocAt(b, aligned) == b.unused + (IF aligned THEN (-b.unused) % 4 ELSE 0)

AllocFits(b, n, aligned) == AllocAt(b, aligned) + n < b.size

\* get_row_offset: where the offset of a row's directory is kept, in the group
\* that is reached by walking as long as the row number is >= RowOffsetsNum.
RowOffset(b, row) == b.groups[(row \div RowOffsetsNum) + 1].offs[row % RowOffsetsNum]

\* alloc_row_offset: the group that takes the next row, reached by walking as long
\* as the row number is > RowOffsetsNum.  When it is full the row goes to the
\* group behind it, from which the chain is cut, or to a new one; row_nums is
\* counted up.  The slot it returns is <<group, index>>; NoSlot when there is no
\* memory.
NoSlot == <<0, 0>>

AllocRowOffset(b) ==
    LET row  == b.row_nums
        last == IF row = 0 THEN 1 ELSE ((row - 1) \div RowOffsetsNum) + 1
        full == row > 0 /\ row % RowOffsetsNum = 0
        new  == AllocAt(b, TRUE)
    IN  IF ~full
        THEN [slot |-> <<last, row % RowOffsetsNum>>, b |-> [b EXCEPT !.row_nums = @ + 1]]
        ELSE IF last < Len(b.groups)
        THEN [slot |-> <<last + 1, 0>>,
              b |-> [b EXCEPT !.groups = SubSeq(@, 1, last + 1), !.row_nums = @ + 1]]
        ELSE IF ~AllocFits(b, GroupSize, TRUE) THEN [slot |-> NoSlot, b |-> b]
        ELSE [slot |-> <<last + 1, 0>>,
              b |-> [b EXCEPT !.unused = new + GroupSize,
                              !.groups = Append(@, EmptyGroup(new)),
                              !.row_nums = @ + 1]]

\* A zeroed directory of n cells.
NullRow(n) == [c \in 0 .. n - 1 |-> NullCell]

\* Mutant: a row without memory for its directory stays counted.
AllocRowMutant(b) ==
    IF b.read_only THEN Answer(INVALID_OPERATION, b)
    ELSE LET slot == AllocRowOffset(b).slot
             c    == AllocRowOffset(b).b
             dir  == AllocAt(c, TRUE)
             n    == c.column_nums * CellSize
         IN  IF slot = NoSlot THEN Answer(NO_MEMORY, b)
             ELSE IF ~AllocFits(c, n, TRUE) THEN Answer(NO_MEMORY, c)
             ELSE LET d == [c EXCEPT !.unused = dir + n]
                  IN  IF ~OffsetToPtr(d, dir, CellSize) THEN Answer(BAD_VALUE, d)
                      ELSE Answer(OK,
                            [d EXCEPT !.groups[slot[1]].offs[slot[2]] = dir,
                                      !.dirs = Stored(@, dir, NullRow(c.column_nums))])

\* alloc_row: a slot for the row and a zeroed directory of column_nums cells; a
\* row without memory for its directory is backed out.
AllocRow(b) ==
    IF b.read_only THEN Answer(INVALID_OPERATION, b)
    ELSE LET slot == AllocRowOffset(b).slot
             c    == AllocRowOffset(b).b
             dir  == AllocAt(c, TRUE)
             n    == c.column_nums * CellSize
         IN  IF slot = NoSlot THEN Answer(NO_MEMORY, b)
             ELSE IF ~AllocFits(c, n, TRUE)
             THEN Answer(NO_MEMORY, [c EXCEPT !.row_nums = @ - 1])
             ELSE LET d == [c EXCEPT !.unused = dir + n]
                  IN  IF ~OffsetToPtr(d, dir, CellSize) THEN Answer(BAD_VALUE, d)
                      ELSE Answer(OK,
                            [d EXCEPT !.groups[slot[1]].offs[slot[2]] = dir,
                                      !.dirs = Stored(@, dir, NullRow(c.column_nums))])

FreeLastRow(b) ==
    IF b.read_only THEN Answer(INVALID_OPERATION, b)
    ELSE Answer(OK, [b EXCEPT !.row_nums = IF @ > 0 THEN @ - 1 ELSE 0])

\* get_cell_unit: a row and a column the block has, and a directory inside it.
HasCell(b, row, col) ==
    /\ row \in 0 .. b.row_nums - 1 /\ col \in 0 .. b.column_nums - 1
    /\ OffsetToPtr(b, RowOffset(b, row), CellSize)

GetCellUnit(b, row, col) == b.dirs[RowOffset(b, row)][col]

SetCell(b, row, col, cell) == [b EXCEPT !.dirs[RowOffset(b, row)][col] = cell]

\* put_null, put_long and put_double: the value lies in the cell.
PutInline(b, row, col, cell) ==
    IF b.read_only THEN Answer(INVALID_OPERATION, b)
    ELSE IF ~HasCell(b, row, col) THEN Answer(BAD_VALUE, b)
    ELSE Answer(OK, SetCell(b, row, col, cell))

\* put_blob and put_string: the bytes are allocated behind everything else,
\* unaligned, and the cell points to them.
PutBlobOrString(b, row, col, v) ==
    LET at == AllocAt(b, FALSE)
    IN  IF b.read_only THEN Answer(INVALID_OPERATION, b)
        ELSE IF ~HasCell(b, row, col) THEN Answer(BAD_VALUE, b)
        ELSE IF ~AllocFits(b, v.size, FALSE) THEN Answer(NO_MEMORY, b)
        ELSE Answer(OK,
              SetCell([b EXCEPT !.unused = at + v.size, !.bytes = Stored(@, at, v.val)],
                      row, col, [type |-> v.type, offset |-> at, size |-> v.size]))

Put(b, row, col, v) ==
    IF v.type \in {"string", "blob"} THEN PutBlobOrString(b, row, col, v)
    ELSE PutInline(b, row, col, v)

\* get_cell_value with get_string_data: what a reader finds in a cell.
CellValue(b, row, col) ==
    LET cell == GetCellUnit(b, row, col)
    IN  IF cell.type \in {"string", "blob"}
        THEN [type |-> cell.type, size |-> cell.size,
              val |-> IF cell.size = 0 THEN NoBytes ELSE b.bytes[cell.offset]]
        ELSE cell

\* The regions of the mapping the block refers to, as <<offset, size>>: header,
\* row groups, row directories and bytes.  Rows of no columns have no directory.
Rows(b) == IF b.column_nums = 0 THEN {} ELSE 0 .. b.row_nums - 1

Regions(b) ==
    LET cells == {GetCellUnit(b, r, c) : r \in Rows(b), c \in 0 .. b.column_nums - 1}
    IN  {<<0, HeaderSize>>}
        \cup {<<b.groups[k].at, GroupSize>> : k \in 1 .. Len(b.groups)}
        \cup {<<RowOffset(b, r), b.column_nums * CellSize>> : r \in Rows(b)}
        \cup {<<c.offset, c.size>> : c \in {x \in cells : x.type \in {"string", "blob"}}}

Disjoint(p, q) == p[1] + p[2] <= q[1] \/ q[1] + q[2] <= p[1]

\* Two regions never overlap, all lie below the unused offset and inside the
\* mapping, and no two rows share a directory.
WellFormed(b) ==
    /\ b.unused < b.size
    /\ \A p \in Regions(b) : p[1] + p[2] <= b.unused
    /\ \A p, q \in Regions(b) : p = q \/ Disjoint(p, q)
    /\ \A r, s \in Rows(b) : r = s \/ RowOffset(b, r) # RowOffset(b, s)
=============================================================================
