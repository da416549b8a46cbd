------------------------------ MODULE BlockFfi ------------------------------
(***************************************************************************)
(* The C interface of shared blocks and block writers                      *)
(* (datashare_resultset_rust/src/c_adapter): the provider fills a block    *)
(* through a block handle or a writer handle, in whatever order it likes,  *)
(* and another process maps the block for reading.  A null handle is       *)
(* refused by every function.  A table of rows, kept beside the block, is  *)
(* what the calls that succeeded should have written.                      *)
(***************************************************************************)
EXTENDS SharedBlock

CONSTANTS
    FfiBlockSizes,   \* sizes asked for
    FfiColumns,      \* column numbers asked for
    FfiValues,       \* values written
    FfiMaxRows,      \* bound: rows asked for
    FfiMaxCalls      \* bound: calls that change the block

ASSUME BlockFfiAssumption ==
    /\ FfiBlockSizes \subseteq Nat /\ \A size \in FfiBlockSizes : HeaderSize + GroupSize < size
    /\ FfiColumns \subseteq Nat /\ FfiMaxRows \in Nat /\ FfiMaxCalls \in Nat
    /\ \A v \in FfiValues : IsValue(v)

VARIABLES
    mapping,         \* <<>>, or <<the block that lies in the shared memory>>
    owner,           \* the handle of the provider: "none", "block" or "writer"
    reader,          \* how another handle has mapped it: "none", "readonly", "writable"
    table,           \* the rows that were written
    blockCalls

blockVars == <<mapping, owner, reader, table, blockCalls>>

E_OK == "e_ok"
E_ERROR == "e_error"
convert_error_code(code) == IF code = OK THEN E_OK ELSE E_ERROR

BlockFfiInit ==
    /\ mapping = <<>> /\ owner = "none" /\ reader = "none"
    /\ table = <<>> /\ blockCalls = 0

----------------------------------------------------------------------------
\* A call through a handle, with the operation's outcome r: the table becomes t
\* if the caller is told success.  The codes of a writer are just two.
ToldOk(handle, code) == IF handle = "writer" THEN convert_error_code(code) = E_OK ELSE code = OK
Call(handle, r, t) ==
    /\ owner = handle /\ mapping # <<>> /\ blockCalls < FfiMaxCalls /\ blockCalls' = blockCalls + 1
    /\ mapping' = <<r.b>>
    /\ table' = IF ToldOk(handle, r.code) THEN t ELSE table
    /\ UNCHANGED <<owner, reader>>

\* DataShareSharedBlockCreate and DataShareBlockWriterNewWithBlock: no mapping
\* is smaller than the header and one group.
BlockCreate(handle, size) ==
    /\ owner = "none" /\ blockCalls < FfiMaxCalls /\ blockCalls' = blockCalls + 1
    /\ owner' = handle /\ mapping' = <<CreateBlock(size)>>
    /\ table' = <<>> /\ reader' = "none"

\* The last user of a mapping releases it; a reader keeps what it has mapped.
BlockFree ==
    /\ owner # "none" /\ owner' = "none"
    /\ mapping' = IF reader # "none" THEN mapping ELSE <<>>
    /\ table' = IF reader # "none" THEN table ELSE <<>>
    /\ UNCHANGED <<reader, blockCalls>>

\* The block of a writer is reached by DataShareBlockWriterGetBlock, so that a
\* writer's owner may call these too.
BlockClear == owner # "none" /\ Call(owner, Clear(mapping[1]), <<>>)
BlockSetColumnNum(n) == owner # "none" /\ Call(owner, SetColumnNum(mapping[1], n), table)

AddRow == Append(table, NullRow(mapping[1].column_nums))
BlockAllocRow == Len(table) < FfiMaxRows /\ Call("block", AllocRow(mapping[1]), AddRow)
WriterAllocRow == Len(table) < FfiMaxRows /\ Call("writer", AllocRow(mapping[1]), AddRow)

DropRow == IF table = <<>> THEN table ELSE SubSeq(table, 1, Len(table) - 1)
BlockFreeLastRow == Call("block", FreeLastRow(mapping[1]), DropRow)
WriterFreeLastRow == Call("writer", FreeLastRow(mapping[1]), DropRow)

\* DataShareSharedBlockPut*: any row and column, those the block lacks included.
PutCell(row, col, v) ==
    [r \in DOMAIN table |-> [c \in DOMAIN table[r] |->
        IF r = row + 1 /\ c = col THEN v ELSE table[r][c]]]
BlockPut(row, col, v) == Call("block", Put(mapping[1], row, col, v), PutCell(row, col, v))

\* DataShareBlockWriterWrite*: into the last row, if there is one.
CurrentRowIndex(b) == b.row_nums - 1
WriterWrite(col, v) ==
    /\ mapping # <<>>
    /\ LET row == CurrentRowIndex(mapping[1]) IN
       Call("writer", IF row < 0 THEN Answer(INVALID_OPERATION, mapping[1]) ELSE Put(mapping[1], row, col, v),
            PutCell(row, col, v))

\* write_message_parcel and read_message_parcel give a read-only block;
\* DataShareSharedBlockNewFromFd one as the caller asks for.
ReaderMaps(mode) ==
    /\ owner # "none" /\ reader = "none" /\ reader' = mode
    /\ UNCHANGED <<mapping, owner, table, blockCalls>>

ReceiveBlock == ReaderMaps("readonly")
BlockNewFromFd == \E mode \in {"readonly", "writable"} : ReaderMaps(mode)

ReaderUnmaps ==
    /\ reader # "none" /\ reader' = "none"
    /\ mapping' = IF owner = "none" THEN <<>> ELSE mapping
    /\ table' = IF owner = "none" THEN <<>> ELSE table
    /\ UNCHANGED <<owner, blockCalls>>

\* A call through the other handle: all that would change a read-only block is
\* refused, a writable one is changed under its owner.
ReaderCalls(row, col, v) ==
    /\ reader # "none" /\ blockCalls < FfiMaxCalls /\ blockCalls' = blockCalls + 1
    /\ LET b == [ReadMessageParcel(mapping[1]) EXCEPT !.read_only = (reader = "readonly")]
           tries == {<<Clear(b), <<>>>>, <<SetColumnNum(b, 1), table>>, <<FreeLastRow(b), DropRow>>,
                     <<Put(b, row, col, v), PutCell(row, col, v)>>}
       IN  \E t \in tries :
               /\ mapping' = <<[t[1].b EXCEPT !.read_only = FALSE]>>
               /\ table' = IF t[1].code = OK THEN t[2] ELSE table
    /\ UNCHANGED <<owner, reader>>

BlockFfiNext ==
    \/ \E size \in FfiBlockSizes, h \in {"block", "writer"} : BlockCreate(h, size)
    \/ BlockFree \/ BlockClear \/ BlockAllocRow \/ BlockFreeLastRow
    \/ WriterAllocRow \/ WriterFreeLastRow \/ ReceiveBlock \/ BlockNewFromFd \/ ReaderUnmaps
    \/ \E n \in FfiColumns : BlockSetColumnNum(n)
    \/ \E col \in 0 .. ColMaxNum, v \in FfiValues :
         \/ WriterWrite(col, v)
         \/ \E row \in 0 .. FfiMaxRows : BlockPut(row, col, v) \/ ReaderCalls(row, col, v)

BlockFfiSpec == BlockFfiInit /\ [][BlockFfiNext]_blockVars

----------------------------------------------------------------------------
\* Whatever order a provider calls in, no two objects of the block overlap and
\* all lie inside the mapping: rows freed and allocated again across a group
\* boundary, cells overwritten, a block that is full.
FfiBlockWellFormed == mapping # <<>> => WellFormed(mapping[1])

\* A cell reads as the value of the last call that succeeded on it, a fresh row
\* as nulls: neither another cell's write, nor one that was refused half-way, nor
\* the holder of a read-only handle, changes it.
CellsKeepValues ==
    mapping # <<>> =>
        LET b == mapping[1] IN
        /\ b.column_nums > 0 => Len(table) = b.row_nums
        /\ \A r \in 1 .. Len(table), c \in 0 .. b.column_nums - 1 :
               HasCell(b, r - 1, c) => CellValue(b, r - 1, c) = table[r][c]
=============================================================================
