---------------------------- MODULE PublishedItem ----------------------------
(***************************************************************************)
(* PublishedDataItem (types.rs) and its way through a parcel               *)
(* (parcel_impl.rs): a text, or a blob that lies in shared memory.  A      *)
(* handle is one Ashmem object; the parcel gives the reader a handle of    *)
(* its own on the same memory.  Closing a handle leaves the other's alone. *)
(***************************************************************************)
EXTENDS Integers, Sequences, FiniteSets, SequencesExt

CONSTANTS
    Slots,          \* items of the two processes
    Blobs, Texts,   \* contents, none of them the empty one
    MaxHandles      \* bound: handles made

VARIABLES
    value,          \* item -> its PublishedDataValue
    handle,         \* the handles made: contents, open, mapped for reading
    movedOut,       \* <<>> or <<the node that move_out_ashmem returned>>
    inFlight,       \* <<>> or <<what the parcel carries>>
    wants,          \* item -> the data it was given
    got             \* the last get_data: what the item was given, what came back, the map failed

itemVars == <<value, handle, movedOut, inFlight, wants, got>>

\* The empty text and the empty blob.
Empty == ""
Text(x) == [kind |-> "text", data |-> x, h |-> 0, managed |-> FALSE]
AshmemNode(h, managed) == [kind |-> "ashmem", data |-> Empty, h |-> h, managed |-> managed]
Data(kind, x) == [kind |-> kind, data |-> x]
Close(hs, h) == [hs EXCEPT ![h].open = FALSE, ![h].mapped = FALSE]

\* clear: unmap and close, if this node manages a handle.
Cleared(hs, v) == IF v.managed /\ v.h # 0 THEN Close(hs, v.h) ELSE hs
\* A node that is overwritten releases its handle with the Ashmem object.
Dropped(hs, v) == IF v.h # 0 THEN Close(hs, v.h) ELSE hs

PublishedItemInit ==
    /\ value = [s \in Slots |-> Text(Empty)] /\ wants = [s \in Slots |-> Data("text", Empty)]
    /\ handle = <<>> /\ movedOut = <<>> /\ inFlight = <<>>
    /\ got = [want |-> Data("text", Empty), was |-> Data("text", Empty), failed |-> FALSE]

Holds(s, v, want) ==
    /\ value' = [value EXCEPT ![s] = v]
    /\ wants' = [wants EXCEPT ![s] = want]

\* set: the old value is cleared.  A region that is not created, mapped or
\* written is closed again, and the item holds a node without memory.
create_managed_ashmem_from_blob(hs, blob) ==
    {[hs |-> hs, node |-> AshmemNode(0, FALSE), blob |-> Empty]} \cup
    (IF Len(hs) < MaxHandles
     THEN {[hs |-> Append(hs, [blob |-> blob, open |-> TRUE, mapped |-> TRUE]),
            node |-> AshmemNode(Len(hs) + 1, TRUE), blob |-> blob]} ELSE {})

SetBlob(s, blob) ==
    /\ \E made \in create_managed_ashmem_from_blob(Cleared(handle, value[s]), blob) :
         /\ handle' = made.hs
         /\ Holds(s, made.node, Data("blob", made.blob))
    /\ UNCHANGED <<movedOut, inFlight, got>>

SetText(s, x) ==
    /\ handle' = Cleared(handle, value[s])
    /\ Holds(s, Text(x), Data("text", x))
    /\ UNCHANGED <<movedOut, inFlight, got>>

ClearItem(s) ==
    /\ handle' = Cleared(handle, value[s])
    /\ Holds(s, Text(Empty), Data("text", Empty))
    /\ UNCHANGED <<movedOut, inFlight, got>>

\* Mutant: the item keeps the region it gave away.
MoveOutAshmemMutant(s) ==
    /\ movedOut = <<>> /\ value[s].managed
    /\ movedOut' = <<AshmemNode(value[s].h, TRUE)>>
    /\ UNCHANGED <<value, wants, handle, inFlight, got>>

\* move_out_ashmem: only of a node that manages; the source keeps an empty one.
MoveOutAshmem(s) ==
    /\ movedOut = <<>> /\ value[s].managed
    /\ movedOut' = <<AshmemNode(value[s].h, TRUE)>>
    /\ Holds(s, AshmemNode(0, FALSE), Data("blob", Empty))
    /\ UNCHANGED <<handle, inFlight, got>>

\* set_ashmem_node: the old value is not cleared but dropped.
SetAshmemNode(s) ==
    /\ movedOut # <<>> /\ movedOut' = <<>>
    /\ handle' = Dropped(handle, value[s])
    /\ Holds(s, movedOut[1], Data("blob", handle[movedOut[1].h].blob))
    /\ UNCHANGED <<inFlight, got>>

\* read_ashmem_blob: mapped for reading unless it is; a failure gives an empty
\* blob.
GetData(s) ==
    LET v == value[s]
        answers == IF v.kind = "text" THEN {[data |-> Data("text", v.data), failed |-> FALSE]}
                   ELSE IF v.h = 0 \/ ~handle[v.h].open THEN {[data |-> Data("blob", Empty), failed |-> FALSE]}
                   ELSE {[data |-> Data("blob", handle[v.h].blob), failed |-> FALSE]} \cup
                        (IF handle[v.h].mapped THEN {} ELSE {[data |-> Data("blob", Empty), failed |-> TRUE]})
    IN
    /\ \E a \in answers :
         /\ got' = [want |-> wants[s], was |-> a.data, failed |-> a.failed]
         /\ handle' = IF v.h # 0 /\ handle[v.h].open /\ ~a.failed
                      THEN [handle EXCEPT ![v.h].mapped = TRUE] ELSE handle
    /\ UNCHANGED <<value, movedOut, inFlight, wants>>

\* serialize: a node without memory is refused.
Marshal(s) ==
    /\ inFlight = <<>> /\ (value[s].kind = "ashmem" => value[s].h # 0)
    /\ inFlight' = <<[value |-> value[s], want |-> wants[s],
                      blob |-> IF value[s].h = 0 THEN Empty ELSE handle[value[s].h].blob]>>
    /\ UNCHANGED <<value, handle, movedOut, wants, got>>

\* Mutant: the new item refers to the region of the item it replaces.
UnmarshalMutant(s) ==
    /\ inFlight # <<>> /\ inFlight' = <<>>
    /\ LET m == inFlight[1] IN
         \/ /\ m.value.kind = "text"
            /\ handle' = Dropped(handle, value[s]) /\ Holds(s, m.value, m.want)
         \/ /\ m.value.kind = "ashmem" /\ value[s].h # 0
            /\ Holds(s, value[s], m.want) /\ UNCHANGED handle
    /\ UNCHANGED <<movedOut, got>>

\* deserialize: a new item takes the place of this one.
Unmarshal(s) ==
    /\ inFlight # <<>> /\ inFlight' = <<>>
    /\ LET m == inFlight[1] IN
         \/ /\ m.value.kind = "text"
            /\ handle' = Dropped(handle, value[s]) /\ Holds(s, m.value, m.want)
         \/ /\ m.value.kind = "ashmem" /\ Len(handle) < MaxHandles
            /\ handle' = Append(Dropped(handle, value[s]), [blob |-> m.blob, open |-> TRUE, mapped |-> FALSE])
            /\ Holds(s, AshmemNode(Len(handle) + 1, TRUE), m.want)
    /\ UNCHANGED <<movedOut, got>>

PublishedItemNext ==
    \E s \in Slots :
        \/ \E b \in Blobs : SetBlob(s, b)
        \/ \E x \in Texts : SetText(s, x)
        \/ ClearItem(s) \/ MoveOutAshmem(s) \/ SetAshmemNode(s) \/ GetData(s) \/ Marshal(s) \/ Unmarshal(s)

----------------------------------------------------------------------------
Nodes == {value[s] : s \in Slots} \cup Range(movedOut)
Holders(h) == {s \in Slots : value[s].h = h} \cup {m \in {"moved"} : movedOut # <<>> /\ movedOut[1].h = h}

\* Whatever order items are set, cleared, moved out, sent and received in, an
\* open region has exactly one holder, so that it is neither leaked nor closed
\* under another's feet, and a node that manages a region has it open.
RegionHasOneHolder ==
    /\ \A h \in DOMAIN handle : handle[h].open => Cardinality(Holders(h)) = 1
    /\ \A v \in Nodes : v.h # 0 => handle[v.h].open

\* get_data returns what the item was given, on both sides of a parcel and
\* whatever the sender did with its item meanwhile; only a region that cannot be
\* mapped reads as an empty blob.
GetDataGivesSet == got.failed \/ got.was = got.want
=============================================================================
