----------------------------- MODULE ObserverStub -----------------------------
(***************************************************************************)
(* The stubs through which the data service reports a change               *)
(* (observer_stub.rs): a binder thread reads the message, item by item,    *)
(* takes rdb data out of shared memory and calls the callback under the    *)
(* stub's mutex, while another thread may clear the callback.  The handles *)
(* of observer_stub_ffi.rs, which C++ may use instead, have no mutex.      *)
(***************************************************************************)
EXTENDS Integers, Sequences

CONSTANTS
    StubKinds,      \* "rdb", "published", "proxy"
    Messages(_),    \* kind -> the messages that may arrive
    MAX_VEC_SIZE,   \* items a shared region may announce
    MaxRequests     \* bound: messages

VARIABLES
    stub,           \* which kind, and whether it is a handle of the C interface
    callback,       \* the callback is set
    holder,         \* who has the mutex of the callback: "free" or "binder"
    clearing,       \* clear_callback: "no", "waits", "done"
    binder,         \* the request being handled: its step, message and node
    regions,        \* shared regions of the messages: [open, closes]
    requests

stubVars == <<stub, callback, holder, clearing, binder, regions, requests>>

NoNode == [data |-> <<>>, memory |-> FALSE, shared |-> FALSE]
Waiting == [at |-> "wait", m |-> <<>>, node |-> NoNode, next |-> 1, code |-> 0]
\* An item that was not sent: fields of one that was, beside defaults for those
\* that do not read, or what is read from a wrong place.
Garbled == "garbled"
Closed == [open |-> FALSE, closes |-> 0]

StubInit ==
    /\ stub \in [kind : StubKinds, ffi : BOOLEAN]
    /\ callback = TRUE /\ holder = "free" /\ clearing = "no"
    /\ binder = Waiting /\ regions = Closed /\ requests = 0

----------------------------------------------------------------------------
\* A message is [token, code, whole, items, shared, length, reads]: items is what
\* was sent, a sequence of [text, ok], length the number of items announced.
Intact(items, i) == i \in DOMAIN items /\ \A j \in 1 .. i : items[j].ok

\* A read that fails, or a length that was changed, leaves the cursor anywhere: an
\* item is sure to be read as it was sent if all before it were.
AnyText(items) == {items[i].text : i \in DOMAIN items} \cup {Garbled}
Readings(items, i) == IF Intact(items, i) THEN {items[i].text} ELSE AnyText(items)
AllReadings(items, n) ==
    {data \in [1 .. n -> AnyText(items)] : \A i \in 1 .. n : data[i] \in Readings(items, i)}

\* RdbObserverStub: a node that does not read whole is refused, and so is any
\* code but 0.
ReadRdb(m) ==
    IF m.code # 0 \/ ~m.whole THEN {}
    ELSE IF m.shared THEN {[NoNode EXCEPT !.memory = TRUE, !.shared = TRUE]}
    ELSE {[NoNode EXCEPT !.data = data] : data \in AllReadings(m.items, m.length)}
\* do_remote_request of a handle: it is C++ that reads the message.
ReadFfi(m) == IF m.code # 0 THEN {} ELSE {NoNode}

\* The other stubs read a message item by item.
ReadsItems == ~stub.ffi /\ stub.kind # "rdb"

OnRemoteRequest(m) ==
    LET nodes == IF stub.ffi THEN ReadFfi(m)
                 ELSE IF stub.kind = "rdb" THEN ReadRdb(m) ELSE {NoNode}
    IN
    /\ binder.at = "wait" /\ requests < MaxRequests /\ requests' = requests + 1
    /\ \/ /\ m.token
          /\ \E node \in nodes :
                 /\ binder' = [Waiting EXCEPT !.at = IF ReadsItems THEN "reads" ELSE "recover",
                                             !.m = <<m>>, !.node = node]
                 /\ regions' = IF node.memory THEN [Closed EXCEPT !.open = TRUE] ELSE regions
       \/ /\ ~m.token \/ nodes = {}
          /\ binder' = [Waiting EXCEPT !.code = -1] /\ UNCHANGED regions
    /\ UNCHANGED <<stub, callback, holder, clearing>>

\* PublishedDataObserverStub: an item that does not read is left out.
ReadPublished(data, items, i) ==
    {Append(data, text) : text \in Readings(items, i)} \cup (IF Intact(items, i) THEN {} ELSE {data})
\* ProxyDataObserverStub: each field that does not read takes its default.
ReadProxy(data, items, i) == {Append(data, text) : text \in Readings(items, i)}

\* The loop goes on to the announced number, whatever failed before; a number
\* that does not read is 0.
ReadItem ==
    /\ binder.at = "reads"
    /\ LET m == binder.m[1]
           i == binder.next
       IN  \/ i > m.length /\ binder' = [binder EXCEPT !.at = "recover"]
           \/ /\ i <= m.length
              /\ \E data \in IF stub.kind = "published" THEN ReadPublished(binder.node.data, m.items, i)
                              ELSE ReadProxy(binder.node.data, m.items, i) :
                     binder' = [binder EXCEPT !.next = @ + 1, !.node.data = data]
    /\ UNCHANGED <<stub, callback, holder, clearing, regions, requests>>

\* deserialize_data_from_ashmem: a length and the items, each a length and its
\* bytes; the first read that fails ends it, what was read before stays.
deserialize_data_from_ashmem(m) ==
    LET whole == (m.reads - 1) \div 2 IN
    IF m.reads < 1 \/ m.length \notin 0 .. MAX_VEC_SIZE THEN {<<>>}
    ELSE AllReadings(m.items, IF m.length < whole THEN m.length ELSE whole)

\* recover_rdb_change_node_data: a region that cannot be mapped is closed at
\* once, any other after it was read; the node keeps no memory.
Recover ==
    /\ binder.at = "recover"
    /\ LET m == binder.m[1]
           done(data) == [binder EXCEPT !.at = "lock", !.node = [NoNode EXCEPT !.data = data]]
       IN  \/ /\ ~binder.node.shared
              /\ binder' = done(binder.node.data) /\ UNCHANGED regions
           \/ /\ binder.node.shared
              /\ binder' = done(<<>>) /\ regions' = [regions EXCEPT !.open = FALSE, !.closes = @ + 1]
           \/ /\ binder.node.shared
              /\ \E data \in deserialize_data_from_ashmem(m) : binder' = done(data)
              /\ regions' = [regions EXCEPT !.open = FALSE, !.closes = @ + 1]
    /\ UNCHANGED <<stub, callback, holder, clearing, requests>>

\* on_change_from_*: the callback runs under the mutex; a handle has none.
BeginCallback ==
    /\ binder.at = "lock"
    /\ IF stub.ffi THEN UNCHANGED holder ELSE holder = "free" /\ holder' = "binder"
    /\ binder' = [binder EXCEPT !.at = IF callback THEN "calls" ELSE "leave"]
    /\ UNCHANGED <<stub, callback, clearing, regions, requests>>

CallbackReturns ==
    /\ binder.at = "calls"
    /\ binder' = [binder EXCEPT !.at = "leave"]
    /\ UNCHANGED <<stub, callback, holder, clearing, regions, requests>>

EndRequest ==
    /\ binder.at = "leave"
    /\ holder' = IF holder = "binder" THEN "free" ELSE holder
    /\ binder' = Waiting
    /\ UNCHANGED <<stub, callback, clearing, regions, requests>>

\* clear_callback waits for the mutex; the one of a handle just sets the field.
ClearCallback ==
    /\ clearing = "no"
    /\ clearing' = IF stub.ffi THEN "done" ELSE "waits"
    /\ callback' = IF stub.ffi THEN FALSE ELSE callback
    /\ UNCHANGED <<stub, holder, binder, regions, requests>>

\* Mutant: clear_callback does not wait for the mutex.
ClearUnderLockMutant ==
    /\ clearing = "waits"
    /\ clearing' = "done" /\ callback' = FALSE
    /\ UNCHANGED <<stub, holder, binder, regions, requests>>

ClearUnderLock ==
    /\ clearing = "waits" /\ holder = "free"
    /\ clearing' = "done" /\ callback' = FALSE
    /\ UNCHANGED <<stub, holder, binder, regions, requests>>

StubNext ==
    \/ \E m \in Messages(stub.kind) : OnRemoteRequest(m)
    \/ ReadItem \/ Recover \/ BeginCallback \/ CallbackReturns \/ EndRequest \/ ClearCallback \/ ClearUnderLock

----------------------------------------------------------------------------
\* When clear_callback of a stub has returned, no callback is running and none
\* will start, however it met a request: the owner may free what the callback
\* uses.  The handles of the C interface give no such promise.
ClearedIsSilent == ~stub.ffi /\ clearing = "done" => binder.at # "calls"

\* A message can be damaged anywhere, in the parcel or in the shared region: the
\* items before the first damage reach the callback at their places as they were
\* sent, and none of them is lost, unless the message came through shared memory,
\* which may end at any read, or is left to C++.  Nothing is said of the items
\* after the damage, which may arrive, or stand for ones that were never sent, but
\* that they are not more than were announced.
OnlySentIsDelivered ==
    binder.at = "calls" =>
        LET m    == binder.m[1]
            data == binder.node.data
        IN  /\ DOMAIN data \subseteq 1 .. m.length
            /\ \A i \in 1 .. m.length :
                   Intact(m.items, i) => IF i \in DOMAIN data THEN data[i] = m.items[i].text
                                         ELSE m.shared \/ stub.ffi

\* When the callback runs the shared region of its message was closed, exactly
\* once, on every path through the recovery.
RegionIsReleased ==
    binder.at \in {"lock", "calls", "leave"} =>
        ~regions.open /\ ~binder.node.memory /\ regions.closes <= 1
=============================================================================
