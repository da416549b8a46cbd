------------------------ MODULE ConsumerDelivery_proof ------------------------
(***************************************************************************)
(* Theorems about ConsumerDelivery, for any number of threads,             *)
(* subscribers, keys, items and messages.  The components share no state,  *)
(* so each has its own inductive invariant, which the steps of the others  *)
(* leave alone.                                                            *)
(***************************************************************************)
EXTENDS ConsumerDelivery, FiniteSetTheorems, SequenceTheorems, TLAPS

-----------------------------------------------------------------------------
(* The manager of proxy data *)

\* Observers are called only while the map is locked, and those that are to be
\* called have entries in it; who is removed has none.
PdType ==
    /\ pdCallbacks \in [ProxyUris -> SUBSET Subs] /\ asking \in [Threads -> ProxyUris \cup {"none"}]
    /\ pending # {} => locked
RemovedInv == \A s \in removed : \A u \in ProxyUris : s \notin pdCallbacks[u]
PdInv == PdType /\ RemovedInv /\ Pd!RemovedIsNotCalled /\ Pd!ObservedIsSubscribed

LEMMA InitPd == Pd!ProxyDataInit => PdInv
BY DEF Pd!ProxyDataInit, PdInv, PdType, RemovedInv, Pd!RemovedIsNotCalled, Pd!ObservedIsSubscribed

LEMMA PdAlone ==
    ASSUME PdInv, UNCHANGED <<pdCallbacks, asking, pending, locked, removed, pdService, pdLost, failed>>
    PROVE  PdInv'
BY DEF PdInv, PdType, RemovedInv, Pd!RemovedIsNotCalled, Pd!ObservedIsSubscribed

\* Entries come and go only while the map is not locked: nobody is to be called.
LEMMA PdMap ==
    ASSUME PdInv, NEW t \in Threads, NEW u \in ProxyUris, NEW s \in Subs,
           Pd!AddObservers(t, u, s) \/ Pd!DelObservers(t, u, s) \/ Pd!DelAllObservers(t, s)
    PROVE  PdInv'
<1>1. PdType /\ RemovedInv /\ Pd!RemovedIsNotCalled /\ Pd!ObservedIsSubscribed
    BY DEF PdInv
<1>2. ~locked /\ UNCHANGED <<locked, pending, pdService, pdLost, failed>>
    BY DEF Pd!AddObservers, Pd!DelObservers, Pd!DelAllObservers
<1>3. pending' = {} /\ Pd!RemovedIsNotCalled'
    BY <1>1, <1>2 DEF PdType, Pd!RemovedIsNotCalled
<1>4. CASE Pd!AddObservers(t, u, s)
    <2>1. /\ asking[t] = "none" /\ asking' = [asking EXCEPT ![t] = u] /\ removed' = removed \ {s}
          /\ pdCallbacks' = [pdCallbacks EXCEPT ![u] = @ \cup {s}]
        BY <1>4 DEF Pd!AddObservers
    <2>2. PdType' /\ RemovedInv'
        BY <1>1, <1>2, <1>3, <2>1 DEF PdType, RemovedInv
    <2>3. ASSUME NEW v \in ProxyUris, pdCallbacks'[v] # {}, ~pdLost', \A r \in Threads : asking'[r] # v
          PROVE  v \in pdService \cup failed
        <3>1. v # u
            BY <1>1, <2>1, <2>3 DEF PdType
        <3>2. pdCallbacks[v] # {} /\ \A r \in Threads : asking[r] # v
            BY <1>1, <2>1, <2>3, <3>1, DeliveryAssumption DEF PdType
        <3> QED
            BY <1>1, <1>2, <2>3, <3>2 DEF Pd!ObservedIsSubscribed
    <2>4. Pd!ObservedIsSubscribed'
        BY <1>2, <2>3 DEF Pd!ObservedIsSubscribed
    <2> QED
        BY <1>3, <2>2, <2>4 DEF PdInv
<1>5. CASE Pd!DelObservers(t, u, s) \/ Pd!DelAllObservers(t, s)
    <2>1. PICK us \in SUBSET ProxyUris : Pd!Removes(us, s) /\ asking' = asking
        BY <1>5 DEF Pd!DelObservers, Pd!DelAllObservers
    <2>2. /\ pdCallbacks' = [v \in ProxyUris |-> IF v \in us THEN pdCallbacks[v] \ {s} ELSE pdCallbacks[v]]
          /\ removed' = IF \A v \in ProxyUris : s \notin pdCallbacks'[v] THEN removed \cup {s} ELSE removed
        BY <2>1 DEF Pd!Removes
    <2>3. \A v \in ProxyUris : pdCallbacks'[v] \subseteq pdCallbacks[v]
        BY <2>2
    <2>4. PdType'
        BY <1>1, <1>2, <2>1, <2>2, <2>3 DEF PdType
    <2>5. RemovedInv'
        BY <1>1, <2>2, <2>3 DEF RemovedInv
    <2>6. Pd!ObservedIsSubscribed'
        BY <1>1, <1>2, <2>1, <2>3 DEF Pd!ObservedIsSubscribed
    <2> QED
        BY <1>3, <2>4, <2>5, <2>6 DEF PdInv
<1> QED
    BY <1>4, <1>5

\* The subscription is asked for, again after a restart of the service.
LEMMA PdService ==
    ASSUME PdInv, Pd!ServiceRestarts \/ Pd!RecoverObservers \/ \E t \in Threads : Pd!SubscribeProxyData(t)
    PROVE  PdInv'
<1>1. PdType /\ RemovedInv /\ Pd!RemovedIsNotCalled /\ Pd!ObservedIsSubscribed
    BY DEF PdInv
<1>2. UNCHANGED <<pdCallbacks, pending, locked, removed>>
    BY DEF Pd!ServiceRestarts, Pd!RecoverObservers, Pd!SubscribeProxyData
<1>3. RemovedInv' /\ Pd!RemovedIsNotCalled'
    BY <1>1, <1>2 DEF RemovedInv, Pd!RemovedIsNotCalled
<1>4. CASE Pd!ServiceRestarts
    <2>1. pdLost' = TRUE /\ asking' = asking
        BY <1>4 DEF Pd!ServiceRestarts
    <2>2. PdType' /\ Pd!ObservedIsSubscribed'
        BY <1>1, <1>2, <2>1 DEF PdType, Pd!ObservedIsSubscribed
    <2> QED
        BY <1>3, <2>2 DEF PdInv
<1>5. CASE Pd!RecoverObservers
    <2>1. \A u \in ProxyUris : pdCallbacks[u] # {} => u \in pdService' \cup failed'
        BY <1>5 DEF Pd!RecoverObservers
    <2>2. asking' = asking
        BY <1>5 DEF Pd!RecoverObservers
    <2>3. PdType' /\ Pd!ObservedIsSubscribed'
        BY <1>1, <1>2, <2>1, <2>2 DEF PdType, Pd!ObservedIsSubscribed
    <2> QED
        BY <1>3, <2>3 DEF PdInv
<1>6. ASSUME NEW t \in Threads, Pd!SubscribeProxyData(t) PROVE PdInv'
    <2>1. /\ asking[t] # "none" /\ asking' = [asking EXCEPT ![t] = "none"] /\ pdLost' = pdLost
          /\ pdService \cup failed \cup {asking[t]} \subseteq pdService' \cup failed'
        BY <1>6 DEF Pd!SubscribeProxyData
    <2>2. PdType'
        BY <1>1, <1>2, <2>1 DEF PdType
    <2>3. ASSUME NEW v \in ProxyUris, pdCallbacks[v] # {}, ~pdLost, \A r \in Threads : asking'[r] # v
          PROVE  v \in pdService' \cup failed'
        BY <1>1, <2>1, <2>3 DEF PdType, Pd!ObservedIsSubscribed
    <2>4. Pd!ObservedIsSubscribed'
        BY <1>2, <2>1, <2>3 DEF Pd!ObservedIsSubscribed
    <2> QED
        BY <1>3, <2>2, <2>4 DEF PdInv
<1> QED
    BY <1>4, <1>5, <1>6

LEMMA PdEmit ==
    ASSUME PdInv, Pd!Emit \/ Pd!EmitDone \/ \E u \in ProxyUris, s \in Subs : Pd!CallObserver(u, s)
    PROVE  PdInv'
<1>1. PdType /\ RemovedInv /\ Pd!RemovedIsNotCalled /\ Pd!ObservedIsSubscribed
    BY DEF PdInv
<1>2. UNCHANGED <<pdCallbacks, asking, removed, pdService, pdLost, failed>>
    BY DEF Pd!Emit, Pd!EmitDone, Pd!CallObserver
<1>3. RemovedInv' /\ Pd!ObservedIsSubscribed'
    BY <1>1, <1>2 DEF RemovedInv, Pd!ObservedIsSubscribed
<1>4. pending' # {} => locked'
    BY <1>1 DEF Pd!Emit, Pd!EmitDone, Pd!CallObserver, PdType
<1>5. Pd!RemovedIsNotCalled'
    <2>1. CASE Pd!Emit
        BY <1>1, <1>2, <2>1 DEF Pd!Emit, Pd!Entries, RemovedInv, Pd!RemovedIsNotCalled
    <2>2. CASE pending' \subseteq pending
        BY <1>1, <1>2, <2>2 DEF Pd!RemovedIsNotCalled
    <2> QED
        BY <2>1, <2>2 DEF Pd!EmitDone, Pd!CallObserver
<1> QED
    BY <1>1, <1>2, <1>3, <1>4, <1>5 DEF PdInv, PdType

LEMMA StepPd ==
    ASSUME PdInv, Pd!ProxyDataNext
    PROVE  PdInv'
<1>1. ASSUME NEW t \in Threads, NEW s \in Subs, Pd!DelAllObservers(t, s) PROVE PdInv'
    <2>1. CASE ProxyUris = {}
        BY <1>1, <2>1 DEF Pd!DelAllObservers, Pd!Removes, PdInv, PdType, RemovedInv, Pd!RemovedIsNotCalled, Pd!ObservedIsSubscribed
    <2>2. CASE \E u : u \in ProxyUris
        BY <1>1, <2>2, PdMap
    <2> QED
        BY <2>1, <2>2
<1> QED
    BY <1>1, PdMap, PdService, PdEmit DEF Pd!ProxyDataNext
-----------------------------------------------------------------------------
(* The observer stubs *)

\* Who runs the callback has the mutex, and the callback is gone once it was
\* cleared under it.
SilentInv ==
    /\ holder \in {"free", "binder"}
    /\ ~stub.ffi /\ binder.at \in {"calls", "leave"} => holder = "binder"
    /\ ~stub.ffi /\ clearing = "done" => ~callback
    /\ Stub!ClearedIsSilent

\* The region of a message is open from its arrival to the recovery of its data.
RegionInv ==
    /\ DOMAIN binder = {"at", "m", "node", "next", "code"} /\ DOMAIN regions = {"open", "closes"}
    /\ binder.at \in {"wait", "reads", "recover", "lock", "calls", "leave"}
    /\ binder.at = "recover" => (binder.node.shared <=> regions.open)
    /\ binder.at # "recover" => ~regions.open /\ ~binder.node.memory
    /\ binder.at = "reads" => DOMAIN binder.node = {"data", "memory", "shared"} /\ ~binder.node.shared
    /\ regions.open => regions.closes = 0
    /\ regions.closes \in {0, 1}

\* Of the first n items data has the intact ones at their places; one that is
\* missing lies in a shared region, or is read by C++.
Taken(data, items, n, mayEnd) ==
    /\ data \in Seq(Stub!AnyText(items)) /\ DOMAIN data \subseteq 1 .. n
    /\ \A i \in 1 .. n : Stub!Intact(items, i) =>
           IF i \in DOMAIN data THEN data[i] = items[i].text ELSE mayEnd

\* What was read so far comes from the items that were read.
SentInv ==
    /\ stub.kind \in StubKinds
    /\ binder.at # "wait" => \E m \in Messages(stub.kind) : binder.m = <<m>>
    /\ binder.at = "reads" =>
           /\ binder.next \in Nat \ {0} /\ (binder.next = 1 \/ binder.next - 1 <= binder.m[1].length)
           /\ Taken(binder.node.data, binder.m[1].items, binder.next - 1, FALSE)
    /\ binder.at = "recover" => (binder.node.shared => binder.m[1].shared)
    /\ binder.at \in {"recover", "lock", "calls"} =>
           Taken(binder.node.data, binder.m[1].items, binder.m[1].length, binder.m[1].shared \/ stub.ffi)

StubInv == SilentInv /\ RegionInv /\ SentInv

LEMMA MessageItems ==
    ASSUME NEW k \in StubKinds, NEW m \in Messages(k)
    PROVE  /\ Len(m.items) \in Nat /\ DOMAIN m.items = 1 .. Len(m.items)
           /\ m.length \in Int /\ m.reads \in Nat
<1>1. m.items \in Seq({m.items[i] : i \in DOMAIN m.items}) /\ m.length \in Int /\ m.reads \in Nat
    BY DeliveryAssumption
<1> QED
    BY <1>1

\* Nothing is taken where all may be missing, and of no items.
LEMMA NothingTaken ==
    ASSUME NEW items
    PROVE  Taken(<<>>, items, 0, FALSE) /\ \A n \in Int : Taken(<<>>, items, n, TRUE)
<1>1. <<>> \in Seq(Stub!AnyText(items)) /\ DOMAIN <<>> = {}
    OBVIOUS
<1> QED
    BY <1>1 DEF Taken

\* One more item is read, or left out after the first damage.
LEMMA TakenNext ==
    ASSUME NEW items, Len(items) \in Nat, DOMAIN items = 1 .. Len(items),
           NEW data, NEW n \in Nat, Taken(data, items, n, FALSE)
    PROVE  /\ \A x \in Stub!Readings(items, n + 1) : Taken(Append(data, x), items, n + 1, FALSE)
           /\ ~Stub!Intact(items, n + 1) => Taken(data, items, n + 1, FALSE)
<1>1. /\ data \in Seq(Stub!AnyText(items)) /\ DOMAIN data = 1 .. Len(data) /\ Len(data) \in Nat
      /\ Len(data) <= n
      /\ \A i \in 1 .. n : Stub!Intact(items, i) => i \in DOMAIN data /\ data[i] = items[i].text
    <2>1. /\ data \in Seq(Stub!AnyText(items)) /\ DOMAIN data \subseteq 1 .. n
          /\ \A i \in 1 .. n : Stub!Intact(items, i) => i \in DOMAIN data /\ data[i] = items[i].text
        BY DEF Taken
    <2>2. DOMAIN data = 1 .. Len(data) /\ Len(data) \in Nat
        BY <2>1
    <2>3. Len(data) <= n
        <3>1. CASE Len(data) = 0
            BY <3>1
        <3>2. CASE Len(data) # 0
            <4>1. Len(data) \in DOMAIN data
                BY <2>2, <3>2
            <4> QED
                BY <2>1, <4>1
        <3> QED
            BY <3>1, <3>2
    <2> QED
        BY <2>1, <2>2, <2>3
\* If item n + 1 is intact then so is item n, and data has them all.
<1>2. ASSUME Stub!Intact(items, n + 1) PROVE Len(data) = n
    <2>1. CASE n = 0
        BY <1>1, <2>1
    <2>2. CASE n # 0
        <3>1. n \in 1 .. n /\ n \in DOMAIN items /\ \A j \in 1 .. n : items[j].ok
            BY <1>2, <2>2 DEF Stub!Intact
        <3>2. Stub!Intact(items, n)
            BY <3>1 DEF Stub!Intact
        <3>3. n \in DOMAIN data
            BY <1>1, <3>1, <3>2
        <3>4. Len(data) \in Nat /\ Len(data) <= n /\ n <= Len(data)
            BY <1>1, <3>3
        <3> QED
            BY <3>4
    <2> QED
        BY <2>1, <2>2
<1>3. ASSUME NEW x \in Stub!Readings(items, n + 1)
      PROVE  Taken(Append(data, x), items, n + 1, FALSE)
    <2> DEFINE more == Append(data, x)
    <2>1. x \in Stub!AnyText(items) /\ (Stub!Intact(items, n + 1) => x = items[n + 1].text)
        BY <1>3 DEF Stub!Readings, Stub!AnyText, Stub!Intact
    <2>2. /\ more \in Seq(Stub!AnyText(items)) /\ DOMAIN more = 1 .. Len(data) + 1
          /\ more[Len(data) + 1] = x /\ \A i \in 1 .. Len(data) : more[i] = data[i]
        BY <1>1, <2>1
    <2> HIDE DEF more
    <2>3. DOMAIN more \subseteq 1 .. n + 1
        BY <1>1, <2>2
    <2>4. ASSUME NEW i \in 1 .. n + 1, Stub!Intact(items, i)
          PROVE  i \in DOMAIN more /\ more[i] = items[i].text
        <3>1. CASE i = n + 1
            <4>1. Len(data) = n /\ x = items[n + 1].text
                BY <1>2, <2>1, <2>4, <3>1
            <4> QED
                BY <2>2, <3>1, <4>1
        <3>2. CASE i # n + 1
            <4>1. i \in 1 .. n
                BY <3>2
            <4>2. i \in 1 .. Len(data) /\ data[i] = items[i].text
                BY <1>1, <2>4, <4>1
            <4> QED
                BY <1>1, <2>2, <4>2
        <3> QED
            BY <3>1, <3>2
    <2>5. Taken(more, items, n + 1, FALSE)
        BY <2>2, <2>3, <2>4 DEF Taken
    <2> QED
        BY <2>5 DEF more
<1>4. ASSUME ~Stub!Intact(items, n + 1) PROVE Taken(data, items, n + 1, FALSE)
    <2>1. DOMAIN data \subseteq 1 .. n + 1
        BY <1>1
    <2>2. ASSUME NEW i \in 1 .. n + 1, Stub!Intact(items, i)
          PROVE  i \in DOMAIN data /\ data[i] = items[i].text
        <3>1. i \in 1 .. n
            BY <1>4, <2>2
        <3> QED
            BY <1>1, <2>2, <3>1
    <2> QED
        BY <1>1, <2>1, <2>2 DEF Taken
<1> QED
    BY <1>3, <1>4

\* All that are announced are read, or the first of them.
LEMMA AllTaken ==
    ASSUME NEW items, NEW k \in Int, NEW data \in Stub!AllReadings(items, k)
    PROVE  Taken(data, items, k, FALSE) /\ \A n \in Int : k <= n => Taken(data, items, n, TRUE)
<1>1. /\ data \in [1 .. k -> Stub!AnyText(items)] /\ DOMAIN data = 1 .. k
      /\ \A i \in 1 .. k : data[i] \in Stub!Readings(items, i)
    BY DEF Stub!AllReadings
<1>2. data \in Seq(Stub!AnyText(items))
    <2>1. CASE k \in Nat
        BY <1>1, <2>1, SeqDef
    <2>2. CASE k \notin Nat
        <3>1. 1 .. k = 1 .. 0
            BY <2>2
        <3>2. data \in [1 .. 0 -> Stub!AnyText(items)]
            BY <1>1, <3>1
        <3> QED
            BY <3>2, SeqDef
    <2> QED
        BY <2>1, <2>2
<1>3. \A i \in 1 .. k : Stub!Intact(items, i) => data[i] = items[i].text
    BY <1>1 DEF Stub!Readings
<1>4. \A n \in Int : k <= n => 1 .. k \subseteq 1 .. n
    OBVIOUS
<1> QED
    BY <1>1, <1>2, <1>3, <1>4 DEF Taken

\* A region, however it was damaged, gives the first of the items.
LEMMA RegionTaken ==
    ASSUME NEW k \in StubKinds, NEW m \in Messages(k), NEW data \in Stub!deserialize_data_from_ashmem(m)
    PROVE  Taken(data, m.items, m.length, TRUE)
<1>1. m.length \in Int /\ m.reads \in Nat
    BY MessageItems
<1>2. CASE data = <<>>
    BY <1>1, <1>2, NothingTaken
<1>3. CASE data # <<>>
    <2> DEFINE whole == (m.reads - 1) \div 2
               first == IF m.length < whole THEN m.length ELSE whole
    <2>1. whole \in Int
        BY <1>1
    <2>2. first \in Int /\ first <= m.length
        BY <1>1, <2>1
    <2>3. data \in Stub!AllReadings(m.items, first)
        BY <1>3 DEF Stub!deserialize_data_from_ashmem
    <2> HIDE DEF first
    <2> QED
        BY <1>1, <2>2, <2>3, AllTaken
<1> QED
    BY <1>2, <1>3

LEMMA InitStub == Stub!StubInit => StubInv
<1> SUFFICES ASSUME Stub!StubInit PROVE StubInv
    OBVIOUS
<1>1. /\ binder = Stub!Waiting /\ regions = Stub!Closed /\ holder = "free" /\ clearing = "no"
      /\ stub.kind \in StubKinds
    BY DEF Stub!StubInit
<1>2. /\ binder.at = "wait" /\ ~binder.node.memory /\ DOMAIN binder = {"at", "m", "node", "next", "code"}
      /\ ~regions.open /\ regions.closes = 0 /\ DOMAIN regions = {"open", "closes"}
    BY <1>1 DEF Stub!Waiting, Stub!NoNode, Stub!Closed
<1> QED
    BY <1>1, <1>2 DEF StubInv, SilentInv, RegionInv, SentInv, Stub!ClearedIsSilent

LEMMA StubAlone ==
    ASSUME StubInv, UNCHANGED <<stub, callback, holder, clearing, binder, regions>>
    PROVE  StubInv'
BY DEF StubInv, SilentInv, RegionInv, SentInv, Stub!ClearedIsSilent

\* The change a stub makes of a message: empty, or with all its items.
LEMMA StubReads ==
    ASSUME NEW k \in StubKinds, NEW m \in Messages(k), NEW node,
           (stub.ffi /\ node \in Stub!ReadFfi(m)) \/ node \in Stub!ReadRdb(m)
    PROVE  /\ node.memory = node.shared /\ DOMAIN node = {"data", "memory", "shared"}
           /\ node.shared => m.shared
           /\ Taken(node.data, m.items, m.length, m.shared \/ stub.ffi)
<1>1. m.length \in Int
    BY MessageItems
<1>2. CASE stub.ffi /\ node \in Stub!ReadFfi(m)
    <2>1. node = [data |-> <<>>, memory |-> FALSE, shared |-> FALSE]
        BY <1>2 DEF Stub!ReadFfi, Stub!NoNode
    <2>2. Taken(<<>>, m.items, m.length, TRUE)
        BY <1>1, NothingTaken
    <2>3. Taken(<<>>, m.items, m.length, m.shared \/ stub.ffi)
        BY <1>2, <2>2 DEF Taken
    <2> QED
        BY <2>1, <2>3
<1>3. CASE m.shared /\ node \in Stub!ReadRdb(m)
    <2>1. node = [data |-> <<>>, memory |-> TRUE, shared |-> TRUE]
        BY <1>3 DEF Stub!ReadRdb, Stub!NoNode
    <2>2. Taken(<<>>, m.items, m.length, TRUE)
        BY <1>1, NothingTaken
    <2>3. Taken(<<>>, m.items, m.length, m.shared \/ stub.ffi)
        BY <1>3, <2>2 DEF Taken
    <2> QED
        BY <1>3, <2>1, <2>3
<1>4. CASE ~m.shared /\ node \in Stub!ReadRdb(m)
    <2>1. PICK data \in Stub!AllReadings(m.items, m.length) : node = [Stub!NoNode EXCEPT !.data = data]
        BY <1>4 DEF Stub!ReadRdb
    <2>2. node = [data |-> data, memory |-> FALSE, shared |-> FALSE]
        BY <2>1 DEF Stub!NoNode
    <2>3. Taken(data, m.items, m.length, FALSE)
        BY <1>1, AllTaken
    <2>4. Taken(data, m.items, m.length, m.shared \/ stub.ffi)
        BY <2>3 DEF Taken
    <2> QED
        BY <1>4, <2>2, <2>4
<1> QED
    BY <1>2, <1>3, <1>4

LEMMA StubRequest ==
    ASSUME StubInv, NEW m \in Messages(stub.kind), Stub!OnRemoteRequest(m)
    PROVE  StubInv'
<1>1. SilentInv /\ RegionInv /\ SentInv
    BY DEF StubInv
<1>2. binder.at = "wait" /\ UNCHANGED <<stub, callback, holder, clearing>>
    BY DEF Stub!OnRemoteRequest
<1>3. stub.kind \in StubKinds
    BY <1>1 DEF SentInv
<1> DEFINE nodes == IF stub.ffi THEN Stub!ReadFfi(m)
                    ELSE IF stub.kind = "rdb" THEN Stub!ReadRdb(m) ELSE {Stub!NoNode}
<1>4. \/ \E node \in nodes :
             /\ binder' = [Stub!Waiting EXCEPT !.at = IF Stub!ReadsItems THEN "reads" ELSE "recover",
                                              !.m = <<m>>, !.node = node]
             /\ regions' = IF node.memory THEN [Stub!Closed EXCEPT !.open = TRUE] ELSE regions
      \/ binder' = [Stub!Waiting EXCEPT !.code = -1] /\ regions' = regions
    BY DEF Stub!OnRemoteRequest
<1>5. CASE binder' = [Stub!Waiting EXCEPT !.code = -1] /\ regions' = regions
    <2>1. binder'.at = "wait" /\ ~binder'.node.memory /\ DOMAIN binder' = {"at", "m", "node", "next", "code"}
        BY <1>5 DEF Stub!Waiting, Stub!NoNode
    <2>2. RegionInv' /\ SilentInv' /\ SentInv'
        BY <1>1, <1>2, <1>5, <2>1 DEF RegionInv, SilentInv, SentInv, Stub!ClearedIsSilent
    <2> QED
        BY <2>2 DEF StubInv
<1>6. ASSUME NEW node \in nodes,
             binder' = [Stub!Waiting EXCEPT !.at = IF Stub!ReadsItems THEN "reads" ELSE "recover",
                                            !.m = <<m>>, !.node = node],
             regions' = IF node.memory THEN [Stub!Closed EXCEPT !.open = TRUE] ELSE regions
      PROVE  StubInv'
    <2>1. /\ binder'.at = (IF Stub!ReadsItems THEN "reads" ELSE "recover")
          /\ binder'.m = <<m>> /\ binder'.node = node /\ binder'.next = 1
          /\ DOMAIN binder' = {"at", "m", "node", "next", "code"}
        BY <1>6 DEF Stub!Waiting
    <2>2. \/ Stub!ReadsItems /\ node = Stub!NoNode
          \/ ~Stub!ReadsItems /\ ((stub.ffi /\ node \in Stub!ReadFfi(m)) \/ node \in Stub!ReadRdb(m))
        BY <1>6 DEF Stub!ReadsItems
    <2>3. binder'.at \in {"reads", "recover"} /\ binder'.m[1] = m
        BY <2>1
    <2>4. SilentInv'
        BY <1>1, <1>2, <2>3 DEF SilentInv, Stub!ClearedIsSilent
    <2>5. CASE Stub!ReadsItems
        <3>1. /\ binder'.at = "reads" /\ binder'.node = Stub!NoNode /\ ~binder'.node.memory /\ ~binder'.node.shared
              /\ DOMAIN binder'.node = {"data", "memory", "shared"} /\ binder'.node.data = <<>>
            BY <2>1, <2>2, <2>5 DEF Stub!NoNode
        <3>2. regions' = regions
            BY <1>6, <2>1, <3>1
        <3>3. RegionInv'
            BY <1>1, <1>2, <2>1, <3>1, <3>2 DEF RegionInv
        <3>4. Taken(<<>>, m.items, 0, FALSE)
            BY NothingTaken
        <3>5. /\ binder'.next \in Nat \ {0} /\ binder'.next = 1
              /\ Taken(binder'.node.data, binder'.m[1].items, binder'.next - 1, FALSE)
            <4>1. binder'.next = 1 /\ binder'.next - 1 = 0
                BY <2>1
            <4>2. binder'.node.data = <<>> /\ binder'.m[1].items = m.items
                BY <2>3, <3>1
            <4>3. Taken(binder'.node.data, binder'.m[1].items, binder'.next - 1, FALSE)
                BY <3>4, <4>1, <4>2, Zenon
            <4>4. binder'.next \in Nat \ {0}
                BY <4>1
            <4> QED
                BY <4>1, <4>3, <4>4, Zenon
        <3>6. SentInv'
            BY <1>2, <1>3, <2>1, <2>3, <3>1, <3>5 DEF SentInv
        <3> QED
            BY <2>4, <3>3, <3>6 DEF StubInv
    <2>6. CASE ~Stub!ReadsItems
        <3>1. /\ node.memory = node.shared /\ DOMAIN node = {"data", "memory", "shared"}
              /\ (node.shared => m.shared) /\ Taken(node.data, m.items, m.length, m.shared \/ stub.ffi)
            BY <1>3, <2>2, <2>6, StubReads
        <3>2. binder'.at = "recover"
            BY <2>1, <2>6
        <3>3. /\ (node.shared <=> regions'.open) /\ DOMAIN regions' = {"open", "closes"}
              /\ regions'.closes \in {0, 1} /\ (regions'.open => regions'.closes = 0)
            <4>1. CASE node.memory
                BY <1>6, <3>1, <4>1 DEF Stub!Closed
            <4>2. CASE ~node.memory
                <5>1. regions' = regions /\ ~regions.open
                    BY <1>1, <1>2, <1>6, <4>2 DEF RegionInv
                <5> QED
                    BY <1>1, <3>1, <4>2, <5>1 DEF RegionInv
            <4> QED
                BY <4>1, <4>2
        <3>4. RegionInv'
            BY <2>1, <3>2, <3>3 DEF RegionInv
        <3>5. SentInv'
            BY <1>2, <1>3, <2>1, <2>3, <3>1, <3>2 DEF SentInv
        <3> QED
            BY <2>4, <3>4, <3>5 DEF StubInv
    <2> QED
        BY <2>5, <2>6
<1> QED
    BY <1>4, <1>5, <1>6

LEMMA StubReadItem ==
    ASSUME StubInv, Stub!ReadItem
    PROVE  StubInv'
<1>1. SilentInv /\ RegionInv /\ SentInv
    BY DEF StubInv
<1>2. binder.at = "reads" /\ UNCHANGED <<stub, callback, holder, clearing, regions>>
    BY DEF Stub!ReadItem
<1>3. PICK m \in Messages(stub.kind) : binder.m = <<m>>
    BY <1>1, <1>2 DEF SentInv
<1> DEFINE items == m.items
           i == binder.next
           data == binder.node.data
<1>4. /\ binder.m[1] = m /\ Len(items) \in Nat /\ DOMAIN items = 1 .. Len(items) /\ m.length \in Int
      /\ i \in Nat \ {0} /\ (i = 1 \/ i - 1 <= m.length) /\ Taken(data, items, i - 1, FALSE)
    <2>1. stub.kind \in StubKinds /\ binder.m[1] = m
        BY <1>1, <1>3 DEF SentInv
    <2>2. Len(items) \in Nat /\ DOMAIN items = 1 .. Len(items) /\ m.length \in Int
        BY <2>1, MessageItems
    <2> QED
        BY <1>1, <1>2, <2>1, <2>2 DEF SentInv
<1>5. /\ DOMAIN binder = {"at", "m", "node", "next", "code"}
      /\ DOMAIN binder.node = {"data", "memory", "shared"} /\ ~binder.node.shared
      /\ ~binder.node.memory /\ ~regions.open
    BY <1>1, <1>2 DEF RegionInv
<1>6. CASE i > m.length /\ binder' = [binder EXCEPT !.at = "recover"]
    <2>1. /\ binder'.at = "recover" /\ binder'.m = binder.m /\ binder'.node = binder.node
          /\ DOMAIN binder' = DOMAIN binder
        BY <1>5, <1>6
    <2>2. Taken(data, items, m.length, FALSE)
        <3>1. 1 .. i - 1 = 1 .. m.length
            BY <1>4, <1>6
        <3> QED
            BY <1>4, <3>1 DEF Taken
    <2>3. Taken(data, items, m.length, m.shared \/ stub.ffi)
        BY <2>2 DEF Taken
    <2>4. SilentInv'
        BY <1>1, <1>2, <2>1 DEF SilentInv, Stub!ClearedIsSilent
    <2>5. RegionInv'
        BY <1>1, <1>2, <1>5, <2>1 DEF RegionInv
    <2>6. SentInv'
        BY <1>1, <1>2, <1>3, <1>4, <1>5, <2>1, <2>3 DEF SentInv
    <2> QED
        BY <2>4, <2>5, <2>6 DEF StubInv
<1>7. ASSUME i <= m.length, NEW more \in Stub!ReadPublished(data, items, i) \cup Stub!ReadProxy(data, items, i),
             binder' = [binder EXCEPT !.next = @ + 1, !.node.data = more]
      PROVE  StubInv'
    <2>1. /\ binder'.at = "reads" /\ binder'.m = binder.m /\ binder'.next = i + 1
          /\ binder'.node.data = more /\ ~binder'.node.memory /\ ~binder'.node.shared
          /\ DOMAIN binder' = DOMAIN binder /\ DOMAIN binder'.node = DOMAIN binder.node
        BY <1>2, <1>5, <1>7
    <2>2. i - 1 \in Nat /\ (i - 1) + 1 = i
        BY <1>4
    <2>3. Taken(more, items, i, FALSE)
        <3>1. /\ \A x \in Stub!Readings(items, i) : Taken(Append(data, x), items, i, FALSE)
              /\ ~Stub!Intact(items, i) => Taken(data, items, i, FALSE)
            BY <1>4, <2>2, TakenNext
        <3> QED
            BY <1>7, <3>1 DEF Stub!ReadPublished, Stub!ReadProxy
    <2>4. SilentInv'
        BY <1>1, <1>2, <2>1 DEF SilentInv, Stub!ClearedIsSilent
    <2>5. RegionInv'
        BY <1>1, <1>2, <1>5, <2>1 DEF RegionInv
    <2>6. /\ binder'.next \in Nat \ {0} /\ binder'.next - 1 = i
          /\ (binder'.next = 1 \/ binder'.next - 1 <= m.length)
        BY <1>4, <1>7, <2>1
    <2>7. SentInv'
        BY <1>1, <1>2, <1>3, <1>4, <2>1, <2>3, <2>6 DEF SentInv
    <2> QED
        BY <2>4, <2>5, <2>7 DEF StubInv
<1>8. \/ i > m.length /\ binder' = [binder EXCEPT !.at = "recover"]
      \/ /\ i <= m.length
         /\ \E more \in Stub!ReadPublished(data, items, i) \cup Stub!ReadProxy(data, items, i) :
                binder' = [binder EXCEPT !.next = @ + 1, !.node.data = more]
    BY <1>4 DEF Stub!ReadItem
<1> QED
    BY <1>6, <1>7, <1>8

LEMMA StubRecover ==
    ASSUME StubInv, Stub!Recover
    PROVE  StubInv'
<1>1. SilentInv /\ RegionInv /\ SentInv
    BY DEF StubInv
<1>2. binder.at = "recover" /\ UNCHANGED <<stub, callback, holder, clearing>>
    BY DEF Stub!Recover
<1>3. PICK m \in Messages(stub.kind) : binder.m = <<m>>
    BY <1>1, <1>2 DEF SentInv
<1>4. PICK data \in {binder.node.data, <<>>} \cup Stub!deserialize_data_from_ashmem(m) :
          /\ binder' = [binder EXCEPT !.at = "lock", !.node = [Stub!NoNode EXCEPT !.data = data]]
          /\ \/ ~binder.node.shared /\ regions' = regions /\ data = binder.node.data
             \/ /\ binder.node.shared /\ data \in {<<>>} \cup Stub!deserialize_data_from_ashmem(m)
                /\ regions' = [regions EXCEPT !.open = FALSE, !.closes = @ + 1]
    <2> DEFINE done(data) == [binder EXCEPT !.at = "lock", !.node = [Stub!NoNode EXCEPT !.data = data]]
               closed == [regions EXCEPT !.open = FALSE, !.closes = @ + 1]
    <2>1. binder.m[1] = m
        BY <1>3
    <2>2. \/ ~binder.node.shared /\ binder' = done(binder.node.data) /\ regions' = regions
          \/ binder.node.shared /\ binder' = done(<<>>) /\ regions' = closed
          \/ /\ binder.node.shared /\ regions' = closed
             /\ \E data \in Stub!deserialize_data_from_ashmem(m) : binder' = done(data)
        BY <2>1 DEF Stub!Recover
    <2> QED
        BY <2>2
<1>5. /\ binder'.at = "lock" /\ ~binder'.node.memory /\ binder'.node.data = data /\ binder'.m = binder.m
      /\ DOMAIN binder' = DOMAIN binder
    BY <1>1, <1>4 DEF Stub!NoNode, RegionInv
<1>6. SilentInv'
    BY <1>1, <1>2, <1>5 DEF SilentInv, Stub!ClearedIsSilent
<1>7. ~regions'.open /\ regions'.closes \in {0, 1} /\ DOMAIN regions' = DOMAIN regions
    <2>1. CASE ~binder.node.shared /\ regions' = regions
        BY <1>1, <1>2, <2>1 DEF RegionInv
    <2>2. CASE binder.node.shared /\ regions' = [regions EXCEPT !.open = FALSE, !.closes = @ + 1]
        <3>1. regions'.open = FALSE /\ regions'.closes = regions.closes + 1 /\ DOMAIN regions' = DOMAIN regions
            BY <1>1, <2>2 DEF RegionInv
        <3>2. regions.closes = 0
            BY <1>1, <1>2, <2>2 DEF RegionInv
        <3> QED
            BY <3>1, <3>2
    <2> QED
        BY <1>4, <2>1, <2>2
<1>8. Taken(data, m.items, m.length, m.shared \/ stub.ffi)
    <2>1. CASE data = binder.node.data
        BY <1>1, <1>2, <1>3, <2>1 DEF SentInv
    <2>2. CASE binder.node.shared /\ data \in {<<>>} \cup Stub!deserialize_data_from_ashmem(m)
        <3>1. m.shared /\ stub.kind \in StubKinds /\ m.length \in Int
            BY <1>1, <1>2, <1>3, <2>2, MessageItems DEF SentInv
        <3>2. Taken(data, m.items, m.length, TRUE)
            BY <2>2, <3>1, RegionTaken, NothingTaken
        <3> QED
            BY <3>1, <3>2 DEF Taken
    <2> QED
        BY <1>4, <2>1, <2>2
<1>9. SentInv'
    BY <1>1, <1>2, <1>3, <1>5, <1>8 DEF SentInv
<1> QED
    BY <1>1, <1>5, <1>6, <1>7, <1>9 DEF StubInv, RegionInv

\* The callback runs and is cleared, each under the mutex.
LEMMA StubCallback ==
    ASSUME StubInv,
           Stub!BeginCallback \/ Stub!CallbackReturns \/ Stub!EndRequest \/ Stub!ClearCallback \/ Stub!ClearUnderLock
    PROVE  StubInv'
<1>1. SilentInv /\ RegionInv /\ SentInv
    BY DEF StubInv
<1>2. stub' = stub /\ regions' = regions
    BY DEF Stub!BeginCallback, Stub!CallbackReturns, Stub!EndRequest, Stub!ClearCallback, Stub!ClearUnderLock
<1>3. ASSUME ~binder'.node.memory, binder'.at \in {"wait", "lock", "calls", "leave"}, binder.at # "recover",
             DOMAIN binder' = DOMAIN binder
      PROVE  RegionInv'
    BY <1>1, <1>2, <1>3 DEF RegionInv
<1>4. CASE Stub!BeginCallback
    <2>1. /\ binder.at = "lock" /\ binder' = [binder EXCEPT !.at = IF callback THEN "calls" ELSE "leave"]
          /\ (stub.ffi /\ holder' = holder) \/ (~stub.ffi /\ holder = "free" /\ holder' = "binder")
          /\ UNCHANGED <<callback, clearing>>
        BY <1>4 DEF Stub!BeginCallback
    <2>2. /\ binder'.at = (IF callback THEN "calls" ELSE "leave") /\ binder'.node = binder.node
          /\ binder'.m = binder.m /\ DOMAIN binder' = DOMAIN binder
        BY <1>1, <2>1 DEF RegionInv
    <2>3. RegionInv'
        BY <1>1, <1>3, <2>1, <2>2 DEF RegionInv
    <2>4. /\ holder' \in {"free", "binder"} /\ (~stub.ffi => holder' = "binder")
          /\ ~callback => binder'.at # "calls"
        <3>1. holder' \in {"free", "binder"}
            BY <1>1, <2>1 DEF SilentInv
        <3>2. ~stub.ffi => holder' = "binder"
            BY <2>1
        <3>3. ~callback => binder'.at # "calls"
            BY <2>2
        <3> QED
            BY <3>1, <3>2, <3>3
    <2>5. ~stub.ffi /\ clearing = "done" => ~callback
        BY <1>1 DEF SilentInv
    <2>6. SilentInv'
        BY <1>2, <2>1, <2>4, <2>5 DEF SilentInv, Stub!ClearedIsSilent
    <2>7. SentInv'
        BY <1>1, <1>2, <2>1, <2>2 DEF SentInv
    <2> QED
        BY <2>3, <2>6, <2>7 DEF StubInv
<1>5. CASE Stub!CallbackReturns
    <2>1. /\ binder.at = "calls" /\ binder' = [binder EXCEPT !.at = "leave"] /\ UNCHANGED <<holder, callback, clearing>>
        BY <1>5 DEF Stub!CallbackReturns
    <2>2. /\ binder'.at = "leave" /\ binder'.node = binder.node /\ binder'.m = binder.m
          /\ DOMAIN binder' = DOMAIN binder
        BY <1>1, <2>1 DEF RegionInv
    <2>3. RegionInv'
        BY <1>1, <1>3, <2>1, <2>2 DEF RegionInv
    <2>4. SilentInv'
        BY <1>1, <1>2, <2>1, <2>2 DEF SilentInv, Stub!ClearedIsSilent
    <2>5. SentInv'
        BY <1>1, <1>2, <2>1, <2>2 DEF SentInv
    <2> QED
        BY <2>3, <2>4, <2>5 DEF StubInv
<1>6. CASE Stub!EndRequest
    <2>1. /\ binder.at = "leave" /\ binder' = Stub!Waiting /\ holder' = (IF holder = "binder" THEN "free" ELSE holder)
          /\ UNCHANGED <<callback, clearing>>
        BY <1>6 DEF Stub!EndRequest
    <2>2. binder'.at = "wait" /\ ~binder'.node.memory /\ DOMAIN binder' = {"at", "m", "node", "next", "code"}
        BY <2>1 DEF Stub!Waiting, Stub!NoNode
    <2>3. RegionInv'
        BY <1>1, <1>3, <2>1, <2>2 DEF RegionInv
    <2>4. SilentInv'
        BY <1>1, <1>2, <2>1, <2>2 DEF SilentInv, Stub!ClearedIsSilent
    <2>5. SentInv'
        BY <1>1, <1>2, <2>2 DEF SentInv
    <2> QED
        BY <2>3, <2>4, <2>5 DEF StubInv
<1>7. CASE Stub!ClearCallback \/ Stub!ClearUnderLock
    <2>1. binder' = binder /\ holder' = holder
        BY <1>7 DEF Stub!ClearCallback, Stub!ClearUnderLock
    <2>2. RegionInv'
        BY <1>1, <1>2, <2>1 DEF RegionInv
    <2>3. SilentInv'
        BY <1>1, <1>2, <1>7, <2>1 DEF SilentInv, Stub!ClearedIsSilent, Stub!ClearCallback, Stub!ClearUnderLock
    <2>4. SentInv'
        BY <1>1, <1>2, <2>1 DEF SentInv
    <2> QED
        BY <2>2, <2>3, <2>4 DEF StubInv
<1> QED
    BY <1>4, <1>5, <1>6, <1>7

LEMMA StepStub ==
    ASSUME StubInv, Stub!StubNext
    PROVE  StubInv'
BY StubRequest, StubReadItem, StubRecover, StubCallback DEF Stub!StubNext

\* What the callback is given is what was taken from the items that were sent.
LEMMA StubDelivers == StubInv => Stub!OnlySentIsDelivered
<1> SUFFICES ASSUME StubInv, binder.at = "calls" PROVE Stub!OnlySentIsDelivered
    BY DEF Stub!OnlySentIsDelivered
<1> DEFINE m == binder.m[1]
<1>1. Taken(binder.node.data, m.items, m.length, m.shared \/ stub.ffi)
    BY DEF StubInv, SentInv
<1> QED
    BY <1>1 DEF Taken, Stub!OnlySentIsDelivered

-----------------------------------------------------------------------------
(* Published items: who holds which region *)

Parties == Slots \cup {"moved"}

\* The regions that are open are held, each by one party; no region has number 0.
Exact(H, O) ==
    /\ \A p \in Parties : H[p] # 0 => H[p] \in O
    /\ \A h \in O : h # 0 /\ \E p \in Parties : H[p] = h
    /\ \A p, q \in Parties : H[p] = H[q] /\ H[p] # 0 => p = q

LEMMA HolderReleases ==
    ASSUME NEW H \in [Parties -> Nat], NEW O, Exact(H, O), NEW s \in Parties,
           NEW K, K = [H EXCEPT ![s] = 0], NEW P, P = O \ {H[s]}
    PROVE  K \in [Parties -> Nat] /\ K[s] = 0 /\ Exact(K, P)
BY DEF Exact

LEMMA HolderTakes ==
    ASSUME NEW H \in [Parties -> Nat], NEW O, Exact(H, O), NEW s \in Parties, H[s] = 0,
           NEW n \in Nat \ {0}, n \notin O,
           NEW K, K = [H EXCEPT ![s] = n], NEW P, P = O \cup {n}
    PROVE  Exact(K, P)
BY DEF Exact

LEMMA HolderGives ==
    ASSUME NEW H \in [Parties -> Nat], NEW O, Exact(H, O), NEW s \in Parties, NEW r \in Parties, s # r, H[s] = 0,
           NEW K, K = [H EXCEPT ![s] = H[r], ![r] = 0]
    PROVE  Exact(K, O)
BY DEF Exact

\* The region each party holds, 0 for none, and the regions that are open.
HeldIn(v, m) == [p \in Parties |-> IF p \in Slots THEN v[p].h ELSE IF m = <<>> THEN 0 ELSE m[1].h]
held == HeldIn(value, movedOut)
OpenOf(hs) == {h \in DOMAIN hs : hs[h].open}

Regions == [blob : Blobs, open : BOOLEAN, mapped : BOOLEAN]
NodeOK(v) ==
    /\ v.kind \in {"text", "ashmem"} /\ v.h \in Nat
    /\ v.managed <=> v.h # 0
    /\ v.kind = "text" => v.h = 0
\* What get_data gives for a node.
Content(hs, v) ==
    IF v.kind = "text" THEN Item!Data("text", v.data)
    ELSE Item!Data("blob", IF v.h = 0 THEN Item!Empty ELSE hs[v.h].blob)
\* A parcel carries a text, or the contents of the region.
ParcelOK(m) ==
    /\ m.value.kind \in {"text", "ashmem"}
    /\ m.value.kind = "text" => NodeOK(m.value) /\ m.want = Item!Data("text", m.value.data)
    /\ m.value.kind = "ashmem" => m.want = Item!Data("blob", m.blob) /\ m.blob \in Blobs

ItemType ==
    /\ value = [s \in Slots |-> value[s]] /\ (\A s \in Slots : NodeOK(value[s]))
    /\ wants = [s \in Slots |-> wants[s]]
    /\ handle \in Seq(Regions)
    /\ movedOut = <<>> \/ \E n \in Nat \ {0} : movedOut = <<Item!AshmemNode(n, TRUE)>>
    /\ inFlight = <<>> \/ \E m : inFlight = <<m>> /\ ParcelOK(m)
HoldInv == Exact(held, OpenOf(handle))
WantInv == \A s \in Slots : wants[s] = Content(handle, value[s])
ItemInv == ItemType /\ HoldInv /\ WantInv /\ Item!GetDataGivesSet

\* The regions after one, or none, is closed.
Freed(hs, h) == IF h # 0 THEN Item!Close(hs, h) ELSE hs

\* Closing a region leaves its contents and the other regions as they are.
LEMMA CloseRegion ==
    ASSUME NEW hs \in Seq(Regions), NEW h \in Nat, h # 0 => h \in DOMAIN hs, NEW c,
           c = Freed(hs, h)
    PROVE  /\ c \in Seq(Regions) /\ Len(c) = Len(hs)
           /\ OpenOf(c) = OpenOf(hs) \ {h}
           /\ \A i \in DOMAIN hs : c[i].blob = hs[i].blob
<1>1. CASE h = 0
    <2>1. 0 \notin DOMAIN hs
        OBVIOUS
    <2> QED
        BY <1>1, <2>1 DEF OpenOf, Freed
<1>2. CASE h # 0
    <2>1. \A i \in DOMAIN hs : hs[i] \in Regions
        OBVIOUS
    <2> DEFINE r == [[hs[h] EXCEPT !.open = FALSE] EXCEPT !.mapped = FALSE]
    <2>2. r \in Regions /\ r.open = FALSE /\ r.blob = hs[h].blob
        BY <1>2, <2>1 DEF Regions
    <2>3. c = [hs EXCEPT ![h] = r]
        BY <1>2 DEF Item!Close, Freed
    <2> HIDE DEF r
    <2>4. /\ DOMAIN c = DOMAIN hs /\ c[h] = r
          /\ \A i \in DOMAIN hs : i # h => c[i] = hs[i]
        BY <1>2, <2>3
    <2>5. c \in Seq(Regions) /\ Len(c) = Len(hs)
        <3>1. Len(hs) \in Nat /\ hs \in [1 .. Len(hs) -> Regions]
            OBVIOUS
        <3>2. c \in [1 .. Len(hs) -> Regions]
            BY <2>2, <2>3, <3>1
        <3> QED
            BY <3>1, <3>2
    <2>6. OpenOf(c) = OpenOf(hs) \ {h}
        <3>1. ASSUME NEW i PROVE i \in OpenOf(c) <=> i \in OpenOf(hs) \ {h}
            <4>1. CASE i = h
                BY <1>2, <2>2, <2>4, <4>1 DEF OpenOf
            <4>2. CASE i # h
                BY <2>4, <4>2 DEF OpenOf
            <4> QED
                BY <4>1, <4>2
        <3> QED
            BY <3>1
    <2> QED
        BY <2>2, <2>4, <2>5, <2>6
<1> QED
    BY <1>1, <1>2

\* The regions c are the regions hs and the new one r.
Grown(hs, r, c) ==
    /\ c \in Seq(Regions) /\ Len(c) = Len(hs) + 1
    /\ OpenOf(c) = OpenOf(hs) \cup {Len(hs) + 1} /\ Len(hs) + 1 \notin OpenOf(hs)
    /\ \A i \in DOMAIN hs : c[i] = hs[i]
    /\ c[Len(hs) + 1] = r

\* A region is made.
LEMMA NewRegion ==
    ASSUME NEW hs \in Seq(Regions), NEW r \in Regions, r.open = TRUE, NEW c, c = Append(hs, r)
    PROVE  Grown(hs, r, c)
<1>1. r \in Regions /\ r.open
    OBVIOUS
<1>2. c = Append(hs, r)
    OBVIOUS
<1>3. c \in Seq(Regions) /\ Len(c) = Len(hs) + 1 /\ c[Len(hs) + 1] = r /\ \A i \in 1 .. Len(hs) : c[i] = hs[i]
    BY <1>1, <1>2
<1>4. Len(hs) \in Nat /\ DOMAIN hs = 1 .. Len(hs) /\ DOMAIN c = 1 .. Len(hs) + 1
    BY <1>2, <1>3
<1>5. OpenOf(c) = OpenOf(hs) \cup {Len(hs) + 1}
    <2>1. ASSUME NEW i PROVE i \in OpenOf(c) <=> i \in OpenOf(hs) \cup {Len(hs) + 1}
        <3>1. CASE i = Len(hs) + 1
            <4>1. i \in DOMAIN c /\ c[i].open
                BY <1>1, <1>3, <1>4, <3>1
            <4> QED
                BY <3>1, <4>1 DEF OpenOf
        <3>2. CASE i # Len(hs) + 1
            <4>1. i \in DOMAIN c <=> i \in DOMAIN hs
                BY <1>4, <3>2
            <4>2. i \in DOMAIN hs => c[i] = hs[i]
                BY <1>3, <1>4
            <4> QED
                BY <3>2, <4>1, <4>2 DEF OpenOf
        <3> QED
            BY <3>1, <3>2
    <2> QED
        BY <2>1
<1>6. Len(hs) + 1 \notin OpenOf(hs)
    BY <1>4 DEF OpenOf
<1> QED
    BY <1>1, <1>3, <1>4, <1>5, <1>6 DEF Grown

\* An item takes a node; the contents of the regions there were stay.
LEMMA ItemHolds ==
    ASSUME ItemInv, NEW s \in Slots, NEW v, NEW w, Item!Holds(s, v, w), NodeOK(v), w = Content(handle', v),
           handle' \in Seq(Regions), \A i \in DOMAIN handle : handle'[i].blob = handle[i].blob
    PROVE  /\ value' = [x \in Slots |-> value'[x]] /\ (\A x \in Slots : NodeOK(value'[x]))
           /\ wants' = [x \in Slots |-> wants'[x]]
           /\ WantInv'
           /\ value' = [value EXCEPT ![s] = v]
<1>1. ItemType /\ HoldInv /\ WantInv
    BY DEF ItemInv
<1>2. value = [x \in Slots |-> value[x]] /\ wants = [x \in Slots |-> wants[x]]
    BY <1>1 DEF ItemType
<1>3. value' = [value EXCEPT ![s] = v] /\ wants' = [wants EXCEPT ![s] = w]
    BY DEF Item!Holds
<1>4. value'[s] = v /\ wants'[s] = w /\ \A x \in Slots : x # s => value'[x] = value[x] /\ wants'[x] = wants[x]
    BY <1>2, <1>3
<1>5. ASSUME NEW x \in Slots, x # s PROVE Content(handle', value[x]) = Content(handle, value[x])
    <2>1. held[x] = value[x].h
        BY DEF held, HeldIn, Parties
    <2>2. value[x].h # 0 => value[x].h \in DOMAIN handle
        BY <1>1, <2>1 DEF HoldInv, Exact, OpenOf, Parties
    <2>3. value[x].h # 0 => handle'[value[x].h].blob = handle[value[x].h].blob
        BY <2>2
    <2> QED
        BY <2>3 DEF Content
<1>6. \A x \in Slots : wants'[x] = Content(handle', value'[x])
    BY <1>1, <1>4, <1>5 DEF WantInv
<1>7. WantInv'
    BY <1>6 DEF WantInv, Content
<1>8. \A x \in Slots : NodeOK(value'[x])
    BY <1>1, <1>4 DEF ItemType
<1> QED
    BY <1>2, <1>3, <1>7, <1>8

\* Which region an item holds changes with its node.
LEMMA HeldUpdate ==
    ASSUME ItemType, NEW s \in Slots, NEW v, value' = [value EXCEPT ![s] = v], movedOut' = movedOut
    PROVE  held' = [held EXCEPT ![s] = v.h]
<1>1. value = [x \in Slots |-> value[x]]
    BY DEF ItemType
<1>2. \A x \in Slots : value'[x] = IF x = s THEN v ELSE value[x]
    BY <1>1
<1>3. PICK u : u = value'
    OBVIOUS
<1>4. PICK H : H = HeldIn(u, movedOut)
    OBVIOUS
<1>5. held' = H
    BY <1>3, <1>4 DEF held, HeldIn
<1>6. H = [HeldIn(value, movedOut) EXCEPT ![s] = v.h]
    <2>1. s \in Parties
        BY DEF Parties
    <2>2. PICK G, g : G = HeldIn(value, movedOut) /\ g = v.h
        OBVIOUS
    <2>3. G = [p \in Parties |-> G[p]] /\ H = [p \in Parties |-> H[p]]
        BY <1>4, <2>2 DEF HeldIn
    <2>4. H[s] = g /\ \A p \in Parties : p # s => H[p] = G[p]
        BY <1>2, <1>3, <1>4, <2>1, <2>2 DEF HeldIn
    <2>5. H = [G EXCEPT ![s] = g]
        BY <2>1, <2>3, <2>4
    <2> QED
        BY <2>2, <2>5
<1> QED
    BY <1>5, <1>6 DEF held

LEMMA HeldType ==
    ASSUME ItemType
    PROVE  held \in [Parties -> Nat]
<1>1. \A s \in Slots : value[s].h \in Nat
    BY DEF ItemType, NodeOK
<1>2. movedOut # <<>> => movedOut[1].h \in Nat
    BY DEF ItemType, Item!AshmemNode
<1> QED
    BY <1>1, <1>2 DEF held, HeldIn, Parties

\* The node that is cleared or dropped gives its region back.
LEMMA NodeReleased ==
    ASSUME ItemInv, NEW s \in Slots
    PROVE  /\ Item!Cleared(handle, value[s]) = Item!Dropped(handle, value[s])
           /\ Item!Dropped(handle, value[s]) \in Seq(Regions)
           /\ Len(Item!Dropped(handle, value[s])) = Len(handle)
           /\ OpenOf(Item!Dropped(handle, value[s])) = OpenOf(handle) \ {held[s]}
           /\ \A i \in DOMAIN handle : Item!Dropped(handle, value[s])[i].blob = handle[i].blob
<1>1. ItemType /\ HoldInv
    BY DEF ItemInv
<1>2. NodeOK(value[s]) /\ handle \in Seq(Regions) /\ held[s] = value[s].h /\ s \in Parties
    BY <1>1 DEF ItemType, held, HeldIn, Parties
<1>3. value[s].h \in Nat /\ (value[s].h # 0 => value[s].h \in DOMAIN handle)
    BY <1>1, <1>2 DEF NodeOK, HoldInv, Exact, OpenOf
<1>4. Item!Cleared(handle, value[s]) = Item!Dropped(handle, value[s])
    BY <1>2 DEF Item!Cleared, Item!Dropped, NodeOK
<1>5. PICK h : h = value[s].h
    OBVIOUS
<1>6. PICK c : c = Item!Dropped(handle, value[s]) /\ c = Freed(handle, h)
    BY <1>5 DEF Item!Dropped, Freed
<1>7. /\ c \in Seq(Regions) /\ Len(c) = Len(handle) /\ OpenOf(c) = OpenOf(handle) \ {h}
      /\ \A i \in DOMAIN handle : c[i].blob = handle[i].blob
    <2>1. h \in Nat /\ (h # 0 => h \in DOMAIN handle)
        BY <1>3, <1>5
    <2> HIDE <1>5
    <2> QED
        BY <1>2, <1>6, <2>1, CloseRegion
<1> QED
    BY <1>2, <1>4, <1>5, <1>6, <1>7

\* An item releases its region and takes a text or a node without memory.
LEMMA ItemReleases ==
    ASSUME ItemInv, NEW s \in Slots, NEW v, NEW w, Item!Holds(s, v, w), NodeOK(v), v.h = 0,
           w = (IF v.kind = "text" THEN Item!Data("text", v.data) ELSE Item!Data("blob", Item!Empty)),
           handle' = Item!Dropped(handle, value[s]),
           movedOut' = movedOut, itemGot' = itemGot, inFlight' = inFlight \/ inFlight' = <<>>
    PROVE  ItemInv'
<1>1. ItemType /\ HoldInv /\ WantInv /\ Item!GetDataGivesSet
    BY DEF ItemInv
<1>2. /\ handle' \in Seq(Regions) /\ OpenOf(handle') = OpenOf(handle) \ {held[s]}
      /\ \A i \in DOMAIN handle : handle'[i].blob = handle[i].blob
    BY NodeReleased
<1>3. w = Content(handle', v)
    BY DEF Content, NodeOK
<1>4. /\ value' = [x \in Slots |-> value'[x]] /\ (\A x \in Slots : NodeOK(value'[x]))
      /\ wants' = [x \in Slots |-> wants'[x]] /\ WantInv' /\ value' = [value EXCEPT ![s] = v]
    BY <1>2, <1>3, ItemHolds
<1>5. held' = [held EXCEPT ![s] = 0]
    BY <1>1, <1>4, HeldUpdate
<1>6. PICK O, K, P : O = OpenOf(handle) /\ K = held' /\ P = OpenOf(handle')
    OBVIOUS
<1>7. HoldInv'
    <2>1. held \in [Parties -> Nat] /\ s \in Parties /\ Exact(held, O)
        BY <1>1, <1>6, HeldType DEF HoldInv, Parties
    <2>2. K = [held EXCEPT ![s] = 0] /\ P = O \ {held[s]}
        BY <1>2, <1>5, <1>6
    <2>3. Exact(K, P)
        BY <2>1, <2>2, HolderReleases
    <2> QED
        BY <1>6, <2>3 DEF HoldInv, Exact, OpenOf
<1>8. ItemType'
    BY <1>1, <1>2, <1>4 DEF ItemType, NodeOK
<1>9. Item!GetDataGivesSet'
    BY <1>1 DEF Item!GetDataGivesSet
<1> QED
    BY <1>4, <1>7, <1>8, <1>9 DEF ItemInv

\* An item releases its region and takes a new one.
LEMMA ItemTakes ==
    ASSUME ItemInv, NEW s \in Slots, NEW b \in Blobs, NEW mapped \in BOOLEAN,
           Item!Holds(s, Item!AshmemNode(Len(handle) + 1, TRUE), Item!Data("blob", b)),
           handle' = Append(Item!Dropped(handle, value[s]), [blob |-> b, open |-> TRUE, mapped |-> mapped]),
           movedOut' = movedOut, itemGot' = itemGot, inFlight' = inFlight \/ inFlight' = <<>>
    PROVE  ItemInv'
<1>1. ItemType /\ HoldInv /\ WantInv /\ Item!GetDataGivesSet
    BY DEF ItemInv
<1>2. PICK c : c = Item!Dropped(handle, value[s])
    OBVIOUS
<1>3. /\ c \in Seq(Regions) /\ Len(c) = Len(handle) /\ OpenOf(c) = OpenOf(handle) \ {held[s]}
      /\ \A i \in DOMAIN handle : c[i].blob = handle[i].blob
    BY <1>2, NodeReleased
<1>4. PICK n : n = Len(handle) + 1
    OBVIOUS
<1>5. handle \in Seq(Regions) /\ n \in Nat \ {0} /\ DOMAIN c = DOMAIN handle
    BY <1>1, <1>3, <1>4 DEF ItemType
<1>6. PICK r, d : r = [blob |-> b, open |-> TRUE, mapped |-> mapped] /\ d = Append(c, r) /\ d = handle'
    BY <1>2
<1>7. /\ d \in Seq(Regions) /\ OpenOf(d) = OpenOf(c) \cup {n} /\ n \notin OpenOf(c)
      /\ d[n].blob = b /\ \A i \in DOMAIN c : d[i] = c[i]
    <2>1. n = Len(c) + 1 /\ c \in Seq(Regions) /\ d = Append(c, r)
        BY <1>3, <1>4, <1>6
    <2>3. r \in Regions /\ r.open = TRUE /\ r.blob = b
        BY <1>6 DEF Regions
    <2>2. Grown(c, r, d)
        BY <2>1, <2>3, NewRegion
    <2> QED
        BY <2>1, <2>2, <2>3 DEF Grown
<1>8. PICK v : v = Item!AshmemNode(n, TRUE)
    OBVIOUS
<1>9. v.kind = "ashmem" /\ v.h = n /\ v.managed
    BY <1>8 DEF Item!AshmemNode
<1>10. NodeOK(v)
    BY <1>5, <1>9 DEF NodeOK
<1>11. Item!Data("blob", b) = Content(d, v)
    BY <1>5, <1>7, <1>9 DEF Content
<1>12. /\ value' = [x \in Slots |-> value'[x]] /\ (\A x \in Slots : NodeOK(value'[x]))
       /\ wants' = [x \in Slots |-> wants'[x]] /\ WantInv' /\ value' = [value EXCEPT ![s] = v]
    <2>1. \A i \in DOMAIN handle : d[i].blob = handle[i].blob
        BY <1>3, <1>5, <1>7
    <2>2. Item!Holds(s, v, Item!Data("blob", b))
        BY <1>4, <1>8
    <2> QED
        BY <1>6, <1>7, <1>10, <1>11, <2>1, <2>2, ItemHolds
<1>13. held' = [held EXCEPT ![s] = n]
    BY <1>1, <1>9, <1>12, HeldUpdate
<1>14. PICK O, P, Q, H, K : /\ O = OpenOf(handle) /\ P = OpenOf(c) /\ Q = OpenOf(d)
                            /\ H = [held EXCEPT ![s] = 0] /\ K = held'
    OBVIOUS
<1>15. HoldInv'
    <2>1. held \in [Parties -> Nat] /\ s \in Parties /\ Exact(held, O)
        BY <1>1, <1>14, HeldType DEF HoldInv, Parties
    <2>2. P = O \ {held[s]} /\ H = [held EXCEPT ![s] = 0]
        BY <1>3, <1>14
    <2>3. H \in [Parties -> Nat] /\ H[s] = 0 /\ Exact(H, P)
        BY <2>1, <2>2, HolderReleases
    <2>4. Q = P \cup {n} /\ n \notin P
        BY <1>7, <1>14
    <2>5. K = [H EXCEPT ![s] = n]
        BY <1>13, <1>14, <2>1
    <2>6. Exact(K, Q)
        BY <1>5, <2>1, <2>3, <2>4, <2>5, HolderTakes
    <2> QED
        BY <1>6, <1>14, <2>6 DEF HoldInv, Exact, OpenOf
<1>16. ItemType'
    BY <1>1, <1>6, <1>7, <1>12 DEF ItemType, NodeOK
<1>17. Item!GetDataGivesSet'
    BY <1>1 DEF Item!GetDataGivesSet
<1> QED
    BY <1>12, <1>15, <1>16, <1>17 DEF ItemInv

\* What the items u and the node that was moved out hold.
IsHeld(H, u, m) ==
    /\ H = [p \in Parties |-> H[p]] /\ "moved" \in Parties /\ "moved" \notin Slots /\ Slots \subseteq Parties
    /\ (\A p \in Parties : p # "moved" => p \in Slots /\ H[p] = u[p].h)
    /\ m = <<>> => H["moved"] = 0
    /\ \A n : m = <<Item!AshmemNode(n, TRUE)>> => H["moved"] = n

LEMMA MovedHeld ==
    ASSUME NEW u, NEW m, NEW H, H = HeldIn(u, m)
    PROVE  IsHeld(H, u, m)
<1>1. "moved" \in Parties /\ "moved" \notin Slots /\ Slots \subseteq Parties /\ \A p \in Parties : p # "moved" => p \in Slots
    BY DeliveryAssumption DEF DeliveryAssumption, Parties
<1>2. H = [p \in Parties |-> H[p]]
    BY DEF HeldIn
<1>3. \A p \in Parties : H[p] = IF p \in Slots THEN u[p].h ELSE IF m = <<>> THEN 0 ELSE m[1].h
    BY DEF HeldIn
<1>4. ASSUME NEW n, m = <<Item!AshmemNode(n, TRUE)>> PROVE m # <<>> /\ m[1].h = n
    BY <1>4 DEF Item!AshmemNode
<1>5. H["moved"] = IF m = <<>> THEN 0 ELSE m[1].h
    BY <1>1, <1>3
<1>6. ASSUME NEW n, m = <<Item!AshmemNode(n, TRUE)>> PROVE H["moved"] = n
    BY <1>4, <1>5, <1>6
<1>7. \A p \in Parties : p # "moved" => p \in Slots /\ H[p] = u[p].h
    BY <1>1, <1>3
<1> QED
    BY <1>1, <1>2, <1>5, <1>6, <1>7 DEF IsHeld

LEMMA ItemSetText ==
    ASSUME ItemInv, NEW s \in Slots, NEW x, Item!SetText(s, x)
    PROVE  ItemInv'
<1>1. PICK v, w : v = Item!Text(x) /\ w = Item!Data("text", x)
    OBVIOUS
<1>2. v.kind = "text" /\ v.h = 0 /\ v.data = x /\ v.managed = FALSE
    BY <1>1 DEF Item!Text
<1>3. NodeOK(v)
    BY <1>2 DEF NodeOK
<1>4. w = (IF v.kind = "text" THEN Item!Data("text", v.data) ELSE Item!Data("blob", Item!Empty))
    BY <1>1, <1>2
<1>5. Item!Holds(s, v, w) /\ handle' = Item!Dropped(handle, value[s])
    BY <1>1, NodeReleased DEF Item!SetText
<1>6. movedOut' = movedOut /\ itemGot' = itemGot /\ inFlight' = inFlight
    BY DEF Item!SetText
<1> QED
    BY <1>2, <1>3, <1>4, <1>5, <1>6, ItemReleases

LEMMA ItemClearItem ==
    ASSUME ItemInv, NEW s \in Slots, Item!ClearItem(s)
    PROVE  ItemInv'
<1>1. Item!SetText(s, Item!Empty)
    BY DEF Item!ClearItem, Item!SetText
<1> QED
    BY <1>1, ItemSetText

LEMMA ItemSetBlob ==
    ASSUME ItemInv, NEW s \in Slots, NEW b \in Blobs, Item!SetBlob(s, b)
    PROVE  ItemInv'
<1>1. PICK c : c = Item!Dropped(handle, value[s])
    OBVIOUS
<1>2. Item!Cleared(handle, value[s]) = c /\ Len(c) = Len(handle)
    BY <1>1, NodeReleased
<1>3. movedOut' = movedOut /\ itemGot' = itemGot /\ inFlight' = inFlight
    BY DEF Item!SetBlob
<1>4. PICK made \in Item!create_managed_ashmem_from_blob(c, b) :
        handle' = made.hs /\ Item!Holds(s, made.node, Item!Data("blob", made.blob))
    BY <1>2 DEF Item!SetBlob
<1>5. PICK v : v = Item!AshmemNode(0, FALSE)
    OBVIOUS
<1>6. v.kind = "ashmem" /\ v.h = 0 /\ v.managed = FALSE
    BY <1>5 DEF Item!AshmemNode
<1>7. \/ made = [hs |-> c, node |-> v, blob |-> Item!Empty]
      \/ made = [hs |-> Append(c, [blob |-> b, open |-> TRUE, mapped |-> TRUE]),
                 node |-> Item!AshmemNode(Len(c) + 1, TRUE), blob |-> b]
    BY <1>4, <1>5 DEF Item!create_managed_ashmem_from_blob
<1>8. CASE made = [hs |-> c, node |-> v, blob |-> Item!Empty]
    <2>1. PICK w : w = Item!Data("blob", Item!Empty)
        OBVIOUS
    <2>2. handle' = c /\ Item!Holds(s, v, w)
        BY <1>4, <1>8, <2>1
    <2>3. NodeOK(v)
        BY <1>6 DEF NodeOK
    <2>4. w = (IF v.kind = "text" THEN Item!Data("text", v.data) ELSE Item!Data("blob", Item!Empty))
        BY <1>6, <2>1
    <2> QED
        BY <1>1, <1>3, <1>6, <2>2, <2>3, <2>4, ItemReleases
<1>9. CASE made = [hs |-> Append(c, [blob |-> b, open |-> TRUE, mapped |-> TRUE]),
                   node |-> Item!AshmemNode(Len(c) + 1, TRUE), blob |-> b]
    <2>1. handle' = Append(c, [blob |-> b, open |-> TRUE, mapped |-> TRUE])
        BY <1>4, <1>9
    <2>2. Item!Holds(s, Item!AshmemNode(Len(handle) + 1, TRUE), Item!Data("blob", b))
        BY <1>2, <1>4, <1>9
    <2>3. TRUE \in BOOLEAN
        OBVIOUS
    <2> QED
        BY <1>1, <1>3, <2>1, <2>2, <2>3, ItemTakes
<1> QED
    BY <1>7, <1>8, <1>9

LEMMA ItemUnmarshal ==
    ASSUME ItemInv, NEW s \in Slots, Item!Unmarshal(s)
    PROVE  ItemInv'
<1>1. movedOut' = movedOut /\ itemGot' = itemGot /\ inFlight' = <<>> /\ inFlight # <<>>
    BY DEF Item!Unmarshal
<1>2. PICK m : inFlight = <<m>> /\ ParcelOK(m)
    BY <1>1 DEF ItemInv, ItemType
<1>3. inFlight[1] = m
    BY <1>2
<1>4. CASE m.value.kind = "text" /\ handle' = Item!Dropped(handle, value[s]) /\ Item!Holds(s, m.value, m.want)
    <2>1. PICK v, w : v = m.value /\ w = m.want
        OBVIOUS
    <2>2. v.kind = "text" /\ NodeOK(v) /\ w = Item!Data("text", v.data)
        BY <1>2, <1>4, <2>1 DEF ParcelOK
    <2>3. v.h = 0
        BY <2>2 DEF NodeOK
    <2>4. w = (IF v.kind = "text" THEN Item!Data("text", v.data) ELSE Item!Data("blob", Item!Empty))
        BY <2>2
    <2>5. Item!Holds(s, v, w)
        BY <1>4, <2>1
    <2> QED
        BY <1>1, <1>4, <2>2, <2>3, <2>4, <2>5, ItemReleases
<1>5. CASE /\ m.value.kind = "ashmem"
           /\ handle' = Append(Item!Dropped(handle, value[s]), [blob |-> m.blob, open |-> TRUE, mapped |-> FALSE])
           /\ Item!Holds(s, Item!AshmemNode(Len(handle) + 1, TRUE), m.want)
    <2>1. PICK b : b = m.blob
        OBVIOUS
    <2>2. b \in Blobs /\ m.want = Item!Data("blob", b)
        BY <1>2, <1>5, <2>1 DEF ParcelOK
    <2>3. handle' = Append(Item!Dropped(handle, value[s]), [blob |-> b, open |-> TRUE, mapped |-> FALSE])
        BY <1>5, <2>1
    <2>4. Item!Holds(s, Item!AshmemNode(Len(handle) + 1, TRUE), Item!Data("blob", b))
        BY <1>5, <2>2
    <2>5. FALSE \in BOOLEAN
        OBVIOUS
    <2> QED
        BY <1>1, <2>2, <2>3, <2>4, <2>5, ItemTakes
<1> QED
    BY <1>3, <1>4, <1>5 DEF Item!Unmarshal

LEMMA ItemMoveOutAshmem ==
    ASSUME ItemInv, NEW s \in Slots, Item!MoveOutAshmem(s)
    PROVE  ItemInv'
<1>1. ItemType /\ HoldInv /\ WantInv /\ Item!GetDataGivesSet
    BY DEF ItemInv
<1>2. handle' = handle /\ inFlight' = inFlight /\ itemGot' = itemGot /\ movedOut = <<>>
    BY DEF Item!MoveOutAshmem
<1>3. PICK n : n = value[s].h
    OBVIOUS
<1>4. n \in Nat \ {0} /\ movedOut' = <<Item!AshmemNode(n, TRUE)>>
    BY <1>1, <1>3 DEF Item!MoveOutAshmem, ItemType, NodeOK
<1>5. PICK v, w : v = Item!AshmemNode(0, FALSE) /\ w = Item!Data("blob", Item!Empty)
    OBVIOUS
<1>6. v.kind = "ashmem" /\ v.h = 0 /\ v.managed = FALSE
    BY <1>5 DEF Item!AshmemNode
<1>7. NodeOK(v)
    BY <1>6 DEF NodeOK
<1>8. w = Content(handle', v)
    BY <1>5, <1>6 DEF Content
<1>9. Item!Holds(s, v, w) /\ handle' \in Seq(Regions) /\ \A i \in DOMAIN handle : handle'[i].blob = handle[i].blob
    BY <1>1, <1>2, <1>5 DEF Item!MoveOutAshmem, ItemType
<1>10. /\ value' = [x \in Slots |-> value'[x]] /\ (\A x \in Slots : NodeOK(value'[x]))
       /\ wants' = [x \in Slots |-> wants'[x]] /\ WantInv' /\ value' = [value EXCEPT ![s] = v]
    BY <1>7, <1>8, <1>9, ItemHolds
<1>11. PICK O, H, K, u, m : O = OpenOf(handle) /\ H = held /\ K = held' /\ u = value' /\ m = movedOut'
    OBVIOUS
<1>12. HoldInv'
    <2>1. H = HeldIn(value, movedOut) /\ K = HeldIn(u, m) /\ m = <<Item!AshmemNode(n, TRUE)>>
        BY <1>4, <1>11 DEF held, HeldIn
    <2>2. /\ H = [p \in Parties |-> H[p]] /\ "moved" \in Parties /\ "moved" \notin Slots /\ s \in Parties /\ s # "moved"
          /\ (\A p \in Parties : p # "moved" => p \in Slots /\ H[p] = value[p].h) /\ H["moved"] = 0
        <3>1. IsHeld(H, value, movedOut)
            BY <2>1, MovedHeld
        <3> QED
            BY <1>2, <3>1 DEF IsHeld
    <2>3. /\ K = [p \in Parties |-> K[p]] /\ (\A p \in Parties : p # "moved" => p \in Slots /\ K[p] = u[p].h)
          /\ K["moved"] = n
        <3>1. IsHeld(K, u, m)
            BY <2>1, MovedHeld
        <3> QED
            BY <2>1, <3>1 DEF IsHeld
    <2>4. u[s] = v /\ \A x \in Slots : x # s => u[x] = value[x]
        BY <1>1, <1>10, <1>11 DEF ItemType
    <2>5. K = [H EXCEPT !["moved"] = H[s], ![s] = 0]
        BY <1>3, <1>6, <2>2, <2>3, <2>4
    <2>6. H \in [Parties -> Nat] /\ Exact(H, O)
        BY <1>1, <1>11, HeldType DEF HoldInv
    <2>7. Exact(K, O)
        BY <2>2, <2>5, <2>6, HolderGives
    <2> QED
        BY <1>2, <1>11, <2>7 DEF HoldInv, Exact, OpenOf
<1>13. ItemType'
    BY <1>1, <1>2, <1>4, <1>9, <1>10 DEF ItemType, NodeOK, Item!AshmemNode
<1>14. Item!GetDataGivesSet'
    BY <1>1, <1>2 DEF Item!GetDataGivesSet
<1> QED
    BY <1>10, <1>12, <1>13, <1>14 DEF ItemInv

LEMMA ItemSetAshmemNode ==
    ASSUME ItemInv, NEW s \in Slots, Item!SetAshmemNode(s)
    PROVE  ItemInv'
<1>1. ItemType /\ HoldInv /\ WantInv /\ Item!GetDataGivesSet
    BY DEF ItemInv
<1>2. inFlight' = inFlight /\ itemGot' = itemGot /\ movedOut # <<>> /\ movedOut' = <<>>
    BY DEF Item!SetAshmemNode
<1>3. PICK n \in Nat \ {0} : movedOut = <<Item!AshmemNode(n, TRUE)>>
    BY <1>1, <1>2 DEF ItemType
<1>4. PICK v, w : v = Item!AshmemNode(n, TRUE) /\ w = Item!Data("blob", handle[n].blob)
    OBVIOUS
<1>5. v.kind = "ashmem" /\ v.h = n /\ v.managed = TRUE /\ movedOut[1] = v
    BY <1>3, <1>4 DEF Item!AshmemNode
<1>6. NodeOK(v)
    BY <1>5 DEF NodeOK
<1>7. PICK O, P, H, K, u, m, c : /\ O = OpenOf(handle) /\ P = OpenOf(handle') /\ H = held /\ K = held'
                                 /\ u = value' /\ m = movedOut' /\ c = handle'
    OBVIOUS
<1>8. /\ c \in Seq(Regions) /\ OpenOf(c) = OpenOf(handle) \ {held[s]} /\ Len(c) = Len(handle)
      /\ \A i \in DOMAIN handle : c[i].blob = handle[i].blob
    <2>1. c = Item!Dropped(handle, value[s])
        BY <1>7 DEF Item!SetAshmemNode
    <2> QED
        BY <2>1, NodeReleased
<1>9. /\ H = HeldIn(value, movedOut) /\ K = HeldIn(u, m) /\ m = <<>>
      /\ H \in [Parties -> Nat] /\ Exact(H, O)
    BY <1>1, <1>2, <1>7, HeldType DEF held, HeldIn, HoldInv
<1>10. /\ H = [p \in Parties |-> H[p]] /\ "moved" \in Parties /\ "moved" \notin Slots /\ s \in Parties /\ s # "moved"
       /\ (\A p \in Parties : p # "moved" => p \in Slots /\ H[p] = value[p].h) /\ H["moved"] = n
    <2>1. IsHeld(H, value, movedOut)
        BY <1>9, MovedHeld
    <2> QED
        BY <1>3, <2>1 DEF IsHeld
<1>11. /\ K = [p \in Parties |-> K[p]] /\ (\A p \in Parties : p # "moved" => p \in Slots /\ K[p] = u[p].h)
       /\ K["moved"] = 0
    <2>1. IsHeld(K, u, m)
        BY <1>9, MovedHeld
    <2> QED
        BY <1>9, <2>1 DEF IsHeld
<1>12. n \in DOMAIN handle
    BY <1>7, <1>9, <1>10 DEF Exact, OpenOf
<1>13. w = Content(c, v)
    BY <1>4, <1>5, <1>8, <1>12 DEF Content
<1>14. Item!Holds(s, v, w)
    BY <1>4, <1>5 DEF Item!SetAshmemNode
<1>15. /\ value' = [x \in Slots |-> value'[x]] /\ (\A x \in Slots : NodeOK(value'[x]))
       /\ wants' = [x \in Slots |-> wants'[x]] /\ WantInv' /\ value' = [value EXCEPT ![s] = v]
    BY <1>6, <1>7, <1>8, <1>13, <1>14, ItemHolds
<1>16. HoldInv'
    <2>1. u[s] = v /\ \A x \in Slots : x # s => u[x] = value[x]
        BY <1>1, <1>7, <1>15 DEF ItemType
    <2>2. PICK G : G = [H EXCEPT ![s] = 0]
        OBVIOUS
    <2>3. P = O \ {H[s]}
        BY <1>7, <1>8
    <2>4. G \in [Parties -> Nat] /\ G[s] = 0 /\ Exact(G, P)
        BY <1>9, <1>10, <2>2, <2>3, HolderReleases
    <2>5. K = [G EXCEPT ![s] = G["moved"], !["moved"] = 0]
        BY <1>5, <1>10, <1>11, <2>1, <2>2
    <2>6. Exact(K, P)
        BY <1>10, <2>4, <2>5, HolderGives
    <2> QED
        BY <1>7, <2>6 DEF HoldInv, Exact, OpenOf
<1>17. ItemType'
    BY <1>1, <1>2, <1>7, <1>8, <1>15 DEF ItemType, NodeOK
<1>18. Item!GetDataGivesSet'
    BY <1>1, <1>2 DEF Item!GetDataGivesSet
<1> QED
    BY <1>15, <1>16, <1>17, <1>18 DEF ItemInv

LEMMA ItemMarshal ==
    ASSUME ItemInv, NEW s \in Slots, Item!Marshal(s)
    PROVE  ItemInv'
<1>1. ItemType /\ HoldInv /\ WantInv /\ Item!GetDataGivesSet
    BY DEF ItemInv
<1>2. value' = value /\ handle' = handle /\ movedOut' = movedOut /\ wants' = wants /\ itemGot' = itemGot
    BY DEF Item!Marshal
<1>3. PICK m, h : /\ h = value[s].h /\ inFlight' = <<m>>
                  /\ m = [value |-> value[s], want |-> wants[s], blob |-> IF h = 0 THEN Item!Empty ELSE handle[h].blob]
    BY DEF Item!Marshal
<1>4. m.value = value[s] /\ m.want = wants[s] /\ m.blob = IF h = 0 THEN Item!Empty ELSE handle[h].blob
    BY <1>3
<1>5. wants[s] = Content(handle, value[s]) /\ NodeOK(value[s])
    BY <1>1 DEF WantInv, ItemType
<1>6. value[s].kind = "ashmem" => h # 0
    BY <1>3 DEF Item!Marshal
<1>7. h # 0 => h \in DOMAIN handle
    BY <1>1, <1>3 DEF HoldInv, Exact, OpenOf, held, HeldIn, Parties
<1>8. value[s].kind = "ashmem" => m.blob \in Blobs /\ wants[s] = Item!Data("blob", m.blob)
    <2>1. \A i \in DOMAIN handle : handle[i] \in Regions
        BY <1>1 DEF ItemType
    <2> QED
        BY <1>3, <1>4, <1>5, <1>6, <1>7, <2>1 DEF Content, Regions
<1>9. ParcelOK(m)
    BY <1>4, <1>5, <1>8 DEF ParcelOK, Content, NodeOK
<1>10. ItemType'
    BY <1>1, <1>2, <1>3, <1>9 DEF ItemType, NodeOK
<1>11. HoldInv' /\ WantInv' /\ Item!GetDataGivesSet'
    BY <1>1, <1>2 DEF HoldInv, Exact, OpenOf, held, HeldIn, WantInv, Content, Item!GetDataGivesSet
<1> QED
    BY <1>10, <1>11 DEF ItemInv

\* The same regions are open, with the same contents.
SameRegions(hs, c) == c \in Seq(Regions) /\ OpenOf(c) = OpenOf(hs) /\ \A i \in DOMAIN hs : c[i].blob = hs[i].blob

\* Mapping a region for reading changes neither its contents nor whether it is open.
LEMMA MapRegion ==
    ASSUME NEW hs \in Seq(Regions), NEW h \in DOMAIN hs, NEW c, c = [hs EXCEPT ![h].mapped = TRUE]
    PROVE  SameRegions(hs, c)
<1>1. PICK r : r = [hs[h] EXCEPT !.mapped = TRUE]
    OBVIOUS
<1>2. r \in Regions /\ r.open = hs[h].open /\ r.blob = hs[h].blob
    <2>1. hs[h] \in Regions
        OBVIOUS
    <2> QED
        BY <1>1, <2>1 DEF Regions
<1>3. c = [hs EXCEPT ![h] = r]
    BY <1>1
<1>4. DOMAIN c = DOMAIN hs /\ c[h] = r /\ \A i \in DOMAIN hs : i # h => c[i] = hs[i]
    BY <1>3
<1>5. c \in Seq(Regions)
    <2>1. Len(hs) \in Nat /\ hs \in [1 .. Len(hs) -> Regions]
        OBVIOUS
    <2>2. c \in [1 .. Len(hs) -> Regions]
        BY <1>2, <1>3, <2>1
    <2> QED
        BY <2>1, <2>2
<1>6. OpenOf(c) = OpenOf(hs)
    <2>1. ASSUME NEW i \in DOMAIN hs PROVE c[i].open = hs[i].open
        BY <1>2, <1>4
    <2> QED
        BY <1>4, <2>1 DEF OpenOf
<1> QED
    BY <1>2, <1>4, <1>5, <1>6 DEF SameRegions

LEMMA ItemGetData ==
    ASSUME ItemInv, NEW s \in Slots, Item!GetData(s)
    PROVE  ItemInv'
<1>1. ItemType /\ HoldInv /\ WantInv /\ Item!GetDataGivesSet
    BY DEF ItemInv
<1>2. value' = value /\ movedOut' = movedOut /\ inFlight' = inFlight /\ wants' = wants
    BY DEF Item!GetData
<1>3. PICK v, h, c : v = value[s] /\ h = v.h /\ c = handle'
    OBVIOUS
<1>4. NodeOK(v) /\ wants[s] = Content(handle, v) /\ handle \in Seq(Regions)
    BY <1>1, <1>3 DEF ItemType, WantInv
<1>5. h # 0 => h \in DOMAIN handle /\ handle[h].open
    BY <1>1, <1>3 DEF HoldInv, Exact, OpenOf, held, HeldIn, Parties
<1>6. c = handle \/ (h # 0 /\ c = [handle EXCEPT ![h].mapped = TRUE])
    BY <1>3 DEF Item!GetData
<1>7. c \in Seq(Regions) /\ OpenOf(c) = OpenOf(handle) /\ \A i \in DOMAIN handle : c[i].blob = handle[i].blob
    <2>1. CASE c = handle
        BY <1>4, <2>1
    <2>2. CASE h # 0 /\ c = [handle EXCEPT ![h].mapped = TRUE]
        <3>1. h \in DOMAIN handle
            BY <1>5, <2>2
        <3>2. SameRegions(handle, c)
            BY <1>4, <2>2, <3>1, MapRegion
        <3> QED
            BY <3>2 DEF SameRegions
    <2> QED
        BY <1>6, <2>1, <2>2
<1>8. ItemType'
    BY <1>1, <1>2, <1>3, <1>7 DEF ItemType, NodeOK
<1>9. HoldInv'
    <2>1. PICK O, P, H, K : O = OpenOf(handle) /\ P = OpenOf(c) /\ H = held /\ K = held'
        OBVIOUS
    <2>2. Exact(H, O) /\ P = O /\ K = H
        BY <1>1, <1>2, <1>7, <2>1 DEF HoldInv, held, HeldIn
    <2> QED
        BY <1>3, <2>1, <2>2 DEF HoldInv, Exact, OpenOf
<1>10. WantInv'
    <2>1. ASSUME NEW x \in Slots PROVE wants[x] = Content(c, value[x])
        <3>1. value[x].h # 0 => value[x].h \in DOMAIN handle
            BY <1>1 DEF HoldInv, Exact, OpenOf, held, HeldIn, Parties
        <3> QED
            BY <1>1, <1>7, <3>1 DEF WantInv, Content
    <2> QED
        BY <1>2, <1>3, <2>1 DEF WantInv, Content
<1>11. Item!GetDataGivesSet'
    <2>1. PICK a : /\ itemGot' = [want |-> wants[s], was |-> a.data, failed |-> a.failed]
                   /\ a \in IF v.kind = "text" THEN {[data |-> Item!Data("text", v.data), failed |-> FALSE]}
                            ELSE IF h = 0 \/ ~handle[h].open THEN {[data |-> Item!Data("blob", Item!Empty), failed |-> FALSE]}
                            ELSE {[data |-> Item!Data("blob", handle[h].blob), failed |-> FALSE]} \cup
                                 (IF handle[h].mapped THEN {} ELSE {[data |-> Item!Data("blob", Item!Empty), failed |-> TRUE]})
        BY <1>3 DEF Item!GetData
    <2>2. a.failed \/ a.data = Content(handle, v)
        BY <1>3, <1>5, <2>1 DEF Content
    <2>3. itemGot'.failed = a.failed /\ itemGot'.was = a.data /\ itemGot'.want = wants[s]
        BY <2>1
    <2> QED
        BY <1>4, <2>2, <2>3 DEF Item!GetDataGivesSet
<1> QED
    BY <1>8, <1>9, <1>10, <1>11 DEF ItemInv

LEMMA InitItem ==
    ASSUME Item!PublishedItemInit
    PROVE  ItemInv
<1>1. PICK v : v = Item!Text(Item!Empty)
    OBVIOUS
<1>2. v.kind = "text" /\ v.data = Item!Empty /\ v.h = 0 /\ v.managed = FALSE
    BY <1>1 DEF Item!Text
<1>3. NodeOK(v)
    BY <1>2 DEF NodeOK
<1>4. /\ value = [s \in Slots |-> v] /\ wants = [s \in Slots |-> Item!Data("text", Item!Empty)]
      /\ handle = <<>> /\ movedOut = <<>> /\ inFlight = <<>>
      /\ itemGot = [want |-> Item!Data("text", Item!Empty), was |-> Item!Data("text", Item!Empty), failed |-> FALSE]
    BY <1>1 DEF Item!PublishedItemInit
<1>5. ItemType
    BY <1>3, <1>4 DEF ItemType
<1>6. HoldInv
    <2>1. OpenOf(handle) = {}
        BY <1>4 DEF OpenOf
    <2>2. \A p \in Parties : held[p] = 0
        BY <1>2, <1>4 DEF held, HeldIn
    <2> QED
        BY <2>1, <2>2 DEF HoldInv, Exact
<1>7. WantInv
    BY <1>2, <1>4 DEF WantInv, Content
<1>8. Item!GetDataGivesSet
    BY <1>4 DEF Item!GetDataGivesSet
<1> QED
    BY <1>5, <1>6, <1>7, <1>8 DEF ItemInv

LEMMA ItemAlone ==
    ASSUME ItemInv, UNCHANGED itemVars
    PROVE  ItemInv'
<1>1. /\ value' = value /\ handle' = handle /\ movedOut' = movedOut /\ wants' = wants
      /\ itemGot' = itemGot /\ inFlight' = inFlight
    BY DEF itemVars
<1> QED
    BY <1>1 DEF ItemInv, ItemType, NodeOK, HoldInv, Exact, OpenOf, held, HeldIn, WantInv, Content, Item!GetDataGivesSet

LEMMA StepItem ==
    ASSUME ItemInv, Item!PublishedItemNext
    PROVE  ItemInv'
BY ItemSetBlob, ItemSetText, ItemClearItem, ItemMoveOutAshmem, ItemSetAshmemNode, ItemGetData, ItemMarshal, ItemUnmarshal
   DEF Item!PublishedItemNext

\* What is known of the holders says that each region has one.
LEMMA ItemHolders ==
    ASSUME ItemInv
    PROVE  Item!RegionHasOneHolder
<1>1. ItemType /\ HoldInv
    BY DEF ItemInv
<1>2. IsHeld(held, value, movedOut)
    BY MovedHeld DEF held
<1>3. ASSUME NEW h \in DOMAIN handle, handle[h].open PROVE Item!Cardinality(Item!Holders(h)) = 1
    <2>1. h \in OpenOf(handle) /\ h # 0
        BY <1>1, <1>3 DEF OpenOf, HoldInv, Exact
    <2>2. PICK p \in Parties : held[p] = h
        BY <1>1, <2>1 DEF HoldInv, Exact
    <2>3. \A q \in Parties : held[q] = h => q = p
        BY <1>1, <2>1, <2>2 DEF HoldInv, Exact
    <2>4. ASSUME NEW q PROVE q \in Item!Holders(h) <=> q = p
        <3>1. q \in Slots => (q \in Item!Holders(h) <=> held[q] = h)
            BY <1>2 DEF IsHeld, Item!Holders
        <3>2. "moved" \in Item!Holders(h) <=> held["moved"] = h
            <4>1. movedOut # <<>> => held["moved"] = movedOut[1].h
                BY <1>1, <1>2 DEF IsHeld, ItemType, Item!AshmemNode
            <4>2. movedOut = <<>> => held["moved"] # h
                BY <1>2, <2>1 DEF IsHeld
            <4> QED
                BY <1>2, <4>1, <4>2 DEF Item!Holders, IsHeld
        <3>3. q \in Item!Holders(h) => q \in Parties
            BY DEF Item!Holders, Parties
        <3>4. q \in Parties => (q \in Item!Holders(h) <=> held[q] = h)
            BY <1>2, <3>1, <3>2 DEF IsHeld
        <3> QED
            BY <2>2, <2>3, <3>3, <3>4
    <2>5. Item!Holders(h) = {p}
        BY <2>4
    <2>6. Item!Cardinality(Item!Holders(h)) = Cardinality(Item!Holders(h))
        BY DEF Item!Cardinality, Cardinality
    <2> QED
        BY <2>5, <2>6, FS_Singleton
<1>4. ASSUME NEW v \in Item!Nodes, v.h # 0 PROVE handle[v.h].open
    <2>1. CASE \E s \in Slots : v = value[s]
        BY <1>1, <1>2, <1>4, <2>1 DEF IsHeld, HoldInv, Exact, OpenOf
    <2>2. CASE movedOut # <<>> /\ v = movedOut[1]
        <3>1. held["moved"] = v.h
            BY <1>1, <1>2, <2>2 DEF IsHeld, ItemType, Item!AshmemNode
        <3> QED
            BY <1>1, <1>2, <1>4, <3>1 DEF IsHeld, HoldInv, Exact, OpenOf
    <2>3. v \in Item!Range(movedOut) => movedOut # <<>> /\ v = movedOut[1]
        <3>1. CASE movedOut = <<>>
            BY <3>1 DEF Item!Range
        <3>2. CASE \E a : movedOut = <<a>>
            BY <3>2 DEF Item!Range
        <3> QED
            BY <1>1, <3>1, <3>2 DEF ItemType
    <2> QED
        BY <2>1, <2>2, <2>3 DEF Item!Nodes
<1> QED
    BY <1>3, <1>4 DEF Item!RegionHasOneHolder

-----------------------------------------------------------------------------
(* The manager of rdb observers *)

Entries == [enabled : BOOLEAN, notify : BOOLEAN]
RdbOps == {"idle", "local", "subscribe", "erase", "unsubscribe", "enable", "replay", "disable"}
RdbJobs == [op : RdbOps, k : RdbKeys \cup {<<>>}, s : SUBSET Subs, node : Nat]

RdbType ==
    /\ rdbCallbacks \in [RdbKeys -> [Subs -> SUBSET Entries]]
    /\ rdbSeen \in [RdbKeys -> [Subs -> Nat]] /\ rdbOwed \in [RdbKeys -> [Subs -> Nat]]
    /\ rdbLastChange \in [RdbKeys -> Nat] /\ rdbChange \in Nat
    /\ rdbJob \in [Threads -> RdbJobs]
    /\ \A t \in Threads : rdbJob[t].op # "idle" => rdbJob[t].k \in RdbKeys
    /\ emitting = [op |-> emitting.op, keys |-> emitting.keys, fire |-> emitting.fire, node |-> emitting.node]
    /\ emitting.op \in {"idle", "store", "call"} /\ emitting.keys \subseteq RdbKeys /\ emitting.node \in Nat
    /\ rdbService \in [RdbKeys -> {"none", "on", "off"}]

\* A change is given its number as it is emitted, so that the one that is under way
\* is the last, and nothing is owed to who is not there.
RdbCountInv ==
    /\ \A k \in RdbKeys, s \in Subs : rdbOwed[k][s] <= rdbChange
    /\ \A k \in RdbKeys, s \in Subs : rdbCallbacks[k][s] = {} => rdbOwed[k][s] = 0
    /\ \A k \in RdbKeys, s \in Subs : <<k, s>> \in emitting.fire => k \in emitting.keys
    /\ emitting.op = "idle" => emitting.keys = {}
    /\ emitting.op # "idle" => emitting.node = rdbChange

\* Only a disabled entry is marked.
RdbMarkInv == \A k \in RdbKeys, s \in Subs : \A e \in rdbCallbacks[k][s] : e.notify => ~e.enabled

\* What an observer has not yet seen is about to be delivered to it, about to be
\* replayed to it, or kept with a mark on its entry.
Fires(k, s) == emitting.op # "idle" /\ <<k, s>> \in emitting.fire
Replays(t, k, s) ==
    /\ rdbJob[t].op \in {"enable", "replay"} /\ rdbJob[t].k = k /\ s \in rdbJob[t].s
    /\ rdbJob[t].node >= rdbOwed[k][s]
Marked(k, s) == \E e \in rdbCallbacks[k][s] : e.notify
Stored(k, s) ==
    rdbLastChange[k] >= rdbOwed[k][s] \/ (emitting.op = "store" /\ k \in emitting.keys)
RdbReaches(k, s) ==
    \/ rdbSeen[k][s] >= rdbOwed[k][s]
    \/ Fires(k, s)
    \/ \E t \in Threads : Replays(t, k, s)
    \/ Marked(k, s) /\ Stored(k, s)
RdbDue(k, s) == rdbCallbacks[k][s] # {} /\ k \notin rdbExcused /\ <<k, s>> \notin missed
RdbReachInv == \A k \in RdbKeys, s \in Subs : RdbDue(k, s) => RdbReaches(k, s)

\* A key with an enabled observer is subscribed, or a thread is about to do so.
RdbAsks(t, k) == rdbJob[t].op \in {"subscribe", "enable"} /\ rdbJob[t].k = k
RdbOn(k) == rdbService[k] = "on" \/ \E t \in Threads : RdbAsks(t, k)
RdbOwes(k) == Rdb!KeyEnabled(k) /\ ~rdbLost /\ k \notin rdbExcused
RdbAskInv == \A k \in RdbKeys : RdbOwes(k) => RdbOn(k)

RdbInv == RdbType /\ RdbCountInv /\ RdbMarkInv /\ RdbReachInv /\ RdbAskInv

LEMMA RdbIdle ==
    Rdb!Idle \in RdbJobs /\ Rdb!Idle.op = "idle" /\ Rdb!Idle.k = <<>>
BY DEF Rdb!Idle, RdbJobs, RdbOps

LEMMA InitRdb ==
    ASSUME Rdb!RdbInit
    PROVE  RdbInv
<1>1. /\ rdbCallbacks = [k \in RdbKeys |-> [s \in Subs |-> {}]] /\ rdbLastChange = [k \in RdbKeys |-> 0]
      /\ rdbJob = [t \in Threads |-> Rdb!Idle] /\ emitting = [op |-> "idle", keys |-> {}, fire |-> {}, node |-> 0]
      /\ rdbService = [k \in RdbKeys |-> "none"] /\ rdbChange = 0
      /\ rdbSeen = [k \in RdbKeys |-> [s \in Subs |-> 0]] /\ rdbOwed = rdbSeen
    BY DEF Rdb!RdbInit, Rdb!NotEmitting
<1>2. \A k \in RdbKeys, s \in Subs : rdbCallbacks[k][s] = {} /\ rdbSeen[k][s] = 0 /\ rdbOwed[k][s] = 0
    BY <1>1
<1>3. RdbType
    <2>1. rdbJob \in [Threads -> RdbJobs] /\ \A t \in Threads : rdbJob[t].op = "idle"
        BY <1>1, RdbIdle
    <2>2. rdbCallbacks \in [RdbKeys -> [Subs -> SUBSET Entries]]
        BY <1>1
    <2> QED
        BY <1>1, <2>1, <2>2 DEF RdbType
<1>4. RdbCountInv
    BY <1>1, <1>2 DEF RdbCountInv
<1>5. RdbMarkInv /\ RdbReachInv
    BY <1>2 DEF RdbMarkInv, RdbReachInv, RdbDue
<1>6. RdbAskInv
    BY <1>2 DEF RdbAskInv, RdbOwes, Rdb!KeyEnabled, Rdb!AnyEnabled
<1> QED
    BY <1>3, <1>4, <1>5, <1>6 DEF RdbInv

LEMMA RdbAlone ==
    ASSUME RdbInv, UNCHANGED rdbVars
    PROVE  RdbInv'
<1>1. /\ rdbCallbacks' = rdbCallbacks /\ rdbLastChange' = rdbLastChange /\ rdbJob' = rdbJob /\ emitting' = emitting
      /\ rdbService' = rdbService /\ rdbLost' = rdbLost /\ rdbChange' = rdbChange /\ rdbSeen' = rdbSeen
      /\ rdbOwed' = rdbOwed /\ rdbExcused' = rdbExcused /\ missed' = missed
    BY DEF rdbVars
<1>2. RdbType /\ RdbCountInv /\ RdbMarkInv /\ RdbReachInv /\ RdbAskInv
    BY DEF RdbInv
<1>3. RdbType'
    BY <1>1, <1>2 DEF RdbType
<1>4. RdbCountInv' /\ RdbMarkInv'
    BY <1>1, <1>2 DEF RdbCountInv, RdbMarkInv
<1>5. RdbReachInv'
    BY <1>1, <1>2 DEF RdbReachInv, RdbDue, RdbReaches, Fires, Replays, Marked, Stored
<1>6. RdbAskInv'
    BY <1>1, <1>2 DEF RdbAskInv, RdbOwes, RdbOn, RdbAsks, Rdb!KeyEnabled, Rdb!AnyEnabled
<1> QED
    BY <1>3, <1>4, <1>5, <1>6 DEF RdbInv

LEMMA RdbJobGoes ==
    ASSUME RdbType, NEW t \in Threads, NEW j \in RdbJobs, Rdb!Goes(t, j), j.op # "idle" => j.k \in RdbKeys
    PROVE  /\ rdbJob' \in [Threads -> RdbJobs] /\ rdbJob'[t] = j
           /\ (\A u \in Threads : u # t => rdbJob'[u] = rdbJob[u])
           /\ \A u \in Threads : rdbJob'[u].op # "idle" => rdbJob'[u].k \in RdbKeys
<1>1. rdbJob \in [Threads -> RdbJobs] /\ \A u \in Threads : rdbJob[u].op # "idle" => rdbJob[u].k \in RdbKeys
    BY DEF RdbType
<1>2. rdbJob' = [rdbJob EXCEPT ![t] = j]
    BY DEF Rdb!Goes
<1>3. rdbJob' \in [Threads -> RdbJobs] /\ rdbJob'[t] = j /\ \A u \in Threads : u # t => rdbJob'[u] = rdbJob[u]
    BY <1>1, <1>2
<1> QED
    BY <1>1, <1>3

LEMMA RdbJobMade ==
    ASSUME NEW op \in RdbOps, NEW k \in RdbKeys, NEW S \in SUBSET Subs, NEW n \in Nat
    PROVE  /\ Rdb!Job(op, k, S, n) \in RdbJobs
           /\ Rdb!Job(op, k, S, n).op = op /\ Rdb!Job(op, k, S, n).k = k
           /\ Rdb!Job(op, k, S, n).s = S /\ Rdb!Job(op, k, S, n).node = n
BY DEF Rdb!Job, RdbJobs

\* Where the entries and what they have seen stay, a replay that is due stays due,
\* and a last change is erased only of a key that has no entry or is excused.
LEMMA RdbEntriesStay ==
    ASSUME RdbInv,
           rdbCallbacks' = rdbCallbacks, rdbSeen' = rdbSeen, rdbOwed' = rdbOwed, rdbChange' = rdbChange,
           emitting' = emitting, missed' = missed, rdbExcused \subseteq rdbExcused',
           \A k \in RdbKeys : rdbLastChange'[k] = rdbLastChange[k] \/ k \in rdbExcused' \/ ~Rdb!Observed(k),
           \A t \in Threads, k \in RdbKeys, s \in Subs : Replays(t, k, s) => Replays(t, k, s)'
    PROVE  RdbCountInv' /\ RdbMarkInv' /\ RdbReachInv'
<1>1. RdbCountInv /\ RdbMarkInv /\ RdbReachInv
    BY DEF RdbInv
<1>2. RdbCountInv'
    BY <1>1 DEF RdbCountInv
<1>3. RdbMarkInv'
    BY <1>1 DEF RdbMarkInv
<1>4. ASSUME NEW k \in RdbKeys, NEW s \in Subs, RdbDue(k, s)' PROVE RdbReaches(k, s)'
    <2>1. RdbDue(k, s) /\ rdbCallbacks[k][s] # {} /\ k \notin rdbExcused'
        BY <1>4 DEF RdbDue
    <2>2. rdbLastChange'[k] = rdbLastChange[k]
        BY <2>1 DEF Rdb!Observed
    <2>3. RdbReaches(k, s)
        BY <1>1, <2>1 DEF RdbReachInv
    <2>4. CASE \E t \in Threads : Replays(t, k, s)
        BY <2>4 DEF RdbReaches
    <2>5. CASE rdbSeen[k][s] >= rdbOwed[k][s] \/ Fires(k, s) \/ (Marked(k, s) /\ Stored(k, s))
        BY <2>2, <2>5 DEF RdbReaches, Fires, Marked, Stored
    <2> QED
        BY <2>3, <2>4, <2>5 DEF RdbReaches
<1> QED
    BY <1>2, <1>3, <1>4 DEF RdbReachInv

\* A thread that is neither enabling nor replaying takes its next step, and owes no
\* replay after it.
LEMMA RdbReplaysStay ==
    ASSUME RdbType, NEW t \in Threads, NEW j \in RdbJobs, Rdb!Goes(t, j), rdbOwed' = rdbOwed,
           rdbJob[t].op \notin {"enable", "replay"}, j.op # "idle" => j.k \in RdbKeys
    PROVE  \A u \in Threads, k \in RdbKeys, s \in Subs : Replays(u, k, s) => Replays(u, k, s)'
<1>1. \A u \in Threads : u # t => rdbJob'[u] = rdbJob[u]
    BY RdbJobGoes
<1> QED
    BY <1>1 DEF Replays

\* A key that is not the one of the call is as it was.
LEMMA RdbAskOther ==
    ASSUME RdbInv, NEW t \in Threads, NEW k \in RdbKeys, RdbOwes(k)', RdbOwes(k),
           rdbService'[k] = rdbService[k], \A u \in Threads : u # t => rdbJob'[u] = rdbJob[u],
           RdbAsks(t, k) => RdbAsks(t, k)'
    PROVE  RdbOn(k)'
<1>1. RdbOn(k)
    BY DEF RdbInv, RdbAskInv
<1> QED
    BY <1>1 DEF RdbOn, RdbAsks

LEMMA RdbSubscribe ==
    ASSUME RdbInv, NEW t \in Threads, Rdb!Subscribe(t)
    PROVE  RdbInv'
<1>1. RdbType
    BY DEF RdbInv
<1>2. PICK j : j = rdbJob[t]
    OBVIOUS
<1>3. j \in RdbJobs /\ j.op = "subscribe" /\ j.k \in RdbKeys
    BY <1>1, <1>2 DEF RdbType, Rdb!Subscribe
<1>4. /\ rdbCallbacks' = rdbCallbacks /\ rdbLastChange' = rdbLastChange /\ emitting' = emitting
      /\ rdbLost' = rdbLost /\ rdbChange' = rdbChange /\ rdbSeen' = rdbSeen /\ rdbOwed' = rdbOwed /\ missed' = missed
    BY DEF Rdb!Subscribe
<1>5. \/ rdbService' = [rdbService EXCEPT ![j.k] = "on"] /\ rdbExcused' = rdbExcused
      \/ rdbExcused' = rdbExcused \cup {j.k} /\ rdbService' = rdbService
    BY <1>2 DEF Rdb!Subscribe
<1>6. Rdb!Goes(t, Rdb!Idle)
    BY DEF Rdb!Subscribe
<1>7. /\ rdbJob' \in [Threads -> RdbJobs]
      /\ (\A u \in Threads : u # t => rdbJob'[u] = rdbJob[u])
      /\ \A u \in Threads : rdbJob'[u].op # "idle" => rdbJob'[u].k \in RdbKeys
    BY <1>1, <1>6, RdbIdle, RdbJobGoes
<1>8. RdbType'
    BY <1>1, <1>3, <1>4, <1>5, <1>7 DEF RdbType
<1>9. RdbCountInv' /\ RdbMarkInv' /\ RdbReachInv'
    <2>1. \A u \in Threads, k \in RdbKeys, s \in Subs : Replays(u, k, s) => Replays(u, k, s)'
        BY <1>1, <1>2, <1>3, <1>4, <1>6, RdbIdle, RdbReplaysStay
    <2>2. rdbExcused \subseteq rdbExcused'
        BY <1>5
    <2> QED
        BY <1>4, <2>1, <2>2, RdbEntriesStay
<1>10. ASSUME NEW k \in RdbKeys, RdbOwes(k)' PROVE RdbOn(k)'
    <2>1. CASE k = j.k
        BY <1>1, <1>3, <1>5, <1>10, <2>1 DEF RdbOwes, RdbOn, RdbType
    <2>2. CASE k # j.k
        <3>1. RdbOwes(k) /\ rdbService'[k] = rdbService[k]
            BY <1>1, <1>4, <1>5, <1>10, <2>2 DEF RdbOwes, RdbType, Rdb!KeyEnabled, Rdb!AnyEnabled
        <3>2. ~RdbAsks(t, k)
            BY <1>2, <2>2 DEF RdbAsks
        <3> QED
            BY <1>7, <1>10, <3>1, <3>2, RdbAskOther
    <2> QED
        BY <2>1, <2>2
<1> QED
    BY <1>8, <1>9, <1>10 DEF RdbInv, RdbAskInv

LEMMA RdbEraseLastChange ==
    ASSUME RdbInv, NEW t \in Threads, Rdb!EraseLastChange(t)
    PROVE  RdbInv'
<1>1. RdbType
    BY DEF RdbInv
<1>2. PICK j : j = rdbJob[t]
    OBVIOUS
<1>3. j \in RdbJobs /\ j.op = "erase" /\ j.k \in RdbKeys
    BY <1>1, <1>2 DEF RdbType, Rdb!EraseLastChange
<1>4. /\ rdbCallbacks' = rdbCallbacks /\ emitting' = emitting /\ rdbService' = rdbService
      /\ rdbLost' = rdbLost /\ rdbChange' = rdbChange /\ rdbSeen' = rdbSeen /\ rdbOwed' = rdbOwed /\ missed' = missed
    BY DEF Rdb!EraseLastChange
<1>5. /\ rdbLastChange' = [rdbLastChange EXCEPT ![j.k] = 0]
      /\ rdbExcused' = IF Rdb!Observed(j.k) THEN rdbExcused \cup {j.k} ELSE rdbExcused
    BY <1>2 DEF Rdb!EraseLastChange
<1>6. PICK i : i = Rdb!Job("unsubscribe", j.k, {}, 0)
    OBVIOUS
<1>7. Rdb!Goes(t, i) /\ i \in RdbJobs /\ i.op = "unsubscribe" /\ i.k = j.k
    <2>1. "unsubscribe" \in RdbOps /\ {} \in SUBSET Subs /\ 0 \in Nat
        BY DEF RdbOps
    <2> QED
        BY <1>2, <1>3, <1>6, <2>1, RdbJobMade DEF Rdb!EraseLastChange
<1>8. /\ rdbJob' \in [Threads -> RdbJobs]
      /\ (\A u \in Threads : u # t => rdbJob'[u] = rdbJob[u])
      /\ \A u \in Threads : rdbJob'[u].op # "idle" => rdbJob'[u].k \in RdbKeys
    BY <1>1, <1>3, <1>7, RdbJobGoes
<1>9. RdbType'
    BY <1>1, <1>3, <1>4, <1>5, <1>8 DEF RdbType
<1>10. RdbCountInv' /\ RdbMarkInv' /\ RdbReachInv'
    <2>1. \A u \in Threads, k \in RdbKeys, s \in Subs : Replays(u, k, s) => Replays(u, k, s)'
        BY <1>1, <1>2, <1>3, <1>4, <1>7, RdbReplaysStay
    <2>2. rdbExcused \subseteq rdbExcused'
        BY <1>5
    <2>3. \A k \in RdbKeys : rdbLastChange'[k] = rdbLastChange[k] \/ k \in rdbExcused' \/ ~Rdb!Observed(k)
        BY <1>1, <1>5 DEF RdbType
    <2> QED
        BY <1>4, <2>1, <2>2, <2>3, RdbEntriesStay
<1>11. ASSUME NEW k \in RdbKeys, RdbOwes(k)' PROVE RdbOn(k)'
    <2>1. RdbOwes(k)
        BY <1>4, <1>5, <1>11 DEF RdbOwes, Rdb!KeyEnabled, Rdb!AnyEnabled
    <2>2. ~RdbAsks(t, k)
        BY <1>2, <1>3 DEF RdbAsks
    <2> QED
        BY <1>4, <1>8, <1>11, <2>1, <2>2, RdbAskOther
<1> QED
    BY <1>9, <1>10, <1>11 DEF RdbInv, RdbAskInv

\* The service is told that a key has no observer, or no enabled one, any more.
LEMMA RdbTellsService ==
    ASSUME RdbInv, NEW t \in Threads, Rdb!Unsubscribe(t) \/ Rdb!DisableAtService(t)
    PROVE  RdbInv'
<1>1. RdbType
    BY DEF RdbInv
<1>2. PICK j : j = rdbJob[t]
    OBVIOUS
<1>3. j \in RdbJobs /\ j.op \in {"unsubscribe", "disable"} /\ j.k \in RdbKeys
    BY <1>1, <1>2 DEF RdbType, Rdb!Unsubscribe, Rdb!DisableAtService
<1>4. /\ rdbCallbacks' = rdbCallbacks /\ rdbLastChange' = rdbLastChange /\ emitting' = emitting
      /\ rdbLost' = rdbLost /\ rdbChange' = rdbChange /\ rdbSeen' = rdbSeen /\ rdbOwed' = rdbOwed /\ missed' = missed
    BY DEF Rdb!Unsubscribe, Rdb!DisableAtService
<1>5. rdbService' = rdbService \/ \E x \in {"none", "off"} : rdbService' = [rdbService EXCEPT ![j.k] = x]
    BY <1>2 DEF Rdb!Unsubscribe, Rdb!DisableAtService
<1>6. /\ rdbExcused' \in {rdbExcused, rdbExcused \cup {j.k}}
      /\ rdbService' = rdbService \/ (Rdb!KeyEnabled(j.k) => j.k \in rdbExcused')
    BY <1>2 DEF Rdb!Unsubscribe, Rdb!DisableAtService, Rdb!Observed, Rdb!KeyEnabled, Rdb!AnyEnabled
<1>7. Rdb!Goes(t, Rdb!Idle)
    BY DEF Rdb!Unsubscribe, Rdb!DisableAtService
<1>8. /\ rdbJob' \in [Threads -> RdbJobs]
      /\ (\A u \in Threads : u # t => rdbJob'[u] = rdbJob[u])
      /\ \A u \in Threads : rdbJob'[u].op # "idle" => rdbJob'[u].k \in RdbKeys
    BY <1>1, <1>7, RdbIdle, RdbJobGoes
<1>9. RdbType'
    BY <1>1, <1>3, <1>4, <1>5, <1>8 DEF RdbType
<1>10. RdbCountInv' /\ RdbMarkInv' /\ RdbReachInv'
    <2>1. \A u \in Threads, k \in RdbKeys, s \in Subs : Replays(u, k, s) => Replays(u, k, s)'
        BY <1>1, <1>2, <1>3, <1>4, <1>7, RdbIdle, RdbReplaysStay
    <2>2. rdbExcused \subseteq rdbExcused'
        BY <1>6
    <2> QED
        BY <1>4, <2>1, <2>2, RdbEntriesStay
<1>11. ASSUME NEW k \in RdbKeys, RdbOwes(k)' PROVE RdbOn(k)'
    <2>1. RdbOwes(k) /\ (rdbService' = rdbService \/ k # j.k)
        BY <1>4, <1>6, <1>11 DEF RdbOwes, Rdb!KeyEnabled, Rdb!AnyEnabled
    <2>2. ~RdbAsks(t, k) /\ rdbService'[k] = rdbService[k]
        BY <1>1, <1>2, <1>3, <1>5, <2>1 DEF RdbAsks, RdbType
    <2> QED
        BY <1>8, <1>11, <2>1, <2>2, RdbAskOther
<1> QED
    BY <1>9, <1>10, <1>11 DEF RdbInv, RdbAskInv

LEMMA RdbEnableAtService ==
    ASSUME RdbInv, NEW t \in Threads, Rdb!EnableAtService(t)
    PROVE  RdbInv'
<1>1. RdbType
    BY DEF RdbInv
<1>2. PICK j, i : j = rdbJob[t] /\ i = [j EXCEPT !.op = "replay"]
    OBVIOUS
<1>3. j \in RdbJobs /\ j.op = "enable" /\ j.k \in RdbKeys
    BY <1>1, <1>2 DEF RdbType, Rdb!EnableAtService
<1>4. i \in RdbJobs /\ i.op = "replay" /\ i.k = j.k /\ i.s = j.s /\ i.node = j.node
    BY <1>2, <1>3 DEF RdbJobs, RdbOps
<1>5. /\ rdbCallbacks' = rdbCallbacks /\ rdbLastChange' = rdbLastChange /\ emitting' = emitting
      /\ rdbLost' = rdbLost /\ rdbChange' = rdbChange /\ rdbSeen' = rdbSeen /\ rdbOwed' = rdbOwed /\ missed' = missed
    BY DEF Rdb!EnableAtService
<1>6. \/ rdbService' = [rdbService EXCEPT ![j.k] = "on"] /\ rdbExcused' = rdbExcused
      \/ rdbExcused' = rdbExcused \cup {j.k} /\ rdbService' = rdbService
    BY <1>2 DEF Rdb!EnableAtService
<1>7. Rdb!Goes(t, i)
    BY <1>2 DEF Rdb!EnableAtService
<1>8. /\ rdbJob' \in [Threads -> RdbJobs] /\ rdbJob'[t] = i
      /\ (\A u \in Threads : u # t => rdbJob'[u] = rdbJob[u])
      /\ \A u \in Threads : rdbJob'[u].op # "idle" => rdbJob'[u].k \in RdbKeys
    BY <1>1, <1>3, <1>4, <1>7, RdbJobGoes
<1>9. RdbType'
    BY <1>1, <1>3, <1>5, <1>6, <1>8 DEF RdbType
<1>10. RdbCountInv' /\ RdbMarkInv' /\ RdbReachInv'
    <2>1. ASSUME NEW u \in Threads, NEW k \in RdbKeys, NEW s \in Subs, Replays(u, k, s) PROVE Replays(u, k, s)'
        <3>1. CASE u = t
            BY <1>2, <1>4, <1>5, <1>8, <2>1, <3>1 DEF Replays
        <3>2. CASE u # t
            BY <1>5, <1>8, <2>1, <3>2 DEF Replays
        <3> QED
            BY <3>1, <3>2
    <2>2. rdbExcused \subseteq rdbExcused'
        BY <1>6
    <2> QED
        BY <1>5, <2>1, <2>2, RdbEntriesStay
<1>11. ASSUME NEW k \in RdbKeys, RdbOwes(k)' PROVE RdbOn(k)'
    <2>1. CASE k = j.k
        BY <1>1, <1>3, <1>6, <1>11, <2>1 DEF RdbOwes, RdbOn, RdbType
    <2>2. CASE k # j.k
        <3>1. RdbOwes(k) /\ rdbService'[k] = rdbService[k]
            BY <1>1, <1>5, <1>6, <1>11, <2>2 DEF RdbOwes, RdbType, Rdb!KeyEnabled, Rdb!AnyEnabled
        <3>2. ~RdbAsks(t, k)
            BY <1>2, <2>2 DEF RdbAsks
        <3> QED
            BY <1>8, <1>11, <3>1, <3>2, RdbAskOther
    <2> QED
        BY <2>1, <2>2
<1> QED
    BY <1>9, <1>10, <1>11 DEF RdbInv, RdbAskInv

LEMMA RdbServiceRestarts ==
    ASSUME RdbInv, Rdb!ServiceRestarts
    PROVE  RdbInv'
<1>1. RdbType
    BY DEF RdbInv
<1>2. /\ rdbCallbacks' = rdbCallbacks /\ rdbLastChange' = rdbLastChange /\ emitting' = emitting /\ rdbJob' = rdbJob
      /\ rdbChange' = rdbChange /\ rdbSeen' = rdbSeen /\ rdbOwed' = rdbOwed /\ missed' = missed
      /\ rdbExcused' = rdbExcused /\ rdbService' = [k \in RdbKeys |-> "none"] /\ rdbLost' = TRUE
    BY DEF Rdb!ServiceRestarts
<1>3. RdbType'
    BY <1>1, <1>2 DEF RdbType
<1>4. RdbCountInv' /\ RdbMarkInv' /\ RdbReachInv'
    <2>1. \A u \in Threads, k \in RdbKeys, s \in Subs : Replays(u, k, s) => Replays(u, k, s)'
        BY <1>2 DEF Replays
    <2>2. rdbExcused \subseteq rdbExcused'
        BY <1>2
    <2> QED
        BY <1>2, <2>1, <2>2, RdbEntriesStay
<1>5. RdbAskInv'
    BY <1>2 DEF RdbAskInv, RdbOwes
<1> QED
    BY <1>3, <1>4, <1>5 DEF RdbInv

LEMMA RdbRecoverObservers ==
    ASSUME RdbInv, NEW t \in Threads, Rdb!RecoverObservers(t)
    PROVE  RdbInv'
<1>1. RdbType
    BY DEF RdbInv
<1>2. /\ rdbCallbacks' = rdbCallbacks /\ rdbLastChange' = rdbLastChange /\ emitting' = emitting /\ rdbJob' = rdbJob
      /\ rdbChange' = rdbChange /\ rdbSeen' = rdbSeen /\ rdbOwed' = rdbOwed /\ missed' = missed
    BY DEF Rdb!RecoverObservers
<1>3. PICK keys, bad : /\ keys = {k \in RdbKeys : Rdb!Observed(k)} /\ rdbExcused' = rdbExcused \cup bad
                       /\ rdbService' = [k \in RdbKeys |-> IF k \in keys \ bad THEN "on" ELSE rdbService[k]]
    BY DEF Rdb!RecoverObservers
<1>4. RdbType'
    BY <1>1, <1>2, <1>3 DEF RdbType
<1>5. RdbCountInv' /\ RdbMarkInv' /\ RdbReachInv'
    <2>1. \A u \in Threads, k \in RdbKeys, s \in Subs : Replays(u, k, s) => Replays(u, k, s)'
        BY <1>2 DEF Replays
    <2>2. rdbExcused \subseteq rdbExcused'
        BY <1>3
    <2> QED
        BY <1>2, <2>1, <2>2, RdbEntriesStay
<1>6. ASSUME NEW k \in RdbKeys, RdbOwes(k)' PROVE rdbService'[k] = "on"
    <2>1. k \notin rdbExcused' /\ Rdb!KeyEnabled(k)
        BY <1>2, <1>6 DEF RdbOwes, Rdb!KeyEnabled, Rdb!AnyEnabled
    <2>2. Rdb!Observed(k)
        BY <2>1 DEF Rdb!Observed, Rdb!KeyEnabled, Rdb!AnyEnabled
    <2> QED
        BY <1>3, <2>1, <2>2
<1> QED
    BY <1>4, <1>5, <1>6 DEF RdbInv, RdbAskInv, RdbOn

LEMMA RdbDelivers ==
    ASSUME RdbType, NEW k0 \in RdbKeys, NEW S, NEW n \in Nat, Rdb!Delivers(k0, S, n)
    PROVE  /\ rdbSeen' \in [RdbKeys -> [Subs -> Nat]]
           /\ \A k \in RdbKeys, s \in Subs : rdbSeen'[k][s] >= rdbSeen[k][s]
           /\ \A s \in Subs : s \in S => rdbSeen'[k0][s] >= n
<1>1. rdbSeen \in [RdbKeys -> [Subs -> Nat]]
    BY DEF RdbType
<1>2. PICK f : f = [s \in Subs |-> IF s \in S THEN Rdb!Later(rdbSeen[k0][s], n) ELSE rdbSeen[k0][s]]
    OBVIOUS
<1>3. rdbSeen' = [rdbSeen EXCEPT ![k0] = f]
    BY <1>2 DEF Rdb!Delivers
<1>4. f \in [Subs -> Nat] /\ \A s \in Subs : f[s] >= rdbSeen[k0][s] /\ (s \in S => f[s] >= n)
    BY <1>1, <1>2 DEF Rdb!Later
<1>5. rdbSeen'[k0] = f /\ \A k \in RdbKeys : k # k0 => rdbSeen'[k] = rdbSeen[k]
    BY <1>1, <1>3
<1>6. rdbSeen' \in [RdbKeys -> [Subs -> Nat]]
    BY <1>1, <1>3, <1>4
<1>7. ASSUME NEW k \in RdbKeys, NEW s \in Subs PROVE rdbSeen'[k][s] >= rdbSeen[k][s]
    <2>1. rdbSeen[k][s] \in Nat
        BY <1>1
    <2> QED
        BY <1>4, <1>5, <2>1
<1> QED
    BY <1>4, <1>5, <1>6, <1>7

\* A change is delivered to the observers of a thread's call, which then ends.
LEMMA RdbReplay ==
    ASSUME RdbInv, NEW t \in Threads, Rdb!LocalRegister(t) \/ Rdb!Replay(t)
    PROVE  RdbInv'
<1>1. RdbType /\ RdbCountInv /\ RdbMarkInv /\ RdbReachInv /\ RdbAskInv
    BY DEF RdbInv
<1>2. PICK j, n : /\ j = rdbJob[t] /\ Rdb!Delivers(j.k, j.s, n)
                  /\ (j.op = "local" /\ n = rdbLastChange[j.k]) \/ (j.op = "replay" /\ n = j.node)
    BY DEF Rdb!LocalRegister, Rdb!Replay
<1>3. j \in RdbJobs /\ j.k \in RdbKeys
    BY <1>1, <1>2 DEF RdbType
<1>4. n \in Nat
    BY <1>1, <1>2, <1>3 DEF RdbType, RdbJobs
<1>5. /\ rdbCallbacks' = rdbCallbacks /\ rdbLastChange' = rdbLastChange /\ emitting' = emitting
      /\ rdbService' = rdbService /\ rdbExcused' = rdbExcused
      /\ rdbLost' = rdbLost /\ rdbChange' = rdbChange /\ rdbOwed' = rdbOwed /\ missed' = missed
    BY DEF Rdb!LocalRegister, Rdb!Replay
<1>6. Rdb!Goes(t, Rdb!Idle)
    BY DEF Rdb!LocalRegister, Rdb!Replay
<1>7. /\ rdbJob' \in [Threads -> RdbJobs]
      /\ (\A u \in Threads : u # t => rdbJob'[u] = rdbJob[u])
      /\ \A u \in Threads : rdbJob'[u].op # "idle" => rdbJob'[u].k \in RdbKeys
    BY <1>1, <1>6, RdbIdle, RdbJobGoes
<1>8. PICK S, k0 : S = j.s /\ k0 = j.k
    OBVIOUS
<1>9. /\ rdbSeen' \in [RdbKeys -> [Subs -> Nat]]
      /\ \A k \in RdbKeys, s \in Subs : rdbSeen'[k][s] >= rdbSeen[k][s]
      /\ \A s \in Subs : s \in S => rdbSeen'[k0][s] >= n
    <2>1. Rdb!Delivers(k0, S, n) /\ k0 \in RdbKeys
        BY <1>2, <1>3, <1>8
    <2> QED
        BY <1>1, <1>4, <2>1, RdbDelivers
<1>10. RdbType'
    BY <1>1, <1>5, <1>7, <1>9 DEF RdbType
<1>11. RdbCountInv' /\ RdbMarkInv'
    BY <1>1, <1>5 DEF RdbCountInv, RdbMarkInv
<1>12. ASSUME NEW k \in RdbKeys, NEW s \in Subs, RdbDue(k, s)' PROVE RdbReaches(k, s)'
    <2>1. RdbReaches(k, s)
        BY <1>1, <1>5, <1>12 DEF RdbReachInv, RdbDue
    <2>2. rdbSeen[k][s] \in Nat /\ rdbSeen'[k][s] \in Nat /\ rdbOwed[k][s] \in Nat /\ rdbSeen'[k][s] >= rdbSeen[k][s]
        BY <1>1, <1>9 DEF RdbType
    <2>3. CASE rdbSeen[k][s] >= rdbOwed[k][s]
        BY <1>5, <2>2, <2>3 DEF RdbReaches
    <2>4. ASSUME NEW u \in Threads, Replays(u, k, s) PROVE RdbReaches(k, s)'
        <3>1. CASE u = t
            <4>1. rdbSeen'[k][s] >= n /\ n >= rdbOwed[k][s]
                BY <1>2, <1>8, <1>9, <2>4, <3>1 DEF Replays
            <4> QED
                BY <1>4, <1>5, <2>2, <4>1 DEF RdbReaches
        <3>2. CASE u # t
            BY <1>5, <1>7, <2>4, <3>2 DEF Replays, RdbReaches
        <3> QED
            BY <3>1, <3>2
    <2>5. CASE Fires(k, s) \/ (Marked(k, s) /\ Stored(k, s))
        BY <1>5, <2>5 DEF RdbReaches, Fires, Marked, Stored
    <2> QED
        BY <2>1, <2>3, <2>4, <2>5 DEF RdbReaches
<1>13. ASSUME NEW k \in RdbKeys, RdbOwes(k)' PROVE RdbOn(k)'
    <2>1. RdbOwes(k)
        BY <1>5, <1>13 DEF RdbOwes, Rdb!KeyEnabled, Rdb!AnyEnabled
    <2>2. ~RdbAsks(t, k)
        BY <1>2 DEF RdbAsks
    <2> QED
        BY <1>5, <1>7, <1>13, <2>1, <2>2, RdbAskOther
<1> QED
    BY <1>10, <1>11, <1>12, <1>13 DEF RdbInv, RdbAskInv, RdbReachInv

LEMMA Update2 ==
    ASSUME NEW A, NEW B, NEW V, NEW f \in [A -> [B -> V]], NEW a \in A, NEW b \in B, NEW v \in V,
           NEW g, g = [f EXCEPT ![a][b] = v]
    PROVE  /\ g \in [A -> [B -> V]] /\ g[a][b] = v
           /\ \A x \in A, y \in B : x # a \/ y # b => g[x][y] = f[x][y]
<1>1. PICK h : h = [f[a] EXCEPT ![b] = v]
    OBVIOUS
<1>2. f[a] \in [B -> V]
    OBVIOUS
<1>3. h \in [B -> V] /\ h[b] = v /\ \A y \in B : y # b => h[y] = f[a][y]
    BY <1>1, <1>2
<1>4. g = [f EXCEPT ![a] = h]
    BY <1>1
<1>5. g \in [A -> [B -> V]] /\ g[a] = h /\ \A x \in A : x # a => g[x] = f[x]
    BY <1>3, <1>4
<1> QED
    BY <1>3, <1>5

\* A thread that begins a call had nothing to do.
LEMMA RdbBegins ==
    ASSUME RdbType, NEW t \in Threads, Rdb!Begin(t)
    PROVE  rdbJob[t].op = "idle" /\ (\A k \in RdbKeys : ~RdbAsks(t, k)) /\ \A k \in RdbKeys, s \in Subs : ~Replays(t, k, s)
<1>1. rdbJob[t].op = "idle"
    BY RdbIdle DEF Rdb!Begin
<1> QED
    BY <1>1 DEF RdbAsks, Replays

\* An observer that reaches its changes still does so when its entries stay or gain
\* one, and the call of a thread that owed it nothing goes on.
LEMMA RdbReachStays ==
    ASSUME RdbInv, NEW t \in Threads, NEW k \in RdbKeys, NEW s \in Subs, RdbDue(k, s),
           Marked(k, s) => Marked(k, s)', rdbOwed'[k][s] = rdbOwed[k][s], rdbSeen'[k][s] = rdbSeen[k][s],
           rdbLastChange' = rdbLastChange, emitting' = emitting,
           \A u \in Threads : u # t => rdbJob'[u] = rdbJob[u], ~Replays(t, k, s)
    PROVE  RdbReaches(k, s)'
<1>1. RdbReaches(k, s)
    BY DEF RdbInv, RdbReachInv
<1>2. CASE \E u \in Threads : Replays(u, k, s)
    BY <1>2 DEF RdbReaches, Replays
<1>3. CASE rdbSeen[k][s] >= rdbOwed[k][s] \/ Fires(k, s)
    BY <1>3 DEF RdbReaches, Fires
<1>4. CASE Marked(k, s) /\ Stored(k, s)
    <2>1. Marked(k, s)' /\ Stored(k, s)'
        BY <1>4 DEF Stored
    <2> QED
        BY <2>1 DEF RdbReaches
<1> QED
    BY <1>1, <1>2, <1>3, <1>4 DEF RdbReaches

LEMMA RdbEntry ==
    Rdb!Entry \in Entries /\ Rdb!Entry.enabled = TRUE /\ Rdb!Entry.notify = FALSE
BY DEF Rdb!Entry, Entries

LEMMA RdbAddObservers ==
    ASSUME RdbInv, NEW t \in Threads, NEW k0 \in RdbKeys, NEW s0 \in Subs, Rdb!AddObservers(t, k0, s0)
    PROVE  RdbInv'
<1>1. RdbType /\ RdbCountInv /\ RdbMarkInv /\ RdbReachInv /\ RdbAskInv
    BY DEF RdbInv
<1>2. /\ rdbLastChange' = rdbLastChange /\ emitting' = emitting /\ rdbService' = rdbService /\ rdbExcused' = rdbExcused
      /\ rdbLost' = rdbLost /\ rdbChange' = rdbChange /\ rdbSeen' = rdbSeen /\ rdbOwed' = rdbOwed /\ missed' = missed
    BY DEF Rdb!AddObservers
<1>3. PICK j : j = IF Rdb!KeyEnabled(k0) THEN Rdb!Job("local", k0, {s0}, 0) ELSE Rdb!Job("subscribe", k0, {s0}, 0)
    OBVIOUS
<1> Rdb!Goes(t, j)
    BY <1>3 DEF Rdb!AddObservers
<1>4. j \in RdbJobs /\ j.op = (IF Rdb!KeyEnabled(k0) THEN "local" ELSE "subscribe") /\ j.k = k0
    BY <1>3 DEF Rdb!Job, RdbJobs, RdbOps
<1>5. /\ rdbJob' \in [Threads -> RdbJobs] /\ rdbJob'[t] = j
      /\ (\A u \in Threads : u # t => rdbJob'[u] = rdbJob[u])
      /\ \A u \in Threads : rdbJob'[u].op # "idle" => rdbJob'[u].k \in RdbKeys
    BY <1>1, <1>3, <1>4, RdbJobGoes
<1>6. PICK E, C : E = rdbCallbacks[k0][s0] \cup {Rdb!Entry} /\ C = rdbCallbacks'
    OBVIOUS
<1>7. E \in SUBSET Entries /\ Rdb!Entry.enabled /\ ~Rdb!Entry.notify
    BY <1>1, <1>6, RdbEntry DEF RdbType
<1>8. /\ C \in [RdbKeys -> [Subs -> SUBSET Entries]] /\ C[k0][s0] = E
      /\ \A k \in RdbKeys, s \in Subs : k # k0 \/ s # s0 => C[k][s] = rdbCallbacks[k][s]
    <2>1. rdbCallbacks \in [RdbKeys -> [Subs -> SUBSET Entries]] /\ C = [rdbCallbacks EXCEPT ![k0][s0] = E]
        BY <1>1, <1>6 DEF RdbType, Rdb!AddObservers
    <2> QED
        BY <1>7, <2>1, Update2
<1>9. RdbType'
    BY <1>1, <1>2, <1>5, <1>6, <1>8 DEF RdbType
<1>10. RdbCountInv' /\ RdbMarkInv'
    <2>1. \A k \in RdbKeys, s \in Subs : C[k][s] = {} => rdbCallbacks[k][s] = {}
        BY <1>6, <1>8
    <2>2. \A k \in RdbKeys, s \in Subs : \A e \in C[k][s] : e \in rdbCallbacks[k][s] \/ e = Rdb!Entry
        BY <1>6, <1>8
    <2>3. RdbCountInv'
        BY <1>1, <1>2, <1>6, <2>1 DEF RdbCountInv
    <2>4. RdbMarkInv'
        BY <1>1, <1>6, <1>7, <2>2 DEF RdbMarkInv
    <2> QED
        BY <2>3, <2>4
<1>11. Rdb!Begin(t)
    BY DEF Rdb!AddObservers
<1>12. ASSUME NEW k \in RdbKeys, NEW s \in Subs, RdbDue(k, s)' PROVE RdbReaches(k, s)'
    <2>1. CASE rdbCallbacks[k][s] = {}
        <3>1. rdbOwed'[k][s] = 0 /\ rdbSeen'[k][s] \in Nat
            BY <1>1, <1>2, <2>1 DEF RdbCountInv, RdbType
        <3> QED
            BY <3>1 DEF RdbReaches
    <2>2. CASE rdbCallbacks[k][s] # {}
        <3>1. RdbDue(k, s)
            BY <1>2, <1>12, <2>2 DEF RdbDue
        <3>2. Marked(k, s) => Marked(k, s)'
            BY <1>6, <1>8 DEF Marked
        <3>3. ~Replays(t, k, s)
            BY <1>1, <1>11, RdbBegins
        <3> QED
            BY <1>2, <1>5, <3>1, <3>2, <3>3, RdbReachStays
    <2> QED
        BY <2>1, <2>2
<1>13. ASSUME NEW k \in RdbKeys, RdbOwes(k)' PROVE RdbOn(k)'
    <2>1. CASE Rdb!KeyEnabled(k)
        <3>1. RdbOwes(k)
            BY <1>2, <1>13, <2>1 DEF RdbOwes
        <3>2. ~RdbAsks(t, k)
            BY <1>1, <1>11, RdbBegins
        <3> QED
            BY <1>2, <1>5, <1>13, <3>1, <3>2, RdbAskOther
    <2>2. CASE ~Rdb!KeyEnabled(k)
        <3>1. k = k0
            BY <1>6, <1>8, <1>13, <2>2 DEF RdbOwes, Rdb!KeyEnabled, Rdb!AnyEnabled
        <3> QED
            BY <1>4, <1>5, <2>2, <3>1 DEF RdbOn, RdbAsks
    <2> QED
        BY <2>1, <2>2
<1> QED
    BY <1>9, <1>10, <1>12, <1>13 DEF RdbInv, RdbAskInv, RdbReachInv

\* Entries are removed, disabled or marked, or stay: an observer has no enabled entry
\* that it had not, and keeps the marks it had or is gone.
LEMMA RdbLessEnabled ==
    ASSUME RdbInv, NEW t \in Threads, Rdb!Begin(t), RdbType', RdbCountInv', RdbMarkInv',
           rdbLastChange' = rdbLastChange, emitting' = emitting, rdbService' = rdbService, rdbExcused' = rdbExcused,
           rdbLost' = rdbLost, missed' = missed,
           \A u \in Threads : u # t => rdbJob'[u] = rdbJob[u],
           \A k \in RdbKeys, s \in Subs :
               \/ rdbCallbacks'[k][s] = {}
               \/ /\ rdbOwed'[k][s] = rdbOwed[k][s] /\ rdbSeen'[k][s] = rdbSeen[k][s]
                  /\ rdbCallbacks[k][s] # {} /\ Marked(k, s) => Marked(k, s)',
           \A k \in RdbKeys, s \in Subs : \A e \in rdbCallbacks'[k][s] :
               rdbCallbacks[k][s] # {} /\ (e.enabled => e \in rdbCallbacks[k][s])
    PROVE  RdbInv'
<1>1. ASSUME NEW k \in RdbKeys, NEW s \in Subs, RdbDue(k, s)' PROVE RdbReaches(k, s)'
    <2>1. /\ rdbCallbacks'[k][s] # {} /\ rdbCallbacks[k][s] # {}
          /\ rdbOwed'[k][s] = rdbOwed[k][s] /\ rdbSeen'[k][s] = rdbSeen[k][s]
        BY <1>1 DEF RdbDue
    <2>2. Marked(k, s) => Marked(k, s)'
        BY <2>1
    <2>3. RdbDue(k, s)
        BY <1>1, <2>1 DEF RdbDue
    <2>4. ~Replays(t, k, s)
        BY RdbBegins DEF RdbInv
    <2> QED
        BY <2>1, <2>2, <2>3, <2>4, RdbReachStays
<1>2. ASSUME NEW k \in RdbKeys, RdbOwes(k)' PROVE RdbOn(k)'
    <2>1. RdbOwes(k)
        BY <1>2 DEF RdbOwes, Rdb!KeyEnabled, Rdb!AnyEnabled
    <2>2. ~RdbAsks(t, k)
        BY RdbBegins DEF RdbInv
    <2> QED
        BY <1>2, <2>1, <2>2, RdbAskOther
<1> QED
    BY <1>1, <1>2 DEF RdbInv, RdbAskInv, RdbReachInv

\* What is seen and owed is forgotten with the entries.
LEMMA RdbForget ==
    ASSUME NEW f \in [RdbKeys -> [Subs -> Nat]], NEW ks, NEW s0 \in Subs, NEW g, g = Rdb!Forget(f, ks, s0)
    PROVE  /\ g \in [RdbKeys -> [Subs -> Nat]]
           /\ \A k \in RdbKeys, s \in Subs : g[k][s] = IF k \in ks /\ s = s0 THEN 0 ELSE f[k][s]
<1>1. \A k \in RdbKeys : f[k] \in [Subs -> Nat] /\ [f[k] EXCEPT ![s0] = 0] \in [Subs -> Nat]
    OBVIOUS
<1>2. g = [k \in RdbKeys |-> IF k \in ks THEN [f[k] EXCEPT ![s0] = 0] ELSE f[k]]
    BY DEF Rdb!Forget
<1>3. g \in [RdbKeys -> [Subs -> Nat]]
    BY <1>1, <1>2
<1> QED
    BY <1>1, <1>2, <1>3

LEMMA RdbDelObservers ==
    ASSUME RdbInv, NEW t \in Threads, NEW s0 \in Subs,
           (\E k \in RdbKeys : Rdb!DelObservers(t, k, s0)) \/ Rdb!DelAllObservers(t, s0)
    PROVE  RdbInv'
<1>1. RdbType /\ RdbCountInv /\ RdbMarkInv
    BY DEF RdbInv
<1>2. /\ rdbLastChange' = rdbLastChange /\ emitting' = emitting /\ rdbService' = rdbService /\ rdbExcused' = rdbExcused
      /\ rdbLost' = rdbLost /\ rdbChange' = rdbChange /\ missed' = missed /\ Rdb!Begin(t)
    BY DEF Rdb!DelObservers, Rdb!DelAllObservers
<1>3. /\ rdbJob' \in [Threads -> RdbJobs]
      /\ (\A u \in Threads : u # t => rdbJob'[u] = rdbJob[u])
      /\ \A u \in Threads : rdbJob'[u].op # "idle" => rdbJob'[u].k \in RdbKeys
    <2>1. CASE rdbJob' = rdbJob
        BY <1>1, <2>1 DEF RdbType
    <2>2. ASSUME NEW k \in RdbKeys, Rdb!DelObservers(t, k, s0) PROVE <1>3!:
        <3>1. PICK j : Rdb!Goes(t, j) /\ (j = Rdb!Idle \/ j = Rdb!Job("erase", k, {}, 0))
            BY <2>2 DEF Rdb!DelObservers
        <3>2. j \in RdbJobs /\ (j.op # "idle" => j.k \in RdbKeys)
            BY <3>1, RdbIdle DEF Rdb!Job, RdbJobs, RdbOps
        <3> QED
            BY <1>1, <3>1, <3>2, RdbJobGoes
    <2> QED
        BY <2>1, <2>2 DEF Rdb!DelAllObservers
<1>4. PICK ks : /\ ks \subseteq RdbKeys /\ rdbSeen' = Rdb!Forget(rdbSeen, ks, s0) /\ rdbOwed' = Rdb!Forget(rdbOwed, ks, s0)
                /\ rdbCallbacks' = [k \in RdbKeys |-> IF k \in ks THEN [rdbCallbacks[k] EXCEPT ![s0] = {}] ELSE rdbCallbacks[k]]
    <2>1. CASE Rdb!DelAllObservers(t, s0)
        BY <2>1 DEF Rdb!DelAllObservers
    <2>2. ASSUME NEW k0 \in RdbKeys, Rdb!DelObservers(t, k0, s0) PROVE
            /\ {k0} \subseteq RdbKeys /\ rdbSeen' = Rdb!Forget(rdbSeen, {k0}, s0) /\ rdbOwed' = Rdb!Forget(rdbOwed, {k0}, s0)
            /\ rdbCallbacks' = [k \in RdbKeys |-> IF k \in {k0} THEN [rdbCallbacks[k] EXCEPT ![s0] = {}] ELSE rdbCallbacks[k]]
        <3>1. rdbCallbacks' = [rdbCallbacks EXCEPT ![k0] = [rdbCallbacks[k0] EXCEPT ![s0] = {}]]
            BY <2>2 DEF Rdb!DelObservers
        <3>2. rdbCallbacks = [k \in RdbKeys |-> rdbCallbacks[k]]
            BY <1>1 DEF RdbType
        <3> QED
            BY <2>2, <3>1, <3>2 DEF Rdb!DelObservers
    <2> QED
        BY <2>1, <2>2
<1>5. PICK C, S, W : C = rdbCallbacks' /\ S = rdbSeen' /\ W = rdbOwed'
    OBVIOUS
<1>6. /\ C \in [RdbKeys -> [Subs -> SUBSET Entries]]
      /\ \A k \in RdbKeys, s \in Subs : C[k][s] = IF k \in ks /\ s = s0 THEN {} ELSE rdbCallbacks[k][s]
    <2>1. \A k \in RdbKeys : rdbCallbacks[k] \in [Subs -> SUBSET Entries] /\ [rdbCallbacks[k] EXCEPT ![s0] = {}] \in [Subs -> SUBSET Entries]
        BY <1>1 DEF RdbType
    <2> QED
        BY <1>4, <1>5, <2>1
<1>7. /\ S \in [RdbKeys -> [Subs -> Nat]] /\ W \in [RdbKeys -> [Subs -> Nat]]
      /\ \A k \in RdbKeys, s \in Subs : S[k][s] = IF k \in ks /\ s = s0 THEN 0 ELSE rdbSeen[k][s]
      /\ \A k \in RdbKeys, s \in Subs : W[k][s] = IF k \in ks /\ s = s0 THEN 0 ELSE rdbOwed[k][s]
    <2>1. rdbSeen \in [RdbKeys -> [Subs -> Nat]] /\ rdbOwed \in [RdbKeys -> [Subs -> Nat]]
        BY <1>1 DEF RdbType
    <2> QED
        BY <1>4, <1>5, <2>1, RdbForget
<1>8. RdbType'
    BY <1>1, <1>2, <1>3, <1>5, <1>6, <1>7 DEF RdbType
<1>9. RdbCountInv'
    <2>1. ASSUME NEW k \in RdbKeys, NEW s \in Subs PROVE W[k][s] <= rdbChange
        <3>1. rdbOwed[k][s] \in Nat /\ rdbOwed[k][s] <= rdbChange /\ rdbChange \in Nat
            BY <1>1 DEF RdbCountInv, RdbType
        <3> QED
            BY <1>7, <3>1
    <2>2. \A k \in RdbKeys, s \in Subs : C[k][s] = {} => W[k][s] = 0
        BY <1>1, <1>6, <1>7 DEF RdbCountInv
    <2> QED
        BY <1>1, <1>2, <1>5, <2>1, <2>2 DEF RdbCountInv
<1>10. RdbMarkInv'
    BY <1>1, <1>5, <1>6 DEF RdbMarkInv
<1>11. \A k \in RdbKeys, s \in Subs :
           \/ rdbCallbacks'[k][s] = {}
           \/ /\ rdbOwed'[k][s] = rdbOwed[k][s] /\ rdbSeen'[k][s] = rdbSeen[k][s]
              /\ rdbCallbacks[k][s] # {} /\ Marked(k, s) => Marked(k, s)'
    BY <1>5, <1>6, <1>7 DEF Marked
<1>12. \A k \in RdbKeys, s \in Subs : \A e \in rdbCallbacks'[k][s] :
           rdbCallbacks[k][s] # {} /\ (e.enabled => e \in rdbCallbacks[k][s])
    BY <1>5, <1>6
<1> QED
    BY <1>2, <1>3, <1>8, <1>9, <1>10, <1>11, <1>12, RdbLessEnabled

LEMMA RdbDisableObservers ==
    ASSUME RdbInv, NEW t \in Threads, NEW k0 \in RdbKeys, NEW s0 \in Subs, Rdb!DisableObservers(t, k0, s0)
    PROVE  RdbInv'
<1>1. RdbType /\ RdbCountInv /\ RdbMarkInv
    BY DEF RdbInv
<1>2. /\ rdbLastChange' = rdbLastChange /\ emitting' = emitting /\ rdbService' = rdbService /\ rdbExcused' = rdbExcused
      /\ rdbLost' = rdbLost /\ rdbChange' = rdbChange /\ rdbSeen' = rdbSeen /\ rdbOwed' = rdbOwed /\ missed' = missed
      /\ Rdb!Begin(t)
    BY DEF Rdb!DisableObservers
<1>3. /\ rdbJob' \in [Threads -> RdbJobs]
      /\ (\A u \in Threads : u # t => rdbJob'[u] = rdbJob[u])
      /\ \A u \in Threads : rdbJob'[u].op # "idle" => rdbJob'[u].k \in RdbKeys
    <2>1. PICK j : Rdb!Goes(t, j) /\ (j = Rdb!Idle \/ j = Rdb!Job("disable", k0, {}, 0))
        BY DEF Rdb!DisableObservers
    <2>2. j \in RdbJobs /\ (j.op # "idle" => j.k \in RdbKeys)
        BY <2>1, RdbIdle DEF Rdb!Job, RdbJobs, RdbOps
    <2> QED
        BY <1>1, <2>1, <2>2, RdbJobGoes
<1>4. PICK D, E, C : /\ D = rdbCallbacks[k0][s0] /\ C = rdbCallbacks'
                     /\ E = {IF e.enabled THEN [enabled |-> FALSE, notify |-> FALSE] ELSE e : e \in D}
    OBVIOUS
<1>5. D \in SUBSET Entries /\ D # {} /\ \A e \in D : e.notify => ~e.enabled
    BY <1>1, <1>4 DEF RdbType, RdbMarkInv, Rdb!DisableObservers
<1>6. E \in SUBSET Entries /\ \A e \in E : ~e.enabled /\ (e.notify => e \in D)
    <2>1. ASSUME NEW e \in E PROVE e \in Entries /\ ~e.enabled /\ (e.notify => e \in D)
        <3>1. PICK d \in D : e = IF d.enabled THEN [enabled |-> FALSE, notify |-> FALSE] ELSE d
            BY <1>4
        <3>2. CASE d.enabled
            <4>1. e = [enabled |-> FALSE, notify |-> FALSE]
                BY <3>1, <3>2
            <4> QED
                BY <4>1 DEF Entries
        <3>3. CASE ~d.enabled
            BY <1>5, <3>1, <3>3
        <3> QED
            BY <3>2, <3>3
    <2> QED
        BY <2>1
<1>7. \A e \in D : e.notify => e \in E
    BY <1>4, <1>5
<1>8. /\ C \in [RdbKeys -> [Subs -> SUBSET Entries]] /\ C[k0][s0] = E
      /\ \A k \in RdbKeys, s \in Subs : k # k0 \/ s # s0 => C[k][s] = rdbCallbacks[k][s]
    <2>1. rdbCallbacks \in [RdbKeys -> [Subs -> SUBSET Entries]] /\ C = [rdbCallbacks EXCEPT ![k0][s0] = E]
        BY <1>1, <1>4 DEF RdbType, Rdb!DisableObservers
    <2> QED
        BY <1>6, <2>1, Update2
<1>9. RdbType'
    BY <1>1, <1>2, <1>3, <1>4, <1>8 DEF RdbType
<1>10. RdbCountInv'
    <2>1. E # {}
        BY <1>4, <1>5
    <2>2. \A k \in RdbKeys, s \in Subs : C[k][s] = {} => rdbCallbacks[k][s] = {}
        BY <1>8, <2>1
    <2> QED
        BY <1>1, <1>2, <1>4, <2>2 DEF RdbCountInv
<1>11. RdbMarkInv'
    BY <1>1, <1>4, <1>6, <1>8 DEF RdbMarkInv
<1>12. \A k \in RdbKeys, s \in Subs :
           \/ rdbCallbacks'[k][s] = {}
           \/ /\ rdbOwed'[k][s] = rdbOwed[k][s] /\ rdbSeen'[k][s] = rdbSeen[k][s]
              /\ rdbCallbacks[k][s] # {} /\ Marked(k, s) => Marked(k, s)'
    BY <1>2, <1>4, <1>7, <1>8 DEF Marked
<1>13. \A k \in RdbKeys, s \in Subs : \A e \in rdbCallbacks'[k][s] :
           rdbCallbacks[k][s] # {} /\ (e.enabled => e \in rdbCallbacks[k][s])
    BY <1>4, <1>5, <1>6, <1>8
<1> QED
    BY <1>2, <1>3, <1>9, <1>10, <1>11, <1>12, <1>13, RdbLessEnabled

LEMMA RdbEnableObservers ==
    ASSUME RdbInv, NEW t \in Threads, NEW k0 \in RdbKeys, NEW s0 \in Subs, Rdb!EnableObservers(t, k0, s0)
    PROVE  RdbInv'
<1>1. RdbType /\ RdbCountInv /\ RdbMarkInv /\ RdbReachInv /\ RdbAskInv
    BY DEF RdbInv
<1>2. /\ rdbLastChange' = rdbLastChange /\ emitting' = emitting /\ rdbService' = rdbService /\ rdbExcused' = rdbExcused
      /\ rdbLost' = rdbLost /\ rdbChange' = rdbChange /\ rdbSeen' = rdbSeen /\ rdbOwed' = rdbOwed
      /\ Rdb!Begin(t) /\ rdbCallbacks[k0][s0] # {}
    BY DEF Rdb!EnableObservers
<1>3. /\ missed \subseteq missed'
      /\ Marked(k0, s0) /\ emitting.op = "store" /\ k0 \in emitting.keys => <<k0, s0>> \in missed'
    BY DEF Rdb!EnableObservers, Marked
<1>4. PICK n, j, i : /\ n = IF Marked(k0, s0) THEN rdbLastChange[k0] ELSE 0
                     /\ j = Rdb!Job("enable", k0, {s0}, n)
                     /\ i = IF Rdb!KeyEnabled(k0) THEN [j EXCEPT !.op = "replay"] ELSE j
    OBVIOUS
<1>5. Rdb!Goes(t, i)
    BY <1>4 DEF Rdb!EnableObservers, Marked
<1>6. n \in Nat
    BY <1>1, <1>4 DEF RdbType
<1>7. /\ i \in RdbJobs /\ i.op \in {"enable", "replay"} /\ (~Rdb!KeyEnabled(k0) => i.op = "enable")
      /\ i.k = k0 /\ i.s = {s0} /\ i.node = n
    <2>1. j = [op |-> "enable", k |-> k0, s |-> {s0}, node |-> n]
        BY <1>4 DEF Rdb!Job
    <2>2. j \in RdbJobs /\ [j EXCEPT !.op = "replay"] = [op |-> "replay", k |-> k0, s |-> {s0}, node |-> n]
        <3>1. "enable" \in RdbOps /\ {s0} \in SUBSET Subs
            BY DEF RdbOps
        <3>2. j \in RdbJobs
            BY <1>4, <1>6, <3>1, RdbJobMade
        <3>3. [j EXCEPT !.op = "replay"] = [op |-> "replay", k |-> k0, s |-> {s0}, node |-> n]
            BY <2>1
        <3> QED
            BY <3>2, <3>3
    <2>3. CASE Rdb!KeyEnabled(k0)
        BY <1>4, <1>6, <2>2, <2>3 DEF RdbJobs, RdbOps
    <2>4. CASE ~Rdb!KeyEnabled(k0)
        BY <1>4, <2>1, <2>2, <2>4
    <2> QED
        BY <2>3, <2>4
<1>8. /\ rdbJob' \in [Threads -> RdbJobs] /\ rdbJob'[t] = i
      /\ (\A u \in Threads : u # t => rdbJob'[u] = rdbJob[u])
      /\ \A u \in Threads : rdbJob'[u].op # "idle" => rdbJob'[u].k \in RdbKeys
    BY <1>1, <1>5, <1>7, RdbJobGoes
<1>9. PICK E, C : E = {Rdb!Entry} /\ C = rdbCallbacks'
    OBVIOUS
<1>10. /\ C \in [RdbKeys -> [Subs -> SUBSET Entries]] /\ C[k0][s0] = E
       /\ \A k \in RdbKeys, s \in Subs : k # k0 \/ s # s0 => C[k][s] = rdbCallbacks[k][s]
    <2>1. rdbCallbacks \in [RdbKeys -> [Subs -> SUBSET Entries]] /\ C = [rdbCallbacks EXCEPT ![k0][s0] = E]
        BY <1>1, <1>9 DEF RdbType, Rdb!EnableObservers
    <2>2. E \in SUBSET Entries
        BY <1>9, RdbEntry
    <2> QED
        BY <2>1, <2>2, Update2
<1>11. RdbType'
    BY <1>1, <1>2, <1>8, <1>9, <1>10 DEF RdbType
<1>12. RdbCountInv'
    <2>1. \A k \in RdbKeys, s \in Subs : C[k][s] = {} => rdbCallbacks[k][s] = {}
        BY <1>9, <1>10
    <2> QED
        BY <1>1, <1>2, <1>9, <2>1 DEF RdbCountInv
<1>13. RdbMarkInv'
    BY <1>1, <1>9, <1>10, RdbEntry DEF RdbMarkInv
<1>14. \A k \in RdbKeys, s \in Subs : ~Replays(t, k, s)
    BY <1>1, <1>2, RdbBegins
<1>15. ASSUME NEW k \in RdbKeys, NEW s \in Subs, RdbDue(k, s)' PROVE RdbReaches(k, s)'
    <2>1. rdbCallbacks[k][s] # {}
        BY <1>2, <1>9, <1>10, <1>15 DEF RdbDue
    <2>2. RdbDue(k, s)
        BY <1>2, <1>3, <1>15, <2>1 DEF RdbDue
    <2>3. CASE k = k0 /\ s = s0 /\ Marked(k, s)
        <3>1. RdbReaches(k, s)
            BY <1>1, <2>2 DEF RdbReachInv
        <3>2. ASSUME NEW u \in Threads, Replays(u, k, s) PROVE Replays(u, k, s)'
            <4>1. u # t
                BY <1>14, <3>2
            <4> QED
                BY <1>2, <1>8, <3>2, <4>1 DEF Replays
        <3>3. CASE rdbSeen[k][s] >= rdbOwed[k][s] \/ Fires(k, s)
            BY <1>2, <3>3 DEF RdbReaches, Fires
        <3>4. CASE Stored(k, s)
            <4>1. ~(emitting.op = "store" /\ k \in emitting.keys)
                BY <1>3, <1>15, <2>3 DEF RdbDue
            <4>2. n >= rdbOwed[k][s]
                BY <1>4, <2>3, <3>4, <4>1 DEF Stored
            <4>3. Replays(t, k, s)'
                BY <1>2, <1>7, <1>8, <2>3, <4>2 DEF Replays
            <4> QED
                BY <4>3 DEF RdbReaches
        <3> QED
            BY <3>1, <3>2, <3>3, <3>4 DEF RdbReaches
    <2>4. CASE ~(k = k0 /\ s = s0 /\ Marked(k, s))
        <3>1. Marked(k, s) => Marked(k, s)'
            BY <1>9, <1>10, <2>4 DEF Marked
        <3> QED
            BY <1>2, <1>8, <1>14, <2>2, <3>1, RdbReachStays
    <2> QED
        BY <2>3, <2>4
<1>16. ASSUME NEW k \in RdbKeys, RdbOwes(k)' PROVE RdbOn(k)'
    <2>1. CASE Rdb!KeyEnabled(k)
        <3>1. RdbOwes(k)
            BY <1>2, <1>16, <2>1 DEF RdbOwes
        <3>2. ~RdbAsks(t, k)
            BY <1>1, <1>2, RdbBegins
        <3> QED
            BY <1>2, <1>8, <1>16, <3>1, <3>2, RdbAskOther
    <2>2. CASE ~Rdb!KeyEnabled(k)
        <3>1. k = k0
            BY <1>9, <1>10, <1>16, <2>2 DEF RdbOwes, Rdb!KeyEnabled, Rdb!AnyEnabled
        <3> QED
            BY <1>7, <1>8, <2>2, <3>1 DEF RdbOn, RdbAsks
    <2> QED
        BY <2>1, <2>2
<1> QED
    BY <1>11, <1>12, <1>13, <1>15, <1>16 DEF RdbInv, RdbAskInv, RdbReachInv

LEMMA RdbEmit ==
    ASSUME RdbInv, NEW uri, Rdb!Emit(uri)
    PROVE  RdbInv'
<1>1. RdbType /\ RdbCountInv /\ RdbMarkInv /\ RdbReachInv /\ RdbAskInv
    BY DEF RdbInv
<1>2. /\ rdbLastChange' = rdbLastChange /\ rdbService' = rdbService /\ rdbExcused' = rdbExcused
      /\ rdbLost' = rdbLost /\ rdbSeen' = rdbSeen /\ rdbJob' = rdbJob /\ missed' = missed
      /\ rdbChange' = rdbChange + 1 /\ emitting.op = "idle"
    BY DEF Rdb!Emit, Rdb!NotEmitting
<1>3. PICK keys, n, C, W, M : /\ keys = {k \in Rdb!Matching(uri) : Rdb!Observed(k)} /\ n = rdbChange + 1
                              /\ C = rdbCallbacks' /\ W = rdbOwed' /\ M = emitting'
    OBVIOUS
<1>4. C = [k \in RdbKeys |-> [s \in Subs |->
            IF k \in keys THEN {[enabled |-> e.enabled, notify |-> ~e.enabled] : e \in rdbCallbacks[k][s]}
            ELSE rdbCallbacks[k][s]]]
    BY <1>3 DEF Rdb!Emit
<1>5. W = [k \in RdbKeys |-> [s \in Subs |-> IF k \in keys /\ rdbCallbacks[k][s] # {} THEN n ELSE rdbOwed[k][s]]]
    BY <1>2, <1>3 DEF Rdb!Emit
<1>6. M = IF keys = {} THEN Rdb!NotEmitting
          ELSE [op |-> "store", keys |-> keys, node |-> n,
                fire |-> {e \in keys \X Subs : Rdb!AnyEnabled(rdbCallbacks[e[1]][e[2]])}]
    BY <1>2, <1>3 DEF Rdb!Emit
<1>7. /\ keys \subseteq RdbKeys /\ n \in Nat /\ rdbChange <= n
      /\ \A k \in RdbKeys, s \in Subs : k \notin keys => (k \in Rdb!Matching(uri) => rdbCallbacks[k][s] = {})
    BY <1>1, <1>3 DEF RdbType, Rdb!Matching, Rdb!Observed
<1>8. \A k \in RdbKeys, s \in Subs : rdbCallbacks[k][s] \in SUBSET Entries
    BY <1>1 DEF RdbType
<1>9. \A k \in RdbKeys, s \in Subs : k \in keys =>
          /\ \A e \in C[k][s] : e.notify = ~e.enabled /\ e \in Entries /\ \E d \in rdbCallbacks[k][s] : d.enabled = e.enabled
          /\ \A d \in rdbCallbacks[k][s] : \E e \in C[k][s] : d.enabled = e.enabled
    <2>1. ASSUME NEW k \in RdbKeys, NEW s \in Subs, k \in keys, NEW e \in C[k][s]
          PROVE e.notify = ~e.enabled /\ e \in Entries /\ \E d \in rdbCallbacks[k][s] : d.enabled = e.enabled
        <3>1. PICK d \in rdbCallbacks[k][s] : e = [enabled |-> d.enabled, notify |-> ~d.enabled]
            BY <1>4, <2>1
        <3>2. d.enabled \in BOOLEAN
            BY <1>8 DEF Entries
        <3> QED
            BY <3>1, <3>2 DEF Entries
    <2>2. ASSUME NEW k \in RdbKeys, NEW s \in Subs, k \in keys, NEW d \in rdbCallbacks[k][s]
          PROVE \E e \in C[k][s] : d.enabled = e.enabled
        <3>1. PICK e : e = [enabled |-> d.enabled, notify |-> ~d.enabled]
            OBVIOUS
        <3>2. e \in C[k][s]
            BY <1>4, <2>2, <3>1
        <3> QED
            BY <3>1, <3>2
    <2> QED
        BY <2>1, <2>2
<1>10. \A k \in RdbKeys, s \in Subs : (k \notin keys => C[k][s] = rdbCallbacks[k][s]) /\ (C[k][s] = {} <=> rdbCallbacks[k][s] = {})
    BY <1>4
<1>11. \A k \in RdbKeys, s \in Subs : W[k][s] = IF k \in keys /\ rdbCallbacks[k][s] # {} THEN n ELSE rdbOwed[k][s]
    BY <1>5
<1>12. M.op \in {"idle", "store"} /\ M.keys = keys /\ M.node \in Nat /\ (M.op # "idle" => M.node = n) /\ (keys # {} => M.op = "store") /\ (M.op = "idle" => keys = {})
    BY <1>6, <1>7 DEF Rdb!NotEmitting
<1>13. \A k \in RdbKeys, s \in Subs : <<k, s>> \in M.fire <=> k \in keys /\ Rdb!AnyEnabled(rdbCallbacks[k][s])
    <2>1. CASE keys = {}
        BY <1>6, <2>1 DEF Rdb!NotEmitting
    <2>2. CASE keys # {}
        <3>1. M.fire = {e \in keys \X Subs : Rdb!AnyEnabled(rdbCallbacks[e[1]][e[2]])}
            BY <1>6, <2>2
        <3> QED
            BY <3>1
    <2> QED
        BY <2>1, <2>2
<1>14. RdbType'
    <2>1. W \in [RdbKeys -> [Subs -> Nat]]
        BY <1>1, <1>5, <1>7 DEF RdbType
    <2>2. C \in [RdbKeys -> [Subs -> SUBSET Entries]]
        <3>1. \A k \in RdbKeys, s \in Subs : C[k][s] \in SUBSET Entries
            BY <1>8, <1>9, <1>10
        <3>2. \A k \in RdbKeys : C[k] = [s \in Subs |-> C[k][s]]
            BY <1>4
        <3>3. C = [k \in RdbKeys |-> C[k]]
            BY <1>4
        <3>4. \A k \in RdbKeys : C[k] \in [Subs -> SUBSET Entries]
            BY <3>1, <3>2
        <3> QED
            BY <3>3, <3>4
    <2>3. M.op \in {"idle", "store", "call"} /\ M.keys \subseteq RdbKeys /\ M.node \in Nat
        BY <1>7, <1>12
    <2>4. M = [op |-> M.op, keys |-> M.keys, fire |-> M.fire, node |-> M.node]
        BY <1>6 DEF Rdb!NotEmitting
    <2> QED
        BY <1>1, <1>2, <1>3, <1>7, <2>1, <2>2, <2>3, <2>4 DEF RdbType
<1>15. RdbCountInv'
    <2>1. ASSUME NEW k \in RdbKeys, NEW s \in Subs PROVE W[k][s] <= n
        <3>1. rdbOwed[k][s] \in Nat /\ rdbOwed[k][s] <= rdbChange /\ rdbChange \in Nat
            BY <1>1 DEF RdbCountInv, RdbType
        <3> QED
            BY <1>7, <1>11, <3>1
    <2>2. \A k \in RdbKeys, s \in Subs : C[k][s] = {} => W[k][s] = 0
        BY <1>1, <1>10, <1>11 DEF RdbCountInv
    <2>3. \A k \in RdbKeys, s \in Subs : <<k, s>> \in M.fire => k \in M.keys
        BY <1>12, <1>13
    <2>4. (M.op = "idle" => M.keys = {}) /\ (M.op # "idle" => M.node = n) /\ rdbChange' = n
        BY <1>2, <1>3, <1>12
    <2> QED
        BY <1>3, <2>1, <2>2, <2>3, <2>4 DEF RdbCountInv
<1>16. RdbMarkInv'
    BY <1>1, <1>3, <1>9, <1>10 DEF RdbMarkInv
<1>17. ASSUME NEW k \in RdbKeys, NEW s \in Subs, RdbDue(k, s)' PROVE RdbReaches(k, s)'
    <2>1. RdbDue(k, s) /\ rdbCallbacks[k][s] # {}
        BY <1>2, <1>3, <1>10, <1>17 DEF RdbDue
    <2>2. CASE k \in keys /\ Rdb!AnyEnabled(rdbCallbacks[k][s])
        <3>1. M.op = "store" /\ <<k, s>> \in M.fire
            BY <1>12, <1>13, <2>2
        <3>2. Fires(k, s)'
            BY <1>3, <3>1 DEF Fires
        <3> QED
            BY <3>2 DEF RdbReaches
    <2>3. CASE k \in keys /\ ~Rdb!AnyEnabled(rdbCallbacks[k][s])
        <3>1. PICK d \in rdbCallbacks[k][s] : TRUE
            BY <2>1
        <3>2. PICK e \in C[k][s] : e.enabled = d.enabled
            BY <1>9, <2>3
        <3>3. ~d.enabled /\ e.notify = ~e.enabled
            BY <1>9, <2>3 DEF Rdb!AnyEnabled
        <3>4. Marked(k, s)'
            BY <1>3, <3>2, <3>3 DEF Marked
        <3>5. Stored(k, s)'
            BY <1>3, <1>12, <2>3 DEF Stored
        <3> QED
            BY <3>4, <3>5 DEF RdbReaches
    <2>4. CASE k \notin keys
        <3>1. W[k][s] = rdbOwed[k][s] /\ C[k][s] = rdbCallbacks[k][s]
            BY <1>10, <1>11, <2>4
        <3>2. RdbReaches(k, s) /\ ~Fires(k, s)
            BY <1>1, <1>2, <2>1 DEF RdbReachInv, Fires
        <3>3. CASE rdbSeen[k][s] >= rdbOwed[k][s]
            BY <1>2, <1>3, <3>1, <3>3 DEF RdbReaches
        <3>4. CASE \E t \in Threads : Replays(t, k, s)
            BY <1>2, <1>3, <3>1, <3>4 DEF RdbReaches, Replays
        <3>5. CASE Marked(k, s) /\ Stored(k, s)
            BY <1>2, <1>3, <3>1, <3>5 DEF RdbReaches, Marked, Stored
        <3> QED
            BY <3>2, <3>3, <3>4, <3>5 DEF RdbReaches
    <2> QED
        BY <2>2, <2>3, <2>4
<1>18. ASSUME NEW k \in RdbKeys, RdbOwes(k)' PROVE RdbOn(k)'
    <2>1. PICK s \in Subs : \E e \in C[k][s] : e.enabled
        BY <1>3, <1>18 DEF RdbOwes, Rdb!KeyEnabled, Rdb!AnyEnabled
    <2>2. \E d \in rdbCallbacks[k][s] : d.enabled
        BY <1>9, <1>10, <2>1
    <2>3. RdbOwes(k)
        BY <1>2, <1>18, <2>2 DEF RdbOwes, Rdb!KeyEnabled, Rdb!AnyEnabled
    <2> QED
        BY <1>1, <1>2, <2>3 DEF RdbAskInv, RdbOn, RdbAsks
<1> QED
    BY <1>14, <1>15, <1>16, <1>17, <1>18 DEF RdbInv, RdbAskInv, RdbReachInv

LEMMA RdbStoreLastChange ==
    ASSUME RdbInv, Rdb!StoreLastChange
    PROVE  RdbInv'
<1>1. RdbType /\ RdbCountInv /\ RdbMarkInv /\ RdbReachInv /\ RdbAskInv
    BY DEF RdbInv
<1>2. /\ rdbCallbacks' = rdbCallbacks /\ rdbService' = rdbService /\ rdbExcused' = rdbExcused
      /\ rdbLost' = rdbLost /\ rdbSeen' = rdbSeen /\ rdbJob' = rdbJob /\ missed' = missed
      /\ rdbChange' = rdbChange /\ rdbOwed' = rdbOwed /\ emitting.op = "store"
    BY DEF Rdb!StoreLastChange
<1>3. PICK L, M : L = rdbLastChange' /\ M = emitting'
    OBVIOUS
<1>4. M = [op |-> "call", keys |-> emitting.keys, fire |-> emitting.fire, node |-> emitting.node]
    <2>1. emitting = [op |-> emitting.op, keys |-> emitting.keys, fire |-> emitting.fire, node |-> emitting.node]
        BY <1>1 DEF RdbType
    <2> QED
        BY <1>3, <2>1 DEF Rdb!StoreLastChange
<1>5. L = [k \in RdbKeys |-> IF k \in emitting.keys THEN emitting.node ELSE rdbLastChange[k]]
    BY <1>3 DEF Rdb!StoreLastChange
<1>6. emitting.node = rdbChange
    BY <1>1, <1>2 DEF RdbCountInv
<1>7. RdbType'
    <2>1. L \in [RdbKeys -> Nat]
        BY <1>1, <1>5 DEF RdbType
    <2> QED
        BY <1>1, <1>2, <1>3, <1>4, <2>1 DEF RdbType
<1>8. RdbCountInv' /\ RdbMarkInv'
    BY <1>1, <1>2, <1>3, <1>4 DEF RdbCountInv, RdbMarkInv
<1>9. ASSUME NEW k \in RdbKeys, NEW s \in Subs, RdbDue(k, s)' PROVE RdbReaches(k, s)'
    <2>1. RdbReaches(k, s)
        BY <1>1, <1>2, <1>9 DEF RdbReachInv, RdbDue
    <2>2. CASE rdbSeen[k][s] >= rdbOwed[k][s]
        BY <1>2, <2>2 DEF RdbReaches
    <2>3. CASE Fires(k, s)
        BY <1>3, <1>4, <2>3 DEF RdbReaches, Fires
    <2>4. CASE \E t \in Threads : Replays(t, k, s)
        BY <1>2, <2>4 DEF RdbReaches, Replays
    <2>5. CASE Marked(k, s) /\ Stored(k, s)
        <3>1. rdbOwed[k][s] \in Nat /\ rdbOwed[k][s] <= rdbChange /\ rdbChange \in Nat
            BY <1>1 DEF RdbCountInv, RdbType
        <3>2. L[k] >= rdbOwed[k][s]
            BY <1>5, <1>6, <2>5, <3>1 DEF Stored
        <3>3. Marked(k, s)' /\ Stored(k, s)'
            BY <1>2, <1>3, <2>5, <3>2 DEF Marked, Stored
        <3> QED
            BY <3>3 DEF RdbReaches
    <2> QED
        BY <2>1, <2>2, <2>3, <2>4, <2>5 DEF RdbReaches
<1>10. RdbAskInv'
    BY <1>1, <1>2 DEF RdbAskInv, RdbOwes, RdbOn, RdbAsks, Rdb!KeyEnabled, Rdb!AnyEnabled
<1> QED
    BY <1>7, <1>8, <1>9, <1>10 DEF RdbInv, RdbReachInv

LEMMA RdbCallObservers ==
    ASSUME RdbInv, Rdb!CallObservers
    PROVE  RdbInv'
<1>1. RdbType /\ RdbCountInv /\ RdbMarkInv /\ RdbReachInv /\ RdbAskInv
    BY DEF RdbInv
<1>2. /\ rdbCallbacks' = rdbCallbacks /\ rdbService' = rdbService /\ rdbExcused' = rdbExcused
      /\ rdbLost' = rdbLost /\ rdbLastChange' = rdbLastChange /\ rdbJob' = rdbJob /\ missed' = missed
      /\ rdbChange' = rdbChange /\ rdbOwed' = rdbOwed /\ emitting.op = "call"
    BY DEF Rdb!CallObservers
<1>3. PICK S, M : S = rdbSeen' /\ M = emitting'
    OBVIOUS
<1>4. M = [op |-> "idle", keys |-> {}, fire |-> {}, node |-> 0]
    BY <1>3 DEF Rdb!CallObservers, Rdb!NotEmitting
<1>5. S = [k \in RdbKeys |-> [s \in Subs |->
             IF <<k, s>> \in emitting.fire THEN Rdb!Later(rdbSeen[k][s], emitting.node) ELSE rdbSeen[k][s]]]
    BY <1>3 DEF Rdb!CallObservers
<1>6. emitting.node = rdbChange
    BY <1>1, <1>2 DEF RdbCountInv
<1>7. /\ rdbChange \in Nat
      /\ \A k \in RdbKeys, s \in Subs : rdbSeen[k][s] \in Nat /\ rdbOwed[k][s] \in Nat /\ rdbOwed[k][s] <= rdbChange
    BY <1>1 DEF RdbType, RdbCountInv
<1>8. ASSUME NEW k \in RdbKeys, NEW s \in Subs
      PROVE  S[k][s] \in Nat /\ S[k][s] >= rdbSeen[k][s] /\ (<<k, s>> \in emitting.fire => S[k][s] >= rdbChange)
    <2>1. S[k][s] = IF <<k, s>> \in emitting.fire THEN Rdb!Later(rdbSeen[k][s], rdbChange) ELSE rdbSeen[k][s]
        BY <1>5, <1>6
    <2> QED
        BY <1>7, <2>1 DEF Rdb!Later
<1>9. RdbType'
    <2>1. S \in [RdbKeys -> [Subs -> Nat]]
        BY <1>5, <1>6, <1>7 DEF Rdb!Later
    <2> QED
        BY <1>1, <1>2, <1>3, <1>4, <2>1 DEF RdbType
<1>10. RdbCountInv' /\ RdbMarkInv'
    BY <1>1, <1>2, <1>3, <1>4 DEF RdbCountInv, RdbMarkInv
<1>11. ASSUME NEW k \in RdbKeys, NEW s \in Subs, RdbDue(k, s)' PROVE RdbReaches(k, s)'
    <2>1. RdbReaches(k, s)
        BY <1>1, <1>2, <1>11 DEF RdbReachInv, RdbDue
    <2>2. CASE rdbSeen[k][s] >= rdbOwed[k][s] \/ Fires(k, s)
        <3>1. S[k][s] >= rdbOwed[k][s]
            BY <1>7, <1>8, <2>2 DEF Fires
        <3> QED
            BY <1>2, <1>3, <3>1 DEF RdbReaches
    <2>3. CASE \E t \in Threads : Replays(t, k, s)
        BY <1>2, <2>3 DEF RdbReaches, Replays
    <2>4. CASE Marked(k, s) /\ Stored(k, s)
        <3>1. Marked(k, s)' /\ Stored(k, s)'
            BY <1>2, <2>4 DEF Marked, Stored
        <3> QED
            BY <3>1 DEF RdbReaches
    <2> QED
        BY <2>1, <2>2, <2>3, <2>4 DEF RdbReaches
<1>12. RdbAskInv'
    BY <1>1, <1>2 DEF RdbAskInv, RdbOwes, RdbOn, RdbAsks, Rdb!KeyEnabled, Rdb!AnyEnabled
<1> QED
    BY <1>9, <1>10, <1>11, <1>12 DEF RdbInv, RdbReachInv

LEMMA StepRdb ==
    ASSUME RdbInv, Rdb!RdbNext
    PROVE  RdbInv'
BY RdbAddObservers, RdbDelObservers, RdbEnableObservers, RdbDisableObservers, RdbReplay, RdbSubscribe,
   RdbEraseLastChange, RdbTellsService, RdbEnableAtService, RdbRecoverObservers, RdbEmit, RdbStoreLastChange,
   RdbCallObservers, RdbServiceRestarts
   DEF Rdb!RdbNext

\* Once no call on its key is under way nothing is left to deliver or to replay, and
\* an observer all whose entries are enabled has no mark.
LEMMA RdbUpToDate ==
    ASSUME RdbInv
    PROVE  Rdb!EnabledIsUpToDate /\ Rdb!EnabledIsSubscribed
<1>1. RdbType /\ RdbCountInv /\ RdbMarkInv /\ RdbReachInv /\ RdbAskInv
    BY DEF RdbInv
<1>2. ASSUME NEW k \in RdbKeys, NEW s \in Subs, rdbCallbacks[k][s] # {}, \A e \in rdbCallbacks[k][s] : e.enabled,
             Rdb!Quiet(k), k \notin rdbExcused, <<k, s>> \notin missed
      PROVE  rdbSeen[k][s] >= rdbOwed[k][s]
    <2>1. RdbReaches(k, s)
        BY <1>1, <1>2 DEF RdbReachInv, RdbDue
    <2>2. ~Fires(k, s)
        BY <1>1, <1>2 DEF Fires, RdbCountInv, Rdb!Quiet
    <2>3. \A t \in Threads : ~Replays(t, k, s)
        BY <1>2 DEF Replays, Rdb!Quiet
    <2>4. ~Marked(k, s)
        BY <1>1, <1>2 DEF Marked, RdbMarkInv
    <2> QED
        BY <2>1, <2>2, <2>3, <2>4 DEF RdbReaches
<1>3. Rdb!EnabledIsUpToDate
    BY <1>2 DEF Rdb!EnabledIsUpToDate
<1>4. Rdb!EnabledIsSubscribed
    BY <1>1 DEF RdbAskInv, RdbOwes, RdbOn, RdbAsks, Rdb!Quiet, Rdb!EnabledIsSubscribed
<1> QED
    BY <1>3, <1>4

-----------------------------------------------------------------------------
(* The manager of published data *)

PubOps == {"idle", "subscribe", "rollback", "unsubscribe", "enable", "unroll", "replay", "disable"}
PubJobs == [op : PubOps, k : PublishedKeys \cup {"none"}, s : Subs \cup {"none"}, notify : BOOLEAN, more : SUBSET PublishedKeys]

PubType ==
    /\ pubCallbacks \in [PublishedKeys -> [Subs -> Seq(Entries)]]
    /\ pubSeen \in [PublishedKeys -> [Subs -> Nat]] /\ pubOwed \in [PublishedKeys -> [Subs -> Nat]]
    /\ pubLastChange \in [PublishedKeys -> Nat] /\ pubChange \in Nat
    /\ pubJob \in [Threads -> PubJobs]
    /\ \A t \in Threads : pubJob[t].op # "idle" => pubJob[t].k \in PublishedKeys /\ pubJob[t].s \in Subs
    /\ pubService \in [PublishedKeys -> {"none", "on", "off"}]

\* The last change is stored with what is owed, and never erased; nothing is owed to
\* who is not there.
PubCountInv ==
    /\ \A k \in PublishedKeys, s \in Subs : pubOwed[k][s] <= pubLastChange[k]
    /\ \A k \in PublishedKeys, s \in Subs : pubCallbacks[k][s] = <<>> => pubOwed[k][s] = 0

\* What an observer has not seen is about to be replayed, or kept with a mark on an
\* entry of it that is disabled.
PubReplays(t, k, s) ==
    pubJob[t].op \in {"enable", "unroll", "replay"} /\ pubJob[t].k = k /\ pubJob[t].s = s /\ pubJob[t].notify
MarkIn(q) == \E i \in DOMAIN q : q[i].notify /\ ~q[i].enabled
PubReaches(k, s) ==
    \/ pubSeen[k][s] >= pubOwed[k][s]
    \/ \E t \in Threads : PubReplays(t, k, s)
    \/ MarkIn(pubCallbacks[k][s])
PubReachInv == \A k \in PublishedKeys, s \in Subs : PubReaches(k, s)

\* A key with an enabled observer is subscribed, or a thread is about to do so or to
\* take the observer back.
PubAsks(t, k) == pubJob[t].op \in {"subscribe", "rollback", "enable", "unroll"} /\ pubJob[t].k = k
PubOn(k) == pubService[k] = "on" \/ \E t \in Threads : PubAsks(t, k)
PubOwes(k) == Pub!KeyEnabled(k) /\ ~pubLost /\ k \notin pubExcused
PubAskInv == \A k \in PublishedKeys : PubOwes(k) => PubOn(k)

PubInv == PubType /\ PubCountInv /\ PubReachInv /\ PubAskInv

LEMMA PubIdle ==
    Pub!Idle \in PubJobs /\ Pub!Idle.op = "idle" /\ Pub!Idle.k = "none" /\ Pub!Idle.more = {}
BY DEF Pub!Idle, PubJobs, PubOps

LEMMA InitPub ==
    ASSUME Pub!PublishedInit
    PROVE  PubInv
<1>1. /\ pubCallbacks = [k \in PublishedKeys |-> [s \in Subs |-> <<>>]] /\ pubLastChange = [k \in PublishedKeys |-> 0]
      /\ pubJob = [t \in Threads |-> Pub!Idle] /\ pubService = [k \in PublishedKeys |-> "none"] /\ pubChange = 0
      /\ pubSeen = [k \in PublishedKeys |-> [s \in Subs |-> 0]] /\ pubOwed = pubSeen
    BY DEF Pub!PublishedInit
<1>2. \A k \in PublishedKeys, s \in Subs : pubCallbacks[k][s] = <<>> /\ pubSeen[k][s] = 0 /\ pubOwed[k][s] = 0
    BY <1>1
<1>3. PubType
    <2>1. pubJob \in [Threads -> PubJobs] /\ \A t \in Threads : pubJob[t].op = "idle"
        BY <1>1, PubIdle
    <2>2. pubCallbacks \in [PublishedKeys -> [Subs -> Seq(Entries)]]
        BY <1>1
    <2> QED
        BY <1>1, <2>1, <2>2 DEF PubType
<1>4. PubCountInv
    BY <1>1, <1>2 DEF PubCountInv
<1>5. PubReachInv
    BY <1>2 DEF PubReachInv, PubReaches
<1>6. PubAskInv
    BY <1>2 DEF PubAskInv, PubOwes, Pub!KeyEnabled, Pub!AnyEnabled
<1> QED
    BY <1>3, <1>4, <1>5, <1>6 DEF PubInv

LEMMA PubAlone ==
    ASSUME PubInv, UNCHANGED publishedVars
    PROVE  PubInv'
<1>1. /\ pubCallbacks' = pubCallbacks /\ pubLastChange' = pubLastChange /\ pubJob' = pubJob
      /\ pubService' = pubService /\ pubLost' = pubLost /\ pubChange' = pubChange /\ pubSeen' = pubSeen
      /\ pubOwed' = pubOwed /\ pubExcused' = pubExcused
    BY DEF publishedVars
<1>2. PubType /\ PubCountInv /\ PubReachInv /\ PubAskInv
    BY DEF PubInv
<1>3. PubType'
    BY <1>1, <1>2 DEF PubType
<1>4. PubCountInv' /\ PubReachInv'
    BY <1>1, <1>2 DEF PubCountInv, PubReachInv, PubReaches, PubReplays, MarkIn
<1>5. PubAskInv'
    BY <1>1, <1>2 DEF PubAskInv, PubOwes, PubOn, PubAsks, Pub!KeyEnabled, Pub!AnyEnabled
<1> QED
    BY <1>3, <1>4, <1>5 DEF PubInv

\* A job has its key and its observer.
PubJobOK(j) == j \in PubJobs /\ (j.op # "idle" => j.k \in PublishedKeys /\ j.s \in Subs)
PubJobsGo(t, j) ==
    /\ pubJob' \in [Threads -> PubJobs] /\ pubJob'[t] = j
    /\ (\A u \in Threads : u # t => pubJob'[u] = pubJob[u])
    /\ \A u \in Threads : pubJob'[u].op # "idle" => pubJob'[u].k \in PublishedKeys /\ pubJob'[u].s \in Subs

LEMMA PubJobGoes ==
    ASSUME PubType, NEW t \in Threads, NEW j, PubJobOK(j), Pub!Goes(t, j)
    PROVE  PubJobsGo(t, j)
<1>1. pubJob \in [Threads -> PubJobs] /\ \A u \in Threads : pubJob[u].op # "idle" => pubJob[u].k \in PublishedKeys /\ pubJob[u].s \in Subs
    BY DEF PubType
<1>2. pubJob' = [pubJob EXCEPT ![t] = j]
    BY DEF Pub!Goes
<1>3. pubJob' \in [Threads -> PubJobs] /\ pubJob'[t] = j /\ \A u \in Threads : u # t => pubJob'[u] = pubJob[u]
    BY <1>1, <1>2 DEF PubJobOK
<1> QED
    BY <1>1, <1>3 DEF PubJobOK, PubJobsGo

LEMMA PubJobMade ==
    ASSUME NEW op \in PubOps, NEW k \in PublishedKeys, NEW s \in Subs, NEW n \in BOOLEAN, NEW j, j = Pub!Job(op, k, s, n)
    PROVE  PubJobOK(j) /\ j.op = op /\ j.k = k /\ j.s = s /\ j.notify = n
BY DEF Pub!Job, PubJobs, PubJobOK

LEMMA PubJobNext ==
    ASSUME NEW j, PubJobOK(j), j.op # "idle", NEW op \in PubOps, NEW i, i = [j EXCEPT !.op = op]
    PROVE  PubJobOK(i) /\ i.op = op /\ i.k = j.k /\ i.s = j.s /\ i.notify = j.notify
BY DEF PubJobOK, PubJobs

LEMMA PubJobMore ==
    ASSUME NEW j, PubJobOK(j), NEW keys \in SUBSET PublishedKeys, NEW i, i = [j EXCEPT !.more = keys]
    PROVE  PubJobOK(i)
<1>1. j \in PubJobs
    BY DEF PubJobOK
<1>2. i \in PubJobs /\ i.op = j.op /\ i.k = j.k /\ i.s = j.s
    BY <1>1 DEF PubJobs
<1> QED
    BY <1>2 DEF PubJobOK

LEMMA PubBegins ==
    ASSUME PubType, NEW t \in Threads, Pub!Begin(t)
    PROVE  pubJob[t].op = "idle" /\ (\A k \in PublishedKeys : ~PubAsks(t, k)) /\ \A k \in PublishedKeys, s \in Subs : ~PubReplays(t, k, s)
<1>1. pubJob[t].op = "idle"
    BY PubIdle DEF Pub!Begin
<1> QED
    BY <1>1 DEF PubAsks, PubReplays

\* An observer that reaches its changes still does so when no mark of it goes and no
\* replay that is due to it is dropped.
LEMMA PubReachStays ==
    ASSUME NEW k \in PublishedKeys, NEW s \in Subs, PubReaches(k, s),
           pubOwed'[k][s] = pubOwed[k][s], pubSeen'[k][s] = pubSeen[k][s],
           MarkIn(pubCallbacks[k][s]) => MarkIn(pubCallbacks[k][s])',
           \A t \in Threads : PubReplays(t, k, s) => PubReplays(t, k, s)'
    PROVE  PubReaches(k, s)'
BY DEF PubReaches

LEMMA PubAskOther ==
    ASSUME PubInv, NEW t \in Threads, NEW k \in PublishedKeys, PubOwes(k),
           pubService'[k] = pubService[k], \A u \in Threads : u # t => pubJob'[u] = pubJob[u],
           PubAsks(t, k) => PubAsks(t, k)'
    PROVE  PubOn(k)'
<1>1. PubOn(k)
    BY DEF PubInv, PubAskInv
<1> QED
    BY <1>1 DEF PubOn, PubAsks

\* Where the entries and what they have seen stay and every replay that is due stays due.
LEMMA PubEntriesStay ==
    ASSUME PubInv, pubCallbacks' = pubCallbacks, pubSeen' = pubSeen, pubOwed' = pubOwed, pubLastChange' = pubLastChange,
           \A t \in Threads, k \in PublishedKeys, s \in Subs : PubReplays(t, k, s) => PubReplays(t, k, s)'
    PROVE  PubCountInv' /\ PubReachInv'
<1>1. PubCountInv /\ PubReachInv
    BY DEF PubInv
<1>2. PubCountInv'
    BY <1>1 DEF PubCountInv
<1>3. ASSUME NEW k \in PublishedKeys, NEW s \in Subs PROVE PubReaches(k, s)'
    <2>1. PubReaches(k, s)
        BY <1>1 DEF PubReachInv
    <2>2. MarkIn(pubCallbacks[k][s]) => MarkIn(pubCallbacks[k][s])'
        BY DEF MarkIn
    <2> QED
        BY <2>1, <2>2, PubReachStays
<1> QED
    BY <1>2, <1>3 DEF PubReachInv

\* A request to the service is answered: the thread goes on, or takes back what it did.
LEMMA PubSubscribe ==
    ASSUME PubInv, NEW t \in Threads, Pub!Subscribe(t) \/ Pub!EnableAtService(t)
    PROVE  PubInv'
<1>1. PubType
    BY DEF PubInv
<1>2. PICK j : j = pubJob[t]
    OBVIOUS
<1>3. PubJobOK(j) /\ j.op \in {"subscribe", "enable"} /\ j.k \in PublishedKeys
    BY <1>1, <1>2 DEF PubType, PubJobOK, Pub!Subscribe, Pub!EnableAtService
<1>4. /\ pubCallbacks' = pubCallbacks /\ pubLastChange' = pubLastChange
      /\ pubLost' = pubLost /\ pubChange' = pubChange /\ pubSeen' = pubSeen /\ pubOwed' = pubOwed
    BY DEF Pub!Subscribe, Pub!EnableAtService
<1>5. PICK i : /\ Pub!Goes(t, i)
               /\ \/ j.op = "subscribe" /\ i = Pub!Idle
                  \/ j.op = "subscribe" /\ i = [j EXCEPT !.op = "rollback"]
                  \/ j.op = "enable" /\ i = [j EXCEPT !.op = "replay"]
                  \/ j.op = "enable" /\ i = [j EXCEPT !.op = "unroll"]
               /\ \/ pubService' = [pubService EXCEPT ![j.k] = "on"] /\ pubExcused' = pubExcused
                  \/ /\ pubService' = pubService /\ pubExcused' = pubExcused
                     /\ i = [j EXCEPT !.op = "rollback"] \/ i = [j EXCEPT !.op = "unroll"]
                  \/ pubService' = pubService /\ pubExcused' = pubExcused \cup {j.k}
    BY <1>2 DEF Pub!Subscribe, Pub!EnableAtService, Pub!Excuse
<1>6. /\ PubJobOK(i) /\ (j.op = "enable" => i.op \in {"replay", "unroll"} /\ i.k = j.k /\ i.s = j.s /\ i.notify = j.notify)
      /\ \/ pubService' = [pubService EXCEPT ![j.k] = "on"]
         \/ pubService' = pubService /\ i.op \in {"rollback", "unroll"} /\ i.k = j.k
         \/ pubService' = pubService /\ j.k \in pubExcused'
    <2>1. j.op # "idle" /\ "rollback" \in PubOps /\ "replay" \in PubOps /\ "unroll" \in PubOps
        BY <1>3 DEF PubOps
    <2>2. ASSUME NEW op \in PubOps, i = [j EXCEPT !.op = op] PROVE PubJobOK(i) /\ i.op = op /\ i.k = j.k /\ i.s = j.s /\ i.notify = j.notify
        BY <1>3, <2>1, <2>2, PubJobNext
    <2>3. PubJobOK(Pub!Idle)
        BY PubIdle DEF PubJobOK
    <2> QED
        BY <1>5, <2>1, <2>2, <2>3
<1>7. PubJobsGo(t, i)
    BY <1>1, <1>5, <1>6, PubJobGoes
<1>8. PubType'
    BY <1>1, <1>3, <1>4, <1>5, <1>7 DEF PubType, PubJobsGo
<1>9. PubCountInv' /\ PubReachInv'
    <2>1. ASSUME NEW u \in Threads, NEW k \in PublishedKeys, NEW s \in Subs, PubReplays(u, k, s) PROVE PubReplays(u, k, s)'
        <3>1. CASE u = t
            BY <1>2, <1>3, <1>6, <1>7, <2>1, <3>1 DEF PubReplays, PubJobsGo
        <3>2. CASE u # t
            BY <1>7, <2>1, <3>2 DEF PubReplays, PubJobsGo
        <3> QED
            BY <3>1, <3>2
    <2> QED
        BY <1>4, <2>1, PubEntriesStay
<1>10. ASSUME NEW k \in PublishedKeys, PubOwes(k)' PROVE PubOn(k)'
    <2>1. CASE k = j.k
        BY <1>1, <1>3, <1>6, <1>7, <1>10, <2>1 DEF PubOn, PubOwes, PubAsks, PubType, PubJobsGo
    <2>2. CASE k # j.k
        <3>1. PubOwes(k) /\ pubService'[k] = pubService[k]
            BY <1>1, <1>4, <1>5, <1>10, <2>2 DEF PubOwes, PubType, Pub!KeyEnabled, Pub!AnyEnabled
        <3>2. ~PubAsks(t, k)
            BY <1>2, <2>2 DEF PubAsks
        <3> QED
            BY <1>7, <3>1, <3>2, PubAskOther DEF PubJobsGo
    <2> QED
        BY <2>1, <2>2
<1> QED
    BY <1>8, <1>9, <1>10 DEF PubInv, PubAskInv

\* The service is told that keys have no observer, or no enabled one, any more.
LEMMA PubTellsService ==
    ASSUME PubInv, NEW t \in Threads, Pub!Unsubscribe(t) \/ Pub!DisableAtService(t)
    PROVE  PubInv'
<1>1. PubType
    BY DEF PubInv
<1>2. PICK j : j = pubJob[t]
    OBVIOUS
<1>3. j \in PubJobs /\ j.op \in {"unsubscribe", "disable"} /\ j.k \in PublishedKeys
    BY <1>1, <1>2 DEF PubType, Pub!Unsubscribe, Pub!DisableAtService
<1>4. /\ pubCallbacks' = pubCallbacks /\ pubLastChange' = pubLastChange
      /\ pubLost' = pubLost /\ pubChange' = pubChange /\ pubSeen' = pubSeen /\ pubOwed' = pubOwed
      /\ Pub!Goes(t, Pub!Idle)
    BY DEF Pub!Unsubscribe, Pub!DisableAtService
<1>5. /\ pubService' \in [PublishedKeys -> {"none", "on", "off"}] /\ pubExcused \subseteq pubExcused'
      /\ \A k \in PublishedKeys : pubService'[k] = pubService[k] \/ k \in pubExcused' \/ ~Pub!KeyEnabled(k)
    <2>1. pubService \in [PublishedKeys -> {"none", "on", "off"}]
        BY <1>1 DEF PubType
    <2>2. CASE Pub!Unsubscribe(t)
        <3>1. PICK done \in SUBSET j.more :
                  /\ pubService' = [k \in PublishedKeys |-> IF k \in done THEN "none" ELSE pubService[k]]
                  /\ pubExcused' = pubExcused \cup {k \in done : Pub!Observed(k)}
            BY <1>2, <2>2 DEF Pub!Unsubscribe
        <3>2. \A k \in PublishedKeys : Pub!KeyEnabled(k) => Pub!Observed(k)
            <4>1. DOMAIN <<>> = {}
                OBVIOUS
            <4> QED
                BY <4>1 DEF Pub!Observed, Pub!KeyEnabled, Pub!AnyEnabled
        <3> QED
            BY <2>1, <3>1, <3>2
    <2>3. CASE Pub!DisableAtService(t)
        <3>1. \/ /\ pubService' = [pubService EXCEPT ![j.k] = IF pubService[j.k] = "none" THEN pubService[j.k] ELSE "off"]
                 /\ pubExcused' = IF Pub!KeyEnabled(j.k) THEN pubExcused \cup {j.k} ELSE pubExcused
              \/ pubService' = pubService /\ pubExcused' = pubExcused
            BY <1>2, <2>3 DEF Pub!DisableAtService, Pub!Excuse
        <3> QED
            BY <1>3, <2>1, <3>1
    <2> QED
        BY <2>2, <2>3
<1>6. PubJobsGo(t, Pub!Idle)
    BY <1>1, <1>4, PubIdle, PubJobGoes DEF PubJobOK
<1>7. PubType'
    BY <1>1, <1>4, <1>5, <1>6 DEF PubType, PubJobsGo
<1>8. PubCountInv' /\ PubReachInv'
    <2>1. \A u \in Threads, k \in PublishedKeys, s \in Subs : PubReplays(u, k, s) => PubReplays(u, k, s)'
        BY <1>2, <1>3, <1>6 DEF PubReplays, PubJobsGo
    <2> QED
        BY <1>4, <2>1, PubEntriesStay
<1>9. ASSUME NEW k \in PublishedKeys, PubOwes(k)' PROVE PubOn(k)'
    <2>1. PubOwes(k) /\ pubService'[k] = pubService[k]
        BY <1>4, <1>5, <1>9 DEF PubOwes, Pub!KeyEnabled, Pub!AnyEnabled
    <2>2. ~PubAsks(t, k)
        BY <1>2, <1>3 DEF PubAsks
    <2> QED
        BY <1>6, <2>1, <2>2, PubAskOther DEF PubJobsGo
<1> QED
    BY <1>7, <1>8, <1>9 DEF PubInv, PubAskInv

LEMMA PubServiceRestarts ==
    ASSUME PubInv, Pub!ServiceRestarts
    PROVE  PubInv'
<1>1. PubType
    BY DEF PubInv
<1>2. /\ pubCallbacks' = pubCallbacks /\ pubLastChange' = pubLastChange /\ pubJob' = pubJob
      /\ pubChange' = pubChange /\ pubSeen' = pubSeen /\ pubOwed' = pubOwed
      /\ pubService' = [k \in PublishedKeys |-> "none"] /\ pubLost' = TRUE
    BY DEF Pub!ServiceRestarts
<1>3. PubType'
    BY <1>1, <1>2 DEF PubType
<1>4. PubCountInv' /\ PubReachInv'
    <2>1. \A u \in Threads, k \in PublishedKeys, s \in Subs : PubReplays(u, k, s) => PubReplays(u, k, s)'
        BY <1>2 DEF PubReplays
    <2> QED
        BY <1>2, <2>1, PubEntriesStay
<1>5. PubAskInv'
    BY <1>2 DEF PubAskInv, PubOwes
<1> QED
    BY <1>3, <1>4, <1>5 DEF PubInv

LEMMA PubRecoverObservers ==
    ASSUME PubInv, NEW t \in Threads, Pub!RecoverObservers(t)
    PROVE  PubInv'
<1>1. PubType
    BY DEF PubInv
<1>2. /\ pubCallbacks' = pubCallbacks /\ pubLastChange' = pubLastChange /\ pubJob' = pubJob
      /\ pubChange' = pubChange /\ pubSeen' = pubSeen /\ pubOwed' = pubOwed
    BY DEF Pub!RecoverObservers
<1>3. PICK keys, bad : /\ keys = {k \in PublishedKeys : Pub!Observed(k)} /\ pubExcused' = pubExcused \cup bad
                       /\ pubService' = [k \in PublishedKeys |-> IF k \in keys \ bad THEN "on" ELSE pubService[k]]
    BY DEF Pub!RecoverObservers
<1>4. PubType'
    BY <1>1, <1>2, <1>3 DEF PubType
<1>5. PubCountInv' /\ PubReachInv'
    <2>1. \A u \in Threads, k \in PublishedKeys, s \in Subs : PubReplays(u, k, s) => PubReplays(u, k, s)'
        BY <1>2 DEF PubReplays
    <2> QED
        BY <1>2, <2>1, PubEntriesStay
<1>6. ASSUME NEW k \in PublishedKeys, PubOwes(k)' PROVE pubService'[k] = "on"
    <2>1. k \notin pubExcused' /\ Pub!KeyEnabled(k)
        BY <1>2, <1>6 DEF PubOwes, Pub!KeyEnabled, Pub!AnyEnabled
    <2>2. Pub!Observed(k)
        <3>1. DOMAIN <<>> = {}
            OBVIOUS
        <3> QED
            BY <2>1, <3>1 DEF Pub!Observed, Pub!KeyEnabled, Pub!AnyEnabled
    <2> QED
        BY <1>3, <2>1, <2>2
<1> QED
    BY <1>4, <1>5, <1>6 DEF PubInv, PubAskInv, PubOn

LEMMA PubEmitOnEnable ==
    ASSUME PubInv, NEW t \in Threads, Pub!EmitOnEnable(t)
    PROVE  PubInv'
<1>1. PubType /\ PubCountInv /\ PubReachInv
    BY DEF PubInv
<1>2. PICK j : j = pubJob[t]
    OBVIOUS
<1>3. j \in PubJobs /\ j.op = "replay" /\ j.k \in PublishedKeys /\ j.s \in Subs
    BY <1>1, <1>2 DEF PubType, Pub!EmitOnEnable
<1>4. /\ pubCallbacks' = pubCallbacks /\ pubLastChange' = pubLastChange /\ pubService' = pubService /\ pubExcused' = pubExcused
      /\ pubLost' = pubLost /\ pubChange' = pubChange /\ pubOwed' = pubOwed /\ Pub!Goes(t, Pub!Idle)
    BY DEF Pub!EmitOnEnable
<1>5. PICK k0, s0, n, S : /\ k0 = j.k /\ s0 = j.s /\ S = pubSeen'
                          /\ n = Pub!Later(pubSeen[j.k][j.s], pubLastChange[j.k])
    OBVIOUS
<1>6. /\ pubSeen \in [PublishedKeys -> [Subs -> Nat]] /\ pubLastChange[k0] \in Nat
      /\ k0 \in PublishedKeys /\ s0 \in Subs
    BY <1>1, <1>3, <1>5 DEF PubType
<1>7. n \in Nat /\ n >= pubLastChange[k0] /\ n >= pubSeen[k0][s0]
    <2>1. pubSeen[k0][s0] \in Nat
        BY <1>6
    <2> QED
        BY <1>5, <1>6, <2>1 DEF Pub!Later
<1>8. S = IF j.notify THEN [pubSeen EXCEPT ![k0][s0] = n] ELSE pubSeen
    BY <1>2, <1>5 DEF Pub!EmitOnEnable
<1>9. /\ S \in [PublishedKeys -> [Subs -> Nat]] /\ (j.notify => S[k0][s0] = n)
      /\ \A k \in PublishedKeys, s \in Subs : S[k][s] >= pubSeen[k][s]
    <2>1. CASE ~j.notify
        <3>1. \A k \in PublishedKeys, s \in Subs : pubSeen[k][s] \in Nat
            BY <1>6
        <3> QED
            BY <1>6, <1>8, <2>1, <3>1
    <2>2. CASE j.notify
        <3>1. S = [pubSeen EXCEPT ![k0][s0] = n]
            BY <1>8, <2>2
        <3>2. /\ S \in [PublishedKeys -> [Subs -> Nat]] /\ S[k0][s0] = n
              /\ \A k \in PublishedKeys, s \in Subs : k # k0 \/ s # s0 => S[k][s] = pubSeen[k][s]
            BY <1>6, <1>7, <3>1, Update2
        <3>3. ASSUME NEW k \in PublishedKeys, NEW s \in Subs PROVE S[k][s] >= pubSeen[k][s]
            <4>1. pubSeen[k][s] \in Nat
                BY <1>6
            <4> QED
                BY <1>7, <3>2, <4>1
        <3> QED
            BY <3>2, <3>3
    <2> QED
        BY <2>1, <2>2
<1>10. PubJobsGo(t, Pub!Idle)
    BY <1>1, <1>4, PubIdle, PubJobGoes DEF PubJobOK
<1>11. PubType'
    BY <1>1, <1>4, <1>5, <1>9, <1>10 DEF PubType, PubJobsGo
<1>12. PubCountInv'
    BY <1>1, <1>4 DEF PubCountInv
<1>13. ASSUME NEW k \in PublishedKeys, NEW s \in Subs PROVE PubReaches(k, s)'
    <2>1. PubReaches(k, s)
        BY <1>1 DEF PubReachInv
    <2>2. /\ pubSeen[k][s] \in Nat /\ S[k][s] \in Nat /\ pubOwed[k][s] \in Nat /\ pubLastChange[k] \in Nat
          /\ pubOwed[k][s] <= pubLastChange[k] /\ S[k][s] >= pubSeen[k][s]
        BY <1>1, <1>9 DEF PubType, PubCountInv
    <2>3. CASE pubSeen[k][s] >= pubOwed[k][s]
        BY <1>4, <1>5, <2>2, <2>3 DEF PubReaches
    <2>4. ASSUME NEW u \in Threads, PubReplays(u, k, s) PROVE PubReaches(k, s)'
        <3>1. CASE u = t
            <4>1. k = k0 /\ s = s0 /\ j.notify
                BY <1>2, <1>5, <2>4, <3>1 DEF PubReplays
            <4>2. S[k][s] >= pubOwed[k][s]
                BY <1>7, <1>9, <2>2, <4>1
            <4> QED
                BY <1>4, <1>5, <4>2 DEF PubReaches
        <3>2. CASE u # t
            BY <1>10, <2>4, <3>2 DEF PubReaches, PubReplays, PubJobsGo
        <3> QED
            BY <3>1, <3>2
    <2>5. CASE MarkIn(pubCallbacks[k][s])
        BY <1>4, <2>5 DEF PubReaches, MarkIn
    <2> QED
        BY <2>1, <2>3, <2>4, <2>5 DEF PubReaches
<1>14. ASSUME NEW k \in PublishedKeys, PubOwes(k)' PROVE PubOn(k)'
    <2>1. PubOwes(k)
        BY <1>4, <1>14 DEF PubOwes, Pub!KeyEnabled, Pub!AnyEnabled
    <2>2. ~PubAsks(t, k)
        BY <1>2, <1>3 DEF PubAsks
    <2> QED
        BY <1>4, <1>10, <2>1, <2>2, PubAskOther DEF PubJobsGo
<1> QED
    BY <1>11, <1>12, <1>13, <1>14 DEF PubInv, PubReachInv, PubAskInv

LEMMA PubEntry ==
    Pub!Entry \in Entries /\ Pub!Entry.enabled = TRUE /\ Pub!Entry.notify = FALSE
BY DEF Pub!Entry, Entries

LEMMA PubAddObservers ==
    ASSUME PubInv, NEW t \in Threads, NEW k0 \in PublishedKeys, NEW s0 \in Subs, Pub!AddObservers(t, k0, s0)
    PROVE  PubInv'
<1>1. PubType /\ PubCountInv /\ PubReachInv
    BY DEF PubInv
<1>2. /\ pubLastChange' = pubLastChange /\ pubService' = pubService /\ pubLost' = pubLost /\ pubChange' = pubChange
      /\ pubSeen' = pubSeen /\ pubOwed' = pubOwed /\ Pub!Begin(t)
    BY DEF Pub!AddObservers
<1>3. PICK j : j = IF Pub!Observed(k0) THEN Pub!Idle ELSE Pub!Job("subscribe", k0, s0, FALSE)
    OBVIOUS
<1>4. Pub!Goes(t, j)
    BY <1>3 DEF Pub!AddObservers
<1>5. PubJobOK(j) /\ (~Pub!Observed(k0) => j.op = "subscribe" /\ j.k = k0)
    <2>1. CASE Pub!Observed(k0)
        BY <1>3, <2>1, PubIdle DEF PubJobOK
    <2>2. CASE ~Pub!Observed(k0)
        <3>1. j = Pub!Job("subscribe", k0, s0, FALSE) /\ "subscribe" \in PubOps /\ FALSE \in BOOLEAN
            BY <1>3, <2>2 DEF PubOps
        <3> QED
            BY <3>1 DEF Pub!Job, PubJobs, PubJobOK
    <2> QED
        BY <2>1, <2>2
<1>6. PubJobsGo(t, j)
    BY <1>1, <1>4, <1>5, PubJobGoes
<1>7. pubExcused \subseteq pubExcused' /\ (Pub!Observed(k0) /\ ~Pub!KeyEnabled(k0) => k0 \in pubExcused')
    BY DEF Pub!AddObservers, Pub!Excuse
<1>8. PICK q, r, C : q = pubCallbacks[k0][s0] /\ r = Append(q, Pub!Entry) /\ C = pubCallbacks'
    OBVIOUS
<1>9. q \in Seq(Entries)
    BY <1>1, <1>8 DEF PubType
<1>10. r \in Seq(Entries) /\ r # <<>> /\ \A i \in DOMAIN q : i \in DOMAIN r /\ r[i] = q[i]
    BY <1>8, <1>9, PubEntry
<1>11. /\ C \in [PublishedKeys -> [Subs -> Seq(Entries)]] /\ C[k0][s0] = r
       /\ \A k \in PublishedKeys, s \in Subs : k # k0 \/ s # s0 => C[k][s] = pubCallbacks[k][s]
    <2>1. pubCallbacks \in [PublishedKeys -> [Subs -> Seq(Entries)]] /\ C = [pubCallbacks EXCEPT ![k0][s0] = r]
        BY <1>1, <1>8 DEF PubType, Pub!AddObservers
    <2> QED
        BY <1>10, <2>1, Update2
<1>12. PubType'
    BY <1>1, <1>2, <1>6, <1>8, <1>11 DEF PubType, PubJobsGo
<1>13. PubCountInv'
    <2>1. \A k \in PublishedKeys, s \in Subs : C[k][s] = <<>> => pubCallbacks[k][s] = <<>>
        BY <1>10, <1>11
    <2> QED
        BY <1>1, <1>2, <1>8, <2>1 DEF PubCountInv
<1>14. ASSUME NEW k \in PublishedKeys, NEW s \in Subs PROVE PubReaches(k, s)'
    <2>1. PubReaches(k, s)
        BY <1>1 DEF PubReachInv
    <2>2. MarkIn(pubCallbacks[k][s]) => MarkIn(C[k][s])
        <3>1. MarkIn(q) => MarkIn(r)
            BY <1>10 DEF MarkIn
        <3> QED
            BY <1>8, <1>11, <3>1
    <2>3. \A u \in Threads : PubReplays(u, k, s) => PubReplays(u, k, s)'
        <3>1. ~PubReplays(t, k, s)
            BY <1>1, <1>2, PubBegins
        <3> QED
            BY <1>6, <3>1 DEF PubReplays, PubJobsGo
    <2> QED
        BY <1>2, <1>8, <2>1, <2>2, <2>3, PubReachStays
<1>15. ASSUME NEW k \in PublishedKeys, PubOwes(k)' PROVE PubOn(k)'
    <2>1. CASE Pub!KeyEnabled(k)
        <3>1. PubOwes(k)
            BY <1>2, <1>7, <1>15, <2>1 DEF PubOwes
        <3>2. ~PubAsks(t, k)
            BY <1>1, <1>2, PubBegins
        <3> QED
            BY <1>2, <1>6, <3>1, <3>2, PubAskOther DEF PubJobsGo
    <2>2. CASE ~Pub!KeyEnabled(k)
        <3>1. k = k0
            BY <1>8, <1>11, <1>15, <2>2 DEF PubOwes, Pub!KeyEnabled, Pub!AnyEnabled
        <3>2. ~Pub!Observed(k0)
            BY <1>7, <1>15, <2>2, <3>1 DEF PubOwes
        <3> QED
            BY <1>5, <1>6, <3>1, <3>2 DEF PubOn, PubAsks, PubJobsGo
    <2> QED
        BY <2>1, <2>2
<1> QED
    BY <1>12, <1>13, <1>14, <1>15 DEF PubInv, PubReachInv, PubAskInv

\* Every entry of a subscriber on some keys goes, with what it has seen and is owed.
PubDrops(ks, s0, C, S, W) ==
    /\ pubLastChange' = pubLastChange /\ pubService' = pubService /\ pubLost' = pubLost /\ pubChange' = pubChange
    /\ pubExcused \subseteq pubExcused'
    /\ C = pubCallbacks' /\ S = pubSeen' /\ W = pubOwed'
    /\ C \in [PublishedKeys -> [Subs -> Seq(Entries)]] /\ S \in [PublishedKeys -> [Subs -> Nat]]
    /\ W \in [PublishedKeys -> [Subs -> Nat]]
    /\ \A k \in PublishedKeys, s \in Subs :
         IF k \in ks /\ s = s0 THEN C[k][s] = <<>> /\ W[k][s] = 0
         ELSE C[k][s] = pubCallbacks[k][s] /\ S[k][s] = pubSeen[k][s] /\ W[k][s] = pubOwed[k][s]
\* The thread owes nobody a replay, and if it was to ask the service for a key that
\* stays enabled by others, that key is excused.
PubLeaves(t) ==
    /\ \A k \in PublishedKeys, s \in Subs : ~PubReplays(t, k, s)
    /\ \A k \in PublishedKeys : PubAsks(t, k) /\ Pub!KeyEnabled(k)' => k \in pubExcused'

LEMMA PubRemoves ==
    ASSUME PubInv, NEW t \in Threads, NEW j, PubJobsGo(t, j), PubLeaves(t),
           NEW ks, NEW s0 \in Subs, NEW C, NEW S, NEW W, PubDrops(ks, s0, C, S, W)
    PROVE  PubInv'
<1> USE DEF PubDrops
<1>1. PubType /\ PubCountInv /\ PubReachInv
    BY DEF PubInv
<1>2. PubType'
    BY <1>1 DEF PubType, PubJobsGo
<1>3. PubCountInv'
    <2>1. ASSUME NEW k \in PublishedKeys, NEW s \in Subs
          PROVE  W[k][s] <= pubLastChange[k] /\ (C[k][s] = <<>> => W[k][s] = 0)
        <3>1. pubLastChange[k] \in Nat /\ pubOwed[k][s] <= pubLastChange[k] /\ (pubCallbacks[k][s] = <<>> => pubOwed[k][s] = 0)
            BY <1>1 DEF PubCountInv, PubType
        <3> QED
            BY <3>1
    <2> QED
        BY <2>1 DEF PubCountInv
<1>4. ASSUME NEW k \in PublishedKeys, NEW s \in Subs PROVE PubReaches(k, s)'
    <2>1. CASE k \in ks /\ s = s0
        <3>1. W[k][s] = 0 /\ S[k][s] \in Nat
            BY <2>1
        <3>2. S[k][s] >= W[k][s]
            BY <3>1
        <3> QED
            BY <3>2 DEF PubReaches
    <2>2. CASE ~(k \in ks /\ s = s0)
        <3>1. C[k][s] = pubCallbacks[k][s] /\ S[k][s] = pubSeen[k][s] /\ W[k][s] = pubOwed[k][s]
            BY <2>2
        <3>2. PubReaches(k, s)
            BY <1>1 DEF PubReachInv
        <3>3. \A u \in Threads : PubReplays(u, k, s) => PubReplays(u, k, s)'
            <4>1. ASSUME NEW u \in Threads, PubReplays(u, k, s) PROVE u # t
                BY <4>1 DEF PubLeaves
            <4>2. \A u \in Threads : u # t => pubJob'[u] = pubJob[u]
                BY DEF PubJobsGo
            <4> QED
                BY <4>1, <4>2 DEF PubReplays
        <3>4. MarkIn(pubCallbacks[k][s]) => MarkIn(pubCallbacks[k][s])'
            BY <3>1 DEF MarkIn
        <3> QED
            BY <3>1, <3>2, <3>3, <3>4, PubReachStays
    <2> QED
        BY <2>1, <2>2
<1>5. ASSUME NEW k \in PublishedKeys, PubOwes(k)' PROVE PubOn(k)'
    <2>1. Pub!KeyEnabled(k)
        <3>1. PICK s \in Subs : Pub!AnyEnabled(C[k][s])
            BY <1>5 DEF PubOwes, Pub!KeyEnabled, Pub!AnyEnabled
        <3>2. C[k][s] # <<>>
            <4>1. DOMAIN <<>> = {}
                OBVIOUS
            <4> QED
                BY <3>1, <4>1 DEF Pub!AnyEnabled
        <3>3. C[k][s] = pubCallbacks[k][s]
            BY <3>2
        <3> QED
            BY <3>1, <3>3 DEF Pub!KeyEnabled
    <2>2. PubOwes(k) /\ ~PubAsks(t, k)
        BY <1>5, <2>1 DEF PubOwes, PubLeaves
    <2> QED
        BY <2>2, PubAskOther DEF PubJobsGo
<1> QED
    BY <1>2, <1>3, <1>4, <1>5 DEF PubInv, PubReachInv, PubAskInv

LEMMA PubRollbackAdd ==
    ASSUME PubInv, NEW t \in Threads, Pub!RollbackAdd(t)
    PROVE  PubInv'
<1>1. PubType
    BY DEF PubInv
<1>2. PICK j, k0, s0 : j = pubJob[t] /\ k0 = j.k /\ s0 = j.s
    OBVIOUS
<1>3. j.op = "rollback" /\ k0 \in PublishedKeys /\ s0 \in Subs
    BY <1>1, <1>2 DEF PubType, Pub!RollbackAdd
<1>4. /\ pubLastChange' = pubLastChange /\ pubService' = pubService /\ pubLost' = pubLost /\ pubChange' = pubChange
      /\ Pub!Goes(t, Pub!Idle)
      /\ pubExcused' = IF Pub!Shared(k0, s0) THEN pubExcused \cup {k0} ELSE pubExcused
    BY <1>2 DEF Pub!RollbackAdd, Pub!Excuse
<1>5. PICK C, S, W : C = pubCallbacks' /\ S = pubSeen' /\ W = pubOwed'
    OBVIOUS
<1>6. /\ C = [pubCallbacks EXCEPT ![k0][s0] = <<>>] /\ S = [pubSeen EXCEPT ![k0][s0] = 0]
      /\ W = [pubOwed EXCEPT ![k0][s0] = 0]
    BY <1>2, <1>5 DEF Pub!RollbackAdd
<1>7. /\ C \in [PublishedKeys -> [Subs -> Seq(Entries)]] /\ C[k0][s0] = <<>>
      /\ \A k \in PublishedKeys, s \in Subs : k # k0 \/ s # s0 => C[k][s] = pubCallbacks[k][s]
    <2>1. <<>> \in Seq(Entries) /\ pubCallbacks \in [PublishedKeys -> [Subs -> Seq(Entries)]]
        BY <1>1 DEF PubType
    <2> QED
        BY <1>3, <1>6, <2>1, Update2
<1>8. /\ S \in [PublishedKeys -> [Subs -> Nat]]
      /\ \A k \in PublishedKeys, s \in Subs : k # k0 \/ s # s0 => S[k][s] = pubSeen[k][s]
    <2>1. 0 \in Nat /\ pubSeen \in [PublishedKeys -> [Subs -> Nat]]
        BY <1>1 DEF PubType
    <2> QED
        BY <1>3, <1>6, <2>1, Update2
<1>9. /\ W \in [PublishedKeys -> [Subs -> Nat]] /\ W[k0][s0] = 0
      /\ \A k \in PublishedKeys, s \in Subs : k # k0 \/ s # s0 => W[k][s] = pubOwed[k][s]
    <2>1. 0 \in Nat /\ pubOwed \in [PublishedKeys -> [Subs -> Nat]]
        BY <1>1 DEF PubType
    <2> QED
        BY <1>3, <1>6, <2>1, Update2
<1>10. PubJobsGo(t, Pub!Idle)
    BY <1>1, <1>4, PubIdle, PubJobGoes DEF PubJobOK
<1>11. PICK ks : ks = {k0}
    OBVIOUS
<1>12. \A k \in PublishedKeys, s \in Subs :
           IF k \in ks /\ s = s0 THEN C[k][s] = <<>> /\ W[k][s] = 0
           ELSE C[k][s] = pubCallbacks[k][s] /\ S[k][s] = pubSeen[k][s] /\ W[k][s] = pubOwed[k][s]
    BY <1>7, <1>8, <1>9, <1>11
<1>13. \A k \in PublishedKeys, s \in Subs : ~PubReplays(t, k, s)
    BY <1>2, <1>3 DEF PubReplays
<1>14. ASSUME NEW k \in PublishedKeys, PubAsks(t, k), Pub!KeyEnabled(k)' PROVE k \in pubExcused'
    <2>1. k = k0
        BY <1>2, <1>14 DEF PubAsks
    <2>2. PICK s \in Subs : Pub!AnyEnabled(C[k][s])
        BY <1>5, <1>14 DEF Pub!KeyEnabled, Pub!AnyEnabled
    <2>3. C[k][s] # <<>>
        <3>1. DOMAIN <<>> = {}
            OBVIOUS
        <3> QED
            BY <2>2, <3>1 DEF Pub!AnyEnabled
    <2>4. Pub!Shared(k0, s0)
        BY <1>7, <2>1, <2>3 DEF Pub!Shared
    <2> QED
        BY <1>4, <2>1, <2>4
<1>15. pubExcused \subseteq pubExcused'
    BY <1>4
<1> QED
    <2>1. PubDrops(ks, s0, C, S, W)
        BY <1>4, <1>5, <1>7, <1>8, <1>9, <1>12, <1>15 DEF PubDrops
    <2>2. PubLeaves(t)
        BY <1>13, <1>14 DEF PubLeaves
    <2> QED
        BY <1>3, <1>10, <2>1, <2>2, PubRemoves

\* A column of a table is set to a value on some keys.
LEMMA UpdateColumn ==
    ASSUME NEW A, NEW B, NEW V, NEW f \in [A -> [B -> V]], NEW K, NEW b \in B, NEW v \in V,
           NEW g, g = [a \in A |-> IF a \in K THEN [f[a] EXCEPT ![b] = v] ELSE f[a]]
    PROVE  /\ g \in [A -> [B -> V]]
           /\ \A x \in A, y \in B : g[x][y] = IF x \in K /\ y = b THEN v ELSE f[x][y]
<1>1. ASSUME NEW a \in A PROVE /\ g[a] \in [B -> V]
                              /\ \A y \in B : g[a][y] = IF a \in K /\ y = b THEN v ELSE f[a][y]
    <2>1. f[a] \in [B -> V] /\ g[a] = IF a \in K THEN [f[a] EXCEPT ![b] = v] ELSE f[a]
        OBVIOUS
    <2> QED
        BY <2>1
<1>2. g = [a \in A |-> g[a]]
    OBVIOUS
<1>3. g \in [A -> [B -> V]]
    BY <1>1, <1>2
<1> QED
    BY <1>1, <1>3

LEMMA PubDelObservers ==
    ASSUME PubInv, NEW t \in Threads, NEW ks, ks \subseteq PublishedKeys, NEW s0 \in Subs, Pub!DelObservers(t, ks, s0)
    PROVE  PubInv'
<1>1. PubType
    BY DEF PubInv
<1>2. /\ pubLastChange' = pubLastChange /\ pubService' = pubService /\ pubLost' = pubLost /\ pubChange' = pubChange
      /\ pubExcused' = pubExcused /\ Pub!Begin(t)
    BY DEF Pub!DelObservers
<1>3. PICK C, S, W : C = pubCallbacks' /\ S = pubSeen' /\ W = pubOwed'
    OBVIOUS
<1>4. /\ C = [k \in PublishedKeys |-> IF k \in ks THEN [pubCallbacks[k] EXCEPT ![s0] = <<>>] ELSE pubCallbacks[k]]
      /\ S = [k \in PublishedKeys |-> IF k \in ks THEN [pubSeen[k] EXCEPT ![s0] = 0] ELSE pubSeen[k]]
      /\ W = [k \in PublishedKeys |-> IF k \in ks THEN [pubOwed[k] EXCEPT ![s0] = 0] ELSE pubOwed[k]]
    BY <1>3 DEF Pub!DelObservers
<1>5. /\ C \in [PublishedKeys -> [Subs -> Seq(Entries)]]
      /\ \A k \in PublishedKeys, s \in Subs : C[k][s] = IF k \in ks /\ s = s0 THEN <<>> ELSE pubCallbacks[k][s]
    <2>1. <<>> \in Seq(Entries) /\ pubCallbacks \in [PublishedKeys -> [Subs -> Seq(Entries)]]
        BY <1>1 DEF PubType
    <2> QED
        BY <1>4, <2>1, UpdateColumn
<1>6. /\ S \in [PublishedKeys -> [Subs -> Nat]]
      /\ \A k \in PublishedKeys, s \in Subs : S[k][s] = IF k \in ks /\ s = s0 THEN 0 ELSE pubSeen[k][s]
    <2>1. 0 \in Nat /\ pubSeen \in [PublishedKeys -> [Subs -> Nat]]
        BY <1>1 DEF PubType
    <2> QED
        BY <1>4, <2>1, UpdateColumn
<1>7. /\ W \in [PublishedKeys -> [Subs -> Nat]]
      /\ \A k \in PublishedKeys, s \in Subs : W[k][s] = IF k \in ks /\ s = s0 THEN 0 ELSE pubOwed[k][s]
    <2>1. 0 \in Nat /\ pubOwed \in [PublishedKeys -> [Subs -> Nat]]
        BY <1>1 DEF PubType
    <2> QED
        BY <1>4, <2>1, UpdateColumn
<1>8. PubDrops(ks, s0, C, S, W)
    <2>1. \A k \in PublishedKeys, s \in Subs :
              IF k \in ks /\ s = s0 THEN C[k][s] = <<>> /\ W[k][s] = 0
              ELSE C[k][s] = pubCallbacks[k][s] /\ S[k][s] = pubSeen[k][s] /\ W[k][s] = pubOwed[k][s]
        BY <1>5, <1>6, <1>7
    <2> QED
        BY <1>2, <1>3, <1>5, <1>6, <1>7, <2>1 DEF PubDrops
<1>9. PubLeaves(t)
    BY <1>1, <1>2, PubBegins DEF PubLeaves
<1>10. \E j : PubJobsGo(t, j)
    <2>1. PICK gone : gone = {k \in ks : pubCallbacks[k][s0] # <<>> /\ ~Pub!Shared(k, s0)}
        OBVIOUS
    <2>2. CASE pubJob' = pubJob
        <3>1. PubJobsGo(t, pubJob[t])
            BY <1>1, <2>2 DEF PubType, PubJobsGo
        <3> QED
            BY <3>1
    <2>3. ASSUME NEW k \in gone, Pub!Goes(t, [Pub!Job("unsubscribe", k, s0, FALSE) EXCEPT !.more = gone])
          PROVE  \E j : PubJobsGo(t, j)
        <3>1. PICK i, j : i = Pub!Job("unsubscribe", k, s0, FALSE) /\ j = [i EXCEPT !.more = gone]
            OBVIOUS
        <3>2. k \in PublishedKeys /\ gone \subseteq PublishedKeys
            BY <2>1
        <3>3. "unsubscribe" \in PubOps /\ FALSE \in BOOLEAN
            BY DEF PubOps
        <3>4. PubJobOK(i)
            BY <3>1, <3>2, <3>3, PubJobMade
        <3>5. PubJobOK(j)
            BY <3>1, <3>2, <3>4, PubJobMore
        <3>6. Pub!Goes(t, j)
            BY <2>3, <3>1
        <3>7. PubJobsGo(t, j)
            BY <1>1, <3>5, <3>6, PubJobGoes
        <3> QED
            BY <3>7
    <2> QED
        BY <2>1, <2>2, <2>3 DEF Pub!DelObservers
<1> QED
    BY <1>8, <1>9, <1>10, PubRemoves

\* The entries of one subscriber on a key are switched.
PubSets(k0, s0, r) ==
    /\ pubCallbacks' \in [PublishedKeys -> [Subs -> Seq(Entries)]] /\ pubCallbacks'[k0][s0] = r
    /\ \A k \in PublishedKeys, s \in Subs : k # k0 \/ s # s0 => pubCallbacks'[k][s] = pubCallbacks[k][s]

LEMMA PubSwitch ==
    ASSUME PubType, NEW k0 \in PublishedKeys, NEW s0 \in Subs, NEW r \in Seq(Entries),
           pubCallbacks' = [pubCallbacks EXCEPT ![k0][s0] = r]
    PROVE  PubSets(k0, s0, r)
<1>1. PICK C : C = pubCallbacks'
    OBVIOUS
<1>2. pubCallbacks \in [PublishedKeys -> [Subs -> Seq(Entries)]] /\ C = [pubCallbacks EXCEPT ![k0][s0] = r]
    BY <1>1 DEF PubType
<1>3. /\ C \in [PublishedKeys -> [Subs -> Seq(Entries)]] /\ C[k0][s0] = r
      /\ \A k \in PublishedKeys, s \in Subs : k # k0 \/ s # s0 => C[k][s] = pubCallbacks[k][s]
    BY <1>2, Update2
<1> QED
    BY <1>1, <1>3 DEF PubSets

\* Entries keep the marks of those that are disabled.
LEMMA PubSwitched ==
    ASSUME PubInv, NEW k0 \in PublishedKeys, NEW s0 \in Subs, NEW q, q = pubCallbacks[k0][s0],
           NEW r \in Seq(Entries), r = <<>> => q = <<>>,
           PubSets(k0, s0, r),
           pubSeen' = pubSeen, pubOwed' = pubOwed, pubLastChange' = pubLastChange,
           \A k \in PublishedKeys, s \in Subs : \A u \in Threads : PubReplays(u, k, s) => PubReplays(u, k, s)',
           MarkIn(q) => MarkIn(r) \/ \E u \in Threads : PubReplays(u, k0, s0)'
    PROVE  PubCountInv' /\ PubReachInv'
<1>1. PubType /\ PubCountInv /\ PubReachInv
    BY DEF PubInv
<1>2. PICK C : C = pubCallbacks'
    OBVIOUS
<1>3. C[k0][s0] = r /\ \A k \in PublishedKeys, s \in Subs : k # k0 \/ s # s0 => C[k][s] = pubCallbacks[k][s]
    BY <1>2 DEF PubSets
<1>4. PubCountInv'
    <2>1. \A k \in PublishedKeys, s \in Subs : C[k][s] = <<>> => pubCallbacks[k][s] = <<>>
        BY <1>3
    <2> QED
        BY <1>1, <1>2, <2>1 DEF PubCountInv
<1>5. ASSUME NEW k \in PublishedKeys, NEW s \in Subs PROVE PubReaches(k, s)'
    <2>1. PubReaches(k, s)
        BY <1>1 DEF PubReachInv
    <2>2. CASE \E u \in Threads : PubReplays(u, k, s)'
        BY <2>2 DEF PubReaches
    <2>3. CASE MarkIn(pubCallbacks[k][s]) => MarkIn(C[k][s])
        BY <1>2, <2>1, <2>3, PubReachStays
    <2> QED
        BY <1>3, <2>2, <2>3
<1> QED
    BY <1>4, <1>5 DEF PubReachInv

\* An entry that is enabled takes its mark along as a replay.
LEMMA PubEnableObservers ==
    ASSUME PubInv, NEW t \in Threads, NEW k0 \in PublishedKeys, NEW s0 \in Subs, Pub!EnableObservers(t, k0, s0)
    PROVE  PubInv'
<1>1. PubType
    BY DEF PubInv
<1>2. /\ pubLastChange' = pubLastChange /\ pubService' = pubService /\ pubLost' = pubLost /\ pubChange' = pubChange
      /\ pubSeen' = pubSeen /\ pubOwed' = pubOwed /\ pubExcused' = pubExcused /\ Pub!Begin(t)
    BY DEF Pub!EnableObservers
<1>3. PICK q, r : q = pubCallbacks[k0][s0] /\ r = [q EXCEPT ![1].enabled = TRUE]
    OBVIOUS
<1>4. q \in Seq(Entries) /\ q # <<>> /\ ~q[1].enabled
    BY <1>1, <1>3 DEF PubType, Pub!EnableObservers
<1>5. 1 \in DOMAIN q /\ q[1] \in Entries
    BY <1>4
<1>6. PICK a, b : a = q[1] /\ b = [a EXCEPT !.enabled = TRUE]
    OBVIOUS
<1>7. b \in Entries /\ b.enabled = TRUE
    BY <1>5, <1>6 DEF Entries
<1>8. r = [q EXCEPT ![1] = b]
    BY <1>3, <1>5, <1>6
<1>9. r \in Seq(Entries) /\ r # <<>> /\ DOMAIN r = DOMAIN q /\ \A i \in DOMAIN q : i # 1 => r[i] = q[i]
    BY <1>4, <1>5, <1>7, <1>8
<1>10. PubSets(k0, s0, r)
    <2>1. pubCallbacks' = [pubCallbacks EXCEPT ![k0][s0] = r]
        <3>1. pubCallbacks \in [PublishedKeys -> [Subs -> Seq(Entries)]]
            BY <1>1 DEF PubType
        <3>2. pubCallbacks' = [pubCallbacks EXCEPT ![k0][s0][1].enabled = TRUE]
            BY DEF Pub!EnableObservers
        <3> QED
            BY <1>3, <3>1, <3>2
    <2> QED
        BY <1>1, <1>9, <2>1, PubSwitch
<1>11. PICK op, n, j : /\ op = IF Pub!KeyEnabled(k0) THEN "replay" ELSE "enable"
                       /\ n = a.notify /\ j = Pub!Job(op, k0, s0, n)
    OBVIOUS
<1>12. Pub!Goes(t, j)
    BY <1>3, <1>6, <1>11 DEF Pub!EnableObservers
<1>13. n \in BOOLEAN /\ op \in PubOps /\ op \in {"replay", "enable"}
    BY <1>5, <1>6, <1>11 DEF Entries, PubOps
<1>14. PubJobOK(j) /\ j.op = op /\ j.k = k0 /\ j.s = s0 /\ j.notify = n
    BY <1>11, <1>13, PubJobMade
<1>15. PubJobsGo(t, j)
    BY <1>1, <1>12, <1>14, PubJobGoes
<1>16. PubType'
    BY <1>1, <1>2, <1>10, <1>15 DEF PubType, PubJobsGo, PubSets
<1>17. PubCountInv' /\ PubReachInv'
    <2>1. ASSUME NEW k \in PublishedKeys, NEW s \in Subs, NEW u \in Threads, PubReplays(u, k, s)
          PROVE  PubReplays(u, k, s)'
        <3>1. u # t
            BY <1>1, <1>2, <2>1, PubBegins
        <3> QED
            BY <1>15, <2>1, <3>1 DEF PubReplays, PubJobsGo
    <2>2. ASSUME MarkIn(q) PROVE MarkIn(r) \/ \E u \in Threads : PubReplays(u, k0, s0)'
        <3>1. PICK i \in DOMAIN q : q[i].notify /\ ~q[i].enabled
            BY <2>2 DEF MarkIn
        <3>2. CASE i = 1
            <4>1. n
                BY <1>6, <1>11, <3>1, <3>2
            <4>2. PubReplays(t, k0, s0)'
                BY <1>13, <1>14, <1>15, <4>1 DEF PubReplays, PubJobsGo
            <4> QED
                BY <4>2
        <3>3. CASE i # 1
            BY <1>9, <3>1, <3>3 DEF MarkIn
        <3> QED
            BY <3>2, <3>3
    <2> QED
        BY <1>2, <1>3, <1>9, <1>10, <2>1, <2>2, PubSwitched
<1>18. ASSUME NEW k \in PublishedKeys, PubOwes(k)' PROVE PubOn(k)'
    <2>1. CASE Pub!KeyEnabled(k)
        <3>1. PubOwes(k)
            BY <1>2, <1>18, <2>1 DEF PubOwes
        <3>2. ~PubAsks(t, k)
            BY <1>1, <1>2, PubBegins
        <3> QED
            BY <1>2, <1>15, <3>1, <3>2, PubAskOther DEF PubJobsGo
    <2>2. CASE ~Pub!KeyEnabled(k)
        <3>1. k = k0
            BY <1>10, <1>18, <2>2 DEF PubOwes, PubSets, Pub!KeyEnabled, Pub!AnyEnabled
        <3>2. op = "enable"
            BY <1>11, <2>2, <3>1
        <3> QED
            BY <1>14, <1>15, <3>1, <3>2 DEF PubOn, PubAsks, PubJobsGo
    <2> QED
        BY <2>1, <2>2
<1> QED
    BY <1>16, <1>17, <1>18 DEF PubInv, PubAskInv

\* The entries are disabled again and keep their marks; the replay goes on.
LEMMA PubRollbackEnable ==
    ASSUME PubInv, NEW t \in Threads, Pub!RollbackEnable(t)
    PROVE  PubInv'
<1>1. PubType
    BY DEF PubInv
<1>2. PICK j, k0, s0 : j = pubJob[t] /\ k0 = j.k /\ s0 = j.s
    OBVIOUS
<1>3. PubJobOK(j) /\ j.op = "unroll" /\ k0 \in PublishedKeys /\ s0 \in Subs
    BY <1>1, <1>2 DEF PubType, PubJobOK, Pub!RollbackEnable
<1>4. /\ pubLastChange' = pubLastChange /\ pubService' = pubService /\ pubLost' = pubLost /\ pubChange' = pubChange
      /\ pubSeen' = pubSeen /\ pubOwed' = pubOwed
      /\ pubExcused \subseteq pubExcused'
      /\ (\E s \in Subs \ {s0} : Pub!AnyEnabled(pubCallbacks[k0][s])) => k0 \in pubExcused'
    BY <1>2 DEF Pub!RollbackEnable, Pub!Excuse
<1>5. PICK q, r : q = pubCallbacks[k0][s0] /\ r = [i \in DOMAIN q |-> [q[i] EXCEPT !.enabled = FALSE]]
    OBVIOUS
<1>6. q \in Seq(Entries)
    BY <1>1, <1>3, <1>5 DEF PubType
<1>7. ASSUME NEW i \in DOMAIN q PROVE r[i] \in Entries /\ ~r[i].enabled /\ r[i].notify = q[i].notify
    <2>1. PICK a, b : a = q[i] /\ b = [a EXCEPT !.enabled = FALSE]
        OBVIOUS
    <2>2. a \in Entries
        BY <1>6, <2>1
    <2>3. b \in Entries /\ b.enabled = FALSE /\ b.notify = a.notify
        BY <2>1, <2>2 DEF Entries
    <2>4. r[i] = b
        BY <1>5, <2>1
    <2> QED
        BY <2>1, <2>3, <2>4
<1>8. r \in Seq(Entries) /\ DOMAIN r = DOMAIN q /\ (r = <<>> => q = <<>>)
    <2>1. PICK n \in Nat : DOMAIN q = 1 .. n
        BY <1>6
    <2>2. r \in [1 .. n -> Entries]
        BY <1>5, <1>7, <2>1
    <2>3. DOMAIN <<>> = {} /\ DOMAIN r = DOMAIN q
        BY <1>5
    <2> QED
        BY <1>6, <2>1, <2>2, <2>3
<1>9. PubSets(k0, s0, r)
    <2>1. pubCallbacks' = [pubCallbacks EXCEPT ![k0][s0] = r]
        BY <1>1, <1>2, <1>3, <1>5 DEF PubType, Pub!RollbackEnable
    <2> QED
        BY <1>1, <1>3, <1>8, <2>1, PubSwitch
<1>10. PICK i : i = [j EXCEPT !.op = "replay"]
    OBVIOUS
<1>11. PubJobOK(i) /\ i.op = "replay" /\ i.k = k0 /\ i.s = s0 /\ i.notify = j.notify
    <2>1. "replay" \in PubOps /\ j.op # "idle"
        BY <1>3 DEF PubOps
    <2> QED
        BY <1>2, <1>3, <1>10, <2>1, PubJobNext
<1>12. PubJobsGo(t, i)
    <2>1. Pub!Goes(t, i)
        BY <1>2, <1>10 DEF Pub!RollbackEnable
    <2> QED
        BY <1>1, <1>11, <2>1, PubJobGoes
<1>13. PubType'
    BY <1>1, <1>4, <1>9, <1>12 DEF PubType, PubJobsGo, PubSets
<1>14. PubCountInv' /\ PubReachInv'
    <2>1. ASSUME NEW k \in PublishedKeys, NEW s \in Subs, NEW u \in Threads, PubReplays(u, k, s)
          PROVE  PubReplays(u, k, s)'
        <3>1. CASE u = t
            BY <1>2, <1>11, <1>12, <2>1, <3>1 DEF PubReplays, PubJobsGo
        <3>2. CASE u # t
            BY <1>12, <2>1, <3>2 DEF PubReplays, PubJobsGo
        <3> QED
            BY <3>1, <3>2
    <2>2. MarkIn(q) => MarkIn(r)
        BY <1>7, <1>8 DEF MarkIn
    <2> QED
        BY <1>3, <1>4, <1>5, <1>8, <1>9, <2>1, <2>2, PubSwitched
<1>15. ASSUME NEW k \in PublishedKeys, PubOwes(k)' PROVE PubOn(k)'
    <2>1. PICK s \in Subs : Pub!AnyEnabled(pubCallbacks'[k][s])
        BY <1>15 DEF PubOwes, Pub!KeyEnabled, Pub!AnyEnabled
    <2>2. CASE k = k0
        <3>1. s # s0
            BY <1>7, <1>8, <1>9, <2>1, <2>2 DEF PubSets, Pub!AnyEnabled
        <3>2. Pub!AnyEnabled(pubCallbacks[k0][s])
            BY <1>9, <2>1, <2>2, <3>1 DEF PubSets
        <3> QED
            BY <1>4, <1>15, <2>2, <3>1, <3>2 DEF PubOwes
    <2>3. CASE k # k0
        <3>1. pubCallbacks'[k][s] = pubCallbacks[k][s]
            BY <1>9, <2>3 DEF PubSets
        <3>2. PubOwes(k)
            BY <1>4, <1>15, <2>1, <3>1 DEF PubOwes, Pub!KeyEnabled
        <3>3. ~PubAsks(t, k)
            BY <1>2, <2>3 DEF PubAsks
        <3> QED
            BY <1>4, <1>12, <3>2, <3>3, PubAskOther DEF PubJobsGo
    <2> QED
        BY <2>2, <2>3
<1> QED
    BY <1>13, <1>14, <1>15 DEF PubInv, PubAskInv

LEMMA PubDisableObservers ==
    ASSUME PubInv, NEW t \in Threads, NEW k0 \in PublishedKeys, NEW s0 \in Subs, Pub!DisableObservers(t, k0, s0)
    PROVE  PubInv'
<1>1. PubType
    BY DEF PubInv
<1>2. /\ pubLastChange' = pubLastChange /\ pubService' = pubService /\ pubLost' = pubLost /\ pubChange' = pubChange
      /\ pubSeen' = pubSeen /\ pubOwed' = pubOwed /\ pubExcused' = pubExcused /\ Pub!Begin(t)
    BY DEF Pub!DisableObservers
<1>3. PICK q, r : /\ q = pubCallbacks[k0][s0]
                  /\ r = [i \in DOMAIN q |-> IF q[i].enabled THEN [enabled |-> FALSE, notify |-> FALSE] ELSE q[i]]
    OBVIOUS
<1>4. q \in Seq(Entries)
    BY <1>1, <1>3 DEF PubType
<1>5. ASSUME NEW i \in DOMAIN q
      PROVE  r[i] \in Entries /\ ~r[i].enabled /\ (~q[i].enabled => r[i] = q[i])
    <2>1. r[i] = IF q[i].enabled THEN [enabled |-> FALSE, notify |-> FALSE] ELSE q[i]
        BY <1>3
    <2>2. q[i] \in Entries
        BY <1>4
    <2>3. CASE q[i].enabled
        <3>1. r[i] = [enabled |-> FALSE, notify |-> FALSE]
            BY <2>1, <2>3
        <3> QED
            BY <2>3, <3>1 DEF Entries
    <2>4. CASE ~q[i].enabled
        BY <2>1, <2>2, <2>4
    <2> QED
        BY <2>3, <2>4
<1>6. r \in Seq(Entries) /\ DOMAIN r = DOMAIN q /\ (r = <<>> => q = <<>>)
    <2>1. PICK n \in Nat : DOMAIN q = 1 .. n
        BY <1>4
    <2>2. DOMAIN <<>> = {} /\ DOMAIN r = DOMAIN q
        BY <1>3
    <2>3. r \in [1 .. n -> Entries]
        BY <1>3, <1>5, <2>1
    <2> QED
        BY <1>4, <2>1, <2>2, <2>3
<1>7. PubSets(k0, s0, r)
    <2>1. pubCallbacks' = [pubCallbacks EXCEPT ![k0][s0] = r]
        BY <1>1, <1>3 DEF PubType, Pub!DisableObservers
    <2> QED
        BY <1>1, <1>6, <2>1, PubSwitch
<1>8. \E j : PubJobsGo(t, j)
    <2>1. PICK j : Pub!Goes(t, j) /\ (j = Pub!Idle \/ j = Pub!Job("disable", k0, s0, FALSE))
        BY DEF Pub!DisableObservers
    <2>2. "disable" \in PubOps /\ FALSE \in BOOLEAN
        BY DEF PubOps
    <2>3. PubJobOK(Pub!Idle)
        BY PubIdle DEF PubJobOK
    <2>4. PubJobOK(j)
        BY <2>1, <2>2, <2>3, PubJobMade
    <2>5. PubJobsGo(t, j)
        BY <1>1, <2>1, <2>4, PubJobGoes
    <2> QED
        BY <2>5
<1>9. PICK j : PubJobsGo(t, j)
    BY <1>8
<1>10. PubType'
    BY <1>1, <1>2, <1>7, <1>9 DEF PubType, PubJobsGo, PubSets
<1>11. PubCountInv' /\ PubReachInv'
    <2>1. ASSUME NEW k \in PublishedKeys, NEW s \in Subs, NEW u \in Threads, PubReplays(u, k, s)
          PROVE  PubReplays(u, k, s)'
        <3>1. u # t
            BY <1>1, <1>2, <2>1, PubBegins
        <3> QED
            BY <1>9, <2>1, <3>1 DEF PubReplays, PubJobsGo
    <2>2. MarkIn(q) => MarkIn(r)
        BY <1>5, <1>6 DEF MarkIn
    <2> QED
        BY <1>2, <1>3, <1>6, <1>7, <2>1, <2>2, PubSwitched
<1>12. ASSUME NEW k \in PublishedKeys, PubOwes(k)' PROVE PubOn(k)'
    <2>1. PICK s \in Subs : Pub!AnyEnabled(pubCallbacks'[k][s])
        BY <1>12 DEF PubOwes, Pub!KeyEnabled, Pub!AnyEnabled
    <2>2. k # k0 \/ s # s0
        BY <1>5, <1>6, <1>7, <2>1 DEF PubSets, Pub!AnyEnabled
    <2>3. pubCallbacks'[k][s] = pubCallbacks[k][s]
        BY <1>7, <2>2 DEF PubSets
    <2>4. PubOwes(k)
        BY <1>2, <1>12, <2>1, <2>3 DEF PubOwes, Pub!KeyEnabled
    <2>5. ~PubAsks(t, k)
        BY <1>1, <1>2, PubBegins
    <2> QED
        BY <1>2, <1>9, <2>4, <2>5, PubAskOther DEF PubJobsGo
<1> QED
    BY <1>10, <1>11, <1>12 DEF PubInv, PubAskInv

\* A change is delivered to the enabled observers and marked for the others.
LEMMA PubEmit ==
    ASSUME PubInv, NEW k0 \in PublishedKeys, Pub!Emit(k0)
    PROVE  PubInv'
<1>1. PubType /\ PubCountInv /\ PubReachInv /\ PubAskInv
    BY DEF PubInv
<1>2. /\ pubService' = pubService /\ pubLost' = pubLost /\ pubJob' = pubJob /\ pubExcused' = pubExcused
      /\ pubChange' = pubChange + 1
    BY DEF Pub!Emit
<1>3. PICK n, B, C, S, W, L : /\ n = pubChange + 1 /\ B = pubCallbacks[k0] /\ C = pubCallbacks' /\ S = pubSeen'
                              /\ W = pubOwed' /\ L = pubLastChange'
    OBVIOUS
<1>4. n \in Nat /\ n > 0 /\ B \in [Subs -> Seq(Entries)]
    BY <1>1, <1>3 DEF PubType
<1>5. PICK D : D = [s \in Subs |-> [i \in DOMAIN B[s] |-> IF B[s][i].enabled THEN B[s][i] ELSE [B[s][i] EXCEPT !.notify = TRUE]]]
    OBVIOUS
<1>6. C = [pubCallbacks EXCEPT ![k0] = D]
    BY <1>1, <1>3, <1>5 DEF PubType, Pub!Emit
<1>7. ASSUME NEW s \in Subs, NEW i \in DOMAIN B[s]
      PROVE  /\ D[s][i] \in Entries /\ D[s][i].enabled = B[s][i].enabled
             /\ (~D[s][i].enabled => D[s][i].notify)
    <2>1. PICK a, b : a = B[s][i] /\ b = [a EXCEPT !.notify = TRUE]
        OBVIOUS
    <2>2. a \in Entries
        BY <1>4, <2>1
    <2>3. b \in Entries /\ b.notify = TRUE /\ b.enabled = a.enabled
        BY <2>1, <2>2 DEF Entries
    <2>4. D[s][i] = IF a.enabled THEN a ELSE b
        BY <1>5, <2>1
    <2>5. CASE a.enabled
        BY <2>1, <2>2, <2>4, <2>5
    <2>6. CASE ~a.enabled
        BY <2>1, <2>3, <2>4, <2>6
    <2> QED
        BY <2>5, <2>6
<1>8. ASSUME NEW s \in Subs PROVE D[s] \in Seq(Entries) /\ DOMAIN D[s] = DOMAIN B[s] /\ (D[s] = <<>> => B[s] = <<>>)
    <2>1. B[s] \in Seq(Entries)
        BY <1>4
    <2>2. PICK m \in Nat : DOMAIN B[s] = 1 .. m
        BY <2>1
    <2>3. DOMAIN <<>> = {} /\ DOMAIN D[s] = DOMAIN B[s]
        BY <1>5
    <2>4. D[s] = [i \in 1 .. m |-> D[s][i]]
        BY <1>5, <2>2
    <2>5. D[s] \in [1 .. m -> Entries]
        BY <1>7, <2>2, <2>4
    <2> QED
        BY <2>1, <2>2, <2>3, <2>5
<1>9. D \in [Subs -> Seq(Entries)]
    <2>1. D = [s \in Subs |-> D[s]]
        BY <1>5
    <2> QED
        BY <1>8, <2>1
<1>10. C \in [PublishedKeys -> [Subs -> Seq(Entries)]] /\ C[k0] = D /\ \A k \in PublishedKeys : k # k0 => C[k] = pubCallbacks[k]
    BY <1>1, <1>6, <1>9 DEF PubType
<1>11. /\ L \in [PublishedKeys -> Nat] /\ L[k0] = n /\ \A k \in PublishedKeys : k # k0 => L[k] = pubLastChange[k]
    BY <1>1, <1>2, <1>3, <1>4 DEF PubType, Pub!Emit
<1>12. /\ W \in [PublishedKeys -> [Subs -> Nat]] /\ (\A k \in PublishedKeys : k # k0 => W[k] = pubOwed[k])
       /\ \A s \in Subs : W[k0][s] = IF B[s] # <<>> THEN n ELSE pubOwed[k0][s]
    <2>1. PICK V, U : U = pubOwed[k0] /\ V = [s \in Subs |-> IF B[s] # <<>> THEN n ELSE U[s]]
        OBVIOUS
    <2>2. W = [pubOwed EXCEPT ![k0] = V]
        BY <1>1, <1>2, <1>3, <2>1 DEF PubType, Pub!Emit
    <2>3. V \in [Subs -> Nat]
        BY <1>1, <1>4, <2>1 DEF PubType
    <2> QED
        BY <1>1, <2>1, <2>2, <2>3 DEF PubType
<1>13. /\ S \in [PublishedKeys -> [Subs -> Nat]] /\ (\A k \in PublishedKeys : k # k0 => S[k] = pubSeen[k])
       /\ \A s \in Subs : S[k0][s] = IF Pub!AnyEnabled(B[s]) THEN n ELSE pubSeen[k0][s]
    <2>1. PICK V, U : U = pubSeen[k0] /\ V = [s \in Subs |-> IF Pub!AnyEnabled(B[s]) THEN n ELSE U[s]]
        OBVIOUS
    <2>2. S = [pubSeen EXCEPT ![k0] = V]
        BY <1>1, <1>2, <1>3, <2>1 DEF PubType, Pub!Emit
    <2>3. V \in [Subs -> Nat]
        <3>1. U \in [Subs -> Nat]
            BY <1>1, <2>1 DEF PubType
        <3>2. ASSUME NEW s \in Subs PROVE V[s] \in Nat
            BY <1>4, <2>1, <3>1, <3>2
        <3>3. V = [s \in Subs |-> V[s]]
            BY <2>1
        <3> QED
            BY <3>2, <3>3
    <2> QED
        BY <1>1, <2>1, <2>2, <2>3 DEF PubType
<1>14. PubType'
    BY <1>1, <1>2, <1>3, <1>4, <1>10, <1>11, <1>12, <1>13 DEF PubType
<1>15. \A s \in Subs : B[s] = <<>> => pubOwed[k0][s] = 0
    BY <1>1, <1>3 DEF PubCountInv
<1>16. PubCountInv'
    <2>1. ASSUME NEW k \in PublishedKeys, NEW s \in Subs
          PROVE  W[k][s] <= L[k] /\ (C[k][s] = <<>> => W[k][s] = 0)
        <3>1. CASE k = k0
            <4>1. W[k0][s] = IF B[s] # <<>> THEN n ELSE 0
                BY <1>12, <1>15
            <4>2. D[s] = <<>> => B[s] = <<>>
                BY <1>8
            <4> QED
                BY <1>4, <1>10, <1>11, <3>1, <4>1, <4>2
        <3>2. CASE k # k0
            BY <1>1, <1>10, <1>11, <1>12, <3>2 DEF PubCountInv
        <3> QED
            BY <3>1, <3>2
    <2> QED
        BY <1>3, <2>1 DEF PubCountInv
<1>17. ASSUME NEW k \in PublishedKeys, NEW s \in Subs PROVE PubReaches(k, s)'
    <2>1. CASE k = k0
        <3>1. CASE B[s] = <<>>
            <4>1. W[k0][s] = 0 /\ S[k0][s] \in Nat
                BY <1>12, <1>13, <1>15, <3>1
            <4>2. S[k0][s] >= W[k0][s]
                BY <4>1
            <4> QED
                BY <1>3, <2>1, <4>2 DEF PubReaches
        <3>2. CASE Pub!AnyEnabled(B[s]) /\ B[s] # <<>>
            <4>1. S[k0][s] >= W[k0][s]
                BY <1>4, <1>12, <1>13, <3>2
            <4> QED
                BY <1>3, <2>1, <4>1 DEF PubReaches
        <3>3. CASE ~Pub!AnyEnabled(B[s]) /\ B[s] # <<>>
            <4>1. 1 \in DOMAIN B[s]
                <5>1. B[s] \in Seq(Entries)
                    BY <1>4
                <5> QED
                    BY <3>3, <5>1
            <4>2. D[s][1].notify /\ ~D[s][1].enabled /\ 1 \in DOMAIN D[s]
                BY <1>7, <1>8, <3>3, <4>1 DEF Pub!AnyEnabled
            <4>3. MarkIn(C[k][s])
                BY <1>10, <2>1, <4>2 DEF MarkIn
            <4> QED
                BY <1>3, <4>3 DEF PubReaches, MarkIn
        <3> QED
            BY <3>1, <3>2, <3>3
    <2>2. CASE k # k0
        <3>1. PubReaches(k, s)
            BY <1>1 DEF PubReachInv
        <3>2. C[k][s] = pubCallbacks[k][s] /\ S[k][s] = pubSeen[k][s] /\ W[k][s] = pubOwed[k][s]
            BY <1>10, <1>12, <1>13, <2>2
        <3>3. \A u \in Threads : PubReplays(u, k, s) => PubReplays(u, k, s)'
            BY <1>2 DEF PubReplays
        <3>4. MarkIn(pubCallbacks[k][s]) => MarkIn(pubCallbacks[k][s])'
            BY <1>3, <3>2 DEF MarkIn
        <3> QED
            BY <1>3, <3>1, <3>2, <3>3, <3>4, PubReachStays
    <2> QED
        BY <2>1, <2>2
<1>18. ASSUME NEW k \in PublishedKeys, PubOwes(k)' PROVE PubOn(k)'
    <2>1. PICK s \in Subs : Pub!AnyEnabled(C[k][s])
        BY <1>3, <1>18 DEF PubOwes, Pub!KeyEnabled, Pub!AnyEnabled
    <2>2. Pub!AnyEnabled(pubCallbacks[k][s])
        <3>1. CASE k = k0
            BY <1>3, <1>7, <1>8, <1>10, <2>1, <3>1 DEF Pub!AnyEnabled
        <3>2. CASE k # k0
            BY <1>10, <2>1, <3>2
        <3> QED
            BY <3>1, <3>2
    <2>3. PubOwes(k)
        BY <1>2, <1>18, <2>2 DEF PubOwes, Pub!KeyEnabled
    <2>4. PubOn(k)
        BY <1>1, <2>3 DEF PubAskInv
    <2> QED
        BY <1>2, <2>4 DEF PubOn, PubAsks
<1> QED
    BY <1>14, <1>16, <1>17, <1>18 DEF PubInv, PubReachInv, PubAskInv

LEMMA StepPub ==
    ASSUME PubInv, Pub!PublishedNext
    PROVE  PubInv'
<1>1. ASSUME NEW t \in Threads, NEW ks \in {{k} : k \in PublishedKeys} \cup {PublishedKeys}, NEW s \in Subs,
             Pub!DelObservers(t, ks, s)
      PROVE  PubInv'
    <2>1. ks \subseteq PublishedKeys
        OBVIOUS
    <2> QED
        BY <1>1, <2>1, PubDelObservers
<1> QED
    BY <1>1, PubAddObservers, PubEnableObservers, PubDisableObservers, PubSubscribe, PubRollbackAdd, PubTellsService,
       PubRollbackEnable, PubEmitOnEnable, PubRecoverObservers, PubEmit, PubServiceRestarts
       DEF Pub!PublishedNext

\* Once no call on its key is under way nothing is left to replay, and an observer all
\* whose entries are enabled has no mark on a disabled one.
LEMMA PubUpToDate ==
    ASSUME PubInv
    PROVE  Pub!EnabledIsUpToDate /\ Pub!EnabledIsSubscribed
<1>1. PubReachInv /\ PubAskInv
    BY DEF PubInv
<1>2. ASSUME NEW k \in PublishedKeys, NEW s \in Subs, \A i \in DOMAIN pubCallbacks[k][s] : pubCallbacks[k][s][i].enabled,
             Pub!Quiet(k)
      PROVE  pubSeen[k][s] >= pubOwed[k][s]
    <2>1. PubReaches(k, s)
        BY <1>1 DEF PubReachInv
    <2>2. ~MarkIn(pubCallbacks[k][s])
        BY <1>2 DEF MarkIn
    <2>3. \A t \in Threads : ~PubReplays(t, k, s)
        BY <1>2 DEF PubReplays, Pub!Quiet
    <2> QED
        BY <2>1, <2>2, <2>3 DEF PubReaches
<1>3. Pub!EnabledIsUpToDate
    BY <1>2 DEF Pub!EnabledIsUpToDate
<1>4. Pub!EnabledIsSubscribed
    BY <1>1 DEF PubAskInv, PubOwes, PubOn, PubAsks, Pub!Quiet, Pub!EnabledIsSubscribed
<1> QED
    BY <1>3, <1>4

-----------------------------------------------------------------------------
(* The composition: a step of one part leaves the others alone *)

DeliveryInv == RdbInv /\ PubInv /\ PdInv /\ ItemInv /\ StubInv

LEMMA InitDelivery == DeliveryInit => DeliveryInv
BY InitRdb, InitPub, InitPd, InitItem, InitStub DEF DeliveryInit, DeliveryInv

LEMMA PartsAlone ==
    ASSUME DeliveryInv
    PROVE  /\ UNCHANGED rdbVars => RdbInv'
           /\ UNCHANGED publishedVars => PubInv'
           /\ UNCHANGED proxydataVars => PdInv'
           /\ UNCHANGED itemVars => ItemInv'
           /\ UNCHANGED stubVars => StubInv'
<1>1. RdbInv /\ PubInv /\ PdInv /\ ItemInv /\ StubInv
    BY DEF DeliveryInv
<1>2. UNCHANGED rdbVars => RdbInv'
    BY <1>1, RdbAlone
<1>3. UNCHANGED publishedVars => PubInv'
    BY <1>1, PubAlone
<1>4. UNCHANGED proxydataVars => PdInv'
    BY <1>1, PdAlone DEF proxydataVars
<1>5. UNCHANGED itemVars => ItemInv'
    BY <1>1, ItemAlone DEF itemVars
<1>6. UNCHANGED stubVars => StubInv'
    BY <1>1, StubAlone DEF stubVars
<1> QED
    BY <1>2, <1>3, <1>4, <1>5, <1>6

LEMMA StepDelivery == DeliveryInv /\ [DeliveryNext]_deliveryVars => DeliveryInv'
<1> SUFFICES ASSUME DeliveryInv, [DeliveryNext]_deliveryVars PROVE DeliveryInv'
    OBVIOUS
<1>1. RdbInv /\ PubInv /\ PdInv /\ ItemInv /\ StubInv
    BY DEF DeliveryInv
<1>2. CASE RdbStep
    <2>1. Rdb!RdbNext /\ UNCHANGED publishedVars /\ UNCHANGED proxydataVars /\ UNCHANGED itemVars /\ UNCHANGED stubVars
        BY <1>2 DEF RdbStep
    <2> QED
        BY <1>1, <2>1, StepRdb, PartsAlone DEF DeliveryInv
<1>3. CASE PublishedStep
    <2>1. Pub!PublishedNext /\ UNCHANGED rdbVars /\ UNCHANGED proxydataVars /\ UNCHANGED itemVars /\ UNCHANGED stubVars
        BY <1>3 DEF PublishedStep
    <2> QED
        BY <1>1, <2>1, StepPub, PartsAlone DEF DeliveryInv
<1>4. CASE ProxydataStep
    <2>1. Pd!ProxyDataNext /\ UNCHANGED rdbVars /\ UNCHANGED publishedVars /\ UNCHANGED itemVars /\ UNCHANGED stubVars
        BY <1>4 DEF ProxydataStep
    <2> QED
        BY <1>1, <2>1, StepPd, PartsAlone DEF DeliveryInv
<1>5. CASE ItemStep
    <2>1. Item!PublishedItemNext /\ UNCHANGED rdbVars /\ UNCHANGED publishedVars /\ UNCHANGED proxydataVars /\ UNCHANGED stubVars
        BY <1>5 DEF ItemStep
    <2> QED
        BY <1>1, <2>1, StepItem, PartsAlone DEF DeliveryInv
<1>6. CASE StubStep
    <2>1. Stub!StubNext /\ UNCHANGED rdbVars /\ UNCHANGED publishedVars /\ UNCHANGED proxydataVars /\ UNCHANGED itemVars
        BY <1>6 DEF StubStep
    <2> QED
        BY <1>1, <2>1, StepStub, PartsAlone DEF DeliveryInv
<1>7. CASE UNCHANGED deliveryVars
    <2>1. UNCHANGED rdbVars /\ UNCHANGED publishedVars /\ UNCHANGED proxydataVars /\ UNCHANGED itemVars /\ UNCHANGED stubVars
        BY <1>7 DEF deliveryVars
    <2> QED
        BY <2>1, PartsAlone DEF DeliveryInv
<1> QED
    BY <1>2, <1>3, <1>4, <1>5, <1>6, <1>7 DEF DeliveryNext

LEMMA DeliveryInductive == DeliverySpec => []DeliveryInv
BY InitDelivery, StepDelivery, PTL DEF DeliverySpec

\* No change is lost on an observer that is enabled: once no call on its key is under
\* way, it has seen every change that came while it was registered, those it missed
\* while it was disabled included (rdb_subscriber_manager.rs,
\* published_data_subscriber_manager.rs).
THEOREM ConsumerUpToDate == DeliverySpec => []EnabledIsUpToDate
<1>1. DeliveryInv => EnabledIsUpToDate
    BY RdbUpToDate, PubUpToDate DEF DeliveryInv, EnabledIsUpToDate
<1> QED
    BY <1>1, DeliveryInductive, PTL

\* Whatever has an observer that is enabled is subscribed at the service: refusals,
\* their rollbacks and restarts of the service do not leave an observer behind without
\* it, in any of the three managers of the Rust consumer, but for the calls each part
\* names, such as a request that is not answered (service_proxy.rs returns an empty
\* list, which the managers take for success).
THEOREM ConsumerSubscribed == DeliverySpec => []ObservedIsSubscribed
<1>1. DeliveryInv => ObservedIsSubscribed
    BY RdbUpToDate, PubUpToDate DEF DeliveryInv, PdInv, ObservedIsSubscribed
<1> QED
    BY <1>1, DeliveryInductive, PTL

\* A callback that was cleared, and an observer of proxy data that was removed, is not
\* called again by a delivery that was under way (the stubs' locked callbacks,
\* proxy_data_subscriber_manager.rs).
THEOREM ConsumerSilent == DeliverySpec => []RemovedIsSilent
<1>1. DeliveryInv => RemovedIsSilent
    BY DEF DeliveryInv, PdInv, StubInv, SilentInv, RemovedIsSilent
<1> QED
    BY <1>1, DeliveryInductive, PTL

\* Every open shared region has one holder, an item or a message under way, so that it
\* is closed once, and the region of a message is closed before the callback runs.
THEOREM ConsumerRegions == DeliverySpec => []RegionsHaveOneHolder
<1>1. RegionInv => Stub!RegionIsReleased
    BY DEF RegionInv, Stub!RegionIsReleased
<1>2. DeliveryInv => RegionsHaveOneHolder
    BY <1>1, ItemHolders DEF DeliveryInv, StubInv, RegionsHaveOneHolder
<1> QED
    BY <1>2, DeliveryInductive, PTL

\* What arrives through shared memory is what was put there: get_data of an item gives
\* the value that was set last, however often its region was moved, sent and mapped, and
\* a callback gets the items before the first damage of its message or region at their
\* places and as they were sent, and no more items than were announced.
THEOREM ConsumerItems == DeliverySpec => []SharedDataArrives
<1>1. DeliveryInv => SharedDataArrives
    BY StubDelivers DEF DeliveryInv, ItemInv, SharedDataArrives
<1> QED
    BY <1>1, DeliveryInductive, PTL

=============================================================================
