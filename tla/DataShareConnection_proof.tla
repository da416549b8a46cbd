---------------------- MODULE DataShareConnection_proof ----------------------
(***************************************************************************)
(* Theorems about DataShareConnection, for every set of clients and        *)
(* observers, every MAX_RECONNECT and every number of crashes, failures    *)
(* and queued callbacks.                                                   *)
(***************************************************************************)
EXTENDS DataShareConnection, SequenceTheorems, TLAPS

-----------------------------------------------------------------------------
(* Type correctness *)

\* An extension that is not running can be started once more.
TypeInv == TypeOK /\ (inst = 0 => started <= MaxCrashes)

\* The types, by the groups of variables that actions leave alone together.
ConnectionType ==
    /\ dataShareProxy \in Incarnations
    /\ uri \in BOOLEAN /\ isInvalid \in BOOLEAN /\ isReconnect \in BOOLEAN

ReconnectType ==
    count \in Nat /\ quiet \in BOOLEAN /\ scheduled \in Nat /\ counting \in 0 .. PoolThreads

ObserverType ==
    /\ observerExtsProvider \in SUBSET Observers
    /\ registered \in SUBSET Observers
    /\ wanted \in SUBSET Observers
    /\ disturbed \in BOOLEAN

AmsType ==
    /\ inst \in Incarnations /\ started \in Incarnations
    /\ link \in BOOLEAN
    /\ queue \in Seq(Callback)
    /\ failures \in 0 .. MaxFailures
    /\ inst = 0 => started <= MaxCrashes

ClientType == helper \in HelperPc /\ client \in [Clients -> ClientRecord]

HandlerType == handler \in [CallbackThreads -> HandlerRecord]

LEMMA TypeParts ==
    TypeInv <=> /\ ConnectionType /\ ReconnectType /\ ObserverType /\ AmsType
                /\ ClientType /\ HandlerType
BY DEF TypeInv, TypeOK, ConnectionType, ReconnectType, ObserverType, AmsType, ClientType,
       HandlerType

\* The same after a step.
LEMMA NextTypeParts ==
    TypeInv' <=> /\ ConnectionType' /\ ReconnectType' /\ ObserverType' /\ AmsType'
                 /\ ClientType' /\ HandlerType'
BY DEF TypeInv, TypeOK, ConnectionType, ReconnectType, ObserverType, AmsType, ClientType,
       HandlerType

LEMMA SameType ==
    /\ ConnectionType /\ UNCHANGED connectionVars => ConnectionType'
    /\ ReconnectType /\ UNCHANGED reconnectVars => ReconnectType'
    /\ ObserverType /\ UNCHANGED observerVars => ObserverType'
    /\ AmsType /\ UNCHANGED amsVars => AmsType'
    /\ ClientType /\ UNCHANGED <<helper, client>> => ClientType'
    /\ HandlerType /\ UNCHANGED handler => HandlerType'
BY DEF ConnectionType, ReconnectType, ObserverType, AmsType, ClientType, HandlerType,
       connectionVars, reconnectVars, observerVars, amsVars

\* What a client thread or a binder thread holds.
LEMMA ClientFields ==
    ASSUME TypeInv, NEW c \in Clients
    PROVE  /\ client[c] \in ClientRecord
           /\ client[c].pc \in {"idle", "get", "connect", "wait", "request", "store", "delete"}
           /\ client[c].want \in {"none", "create", "call", "register", "unregister"}
           /\ client[c].observer \in SUBSET Observers /\ client[c].proxy \in Incarnations
BY DEF TypeInv, TypeOK, ClientRecord

LEMMA HandlerFields ==
    ASSUME TypeInv, NEW b \in CallbackThreads
    PROVE  /\ handler[b] \in HandlerRecord
           /\ handler[b].remote \in Incarnations
           /\ handler[b].moved \in SUBSET Observers /\ handler[b].current \in SUBSET Observers
BY DEF TypeInv, TypeOK, HandlerRecord

LEMMA IdleRecords == IdleClient \in ClientRecord /\ IdleHandler \in HandlerRecord
<1>1. 0 \in Incarnations
    BY ConnectionBoundsAssumption DEF Incarnations
<1> QED
    BY <1>1 DEF IdleClient, ClientRecord, IdleHandler, HandlerRecord

\* The requests to the ability manager.
LEMMA ConnectType ==
    ASSUME TypeInv, ConnectAccepted \/ ConnectRefused
    PROVE  AmsType'
<1>1. /\ inst \in Incarnations /\ started \in Incarnations /\ queue \in Seq(Callback)
      /\ failures \in 0 .. MaxFailures /\ link \in BOOLEAN
      /\ inst = 0 => started <= MaxCrashes
    BY DEF TypeInv, TypeOK
<1>2. CASE ConnectRefused
    BY <1>1, <1>2, ConnectionBoundsAssumption DEF ConnectRefused, Fail, AmsType
<1>3. CASE ConnectAccepted
    <2> DEFINE i == IF inst = 0 THEN started + 1 ELSE inst
    <2>1. i \in Incarnations /\ i # 0 /\ (inst = 0 => started + 1 \in Incarnations)
        BY <1>1, ConnectionBoundsAssumption DEF Incarnations
    <2>2. 0 \in Incarnations
        BY ConnectionBoundsAssumption DEF Incarnations
    <2>3. ConnectDone(i) \in Callback /\ ConnectDone(0) \in Callback
        BY <2>1, <2>2 DEF ConnectDone, Callback
    <2>4. \/ /\ inst' = i /\ started' = IF inst = 0 THEN started + 1 ELSE started
             /\ queue' = Append(queue, ConnectDone(i)) /\ link' = TRUE /\ failures' = failures
          \/ /\ failures < MaxFailures /\ failures' = failures + 1
             /\ queue' = Append(queue, ConnectDone(0))
             /\ UNCHANGED <<inst, started, link>>
        BY <1>3 DEF ConnectAccepted, Fail
    <2> HIDE DEF i
    <2>5. queue' \in Seq(Callback)
        BY <1>1, <2>3, <2>4
    <2>6. inst' \in Incarnations /\ started' \in Incarnations /\ (inst' = 0 => started' <= MaxCrashes)
        BY <1>1, <2>1, <2>4
    <2>7. failures' \in 0 .. MaxFailures
        BY <1>1, <2>4, ConnectionBoundsAssumption
    <2>8. link' \in BOOLEAN
        BY <1>1, <2>4
    <2> QED
        BY <2>5, <2>6, <2>7, <2>8 DEF AmsType
<1> QED
    BY <1>2, <1>3

LEMMA DisconnectType ==
    ASSUME TypeInv, Disconnect
    PROVE  AmsType'
<1>1. queue \in Seq(Callback) /\ DisconnectDone \in Callback
    BY DEF TypeInv, TypeOK, DisconnectDone, Callback
<1>2. queue' \in Seq(Callback)
    BY <1>1 DEF Disconnect
<1> QED
    BY <1>2 DEF Disconnect, TypeInv, TypeOK, AmsType

LEMMA FailType ==
    ASSUME TypeInv, Fail \/ UNCHANGED failures
    PROVE  failures' \in 0 .. MaxFailures
BY ConnectionBoundsAssumption DEF Fail, TypeInv, TypeOK

\* The next record of a client thread.
LEMMA GotType ==
    ASSUME TypeInv, NEW c \in Clients, NEW p \in Incarnations, Got(c, p)
    PROVE  ClientType'
<1>1. [client[c] EXCEPT !.pc = "request", !.proxy = p] \in ClientRecord
    BY ClientFields DEF ClientRecord
<1>2. client' \in [Clients -> ClientRecord]
    BY <1>1, IdleRecords DEF Got, TypeInv, TypeOK
<1>3. helper' \in HelperPc
    BY DEF Got, HelperPc, TypeInv, TypeOK
<1> QED
    BY <1>2, <1>3 DEF ClientType

LEMMA ClientGoesOn ==
    ASSUME TypeInv, NEW c \in Clients, UNCHANGED helper,
           NEW pc \in {"get", "connect", "wait", "request", "store", "delete"},
           client' = [client EXCEPT ![c].pc = pc] \/ Done(c)
    PROVE  ClientType'
<1>1. [client[c] EXCEPT !.pc = pc] \in ClientRecord
    BY ClientFields DEF ClientRecord
<1> QED
    BY <1>1, IdleRecords DEF Done, ClientType, TypeInv, TypeOK

\* The next record of a binder thread.
LEMMA HandlerGoesOn ==
    ASSUME TypeInv, NEW b \in CallbackThreads, NEW h \in HandlerRecord,
           handler' = [handler EXCEPT ![b] = h] \/ Finish(b)
    PROVE  HandlerType'
BY IdleRecords DEF Finish, HandlerType, TypeInv, TypeOK

LEMMA GotoType ==
    ASSUME TypeInv, NEW b \in CallbackThreads, NEW pc \in
               {"idle", "connectDone", "checkInvalid", "exchange", "move", "clear",
                "getProxy", "reRegister", "update",
                "disconnectDone", "reconnect", "connect", "count", "delay"},
           Goto(b, pc) \/ Finish(b)
    PROVE  HandlerType'
<1>1. [handler[b] EXCEPT !.pc = pc] \in HandlerRecord
    BY HandlerFields DEF HandlerRecord
<1> QED
    BY <1>1, IdleRecords DEF Goto, Finish, HandlerType, TypeInv, TypeOK

LEMMA ClientStepType ==
    ASSUME TypeInv, NEW c \in Clients, ClientStep(c)
    PROVE  TypeInv'
<1> USE TypeParts, NextTypeParts, SameType
<1>1. CASE CreateExtHelper(c)
    <2>1. [IdleClient EXCEPT !.pc = "get", !.want = "create"] \in ClientRecord
        BY IdleRecords DEF ClientRecord
    <2>2. ClientType'
        BY <1>1, <2>1 DEF CreateExtHelper, ClientType, HelperPc
    <2> QED
        BY <1>1, <2>2 DEF CreateExtHelper
<1>2. ASSUME NEW want \in {"call", "register", "unregister"}, NEW os \in SUBSET Observers,
             Call(c, want, os)
      PROVE  TypeInv'
    <2>1. 0 \in Incarnations
        BY ConnectionBoundsAssumption DEF Incarnations
    <2>2. [pc |-> "get", want |-> want, observer |-> os, proxy |-> 0] \in ClientRecord
        BY <2>1 DEF ClientRecord
    <2>3. ClientType'
        BY <1>2, <2>2 DEF Call, ClientType
    <2> QED
        BY <1>2, <2>3 DEF Call
<1>3. CASE GetDataShareProxy(c)
    <2>1. ClientType'
        BY <1>3, GotType, ClientGoesOn DEF GetDataShareProxy, ConnectionType
    <2> QED
        BY <1>3, <2>1 DEF GetDataShareProxy
<1>4. CASE ConnectDataShareExtAbility(c)
    <2>1. 0 \in Incarnations
        BY ConnectionBoundsAssumption DEF Incarnations
    <2>2. ClientType' /\ AmsType'
        BY <1>4, <2>1, GotType, ClientGoesOn, ConnectType DEF ConnectDataShareExtAbility
    <2> QED
        BY <1>4, <2>2 DEF ConnectDataShareExtAbility
<1>5. CASE WaitForProxy(c)
    <2>1. ClientType'
        BY <1>5, GotType DEF WaitForProxy, ConnectionType
    <2> QED
        BY <1>5, <2>1 DEF WaitForProxy
<1>6. CASE RegisterObserverExtProvider(c)
    <2>1. ClientType'
        BY <1>6, ClientGoesOn DEF RegisterObserverExtProvider
    <2>2. failures' \in 0 .. MaxFailures
        BY <1>6, FailType DEF RegisterObserverExtProvider
    <2>3. AmsType'
        BY <1>6, <2>2 DEF RegisterObserverExtProvider, AmsType
    <2>4. ObserverType'
        BY <1>6, ClientFields DEF RegisterObserverExtProvider, ObserverType, Disturb
    <2> QED
        BY <1>6, <2>1, <2>3, <2>4 DEF RegisterObserverExtProvider
<1>7. CASE UpdateObserverExtsProviderMap(c)
    <2>1. ClientType'
        BY <1>7, ClientGoesOn DEF UpdateObserverExtsProviderMap
    <2>2. ObserverType'
        BY <1>7, ClientFields DEF UpdateObserverExtsProviderMap, ObserverType, Disturb, Store
    <2> QED
        BY <1>7, <2>1, <2>2 DEF UpdateObserverExtsProviderMap
<1>8. CASE UnregisterObserverExtProvider(c)
    <2>1. ClientType'
        BY <1>8, ClientGoesOn DEF UnregisterObserverExtProvider
    <2>2. failures' \in 0 .. MaxFailures
        BY <1>8, FailType DEF UnregisterObserverExtProvider
    <2>3. AmsType'
        BY <1>8, <2>2 DEF UnregisterObserverExtProvider, AmsType
    <2>4. ObserverType'
        BY <1>8, ClientFields DEF UnregisterObserverExtProvider, ObserverType, Disturb
    <2> QED
        BY <1>8, <2>1, <2>3, <2>4 DEF UnregisterObserverExtProvider
<1>9. CASE DeleteObserverExtsProviderMap(c)
    <2>1. ClientType'
        BY <1>9, ClientGoesOn DEF DeleteObserverExtsProviderMap
    <2>2. ObserverType'
        BY <1>9, ClientFields DEF DeleteObserverExtsProviderMap, ObserverType, Disturb
    <2> QED
        BY <1>9, <2>1, <2>2 DEF DeleteObserverExtsProviderMap
<1>10. CASE \/ Call(c, "call", {})
             \/ \E o \in Observers : Call(c, "register", {o}) \/ Call(c, "unregister", {o})
    <2>1. {} \in SUBSET Observers /\ \A o \in Observers : {o} \in SUBSET Observers
        OBVIOUS
    <2>2. "call" \in {"call", "register", "unregister"}
          /\ "register" \in {"call", "register", "unregister"}
          /\ "unregister" \in {"call", "register", "unregister"}
        OBVIOUS
    <2> QED
        BY <1>2, <1>10, <2>1, <2>2, Zenon
<1> QED
    BY <1>1, <1>3, <1>4, <1>5, <1>6, <1>7, <1>8, <1>9, <1>10 DEF ClientStep

\* The handler goes on with the next of the moved observers.
LEMMA NextObserverType ==
    ASSUME TypeInv, NEW b \in CallbackThreads, NEW rest \in SUBSET Observers,
           NextObserver(b, rest)
    PROVE  HandlerType'
<1>1. [handler[b] EXCEPT !.pc = "reRegister", !.moved = rest, !.current = {}] \in HandlerRecord
    BY HandlerFields DEF HandlerRecord
<1>2. \/ Finish(b)
      \/ handler' = [handler EXCEPT ![b] =
            [handler[b] EXCEPT !.pc = "reRegister", !.moved = rest, !.current = {}]]
    BY DEF NextObserver, TypeInv, TypeOK
<1> QED
    BY <1>1, <1>2, HandlerGoesOn

\* The steps that re-register observers.
LEMMA ReRegisterType ==
    ASSUME TypeInv, NEW b \in CallbackThreads,
           \/ MoveObservers(b) \/ ClearObservers(b) \/ ReRegisterProxy(b)
           \/ \E o \in handler[b].moved : ReRegisterObserverExtProvider(b, o)
           \/ StoreReRegistered(b)
    PROVE  TypeInv'
<1> USE TypeParts, NextTypeParts, SameType
<1>1. CASE MoveObservers(b)
    <2>1. [handler[b] EXCEPT !.pc = "clear", !.moved = observerExtsProvider] \in HandlerRecord
        BY HandlerFields DEF HandlerRecord, ObserverType
    <2>2. handler' = [handler EXCEPT ![b] =
                        [handler[b] EXCEPT !.pc = "clear", !.moved = observerExtsProvider]]
        BY <1>1 DEF MoveObservers, HandlerType
    <2>3. HandlerType'
        BY <2>1, <2>2, HandlerGoesOn
    <2>4. ObserverType'
        BY <1>1 DEF MoveObservers, ObserverType, Disturb
    <2> QED
        BY <1>1, <2>3, <2>4 DEF MoveObservers
<1>2. CASE ClearObservers(b)
    <2>1. HandlerType'
        BY <1>2, GotoType DEF ClearObservers
    <2>2. ObserverType'
        BY <1>2 DEF ClearObservers, ObserverType
    <2> QED
        BY <1>2, <2>1, <2>2 DEF ClearObservers
<1>3. CASE ReRegisterProxy(b)
    <2>1. [handler[b] EXCEPT !.pc = "reRegister", !.remote = dataShareProxy] \in HandlerRecord
        BY HandlerFields DEF HandlerRecord, ConnectionType
    <2>2. \/ Finish(b)
          \/ handler' = [handler EXCEPT ![b] =
                [handler[b] EXCEPT !.pc = "reRegister", !.remote = dataShareProxy]]
        BY <1>3 DEF ReRegisterProxy, HandlerType
    <2>3. HandlerType'
        BY <2>1, <2>2, HandlerGoesOn
    <2>4. ObserverType'
        BY <1>3 DEF ReRegisterProxy, ObserverType, Disturb
    <2> QED
        BY <1>3, <2>3, <2>4 DEF ReRegisterProxy
<1>4. ASSUME NEW o \in handler[b].moved, ReRegisterObserverExtProvider(b, o) PROVE TypeInv'
    <2>1. o \in Observers /\ handler[b].moved \ {o} \in SUBSET Observers
        BY HandlerFields
    <2>2. [handler[b] EXCEPT !.pc = "update", !.current = {o}] \in HandlerRecord
        BY <2>1, HandlerFields DEF HandlerRecord
    <2>3. \/ NextObserver(b, handler[b].moved \ {o})
          \/ handler' = [handler EXCEPT ![b] = [handler[b] EXCEPT !.pc = "update", !.current = {o}]]
        BY <1>4 DEF ReRegisterObserverExtProvider, HandlerType
    <2>4. HandlerType'
        BY <2>1, <2>2, <2>3, HandlerGoesOn, NextObserverType
    <2>5. failures' \in 0 .. MaxFailures
        BY <1>4, FailType DEF ReRegisterObserverExtProvider
    <2>6. AmsType'
        BY <1>4, <2>5 DEF ReRegisterObserverExtProvider, AmsType
    <2>7. ObserverType'
        BY <1>4, <2>1 DEF ReRegisterObserverExtProvider, ObserverType
    <2> QED
        BY <1>4, <2>4, <2>6, <2>7 DEF ReRegisterObserverExtProvider
<1>5. CASE StoreReRegistered(b)
    <2>1. HandlerType'
        BY <1>5, NextObserverType, HandlerFields DEF StoreReRegistered
    <2>2. ObserverType'
        BY <1>5, HandlerFields DEF StoreReRegistered, ObserverType, Store
    <2> QED
        BY <1>5, <2>1, <2>2 DEF StoreReRegistered
<1> QED
    BY <1>1, <1>2, <1>3, <1>4, <1>5

LEMMA CallbackStepType ==
    ASSUME TypeInv, NEW b \in CallbackThreads, CallbackStep(b)
    PROVE  TypeInv'
<1> USE TypeParts, NextTypeParts, SameType
<1>1. CASE TakeCallback(b)
    <2> DEFINE x == Head(queue)
               h == [IdleHandler EXCEPT !.pc = x.kind, !.remote = x.remote]
    <2>1. x \in Callback /\ Tail(queue) \in Seq(Callback)
        BY <1>1 DEF TakeCallback, AmsType
    <2>2. 0 \in Incarnations
        BY ConnectionBoundsAssumption DEF Incarnations
    <2>3. x.kind \in {"connectDone", "disconnectDone"} /\ x.remote \in Incarnations
        BY <2>1, <2>2 DEF Callback
    <2>4. handler' = [handler EXCEPT ![b] = h] /\ queue' = Tail(queue)
        BY <1>1 DEF TakeCallback
    <2> HIDE DEF x
    <2>5. h \in HandlerRecord
        BY <2>3, IdleRecords DEF HandlerRecord, IdleHandler
    <2>6. HandlerType'
        BY <2>4, <2>5, HandlerGoesOn
    <2>7. AmsType'
        BY <1>1, <2>1, <2>4 DEF TakeCallback, AmsType
    <2> QED
        BY <1>1, <2>6, <2>7 DEF TakeCallback
<1>2. CASE OnAbilityConnectDone(b)
    <2>1. HandlerType'
        BY <1>2, GotoType DEF OnAbilityConnectDone
    <2>2. ConnectionType'
        BY <1>2, HandlerFields DEF OnAbilityConnectDone, ConnectionType
    <2> QED
        BY <1>2, <2>1, <2>2 DEF OnAbilityConnectDone
<1>3. CASE CheckInvalid(b)
    <2>1. HandlerType' /\ AmsType'
        BY <1>3, GotoType, DisconnectType DEF CheckInvalid
    <2> QED
        BY <1>3, <2>1 DEF CheckInvalid
<1>4. CASE ExchangeReconnect(b)
    <2>1. HandlerType'
        BY <1>4, GotoType DEF ExchangeReconnect
    <2>2. ConnectionType'
        BY <1>4 DEF ExchangeReconnect, ConnectionType
    <2> QED
        BY <1>4, <2>1, <2>2 DEF ExchangeReconnect
<1>5. CASE OnAbilityDisconnectDone(b)
    <2>1. HandlerType'
        BY <1>5, GotoType DEF OnAbilityDisconnectDone
    <2>2. ConnectionType'
        BY <1>5, ConnectionBoundsAssumption DEF OnAbilityDisconnectDone, ConnectionType, Incarnations
    <2> QED
        BY <1>5, <2>1, <2>2 DEF OnAbilityDisconnectDone
<1>6. CASE ReconnectExtAbility(b)
    <2>1. HandlerType'
        BY <1>6, GotoType DEF ReconnectExtAbility
    <2> QED
        BY <1>6, <2>1 DEF ReconnectExtAbility
<1>7. CASE ReconnectNow(b)
    <2>1. HandlerType' /\ AmsType'
        BY <1>7, GotoType, ConnectType DEF ReconnectNow
    <2> QED
        BY <1>7, <2>1 DEF ReconnectNow
<1>8. CASE CountFirst(b)
    <2>1. HandlerType'
        BY <1>8, GotoType DEF CountFirst
    <2>2. ReconnectType'
        BY <1>8 DEF CountFirst, ReconnectType
    <2> QED
        BY <1>8, <2>1, <2>2 DEF CountFirst
<1>9. CASE DelayConnectExtAbility(b)
    <2>1. HandlerType'
        BY <1>9, GotoType DEF DelayConnectExtAbility
    <2>2. count' \in Nat
        BY <1>9 DEF DelayConnectExtAbility, ReconnectType
    <2>3. scheduled' \in Nat
        BY <1>9 DEF DelayConnectExtAbility, ReconnectType
    <2>4. quiet' \in BOOLEAN /\ counting' = counting
        BY <1>9 DEF DelayConnectExtAbility
    <2>5. ReconnectType'
        BY <2>2, <2>3, <2>4 DEF ReconnectType
    <2> QED
        BY <1>9, <2>1, <2>5 DEF DelayConnectExtAbility
<1> QED
    BY <1>1, <1>2, <1>3, <1>4, <1>5, <1>6, <1>7, <1>8, <1>9, ReRegisterType DEF CallbackStep

LEMMA PoolStepType ==
    ASSUME TypeInv, PoolStep
    PROVE  TypeInv'
<1> USE TypeParts, NextTypeParts, SameType
<1>1. CASE SkipReconnect
    <2>1. ReconnectType'
        BY <1>1 DEF SkipReconnect, ReconnectType
    <2> QED
        BY <1>1, <2>1 DEF SkipReconnect
<1>2. CASE DelayedReconnect
    <2>1. ReconnectType'
        BY <1>2 DEF DelayedReconnect, ReconnectType, PoolThreads
    <2>2. AmsType'
        BY <1>2, ConnectType DEF DelayedReconnect
    <2> QED
        BY <1>2, <2>1, <2>2 DEF DelayedReconnect
<1>3. CASE CountDelayed
    <2>1. count' \in Nat /\ scheduled' \in Nat /\ counting' \in 0 .. PoolThreads
        BY <1>3 DEF CountDelayed, ReconnectType, PoolThreads
    <2>2. quiet' \in BOOLEAN
        BY <1>3 DEF CountDelayed
    <2>3. ReconnectType'
        BY <2>1, <2>2 DEF ReconnectType
    <2> QED
        BY <1>3, <2>3 DEF CountDelayed
<1> QED
    BY <1>1, <1>2, <1>3 DEF PoolStep

LEMMA ReleaseStepType ==
    ASSUME TypeInv, ReleaseStep
    PROVE  TypeInv'
<1> USE TypeParts, NextTypeParts, SameType
<1>1. ClientType'
    BY DEF ReleaseStep, DropHelper, SetConnectInvalid, ClearUri, DisconnectDataShareExtAbility,
           ClientType, HelperPc
<1>2. ConnectionType'
    BY DEF ReleaseStep, DropHelper, SetConnectInvalid, ClearUri, DisconnectDataShareExtAbility,
           ConnectionType, connectionVars
<1>3. AmsType'
    BY DisconnectType DEF ReleaseStep, DropHelper, SetConnectInvalid, ClearUri,
                          DisconnectDataShareExtAbility
<1>4. ReconnectType' /\ ObserverType' /\ HandlerType'
    BY DEF ReleaseStep, DropHelper, SetConnectInvalid, ClearUri, DisconnectDataShareExtAbility
<1> QED
    BY <1>1, <1>2, <1>3, <1>4

LEMMA CrashType ==
    ASSUME TypeInv, Crash
    PROVE  TypeInv'
<1> USE TypeParts, NextTypeParts, SameType
<1>1. queue \in Seq(Callback) /\ DisconnectDone \in Callback
    BY DEF AmsType, DisconnectDone, Callback
<1>2. queue' \in Seq(Callback)
    BY <1>1 DEF Crash
<1>3. AmsType'
    <2>1. inst' \in Incarnations /\ started' \in Incarnations /\ started' <= MaxCrashes
        BY ConnectionBoundsAssumption DEF Crash, AmsType, Incarnations
    <2>2. link' \in BOOLEAN /\ failures' \in 0 .. MaxFailures
        BY DEF Crash, AmsType
    <2> QED
        BY <1>2, <2>1, <2>2 DEF AmsType
<1>4. ObserverType'
    BY DEF Crash, ObserverType, Disturb
<1>5. ClientType' /\ ConnectionType' /\ ReconnectType' /\ HandlerType'
    BY DEF Crash
<1> QED
    BY <1>3, <1>4, <1>5

LEMMA QuietType ==
    ASSUME TypeInv, Quiet
    PROVE  TypeInv'
<1> USE TypeParts, NextTypeParts, SameType
<1>1. ReconnectType'
    BY DEF Quiet, ReconnectType
<1> QED
    BY <1>1 DEF Quiet

LEMMA InitType == Init => TypeInv
<1> SUFFICES ASSUME Init PROVE TypeInv
    OBVIOUS
<1>1. 0 \in Incarnations
    BY ConnectionBoundsAssumption DEF Incarnations
<1>2. AmsType
    <2>1. failures \in 0 .. MaxFailures /\ started <= MaxCrashes
        BY ConnectionBoundsAssumption DEF Init
    <2>2. link \in BOOLEAN
        BY DEF Init
    <2>3. queue \in Seq(Callback)
        BY DEF Init
    <2>4. inst \in Incarnations /\ started \in Incarnations
        BY <1>1 DEF Init
    <2> QED
        BY <2>1, <2>2, <2>3, <2>4 DEF AmsType
<1>3. ConnectionType /\ ObserverType
    BY <1>1 DEF Init, ConnectionType, ObserverType
<1>4. ReconnectType
    <2>1. count \in Nat /\ scheduled \in Nat /\ counting \in 0 .. PoolThreads
        BY DEF Init, PoolThreads
    <2> QED
        BY <2>1 DEF Init, ReconnectType
<1>5. ClientType /\ HandlerType
    BY IdleRecords DEF Init, ClientType, HandlerType, HelperPc
<1> QED
    BY <1>2, <1>3, <1>4, <1>5, TypeParts

LEMMA NextType == TypeInv /\ [Next]_vars => TypeInv'
<1> SUFFICES ASSUME TypeInv, [Next]_vars PROVE TypeInv'
    OBVIOUS
<1>1. CASE UNCHANGED vars
    BY <1>1 DEF vars, TypeInv, TypeOK
<1> QED
    BY <1>1, ClientStepType, CallbackStepType, PoolStepType, ReleaseStepType, CrashType, QuietType
    DEF Next

\* The types of the connection's state: at most two tasks are counting, and every
\* proxy, remote object and callback names an extension that was started.
THEOREM ConnectionTypeCorrect == Spec => []TypeOK
<1>1. Spec => []TypeInv
    BY InitType, NextType, PTL DEF Spec
<1>2. TypeInv => TypeOK
    BY DEF TypeInv
<1> QED
    BY <1>1, <1>2, PTL

-----------------------------------------------------------------------------
(* The callbacks that are on their way *)

\* One binder thread runs the callbacks of a connection: the ability manager calls
\* back without waiting, and such calls to one object are handled one by one.
OneByOne == \E b : CallbackThreads = {b}

\* The callback sets or clears the proxy.
Counts(x) == x.kind = "disconnectDone" \/ x.remote # 0

Nothing(q) == \A i \in 1 .. Len(q) : ~Counts(q[i])

\* The last callback in q that counts is x.
Latest(q, x) ==
    \E i \in 1 .. Len(q) : q[i] = x /\ Counts(x) /\ \A j \in i + 1 .. Len(q) : ~Counts(q[j])

\* What a binder thread has in hand, or the proxy it has left behind, is p.
Reached(p) ==
    \A b \in CallbackThreads :
        IF handler[b].pc = "connectDone" /\ handler[b].remote # 0 THEN handler[b].remote = p
        ELSE IF handler[b].pc = "disconnectDone" THEN p = 0
        ELSE dataShareProxy = p

Final(p) == IF p = 0 THEN DisconnectDone ELSE ConnectDone(p)

\* Once all callbacks are handled the proxy is p.
Heading(p) == Latest(queue, Final(p)) \/ (Nothing(queue) /\ Reached(p))

LEMMA FinalCounts ==
    ASSUME NEW p \in Incarnations
    PROVE  /\ Final(p) \in Callback /\ Counts(Final(p))
           /\ p = 0 => Final(p).kind = "disconnectDone" /\ Final(p).remote = 0
           /\ p # 0 => Final(p).kind = "connectDone" /\ Final(p).remote = p
BY DEF Final, DisconnectDone, ConnectDone, Callback, Counts

\* Appending a callback.
LEMMA AppendLatest ==
    ASSUME NEW q \in Seq(Callback), NEW x \in Callback
    PROVE  /\ Counts(x) => Latest(Append(q, x), x)
           /\ ~Counts(x) => /\ \A y : Latest(q, y) => Latest(Append(q, x), y)
                            /\ Nothing(q) => Nothing(Append(q, x))
<1> DEFINE r == Append(q, x)
<1>1. /\ Len(q) \in Nat /\ Len(r) = Len(q) + 1 /\ r[Len(q) + 1] = x
      /\ \A i \in 1 .. Len(q) : r[i] = q[i]
    OBVIOUS
<1> HIDE DEF r
<1>2. \A i \in 1 .. Len(r) : i \in 1 .. Len(q) \/ i = Len(q) + 1
    BY <1>1
<1>3. ASSUME Counts(x) PROVE Latest(r, x)
    <2>1. Len(q) + 1 \in 1 .. Len(r) /\ \A j \in Len(q) + 2 .. Len(r) : FALSE
        BY <1>1
    <2> QED
        BY <1>1, <1>3, <2>1 DEF Latest
<1>4. ASSUME ~Counts(x), NEW y, Latest(q, y) PROVE Latest(r, y)
    <2>1. PICK i \in 1 .. Len(q) : q[i] = y /\ Counts(y) /\ \A j \in i + 1 .. Len(q) : ~Counts(q[j])
        BY <1>4 DEF Latest
    <2>2. ASSUME NEW j \in i + 1 .. Len(r) PROVE ~Counts(r[j])
        <3>1. j \in i + 1 .. Len(q) \/ j = Len(q) + 1
            BY <1>1
        <3>2. j \in i + 1 .. Len(q) => r[j] = q[j]
            BY <1>1
        <3> QED
            BY <1>1, <1>4, <2>1, <3>1, <3>2
    <2>3. i \in 1 .. Len(r) /\ r[i] = y
        BY <1>1, <2>1
    <2> QED
        BY <2>1, <2>2, <2>3 DEF Latest
<1>5. ~Counts(x) /\ Nothing(q) => Nothing(r)
    BY <1>1, <1>2 DEF Nothing
<1> QED
    BY <1>3, <1>4, <1>5 DEF r

\* Taking the oldest callback.
LEMMA TailLatest ==
    ASSUME NEW q \in Seq(Callback), q # <<>>
    PROVE  /\ \A y : Latest(q, y) => Latest(Tail(q), y) \/ (y = Head(q) /\ Nothing(Tail(q)))
           /\ Nothing(q) => Nothing(Tail(q)) /\ ~Counts(Head(q))
<1> DEFINE r == Tail(q)
<1>1. /\ Len(q) \in Nat \ {0} /\ Head(q) = q[1] /\ Len(r) = Len(q) - 1
      /\ \A i \in 1 .. Len(r) : r[i] = q[i + 1]
    BY HeadTailProperties
<1> HIDE DEF r
<1>2. ASSUME NEW y, Latest(q, y) PROVE Latest(r, y) \/ (y = Head(q) /\ Nothing(r))
    <2>1. PICK i \in 1 .. Len(q) : q[i] = y /\ Counts(y) /\ \A j \in i + 1 .. Len(q) : ~Counts(q[j])
        BY <1>2 DEF Latest
    <2>2. ASSUME NEW j \in i .. Len(r) PROVE ~Counts(r[j])
        <3>1. j + 1 \in i + 1 .. Len(q) /\ j \in 1 .. Len(r)
            BY <1>1
        <3> QED
            BY <1>1, <2>1, <3>1
    <2>3. CASE i = 1
        <3>1. Nothing(r)
            BY <2>2, <2>3 DEF Nothing
        <3> QED
            BY <1>1, <2>1, <2>3, <3>1
    <2>4. CASE i # 1
        <3>1. i - 1 \in 1 .. Len(r) /\ i - 1 + 1 = i
            BY <1>1, <2>4
        <3>2. r[i - 1] = y
            BY <1>1, <2>1, <3>1
        <3> QED
            BY <2>1, <2>2, <3>1, <3>2 DEF Latest
    <2> QED
        BY <2>3, <2>4
<1>3. ASSUME Nothing(q) PROVE Nothing(r) /\ ~Counts(Head(q))
    <2>1. 1 \in 1 .. Len(q) /\ \A i \in 1 .. Len(r) : i + 1 \in 1 .. Len(q)
        BY <1>1
    <2> QED
        BY <1>1, <1>3, <2>1 DEF Nothing
<1> QED
    BY <1>2, <1>3 DEF r

\* A binder thread is at work on something else than a callback it just took.
Busy(h) == h.pc \notin {"connectDone", "disconnectDone"}

\* No thread takes a callback or acts on one.
HandlersKeep == \A b \in CallbackThreads : handler'[b] = handler[b] \/ (Busy(handler[b]) /\ Busy(handler'[b]))

LEMMA ReachedKept ==
    ASSUME HandlersKeep, UNCHANGED dataShareProxy, NEW p, Reached(p)
    PROVE  Reached(p)'
BY DEF HandlersKeep, Busy, Reached

LEMMA HeadingKept ==
    ASSUME HandlersKeep, UNCHANGED <<queue, dataShareProxy>>, NEW p, Heading(p)
    PROVE  Heading(p)'
BY ReachedKept DEF Heading

LEMMA HeadingAppend ==
    ASSUME TypeInv, HandlersKeep, UNCHANGED dataShareProxy,
           queue' = Append(queue, ConnectDone(0)), NEW p, Heading(p)
    PROVE  Heading(p)'
<1>1. queue \in Seq(Callback) /\ ConnectDone(0) \in Callback /\ ~Counts(ConnectDone(0))
    BY ConnectionBoundsAssumption
    DEF TypeInv, TypeOK, ConnectDone, Callback, Incarnations, Counts
<1> QED
    BY <1>1, AppendLatest, ReachedKept DEF Heading

LEMMA HeadingNew ==
    ASSUME TypeInv, NEW p \in Incarnations, queue' = Append(queue, Final(p))
    PROVE  Heading(p)'
<1>1. queue \in Seq(Callback) /\ Final(p) \in Callback /\ Counts(Final(p))
    BY FinalCounts DEF TypeInv, TypeOK
<1>2. Latest(queue', Final(p))
    BY <1>1, AppendLatest
<1> QED
    BY <1>2 DEF Heading, Final, DisconnectDone, ConnectDone

\* The callbacks.
LEMMA HeadingTake ==
    ASSUME TypeInv, OneByOne, NEW b \in CallbackThreads, TakeCallback(b),
           NEW p \in Incarnations, Heading(p)
    PROVE  Heading(p)'
<1>1. CallbackThreads = {b}
    BY DEF OneByOne
<1>2. /\ queue \in Seq(Callback) /\ queue # <<>> /\ queue' = Tail(queue)
      /\ Head(queue) \in Callback /\ handler[b].pc = "idle" /\ UNCHANGED dataShareProxy
    BY DEF TakeCallback, TypeInv, TypeOK, connectionVars
<1>3. handler'[b].pc = Head(queue).kind /\ handler'[b].remote = Head(queue).remote
    BY DEF TakeCallback, TypeInv, TypeOK, IdleHandler
<1>4. Latest(queue', Final(p)) => Heading(p)'
    BY DEF Heading, Final, DisconnectDone, ConnectDone
<1>5. CASE Final(p) = Head(queue) /\ Nothing(queue')
    <2>1. Reached(p)'
        BY <1>1, <1>3, <1>5, FinalCounts DEF Reached
    <2> QED
        BY <1>5, <2>1 DEF Heading
<1>6. CASE Nothing(queue) /\ Reached(p)
    <2>1. Nothing(queue') /\ ~Counts(Head(queue))
        BY <1>2, <1>6, TailLatest
    <2>2. dataShareProxy = p
        BY <1>2, <1>6 DEF Reached
    <2>3. Head(queue).kind = "connectDone" /\ Head(queue).remote = 0
        BY <1>2, <2>1 DEF Callback, Counts
    <2>4. Reached(p)'
        BY <1>1, <1>2, <1>3, <2>2, <2>3 DEF Reached
    <2> QED
        BY <2>1, <2>4 DEF Heading
<1>7. Latest(queue, Final(p)) => Latest(queue', Final(p)) \/ (Final(p) = Head(queue) /\ Nothing(queue'))
    BY <1>2, TailLatest
<1> QED
    BY <1>4, <1>5, <1>6, <1>7 DEF Heading

LEMMA HeadingHandled ==
    ASSUME TypeInv, OneByOne, NEW b \in CallbackThreads,
           OnAbilityConnectDone(b) \/ OnAbilityDisconnectDone(b),
           NEW p \in Incarnations, Heading(p)
    PROVE  Heading(p)'
<1>1. CallbackThreads = {b}
    BY DEF OneByOne
<1>2. UNCHANGED queue
    BY DEF OnAbilityConnectDone, OnAbilityDisconnectDone, amsVars
<1>3. handler'[b].pc \in {"idle", "checkInvalid", "reconnect"}
    BY HandlerFields DEF OnAbilityConnectDone, OnAbilityDisconnectDone, Finish, Goto, IdleHandler,
                         TypeInv, TypeOK, HandlerRecord
<1>4. Reached(p) => dataShareProxy' = p
    BY DEF OnAbilityConnectDone, OnAbilityDisconnectDone, Reached
<1>5. Reached(p) => Reached(p)'
    BY <1>1, <1>3, <1>4 DEF Reached
<1> QED
    BY <1>2, <1>5 DEF Heading
-----------------------------------------------------------------------------
(* The owner of the connection *)

\* One call creates the helper, and it ends before the helper is released; the
\* connection is invalid from the moment the deleter has said so.
OwnerInv ==
    /\ \A c \in Clients : client[c].want = "create" => helper = "creating"
    /\ \A c, d \in Clients : client[c].want = "create" /\ client[d].want = "create" => c = d
    /\ isInvalid <=> helper \in {"clearUri", "disconnect", "released"}

\* The owner's side of a step that leaves helper_ alone.
LEMMA OwnerKept ==
    ASSUME OwnerInv, UNCHANGED <<helper, isInvalid>>,
           \A c \in Clients : client'[c].want = "create" => client[c].want = "create"
    PROVE  OwnerInv'
BY DEF OwnerInv

LEMMA GotOwner ==
    ASSUME TypeInv, OwnerInv, NEW c \in Clients, NEW p, Got(c, p), UNCHANGED isInvalid
    PROVE  OwnerInv'
<1>1. \A d \in Clients : d # c => client'[d] = client[d]
    BY DEF Got, TypeInv, TypeOK
<1>2. client'[c].want # "create"
    BY ClientFields DEF Got, TypeInv, TypeOK, IdleClient, ClientRecord
<1>3. CASE client[c].want = "create"
    <2>1. helper = "creating" /\ helper' \in {"setInvalid", "held"}
        BY <1>3 DEF Got, OwnerInv
    <2>2. \A d \in Clients : client'[d].want # "create"
        BY <1>1, <1>2, <1>3 DEF OwnerInv
    <2> QED
        BY <2>1, <2>2 DEF OwnerInv
<1>4. CASE client[c].want # "create"
    BY <1>1, <1>2, <1>4, OwnerKept DEF Got
<1> QED
    BY <1>3, <1>4

LEMMA ClientOwner ==
    ASSUME TypeInv, OwnerInv, NEW c \in Clients, ClientStep(c)
    PROVE  OwnerInv'
<1>1. UNCHANGED isInvalid
    BY DEF ClientStep, CreateExtHelper, Call, GetDataShareProxy, ConnectDataShareExtAbility,
           WaitForProxy, RegisterObserverExtProvider, UpdateObserverExtsProviderMap,
           UnregisterObserverExtProvider, DeleteObserverExtsProviderMap, connectionVars
<1>2. CASE CreateExtHelper(c)
    <2>1. \A d \in Clients : d # c => client'[d] = client[d]
        BY <1>2 DEF CreateExtHelper, TypeInv, TypeOK
    <2>2. \A d \in Clients : client[d].want # "create"
        BY <1>2 DEF CreateExtHelper, OwnerInv
    <2> QED
        BY <1>1, <1>2, <2>1, <2>2 DEF CreateExtHelper, OwnerInv
<1>3. ASSUME \E p : Got(c, p) PROVE OwnerInv'
    BY <1>1, <1>3, GotOwner
<1>4. ASSUME UNCHANGED helper, client'[c].want # "create" \/ client'[c].want = client[c].want,
             \A d \in Clients : d # c => client'[d] = client[d]
      PROVE  OwnerInv'
    BY <1>1, <1>4, OwnerKept
<1>5. ASSUME NEW pc, client' = [client EXCEPT ![c].pc = pc], UNCHANGED helper PROVE OwnerInv'
    BY <1>4, <1>5, ClientFields DEF TypeInv, TypeOK, ClientRecord
<1>6. ASSUME Done(c), UNCHANGED helper PROVE OwnerInv'
    BY <1>4, <1>6 DEF Done, IdleClient, TypeInv, TypeOK
<1>7. ASSUME NEW want, want # "create", NEW os, Call(c, want, os) PROVE OwnerInv'
    BY <1>4, <1>7 DEF Call, TypeInv, TypeOK
<1>8. CASE \/ Call(c, "call", {})
            \/ \E o \in Observers : Call(c, "register", {o}) \/ Call(c, "unregister", {o})
    <2>1. "call" # "create" /\ "register" # "create" /\ "unregister" # "create"
        OBVIOUS
    <2> QED
        BY <1>7, <1>8, <2>1, Zenon
<1>9. CASE GetDataShareProxy(c) \/ ConnectDataShareExtAbility(c) \/ WaitForProxy(c)
    BY <1>3, <1>5, <1>9 DEF GetDataShareProxy, ConnectDataShareExtAbility, WaitForProxy
<1>10. CASE \/ RegisterObserverExtProvider(c) \/ UpdateObserverExtsProviderMap(c)
             \/ UnregisterObserverExtProvider(c) \/ DeleteObserverExtsProviderMap(c)
    BY <1>5, <1>6, <1>10 DEF RegisterObserverExtProvider, UpdateObserverExtsProviderMap,
                             UnregisterObserverExtProvider, DeleteObserverExtsProviderMap
<1> QED
    BY <1>2, <1>8, <1>9, <1>10 DEF ClientStep

LEMMA NextOwner ==
    ASSUME TypeInv, OwnerInv, [Next]_vars
    PROVE  OwnerInv'
<1>1. ASSUME NEW b \in CallbackThreads, CallbackStep(b) PROVE OwnerInv'
    <2>1. UNCHANGED <<helper, client, isInvalid>>
        BY <1>1 DEF CallbackStep, TakeCallback, OnAbilityConnectDone, CheckInvalid, ExchangeReconnect,
               MoveObservers, ClearObservers, ReRegisterProxy, ReRegisterObserverExtProvider,
               StoreReRegistered, OnAbilityDisconnectDone, ReconnectExtAbility, ReconnectNow,
               CountFirst, DelayConnectExtAbility, connectionVars
    <2> QED
        BY <2>1, OwnerKept
<1>2. CASE PoolStep \/ Crash \/ Quiet \/ UNCHANGED vars
    <2>1. UNCHANGED <<helper, client, isInvalid>>
        BY <1>2 DEF PoolStep, SkipReconnect, DelayedReconnect, CountDelayed, Crash, Quiet, vars,
                    connectionVars
    <2> QED
        BY <2>1, OwnerKept
<1>3. CASE ReleaseStep
    BY <1>3 DEF ReleaseStep, DropHelper, SetConnectInvalid, ClearUri, DisconnectDataShareExtAbility,
                connectionVars, OwnerInv
<1> QED
    BY <1>1, <1>2, <1>3, ClientOwner DEF Next

LEMMA InitOwner == Init => OwnerInv
BY DEF Init, OwnerInv, IdleClient

-----------------------------------------------------------------------------
(* What a step does to the link and to the callbacks *)

\* Neither the extension nor the link changes, and the proxy ends up where it would have.
Steady == UNCHANGED <<inst, link>> /\ \A p \in Incarnations : Heading(p) => Heading(p)'

\* A Connect is accepted: the extension runs, and its proxy is on its way.
Connected == link' /\ inst' # 0 /\ Heading(inst)'

\* The extension crashes; a link to it is answered by a callback that clears the proxy.
Crashed == inst # 0 /\ inst' = 0 /\ ~link' /\ (link => Heading(0)')

LEMMA SteadyStep ==
    ASSUME HandlersKeep, UNCHANGED <<inst, link, queue, dataShareProxy>>
    PROVE  Steady
BY HeadingKept DEF Steady

LEMMA ConnectOutcome ==
    ASSUME TypeInv, HandlersKeep, UNCHANGED dataShareProxy, ConnectAccepted \/ ConnectRefused
    PROVE  Steady \/ Connected
<1>1. CASE ConnectRefused
    BY <1>1, SteadyStep DEF ConnectRefused
<1>2. CASE queue' = Append(queue, ConnectDone(0)) /\ UNCHANGED <<inst, link>>
    BY <1>2, HeadingAppend DEF Steady
<1>3. CASE inst' # 0 /\ queue' = Append(queue, ConnectDone(inst')) /\ link'
    <2>1. inst' \in Incarnations
        BY ConnectType DEF AmsType
    <2>2. PICK p \in Incarnations : p = inst'
        BY <2>1
    <2>3. queue' = Append(queue, Final(p))
        BY <1>3, <2>2 DEF Final
    <2>4. Heading(p)'
        BY <2>3, HeadingNew
    <2>5. Heading(inst)'
        BY <2>2, <2>4 DEF Heading, Reached, Final
    <2> QED
        BY <1>3, <2>5 DEF Connected
<1>4. CASE ConnectAccepted
    <2>1. inst \in Nat /\ started \in Nat
        BY ConnectionBoundsAssumption DEF TypeInv, TypeOK, Incarnations
    <2>2. started + 1 # 0
        BY <2>1
    <2> QED
        BY <1>2, <1>3, <1>4, <2>1, <2>2 DEF ConnectAccepted
<1> QED
    BY <1>1, <1>4

LEMMA CrashOutcome ==
    ASSUME TypeInv, Crash
    PROVE  Crashed
<1>1. 0 \in Incarnations
    BY ConnectionBoundsAssumption DEF Incarnations
<1>2. link => queue' = Append(queue, Final(0))
    BY DEF Crash, Final
<1>3. link => Heading(0)'
    BY <1>1, <1>2, HeadingNew
<1> QED
    BY <1>3 DEF Crash, Crashed

\* A binder thread that has not just taken a callback goes on.
LEMMA BusyStep ==
    ASSUME TypeInv, NEW b \in CallbackThreads, NEW h, Busy(handler[b]), Busy(h),
           handler' = [handler EXCEPT ![b] = h]
    PROVE  HandlersKeep
BY DEF HandlersKeep, TypeInv, TypeOK

LEMMA BusyFinish ==
    ASSUME TypeInv, NEW b \in CallbackThreads, Busy(handler[b]), Finish(b)
    PROVE  HandlersKeep
<1>1. Busy(IdleHandler)
    BY DEF Busy, IdleHandler
<1> QED
    BY <1>1, BusyStep DEF Finish

LEMMA BusyGoto ==
    ASSUME TypeInv, NEW b \in CallbackThreads, Busy(handler[b]), NEW pc,
           pc \notin {"connectDone", "disconnectDone"}, Goto(b, pc)
    PROVE  HandlersKeep
<1>1. handler[b] \in HandlerRecord
    BY HandlerFields
<1>2. Busy([handler[b] EXCEPT !.pc = pc])
    BY <1>1 DEF Busy, HandlerRecord
<1>3. handler' = [handler EXCEPT ![b] = [handler[b] EXCEPT !.pc = pc]]
    BY DEF Goto, TypeInv, TypeOK
<1> QED
    BY <1>2, <1>3, BusyStep

\* The handler goes on with the next observer.
LEMMA BusyNextObserver ==
    ASSUME TypeInv, NEW b \in CallbackThreads, Busy(handler[b]), NEW rest, NextObserver(b, rest)
    PROVE  HandlersKeep
<1>1. handler[b] \in HandlerRecord
    BY HandlerFields
<1>2. Busy([handler[b] EXCEPT !.pc = "reRegister", !.moved = rest, !.current = {}])
    BY <1>1 DEF Busy, HandlerRecord
<1>3. \/ Finish(b)
      \/ handler' = [handler EXCEPT ![b] =
            [handler[b] EXCEPT !.pc = "reRegister", !.moved = rest, !.current = {}]]
    BY DEF NextObserver, TypeInv, TypeOK
<1> QED
    BY <1>2, <1>3, BusyStep, BusyFinish

\* Re-registering observers touches neither the link nor the proxy.
LEMMA ReRegisterSteady ==
    ASSUME TypeInv, NEW b \in CallbackThreads,
           \/ MoveObservers(b) \/ ClearObservers(b) \/ ReRegisterProxy(b)
           \/ \E o \in handler[b].moved : ReRegisterObserverExtProvider(b, o)
           \/ StoreReRegistered(b)
    PROVE  Steady
<1>1. handler[b] \in HandlerRecord
    BY HandlerFields
<1>2. UNCHANGED <<inst, link, queue, dataShareProxy>>
    BY DEF MoveObservers, ClearObservers, ReRegisterProxy, ReRegisterObserverExtProvider,
           StoreReRegistered, connectionVars, amsVars
<1>3. Busy(handler[b])
    BY DEF MoveObservers, ClearObservers, ReRegisterProxy, ReRegisterObserverExtProvider,
           StoreReRegistered, Busy
<1>4. CASE MoveObservers(b)
    <2>1. Busy([handler[b] EXCEPT !.pc = "clear", !.moved = observerExtsProvider])
        BY <1>1 DEF Busy, HandlerRecord
    <2>2. handler' = [handler EXCEPT ![b] =
                        [handler[b] EXCEPT !.pc = "clear", !.moved = observerExtsProvider]]
        BY <1>4 DEF MoveObservers, TypeInv, TypeOK
    <2> QED
        BY <1>2, <1>3, <2>1, <2>2, BusyStep, SteadyStep
<1>5. CASE ClearObservers(b)
    BY <1>2, <1>3, <1>5, BusyGoto, SteadyStep DEF ClearObservers
<1>6. CASE ReRegisterProxy(b)
    <2>1. Busy([handler[b] EXCEPT !.pc = "reRegister", !.remote = dataShareProxy])
        BY <1>1 DEF Busy, HandlerRecord
    <2>2. \/ Finish(b)
          \/ handler' = [handler EXCEPT ![b] =
                [handler[b] EXCEPT !.pc = "reRegister", !.remote = dataShareProxy]]
        BY <1>6 DEF ReRegisterProxy, TypeInv, TypeOK
    <2> QED
        BY <1>2, <1>3, <2>1, <2>2, BusyStep, BusyFinish, SteadyStep
<1>7. ASSUME NEW o \in handler[b].moved, ReRegisterObserverExtProvider(b, o) PROVE Steady
    <2>1. Busy([handler[b] EXCEPT !.pc = "update", !.current = {o}])
        BY <1>1 DEF Busy, HandlerRecord
    <2>2. \/ NextObserver(b, handler[b].moved \ {o})
          \/ handler' = [handler EXCEPT ![b] = [handler[b] EXCEPT !.pc = "update", !.current = {o}]]
        BY <1>7 DEF ReRegisterObserverExtProvider, TypeInv, TypeOK
    <2> QED
        BY <1>2, <1>3, <2>1, <2>2, BusyStep, BusyNextObserver, SteadyStep
<1>8. CASE StoreReRegistered(b)
    BY <1>2, <1>3, <1>8, BusyNextObserver, SteadyStep DEF StoreReRegistered
<1> QED
    BY <1>4, <1>5, <1>6, <1>7, <1>8

\* A connection that has been given up is disconnected.
Disconnected == isInvalid /\ isInvalid' /\ ~link'

LinkStep == Steady \/ Connected \/ Crashed \/ Disconnected

LEMMA CallbackLink ==
    ASSUME TypeInv, OneByOne, NEW b \in CallbackThreads, CallbackStep(b)
    PROVE  LinkStep
<1>1. CASE TakeCallback(b)
    BY <1>1, HeadingTake DEF TakeCallback, LinkStep, Steady
<1>2. CASE OnAbilityConnectDone(b) \/ OnAbilityDisconnectDone(b)
    BY <1>2, HeadingHandled DEF OnAbilityConnectDone, OnAbilityDisconnectDone, LinkStep, Steady, amsVars
<1>3. CASE CheckInvalid(b)
    <2>1. CASE isInvalid
        BY <1>3, <2>1 DEF CheckInvalid, Disconnect, LinkStep, Disconnected, connectionVars
    <2>2. CASE ~isInvalid
        <3>1. HandlersKeep
            BY <1>3, <2>2, BusyGoto DEF CheckInvalid, Busy
        <3> QED
            BY <1>3, <2>2, <3>1, SteadyStep DEF CheckInvalid, LinkStep, connectionVars, amsVars
    <2> QED
        BY <2>1, <2>2
<1>4. CASE ReconnectNow(b)
    <2>1. HandlersKeep
        BY <1>4, BusyGoto, BusyFinish DEF ReconnectNow, Busy
    <2> QED
        BY <1>4, <2>1, ConnectOutcome DEF ReconnectNow, LinkStep, connectionVars
<1>5. CASE ExchangeReconnect(b)
    <2>1. HandlersKeep
        BY <1>5, BusyGoto, BusyFinish DEF ExchangeReconnect, Busy
    <2> QED
        BY <1>5, <2>1, SteadyStep DEF ExchangeReconnect, LinkStep, amsVars
<1>6. CASE ReconnectExtAbility(b)
    <2>1. HandlersKeep
        BY <1>6, BusyGoto DEF ReconnectExtAbility, Busy
    <2> QED
        BY <1>6, <2>1, SteadyStep DEF ReconnectExtAbility, LinkStep, connectionVars, amsVars
<1>7. CASE CountFirst(b) \/ DelayConnectExtAbility(b)
    <2>1. HandlersKeep
        BY <1>7, BusyFinish DEF CountFirst, DelayConnectExtAbility, Busy
    <2> QED
        BY <1>7, <2>1, SteadyStep
        DEF CountFirst, DelayConnectExtAbility, LinkStep, connectionVars, amsVars
<1> QED
    BY <1>1, <1>2, <1>3, <1>4, <1>5, <1>6, <1>7, ReRegisterSteady DEF CallbackStep, LinkStep

LEMMA ClientLink ==
    ASSUME TypeInv, NEW c \in Clients, ClientStep(c)
    PROVE  LinkStep
<1>1. HandlersKeep /\ UNCHANGED dataShareProxy
    BY DEF ClientStep, CreateExtHelper, Call, GetDataShareProxy, ConnectDataShareExtAbility,
           WaitForProxy, RegisterObserverExtProvider, UpdateObserverExtsProviderMap,
           UnregisterObserverExtProvider, DeleteObserverExtsProviderMap, HandlersKeep, connectionVars
<1>2. CASE ConnectDataShareExtAbility(c)
    BY <1>1, <1>2, ConnectOutcome DEF ConnectDataShareExtAbility, LinkStep
<1>3. CASE UNCHANGED <<inst, link, queue>>
    BY <1>1, <1>3, SteadyStep DEF LinkStep
<1> QED
    BY <1>2, <1>3
    DEF ClientStep, CreateExtHelper, Call, GetDataShareProxy, WaitForProxy,
        RegisterObserverExtProvider, UpdateObserverExtsProviderMap,
        UnregisterObserverExtProvider, DeleteObserverExtsProviderMap, amsVars

\* Every step is one of the four, if callbacks are handled one by one.
LEMMA NextLink ==
    ASSUME TypeInv, OwnerInv, OneByOne, [Next]_vars
    PROVE  LinkStep
<1>1. CASE PoolStep
    <2>1. HandlersKeep /\ UNCHANGED dataShareProxy
        BY <1>1 DEF PoolStep, SkipReconnect, DelayedReconnect, CountDelayed, HandlersKeep, connectionVars
    <2>2. CASE DelayedReconnect
        BY <2>1, <2>2, ConnectOutcome DEF DelayedReconnect, LinkStep
    <2> QED
        BY <1>1, <2>1, <2>2, SteadyStep DEF PoolStep, SkipReconnect, CountDelayed, LinkStep, amsVars
<1>2. CASE DropHelper \/ SetConnectInvalid \/ ClearUri
    BY <1>2, SteadyStep
    DEF DropHelper, SetConnectInvalid, ClearUri, LinkStep, HandlersKeep, connectionVars, amsVars
<1>3. CASE Quiet \/ UNCHANGED vars
    BY <1>3, SteadyStep DEF Quiet, vars, LinkStep, HandlersKeep, connectionVars, amsVars
<1>4. CASE DisconnectDataShareExtAbility
    BY <1>4
    DEF DisconnectDataShareExtAbility, Disconnect, OwnerInv, LinkStep, Disconnected, connectionVars
<1> QED
    BY <1>1, <1>2, <1>3, <1>4, CallbackLink, ClientLink, CrashOutcome
    DEF Next, ReleaseStep, LinkStep

-----------------------------------------------------------------------------
(* The proxy follows the extension, and a released connection is disconnected *)

\* While the connection is valid it is linked to the running extension, and the
\* callbacks lead to its proxy.
FollowInv == ~isInvalid => (link <=> inst # 0) /\ Heading(inst)

\* A link never goes unnoticed: the callbacks lead to some proxy.
BackedInv == link => \E p \in Incarnations \ {0} : Heading(p)

\* A callback that will find the connection invalid is on its way, or about to check.
Late ==
    \/ \E i \in 1 .. Len(queue) : queue[i].kind = "connectDone" /\ queue[i].remote # 0
    \/ \E b \in CallbackThreads : \/ handler[b].pc = "checkInvalid"
                                  \/ handler[b].pc = "connectDone" /\ handler[b].remote # 0

ReleasedInv == helper = "released" /\ link => Late

LEMMA StaysInvalid ==
    ASSUME TypeInv, OwnerInv, [Next]_vars, isInvalid
    PROVE  isInvalid'
BY DEF Next, ClientStep, CreateExtHelper, Call, GetDataShareProxy, ConnectDataShareExtAbility,
       WaitForProxy, RegisterObserverExtProvider, UpdateObserverExtsProviderMap,
       UnregisterObserverExtProvider, DeleteObserverExtsProviderMap,
       CallbackStep, TakeCallback, OnAbilityConnectDone, CheckInvalid, ExchangeReconnect,
       MoveObservers, ClearObservers, ReRegisterProxy, ReRegisterObserverExtProvider,
       StoreReRegistered, OnAbilityDisconnectDone, ReconnectExtAbility, ReconnectNow,
       CountFirst, DelayConnectExtAbility, PoolStep, SkipReconnect, DelayedReconnect, CountDelayed,
       ReleaseStep, DropHelper, SetConnectInvalid, ClearUri, DisconnectDataShareExtAbility,
       Crash, Quiet, connectionVars, vars

LEMMA NextFollow ==
    ASSUME TypeInv, OwnerInv, OneByOne, [Next]_vars, FollowInv, BackedInv
    PROVE  FollowInv' /\ BackedInv'
<1>1. LinkStep
    BY NextLink
<1>2. isInvalid => isInvalid'
    BY StaysInvalid
<1>3. inst \in Incarnations /\ inst' \in Incarnations
    BY NextType DEF TypeInv, TypeOK
<1>4. CASE Steady
    <2>1. UNCHANGED <<inst, link>> /\ \A p \in Incarnations : Heading(p) => Heading(p)'
        BY <1>4 DEF Steady
    <2>2. BackedInv'
        BY <2>1 DEF BackedInv
    <2>3. PICK p \in Incarnations : p = inst
        BY <1>3
    <2>4. Heading(inst) => Heading(p)
        BY <2>3 DEF Heading, Reached, Final
    <2>5. Heading(p)' => Heading(inst)'
        BY <2>1, <2>3 DEF Heading, Reached, Final
    <2>6. Heading(p) => Heading(p)'
        BY <2>1
    <2>7. FollowInv'
        BY <1>2, <2>1, <2>4, <2>5, <2>6 DEF FollowInv
    <2> QED
        BY <2>2, <2>7
<1>5. CASE Connected
    <2>1. PICK p \in Incarnations \ {0} : p = inst'
        BY <1>3, <1>5 DEF Connected
    <2>2. Heading(inst)' => Heading(p)'
        BY <2>1 DEF Heading, Reached, Final
    <2>3. BackedInv'
        BY <1>5, <2>1, <2>2 DEF BackedInv, Connected
    <2>4. FollowInv'
        BY <1>5 DEF FollowInv, Connected
    <2> QED
        BY <2>3, <2>4
<1>6. CASE Crashed
    <2>1. BackedInv'
        BY <1>6 DEF BackedInv, Crashed
    <2>2. inst' = 0 /\ Heading(0)' => Heading(inst)'
        BY DEF Heading, Reached, Final
    <2>3. FollowInv'
        BY <1>2, <1>6, <2>2 DEF FollowInv, Crashed
    <2> QED
        BY <2>1, <2>3
<1>7. CASE Disconnected
    BY <1>7 DEF Disconnected, FollowInv, BackedInv
<1> QED
    BY <1>1, <1>4, <1>5, <1>6, <1>7 DEF LinkStep

LEMMA InitFollow ==
    ASSUME Init
    PROVE  FollowInv /\ BackedInv /\ ReleasedInv
<1>1. Nothing(queue) /\ Reached(0)
    BY DEF Init, Nothing, Reached, IdleHandler
<1>2. inst = 0 => Heading(inst)
    BY <1>1 DEF Heading, Reached
<1> QED
    BY <1>2 DEF Init, FollowInv, BackedInv, ReleasedInv

\* The callbacks lead to a proxy that is not there yet: one of them is late.
LEMMA BackedLate ==
    ASSUME TypeInv, OneByOne, BackedInv, link, dataShareProxy = 0
    PROVE  Late
<1>1. PICK p \in Incarnations \ {0} : Heading(p)
    BY DEF BackedInv
<1>2. CASE Latest(queue, Final(p))
    BY <1>2, FinalCounts DEF Latest, Late
<1>3. CASE Reached(p)
    BY <1>3 DEF Reached, Late, OneByOne
<1> QED
    BY <1>1, <1>2, <1>3 DEF Heading

\* No binder thread sets the proxy or checks.
NoneChecks ==
    \A b \in CallbackThreads :
        handler[b].pc \in {"connectDone", "checkInvalid"} => handler'[b] = handler[b]

\* A late callback stays late while no binder thread checks for it.
LEMMA LateKept ==
    ASSUME TypeInv, Late, NoneChecks,
           queue' = queue \/ \E x \in Callback : queue' = Append(queue, x)
    PROVE  Late'
<1>1. queue \in Seq(Callback)
    BY DEF TypeInv, TypeOK
<1>2. \A i \in 1 .. Len(queue) : i \in 1 .. Len(queue') /\ queue'[i] = queue[i]
    BY <1>1
<1> QED
    BY <1>2 DEF Late, NoneChecks

LEMMA LateNew ==
    ASSUME TypeInv, NEW p \in Incarnations \ {0}, queue' = Append(queue, ConnectDone(p))
    PROVE  Late'
<1>1. queue \in Seq(Callback) /\ ConnectDone(p) \in Callback
    BY DEF TypeInv, TypeOK, ConnectDone, Callback
<1>2. Len(queue) + 1 \in 1 .. Len(queue') /\ queue'[Len(queue) + 1] = ConnectDone(p)
    BY <1>1
<1> QED
    BY <1>2 DEF Late, ConnectDone

\* A request to connect: the answer it gets, if it gets one, is late too.
LEMMA ConnectLate ==
    ASSUME TypeInv, NoneChecks, link => Late, ConnectAccepted \/ ConnectRefused
    PROVE  link' => Late'
<1>1. inst \in Nat /\ started \in Nat /\ 0 \in Incarnations
    BY ConnectionBoundsAssumption DEF TypeInv, TypeOK, Incarnations
<1>2. started + 1 # 0
    BY <1>1
<1>3. CASE UNCHANGED <<queue, link>>
    BY <1>3, LateKept
<1>4. CASE queue' = Append(queue, ConnectDone(0)) /\ UNCHANGED link
    <2>1. ConnectDone(0) \in Callback
        BY <1>1 DEF ConnectDone, Callback
    <2> QED
        BY <1>4, <2>1, LateKept
<1>5. CASE inst' # 0 /\ queue' = Append(queue, ConnectDone(inst'))
    <2>1. inst' \in Incarnations
        BY ConnectType DEF AmsType
    <2>2. PICK p \in Incarnations \ {0} : p = inst'
        BY <1>5, <2>1
    <2> QED
        BY <1>5, <2>2, LateNew
<1> QED
    BY <1>1, <1>2, <1>3, <1>4, <1>5 DEF ConnectAccepted, ConnectRefused

\* A binder thread takes a callback: a late one is in its hands now.
LEMMA TakeLate ==
    ASSUME TypeInv, NEW b \in CallbackThreads, TakeCallback(b), Late
    PROVE  Late'
<1>1. /\ queue \in Seq(Callback) /\ queue # <<>> /\ queue' = Tail(queue)
      /\ handler[b].pc = "idle"
      /\ \A d \in CallbackThreads : d # b => handler'[d] = handler[d]
      /\ handler'[b].pc = Head(queue).kind /\ handler'[b].remote = Head(queue).remote
    BY DEF TakeCallback, TypeInv, TypeOK, IdleHandler
<1>2. CASE \E d \in CallbackThreads : \/ handler[d].pc = "checkInvalid"
                                      \/ handler[d].pc = "connectDone" /\ handler[d].remote # 0
    BY <1>1, <1>2 DEF Late
<1>3. ASSUME NEW i \in 1 .. Len(queue), queue[i].kind = "connectDone", queue[i].remote # 0
      PROVE  Late'
    <2>1. CASE i = 1
        BY <1>1, <1>3, <2>1 DEF Late
    <2>2. CASE i # 1
        <3>1. i - 1 \in 1 .. Len(Tail(queue)) /\ Tail(queue)[i - 1] = queue[i]
            BY <1>1, <2>2
        <3> QED
            BY <1>1, <1>3, <3>1 DEF Late
    <2> QED
        BY <2>1, <2>2
<1> QED
    BY <1>2, <1>3 DEF Late

LEMMA ConnectDoneLate ==
    ASSUME TypeInv, NEW b \in CallbackThreads, OnAbilityConnectDone(b), Late
    PROVE  Late'
<1>1. /\ \A d \in CallbackThreads : d # b => handler'[d] = handler[d]
      /\ UNCHANGED queue /\ handler[b].pc = "connectDone"
    BY DEF OnAbilityConnectDone, Finish, Goto, TypeInv, TypeOK, amsVars
<1>2. handler[b].remote # 0 => handler'[b].pc = "checkInvalid"
    BY HandlerFields DEF OnAbilityConnectDone, Goto, TypeInv, TypeOK, HandlerRecord
<1> QED
    BY <1>1, <1>2 DEF Late

LEMMA CallbackReleased ==
    ASSUME TypeInv, OwnerInv, ReleasedInv, NEW b \in CallbackThreads, CallbackStep(b)
    PROVE  ReleasedInv'
<1>1. UNCHANGED helper
    BY DEF CallbackStep, TakeCallback, OnAbilityConnectDone, CheckInvalid, ExchangeReconnect,
           MoveObservers, ClearObservers, ReRegisterProxy, ReRegisterObserverExtProvider,
           StoreReRegistered, OnAbilityDisconnectDone, ReconnectExtAbility, ReconnectNow,
           CountFirst, DelayConnectExtAbility
<1>2. CASE TakeCallback(b)
    BY <1>1, <1>2, TakeLate DEF ReleasedInv, TakeCallback
<1>3. CASE OnAbilityConnectDone(b)
    BY <1>1, <1>3, ConnectDoneLate DEF ReleasedInv, OnAbilityConnectDone, amsVars
<1>4. CASE CheckInvalid(b)
    BY <1>1, <1>4 DEF CheckInvalid, Disconnect, ReleasedInv, OwnerInv
<1>5. CASE handler[b].pc \notin {"idle", "connectDone", "checkInvalid"}
    <2>1. \A d \in CallbackThreads : d # b => handler'[d] = handler[d]
        BY <1>5 DEF CallbackStep, TakeCallback, OnAbilityConnectDone, CheckInvalid, ExchangeReconnect,
           MoveObservers, ClearObservers, ReRegisterProxy, ReRegisterObserverExtProvider,
           StoreReRegistered, OnAbilityDisconnectDone, ReconnectExtAbility, ReconnectNow,
           CountFirst, DelayConnectExtAbility, NextObserver, Finish, Goto, TypeInv, TypeOK
    <2>2. NoneChecks
        BY <1>5, <2>1 DEF NoneChecks
    <2>3. CASE ReconnectNow(b)
        BY <1>1, <2>2, <2>3, ConnectLate DEF ReconnectNow, ReleasedInv
    <2>4. CASE UNCHANGED <<queue, link>>
        BY <1>1, <2>2, <2>4, LateKept DEF ReleasedInv
    <2> QED
        BY <1>5, <2>3, <2>4 DEF CallbackStep, TakeCallback, OnAbilityConnectDone, CheckInvalid,
           ExchangeReconnect, MoveObservers, ClearObservers, ReRegisterProxy,
           ReRegisterObserverExtProvider, StoreReRegistered, OnAbilityDisconnectDone,
           ReconnectExtAbility, CountFirst, DelayConnectExtAbility, amsVars
<1>6. handler[b].pc \in {"idle", "connectDone", "checkInvalid"} =>
          TakeCallback(b) \/ OnAbilityConnectDone(b) \/ CheckInvalid(b)
    BY DEF CallbackStep, ExchangeReconnect, MoveObservers, ClearObservers, ReRegisterProxy,
           ReRegisterObserverExtProvider, StoreReRegistered, OnAbilityDisconnectDone,
           ReconnectExtAbility, ReconnectNow, CountFirst, DelayConnectExtAbility
<1> QED
    BY <1>2, <1>3, <1>4, <1>5, <1>6

LEMMA NextReleased ==
    ASSUME TypeInv, OwnerInv, OneByOne, BackedInv, ReleasedInv, [Next]_vars
    PROVE  ReleasedInv'
<1>1. ASSUME NEW c \in Clients, ClientStep(c) PROVE ReleasedInv'
    <2>1. UNCHANGED handler /\ (helper' = "released" => helper = "released")
        BY <1>1 DEF ClientStep, CreateExtHelper, Call, GetDataShareProxy, ConnectDataShareExtAbility,
           WaitForProxy, RegisterObserverExtProvider, UpdateObserverExtsProviderMap,
           UnregisterObserverExtProvider, DeleteObserverExtsProviderMap, Got
    <2>2. NoneChecks
        BY <2>1 DEF NoneChecks
    <2>3. CASE ConnectDataShareExtAbility(c)
        BY <2>1, <2>2, <2>3, ConnectLate DEF ConnectDataShareExtAbility, ReleasedInv
    <2>4. CASE UNCHANGED <<queue, link>>
        BY <2>1, <2>2, <2>4, LateKept DEF ReleasedInv
    <2> QED
        BY <1>1, <2>3, <2>4 DEF ClientStep, CreateExtHelper, Call, GetDataShareProxy,
           WaitForProxy, RegisterObserverExtProvider, UpdateObserverExtsProviderMap,
           UnregisterObserverExtProvider, DeleteObserverExtsProviderMap, amsVars
<1>2. CASE PoolStep
    <2>1. UNCHANGED <<handler, helper>>
        BY <1>2 DEF PoolStep, SkipReconnect, DelayedReconnect, CountDelayed
    <2>2. NoneChecks
        BY <2>1 DEF NoneChecks
    <2>3. CASE DelayedReconnect
        BY <2>1, <2>2, <2>3, ConnectLate DEF DelayedReconnect, ReleasedInv
    <2> QED
        BY <1>2, <2>1, <2>2, <2>3, LateKept
        DEF PoolStep, SkipReconnect, CountDelayed, ReleasedInv, amsVars
<1>3. CASE ClearUri
    <2>1. helper' = "released" /\ link' => link /\ dataShareProxy = 0
        BY <1>3 DEF ClearUri, amsVars
    <2>2. link /\ dataShareProxy = 0 => Late
        BY BackedLate
    <2>3. Late => Late'
        BY <1>3 DEF ClearUri, amsVars, Late
    <2> QED
        BY <2>1, <2>2, <2>3 DEF ReleasedInv
<1>4. CASE DropHelper \/ SetConnectInvalid \/ DisconnectDataShareExtAbility \/ Crash
    BY <1>4 DEF DropHelper, SetConnectInvalid, DisconnectDataShareExtAbility, Disconnect, Crash,
                ReleasedInv
<1>5. CASE Quiet \/ UNCHANGED vars
    BY <1>5 DEF Quiet, vars, amsVars, ReleasedInv, Late
<1> QED
    BY <1>1, <1>2, <1>3, <1>4, <1>5, CallbackReleased DEF Next, ReleaseStep

\* The whole of it.
LinkInv == TypeInv /\ OwnerInv /\ FollowInv /\ BackedInv /\ ReleasedInv

LEMMA LinkInvariant == OneByOne => (Spec => []LinkInv)
<1> SUFFICES ASSUME OneByOne PROVE Spec => []LinkInv
    OBVIOUS
<1>1. Init => LinkInv
    BY InitType, InitOwner, InitFollow DEF LinkInv
<1>2. LinkInv /\ [Next]_vars => LinkInv'
    BY NextType, NextOwner, NextFollow, NextReleased DEF LinkInv
<1> QED
    BY <1>1, <1>2, PTL DEF Spec

\* However the answer to a Connect races the deleter, a reconnection or a timeout, and
\* however often the extension crashes: a released connection whose callbacks have
\* been handled is no longer linked, if callbacks are handled one by one.
THEOREM ConnectionReleased == OneByOne => (Spec => []ReleasedIsDisconnected)
<1> SUFFICES ASSUME OneByOne PROVE Spec => []ReleasedIsDisconnected
    OBVIOUS
<1>1. LinkInv => ReleasedIsDisconnected
    <2> SUFFICES ASSUME LinkInv, helper = "released", Settled, link PROVE FALSE
        BY DEF ReleasedIsDisconnected
    <2>1. Late
        BY DEF LinkInv, ReleasedInv
    <2>2. Len(queue) = 0 /\ \A b \in CallbackThreads : handler[b].pc = "idle"
        BY DEF Settled
    <2> QED
        BY <2>1, <2>2 DEF Late
<1> QED
    BY <1>1, LinkInvariant, PTL

\* Once its callbacks have been handled a connection in use holds the proxy of the
\* extension it is linked to, and none of one that has crashed.
THEOREM ConnectionProxyFollows == OneByOne => (Spec => []ProxyFollowsExtension)
<1> SUFFICES ASSUME OneByOne PROVE Spec => []ProxyFollowsExtension
    OBVIOUS
<1>1. LinkInv => ProxyFollowsExtension
    <2> SUFFICES ASSUME LinkInv, helper = "held", Settled
                 PROVE  dataShareProxy = IF link THEN inst ELSE 0
        BY DEF ProxyFollowsExtension
    <2>1. (link <=> inst # 0) /\ Heading(inst)
        BY DEF LinkInv, OwnerInv, FollowInv
    <2>2. Len(queue) = 0 /\ \A b \in CallbackThreads : handler[b].pc = "idle"
        BY DEF Settled
    <2>3. Reached(inst)
        BY <2>1, <2>2 DEF Heading, Latest
    <2>4. dataShareProxy = inst
        BY <2>2, <2>3 DEF Reached, OneByOne
    <2> QED
        BY <2>1, <2>4
<1> QED
    BY <1>1, LinkInvariant, PTL

-----------------------------------------------------------------------------
(* The observers across crashes and reconnections *)

Storer(c) == client[c].pc \in {"store", "delete"}

\* Observers that are registered or unregistered at the extension, and not yet in the map.
Pending == {o \in Observers : \E c \in Clients : Storer(c) /\ o \in client[c].observer}

\* Where a handler holds observers that it has moved out of the map.
Holding == {"clear", "getProxy", "reRegister", "update"}

\* A client that talks to the extension has a proxy, and the helper was created for it.
ProxyInv ==
    /\ \A c \in Clients : client[c].pc \in {"request", "store", "delete"} => client[c].proxy # 0
    /\ helper = "none" => \A c \in Clients : client[c].pc = "idle"

\* Before the first connection has been noted nobody has seen a proxy.
FirstInv ==
    /\ ~isInvalid /\ ~isReconnect
    /\ \A b \in CallbackThreads : handler[b].pc \notin {"checkInvalid", "exchange"}
    => wanted = {} /\ dataShareProxy = 0 /\ \A c \in Clients : client[c].proxy = 0

\* The map, with what a handler holds, is what the clients want.
StoredInv ==
    ~disturbed =>
        /\ \A b \in CallbackThreads : handler[b].pc \in Holding => ~Storing
        /\ \A b \in CallbackThreads :
               wanted = IF handler[b].pc \in Holding THEN observerExtsProvider \cup handler[b].moved
                        ELSE observerExtsProvider
        /\ \A b \in CallbackThreads :
               handler[b].pc \in {"clear", "getProxy"} => observerExtsProvider = {}
        /\ \A b \in CallbackThreads :
               handler[b].pc = "update" => handler[b].current \subseteq handler[b].moved

\* The extension knows of nothing else, and a handler loses none while it registers them.
RegisteredInv ==
    ~disturbed =>
        /\ \A c \in Clients : client[c].pc = "store" => client[c].observer \subseteq registered
        /\ \A c \in Clients : client[c].pc = "delete" => client[c].observer \cap registered = {}
        /\ registered \subseteq wanted \cup Pending
        /\ \A b \in CallbackThreads :
               handler[b].pc \in {"reRegister", "update"} => wanted \subseteq registered \cup handler[b].moved
        /\ \A b \in CallbackThreads :
               handler[b].pc = "update" => handler[b].current \subseteq registered

\* No connection is in hand that is going to be followed by a re-registration.
Covered(b) ==
    \/ handler[b].pc \notin {"connectDone", "checkInvalid", "exchange", "move"} \cup Holding
    \/ handler[b].pc = "connectDone" /\ handler[b].remote = 0
    \/ handler[b].pc \in {"checkInvalid", "exchange"} /\ ~isReconnect

\* Nor is one on its way: the running extension has all observers.
SyncInv ==
    /\ ~isInvalid /\ ~disturbed /\ inst # 0
    /\ Nothing(queue)
    /\ \A b \in CallbackThreads : Covered(b)
    => wanted \subseteq registered \cup Pending

ObserverInv == ProxyInv /\ FirstInv /\ StoredInv /\ RegisteredInv /\ SyncInv

\* The storing clients, and the handlers that hold observers, are left alone.
ClientsKeep ==
    \A c \in Clients : Storer(c) \/ client'[c].pc \in {"store", "delete"} => client'[c] = client[c]
HoldersKeep ==
    \A b \in CallbackThreads :
        handler[b].pc \in Holding \/ handler'[b].pc \in Holding => handler'[b] = handler[b]

LEMMA PendingKept ==
    ASSUME ClientsKeep
    PROVE  Pending' = Pending /\ (Storing' <=> Storing)
<1>1. \A c \in Clients : (client'[c].pc \in {"store", "delete"} <=> client[c].pc \in {"store", "delete"})
    BY DEF ClientsKeep, Storer
<1>2. Storing' <=> Storing
    BY <1>1 DEF Storing
<1>3. Pending' = Pending
    BY DEF ClientsKeep, Storer, Pending
<1> QED
    BY <1>2, <1>3

LEMMA StoredKept ==
    ASSUME StoredInv, ClientsKeep, HoldersKeep, UNCHANGED <<observerExtsProvider, wanted, disturbed>>
    PROVE  StoredInv'
<1>1. Storing' <=> Storing
    BY PendingKept
<1> QED
    BY <1>1 DEF StoredInv, HoldersKeep, Holding

LEMMA RegisteredKept ==
    ASSUME RegisteredInv, ClientsKeep, HoldersKeep, UNCHANGED <<registered, wanted, disturbed>>
    PROVE  RegisteredInv'
<1>1. Pending' = Pending
    BY PendingKept
<1> QED
    BY <1>1 DEF RegisteredInv, HoldersKeep, ClientsKeep, Storer, Holding

\* Nothing on its way after the step means nothing before.
Calm == inst' # 0 /\ Nothing(queue)' => inst # 0 /\ Nothing(queue)

LEMMA AppendSomething ==
    ASSUME NEW q \in Seq(Callback), NEW x \in Callback, Nothing(Append(q, x))
    PROVE  Nothing(q) /\ ~Counts(x)
<1> DEFINE r == Append(q, x)
<1>1. /\ Len(q) \in Nat /\ Len(r) = Len(q) + 1 /\ r[Len(q) + 1] = x
      /\ \A i \in 1 .. Len(q) : r[i] = q[i]
    OBVIOUS
<1>2. Nothing(r)
    OBVIOUS
<1> HIDE DEF r
<1>3. Len(q) + 1 \in 1 .. Len(r) /\ \A i \in 1 .. Len(q) : i \in 1 .. Len(r)
    BY <1>1
<1> QED
    BY <1>1, <1>2, <1>3 DEF Nothing

LEMMA ConnectCalm ==
    ASSUME TypeInv, ConnectAccepted \/ ConnectRefused
    PROVE  Calm
<1>1. /\ inst \in Nat /\ started \in Nat /\ inst' \in Incarnations /\ 0 \in Incarnations
      /\ queue \in Seq(Callback)
    BY ConnectionBoundsAssumption, ConnectType DEF TypeInv, TypeOK, AmsType, Incarnations
<1>2. started + 1 # 0
    BY <1>1
<1>3. CASE UNCHANGED <<queue, inst>>
    BY <1>3 DEF Calm
<1>4. CASE queue' = Append(queue, ConnectDone(0)) /\ UNCHANGED inst
    <2>1. ConnectDone(0) \in Callback
        BY <1>1 DEF ConnectDone, Callback
    <2>2. Nothing(queue') => Nothing(queue)
        BY <1>1, <1>4, <2>1, AppendSomething
    <2> QED
        BY <1>4, <2>2 DEF Calm
<1>5. CASE inst' # 0 /\ queue' = Append(queue, ConnectDone(inst'))
    <2>1. ConnectDone(inst') \in Callback /\ Counts(ConnectDone(inst'))
        BY <1>1, <1>5 DEF ConnectDone, Callback, Counts
    <2>2. ~Nothing(queue')
        BY <1>1, <1>5, <2>1, AppendSomething
    <2> QED
        BY <2>2 DEF Calm
<1> QED
    BY <1>1, <1>2, <1>3, <1>4, <1>5 DEF ConnectAccepted, ConnectRefused

LEMMA SyncKept ==
    ASSUME SyncInv, Calm, isInvalid => isInvalid', disturbed => disturbed',
           UNCHANGED <<handler, isReconnect>>,
           ~disturbed' /\ wanted \subseteq registered \cup Pending
               => wanted' \subseteq registered' \cup Pending'
    PROVE  SyncInv'
<1>1. (\A b \in CallbackThreads : Covered(b))' <=> \A b \in CallbackThreads : Covered(b)
    BY DEF Covered
<1> QED
    BY <1>1 DEF SyncInv, Calm

\* A step of a client or of the pool that has nothing to do with the observers.
LEMMA ObserversAlone ==
    ASSUME StoredInv, RegisteredInv, SyncInv, ClientsKeep, Calm, isInvalid => isInvalid',
           UNCHANGED <<observerExtsProvider, registered, wanted, disturbed, handler, isReconnect>>
    PROVE  StoredInv' /\ RegisteredInv' /\ SyncInv'
<1>1. HoldersKeep
    BY DEF HoldersKeep
<1>2. Pending' = Pending
    BY PendingKept
<1>3. SyncInv'
    BY <1>2, SyncKept
<1> QED
    BY <1>1, <1>3, StoredKept, RegisteredKept

-----------------------------------------------------------------------------
(* The observers: steps of the clients *)

LEMMA GotProxy ==
    ASSUME TypeInv, NEW c \in Clients, NEW p \in Incarnations, Got(c, p)
    PROVE  /\ \A d \in Clients : d # c => client'[d] = client[d]
           /\ client'[c].pc \in {"idle", "request"} /\ client'[c].proxy \in {0, p}
           /\ client'[c].pc = "request" => client'[c].proxy # 0
           /\ helper' = "none" => helper = "none"
<1>1. \A d \in Clients : d # c => client'[d] = client[d]
    BY DEF Got, TypeInv, TypeOK
<1>2. client'[c] = IF p # 0 /\ client[c].want \in {"register", "unregister"}
                   THEN [client[c] EXCEPT !.pc = "request", !.proxy = p] ELSE IdleClient
    BY DEF Got, TypeInv, TypeOK
<1>3. client[c] \in ClientRecord
    BY ClientFields
<1>4. client'[c].pc \in {"idle", "request"} /\ client'[c].proxy \in {0, p}
      /\ (client'[c].pc = "request" => client'[c].proxy # 0)
    BY <1>2, <1>3 DEF ClientRecord, IdleClient
<1> QED
    BY <1>1, <1>4 DEF Got

\* What a client's step does to the client's own record.
ClientMoves(c) ==
    /\ \A d \in Clients : d # c => client'[d] = client[d]
    /\ client'[c].proxy \in {0, dataShareProxy, client[c].proxy}
    /\ client'[c].pc \in {"request", "store", "delete"} => client'[c].proxy # 0

LEMMA ClientMovesOn ==
    ASSUME TypeInv, ProxyInv, NEW c \in Clients, ClientStep(c)
    PROVE  ClientMoves(c)
<1>1. dataShareProxy \in Incarnations /\ 0 \in Incarnations
    BY ConnectionBoundsAssumption DEF TypeInv, TypeOK, Incarnations
<1>2. ASSUME NEW p \in {0, dataShareProxy}, Got(c, p) PROVE ClientMoves(c)
    BY <1>1, <1>2, GotProxy DEF ClientMoves
<1>3. ASSUME Done(c) PROVE ClientMoves(c)
    BY <1>3 DEF Done, IdleClient, ClientMoves, TypeInv, TypeOK
<1>4. ASSUME NEW pc, client' = [client EXCEPT ![c].pc = pc],
             pc \in {"connect", "wait"} \/ client[c].pc = "request"
      PROVE  ClientMoves(c)
    <2>1. client[c] \in ClientRecord
        BY ClientFields
    <2>2. client'[c] = [client[c] EXCEPT !.pc = pc] /\ \A d \in Clients : d # c => client'[d] = client[d]
        BY <1>4 DEF TypeInv, TypeOK
    <2>3. client'[c].pc = pc /\ client'[c].proxy = client[c].proxy
        BY <2>1, <2>2 DEF ClientRecord
    <2> QED
        BY <1>4, <2>2, <2>3 DEF ClientMoves, ProxyInv
<1>5. ASSUME NEW want, NEW os, Call(c, want, os) PROVE ClientMoves(c)
    BY <1>5 DEF Call, ClientMoves, TypeInv, TypeOK
<1>6. CASE CreateExtHelper(c)
    BY <1>6 DEF CreateExtHelper, IdleClient, ClientMoves, TypeInv, TypeOK
<1>7. CASE GetDataShareProxy(c) \/ ConnectDataShareExtAbility(c) \/ WaitForProxy(c)
    BY <1>2, <1>4, <1>7 DEF GetDataShareProxy, ConnectDataShareExtAbility, WaitForProxy
<1>8. CASE \/ RegisterObserverExtProvider(c) \/ UpdateObserverExtsProviderMap(c)
            \/ UnregisterObserverExtProvider(c) \/ DeleteObserverExtsProviderMap(c)
    BY <1>3, <1>4, <1>8 DEF RegisterObserverExtProvider, UpdateObserverExtsProviderMap,
                            UnregisterObserverExtProvider, DeleteObserverExtsProviderMap
<1> QED
    BY <1>5, <1>6, <1>7, <1>8 DEF ClientStep

LEMMA ClientFirst ==
    ASSUME TypeInv, ProxyInv, FirstInv, NEW c \in Clients, ClientStep(c)
    PROVE  ProxyInv' /\ FirstInv'
<1>1. ClientMoves(c)
    BY ClientMovesOn
<1>2. UNCHANGED <<handler, isInvalid, isReconnect, dataShareProxy>>
    BY DEF ClientStep, CreateExtHelper, Call, GetDataShareProxy, ConnectDataShareExtAbility,
           WaitForProxy, RegisterObserverExtProvider, UpdateObserverExtsProviderMap,
           UnregisterObserverExtProvider, DeleteObserverExtsProviderMap, connectionVars
<1>3. client[c].pc \in {"store", "delete"} \/ UNCHANGED wanted
    BY DEF ClientStep, CreateExtHelper, Call, GetDataShareProxy, ConnectDataShareExtAbility,
           WaitForProxy, RegisterObserverExtProvider, UpdateObserverExtsProviderMap,
           UnregisterObserverExtProvider, DeleteObserverExtsProviderMap, observerVars
<1>4. helper' = "none" => helper = "none" /\ UNCHANGED client
    BY DEF ClientStep, CreateExtHelper, Call, GetDataShareProxy, ConnectDataShareExtAbility,
           WaitForProxy, RegisterObserverExtProvider, UpdateObserverExtsProviderMap,
           UnregisterObserverExtProvider, DeleteObserverExtsProviderMap, Got, ProxyInv
<1>5. ProxyInv'
    BY <1>1, <1>4 DEF ClientMoves, ProxyInv
<1>6. FirstInv'
    BY <1>1, <1>2, <1>3 DEF ClientMoves, FirstInv, ProxyInv
<1> QED
    BY <1>5, <1>6

\* A request that the extension answers with success.
LEMMA RequestObservers ==
    ASSUME TypeInv, StoredInv, RegisteredInv, SyncInv, NEW c \in Clients,
           client[c].pc = "request", Calm,
           UNCHANGED <<observerExtsProvider, wanted, handler, isReconnect, isInvalid>>,
           Disturb(ReRegistering \/ Storing),
           \/ /\ registered' = registered \cup client[c].observer
              /\ client' = [client EXCEPT ![c].pc = "store"]
           \/ /\ registered' = registered \ client[c].observer
              /\ client' = [client EXCEPT ![c].pc = "delete"]
    PROVE  StoredInv' /\ RegisteredInv' /\ SyncInv'
<1>1. client[c] \in ClientRecord /\ client[c].observer \in SUBSET Observers
    BY ClientFields
<1>2. /\ \A d \in Clients : d # c => client'[d] = client[d]
      /\ client'[c].observer = client[c].observer
      /\ client'[c].pc \in {"store", "delete"}
      /\ client'[c].pc = "store" => registered' = registered \cup client[c].observer
      /\ client'[c].pc = "delete" => registered' = registered \ client[c].observer
    BY <1>1 DEF TypeInv, TypeOK, ClientRecord
<1>3. ASSUME ~disturbed'
      PROVE  /\ ~disturbed /\ \A d \in Clients : ~Storer(d)
             /\ \A b \in CallbackThreads : handler[b].pc \notin Holding
    BY <1>3 DEF Disturb, Storing, Storer, ReRegistering, Holding
<1>4. ~disturbed' => Pending = {} /\ Pending' = client[c].observer
    BY <1>1, <1>2, <1>3 DEF Pending, Storer
<1>5. StoredInv'
    BY <1>3 DEF StoredInv, Holding
<1>6. RegisteredInv'
    BY <1>2, <1>3, <1>4 DEF RegisteredInv, Holding, Storer
<1>7. ~disturbed' /\ wanted \subseteq registered \cup Pending
          => wanted' \subseteq registered' \cup Pending'
    BY <1>2, <1>4
<1>8. SyncInv'
    BY <1>3, <1>7, SyncKept
<1> QED
    BY <1>5, <1>6, <1>8

\* What it did is noted in the map.
LEMMA NoteObservers ==
    ASSUME TypeInv, StoredInv, RegisteredInv, SyncInv, NEW c \in Clients, Calm,
           UNCHANGED <<registered, handler, isReconnect, isInvalid>>,
           Disturb(ReRegistering), Done(c),
           \/ /\ client[c].pc = "store"
              /\ observerExtsProvider' = observerExtsProvider \cup client[c].observer
              /\ wanted' = wanted \cup client[c].observer
           \/ /\ client[c].pc = "delete"
              /\ observerExtsProvider' = observerExtsProvider \ client[c].observer
              /\ wanted' = wanted \ client[c].observer
    PROVE  StoredInv' /\ RegisteredInv' /\ SyncInv'
<1>1. client[c].observer \in SUBSET Observers
    BY ClientFields
<1>2. /\ \A d \in Clients : d # c => client'[d] = client[d]
      /\ client'[c].pc = "idle"
    BY DEF Done, IdleClient, TypeInv, TypeOK
<1>3. ASSUME ~disturbed'
      PROVE  ~disturbed /\ \A b \in CallbackThreads : handler[b].pc \notin Holding
    BY <1>3 DEF Disturb, ReRegistering, Holding
<1>4. Pending \subseteq Pending' \cup client[c].observer /\ Pending' \subseteq Pending
    BY <1>1, <1>2 DEF Pending, Storer
<1>5. StoredInv'
    BY <1>3 DEF StoredInv, Holding
<1>6. ASSUME ~disturbed'
      PROVE  /\ client[c].pc = "store" => client[c].observer \subseteq registered
             /\ client[c].pc = "delete" => client[c].observer \cap registered = {}
             /\ registered \subseteq wanted \cup Pending
             /\ \A d \in Clients : client[d].pc = "store" => client[d].observer \subseteq registered
             /\ \A d \in Clients : client[d].pc = "delete" => client[d].observer \cap registered = {}
    BY <1>3, <1>6 DEF RegisteredInv
<1>7. RegisteredInv'
    <2>1. ~disturbed' => registered' \subseteq wanted' \cup Pending'
        BY <1>4, <1>6
    <2> QED
        BY <1>2, <1>3, <1>6, <2>1 DEF RegisteredInv, Holding
<1>8. ~disturbed' /\ wanted \subseteq registered \cup Pending
          => wanted' \subseteq registered' \cup Pending'
    BY <1>4, <1>6
<1>9. SyncInv'
    BY <1>3, <1>8, SyncKept
<1> QED
    BY <1>5, <1>7, <1>9

LEMMA ClientObservers ==
    ASSUME TypeInv, ProxyInv, StoredInv, RegisteredInv, SyncInv, NEW c \in Clients, ClientStep(c)
    PROVE  StoredInv' /\ RegisteredInv' /\ SyncInv'
<1> DEFINE Alone == StoredInv' /\ RegisteredInv' /\ SyncInv'
<1>1. UNCHANGED <<handler, isReconnect, isInvalid>>
    BY DEF ClientStep, CreateExtHelper, Call, GetDataShareProxy, ConnectDataShareExtAbility,
           WaitForProxy, RegisterObserverExtProvider, UpdateObserverExtsProviderMap,
           UnregisterObserverExtProvider, DeleteObserverExtsProviderMap, connectionVars
<1>2. Calm
    <2>1. CASE ConnectDataShareExtAbility(c)
        BY <2>1, ConnectCalm DEF ConnectDataShareExtAbility
    <2>2. CASE UNCHANGED <<inst, queue>>
        BY <2>2 DEF Calm
    <2> QED
        BY <2>1, <2>2 DEF ClientStep, CreateExtHelper, Call, GetDataShareProxy,
           WaitForProxy, RegisterObserverExtProvider, UpdateObserverExtsProviderMap,
           UnregisterObserverExtProvider, DeleteObserverExtsProviderMap, amsVars
<1>3. ASSUME \A d \in Clients : d # c => client'[d] = client[d],
             ~Storer(c), client'[c].pc \notin {"store", "delete"}, UNCHANGED observerVars
      PROVE  Alone
    <2>1. ClientsKeep
        BY <1>3 DEF ClientsKeep
    <2> QED
        BY <1>1, <1>2, <1>3, <2>1, ObserversAlone DEF observerVars
<1>4. ASSUME Done(c), ~Storer(c), UNCHANGED observerVars PROVE Alone
    BY <1>3, <1>4 DEF Done, IdleClient, TypeInv, TypeOK
<1>5. ASSUME NEW p \in {0, dataShareProxy}, Got(c, p), ~Storer(c), UNCHANGED observerVars PROVE Alone
    <2>1. p \in Incarnations
        BY ConnectionBoundsAssumption DEF TypeInv, TypeOK, Incarnations
    <2> QED
        BY <1>3, <1>5, <2>1, GotProxy
<1>6. ASSUME NEW pc \in {"connect", "wait"}, client' = [client EXCEPT ![c].pc = pc], ~Storer(c),
             UNCHANGED observerVars
      PROVE  Alone
    BY <1>3, <1>6, ClientFields DEF TypeInv, TypeOK, ClientRecord
<1>7. ASSUME NEW want, NEW os, Call(c, want, os) PROVE Alone
    BY <1>3, <1>7 DEF Call, Storer, TypeInv, TypeOK
<1>8. CASE CreateExtHelper(c)
    BY <1>3, <1>8 DEF CreateExtHelper, Storer, ProxyInv, IdleClient, TypeInv, TypeOK
<1>9. CASE GetDataShareProxy(c) \/ ConnectDataShareExtAbility(c) \/ WaitForProxy(c)
    BY <1>5, <1>6, <1>9 DEF GetDataShareProxy, ConnectDataShareExtAbility, WaitForProxy, Storer
<1>10. CASE RegisterObserverExtProvider(c) \/ UnregisterObserverExtProvider(c)
    <2>1. client[c].pc = "request" /\ UNCHANGED <<observerExtsProvider, wanted>>
        BY <1>10 DEF RegisterObserverExtProvider, UnregisterObserverExtProvider
    <2>2. CASE Done(c) /\ UNCHANGED <<registered, disturbed>>
        BY <1>4, <2>1, <2>2 DEF Storer, observerVars
    <2>3. \/ Done(c) /\ UNCHANGED <<registered, disturbed>>
          \/ /\ Disturb(ReRegistering \/ Storing)
             /\ \/ /\ registered' = registered \cup client[c].observer
                   /\ client' = [client EXCEPT ![c].pc = "store"]
                \/ /\ registered' = registered \ client[c].observer
                   /\ client' = [client EXCEPT ![c].pc = "delete"]
        BY <1>10 DEF RegisterObserverExtProvider, UnregisterObserverExtProvider
    <2> QED
        BY <1>1, <1>2, <2>1, <2>2, <2>3, RequestObservers
<1>11. CASE UpdateObserverExtsProviderMap(c) \/ DeleteObserverExtsProviderMap(c)
    BY <1>1, <1>2, <1>11, NoteObservers
    DEF UpdateObserverExtsProviderMap, DeleteObserverExtsProviderMap, Store
<1> QED
    BY <1>7, <1>8, <1>9, <1>10, <1>11 DEF ClientStep

-----------------------------------------------------------------------------
(* The observers: the callbacks *)

\* Taking a callback.
LEMMA TakeObservers ==
    ASSUME TypeInv, OneByOne, FollowInv, FollowInv', FirstInv, StoredInv, RegisteredInv, SyncInv,
           NEW b \in CallbackThreads, TakeCallback(b)
    PROVE  FirstInv' /\ StoredInv' /\ RegisteredInv' /\ SyncInv'
<1>1. CallbackThreads = {b}
    BY DEF OneByOne
<1>2. /\ queue \in Seq(Callback) /\ queue # <<>> /\ queue' = Tail(queue)
      /\ Head(queue) \in Callback /\ handler[b].pc = "idle"
      /\ UNCHANGED <<dataShareProxy, isInvalid, isReconnect, client, observerExtsProvider,
                     registered, wanted, disturbed, inst>>
    BY DEF TakeCallback, TypeInv, TypeOK, connectionVars, observerVars
<1>3. handler'[b].pc = Head(queue).kind /\ handler'[b].remote = Head(queue).remote
    BY DEF TakeCallback, TypeInv, TypeOK, IdleHandler
<1>4. Head(queue).kind \in {"connectDone", "disconnectDone"}
    BY <1>2 DEF Callback
<1>5. ClientsKeep /\ HoldersKeep
    BY <1>1, <1>2, <1>3, <1>4 DEF ClientsKeep, HoldersKeep, Holding
<1>6. FirstInv'
    BY <1>1, <1>2, <1>3, <1>4 DEF FirstInv
<1>7. Pending' = Pending
    BY <1>5, PendingKept
<1>8. SyncInv'
    <2> SUFFICES ASSUME ~isInvalid, ~disturbed, inst # 0, Nothing(queue'), Covered(b)'
                 PROVE  wanted \subseteq registered \cup Pending
        BY <1>1, <1>2, <1>7 DEF SyncInv
    <2>1. CASE handler'[b].pc = "disconnectDone"
        <3>1. Heading(inst)'
            BY <1>2 DEF FollowInv
        <3>2. Reached(inst)'
            BY <3>1 DEF Heading, Latest, Nothing
        <3> QED
            BY <1>2, <2>1, <3>2 DEF Reached
    <2>2. CASE handler'[b].pc = "connectDone"
        <3>1. ~Counts(Head(queue))
            BY <1>3, <2>2 DEF Covered, Counts, Holding
        <3>2. Nothing(queue)
            <4>1. /\ Len(queue) \in Nat \ {0} /\ Head(queue) = queue[1]
                  /\ Len(Tail(queue)) = Len(queue) - 1
                  /\ \A i \in 1 .. Len(Tail(queue)) : Tail(queue)[i] = queue[i + 1]
                BY <1>2, HeadTailProperties
            <4>2. ASSUME NEW i \in 1 .. Len(queue) PROVE ~Counts(queue[i])
                <5>1. CASE i = 1
                    BY <3>1, <4>1, <5>1
                <5>2. CASE i # 1
                    <6>1. i - 1 \in 1 .. Len(Tail(queue)) /\ i - 1 + 1 = i
                        BY <4>1, <5>2
                    <6>2. Tail(queue)[i - 1] = queue[i]
                        BY <4>1, <6>1
                    <6> QED
                        BY <1>2, <6>1, <6>2 DEF Nothing
                <5> QED
                    BY <5>1, <5>2
            <4> QED
                BY <4>2 DEF Nothing
        <3>3. Covered(b)
            BY <1>2 DEF Covered, Holding
        <3> QED
            BY <1>1, <3>2, <3>3 DEF SyncInv
    <2> QED
        BY <1>3, <1>4, <2>1, <2>2
<1> QED
    BY <1>2, <1>5, <1>6, <1>8, StoredKept, RegisteredKept

\* A step of the handler on the observers' side: nothing but where it stands.
LEMMA HandlerObservers ==
    ASSUME TypeInv, OneByOne, StoredInv, RegisteredInv, SyncInv, NEW b \in CallbackThreads,
           handler[b].pc \notin Holding, handler'[b].pc \notin Holding,
           Calm, isInvalid => isInvalid',
           UNCHANGED <<client, observerExtsProvider, registered, wanted, disturbed>>,
           ~isInvalid' /\ Covered(b)' => Covered(b) \/ wanted = {}
    PROVE  StoredInv' /\ RegisteredInv' /\ SyncInv'
<1>1. CallbackThreads = {b}
    BY DEF OneByOne
<1>2. ClientsKeep /\ HoldersKeep
    BY <1>1 DEF ClientsKeep, HoldersKeep
<1>3. Pending' = Pending
    BY <1>2, PendingKept
<1>4. SyncInv'
    BY <1>1, <1>3 DEF SyncInv, Calm
<1> QED
    BY <1>2, <1>4, StoredKept, RegisteredKept

LEMMA ConnectDoneObservers ==
    ASSUME TypeInv, OneByOne, FirstInv, StoredInv, RegisteredInv, SyncInv,
           NEW b \in CallbackThreads,
           OnAbilityConnectDone(b) \/ CheckInvalid(b) \/ ExchangeReconnect(b)
    PROVE  FirstInv' /\ StoredInv' /\ RegisteredInv' /\ SyncInv'
<1>1. CallbackThreads = {b} /\ handler[b] \in HandlerRecord
    BY HandlerFields DEF OneByOne
<1>2. UNCHANGED <<isInvalid, client, observerExtsProvider, registered, wanted, disturbed>>
    BY DEF OnAbilityConnectDone, CheckInvalid, ExchangeReconnect, connectionVars, observerVars
<1>3. CASE OnAbilityConnectDone(b)
    <2>1. /\ handler[b].pc = "connectDone" /\ UNCHANGED <<isReconnect, inst, queue>>
          /\ handler[b].remote = 0 => handler'[b].pc = "idle" /\ UNCHANGED dataShareProxy
          /\ handler[b].remote # 0 => handler'[b].pc = "checkInvalid"
        BY <1>1, <1>3 DEF OnAbilityConnectDone, Finish, Goto, IdleHandler, TypeInv, TypeOK,
                          HandlerRecord, amsVars
    <2>2. FirstInv'
        BY <1>1, <1>2, <2>1 DEF FirstInv
    <2>3. ~isInvalid' /\ Covered(b)' => Covered(b) \/ wanted = {}
        BY <1>1, <1>2, <2>1 DEF Covered, FirstInv, Holding
    <2>4. Calm
        BY <2>1 DEF Calm
    <2>5. handler[b].pc \notin Holding /\ handler'[b].pc \notin Holding
        BY <2>1 DEF Holding
    <2> QED
        BY <1>2, <2>2, <2>3, <2>4, <2>5, HandlerObservers
<1>4. CASE CheckInvalid(b) /\ isInvalid
    <2>1. /\ handler[b].pc = "checkInvalid" /\ handler'[b].pc = "idle"
        BY <1>4 DEF CheckInvalid, Finish, IdleHandler, TypeInv, TypeOK
    <2>2. ClientsKeep /\ HoldersKeep
        BY <1>1, <1>2, <2>1 DEF ClientsKeep, HoldersKeep, Holding
    <2>3. FirstInv' /\ SyncInv'
        BY <1>2, <1>4 DEF FirstInv, SyncInv
    <2> QED
        BY <1>2, <2>2, <2>3, StoredKept, RegisteredKept
<1>5. CASE CheckInvalid(b) /\ ~isInvalid
    <2>1. /\ handler[b].pc = "checkInvalid" /\ handler'[b].pc = "exchange"
          /\ UNCHANGED <<isReconnect, dataShareProxy, inst, queue>>
        BY <1>1, <1>5 DEF CheckInvalid, Goto, TypeInv, TypeOK, HandlerRecord, connectionVars, amsVars
    <2>2. FirstInv'
        BY <1>1, <2>1 DEF FirstInv
    <2>3. Calm /\ (Covered(b)' => Covered(b))
        BY <2>1 DEF Calm, Covered, Holding
    <2>4. handler[b].pc \notin Holding /\ handler'[b].pc \notin Holding
        BY <2>1 DEF Holding
    <2> QED
        BY <1>2, <2>2, <2>3, <2>4, HandlerObservers
<1>6. CASE ExchangeReconnect(b)
    <2>1. /\ handler[b].pc = "exchange" /\ isReconnect' = TRUE /\ UNCHANGED <<inst, queue>>
          /\ handler'[b].pc = IF isReconnect THEN "move" ELSE "idle"
        BY <1>1, <1>6 DEF ExchangeReconnect, Finish, Goto, IdleHandler, TypeInv, TypeOK,
                          HandlerRecord, amsVars
    <2>2. FirstInv'
        BY <2>1 DEF FirstInv
    <2>3. Calm /\ (Covered(b)' => Covered(b))
        BY <2>1 DEF Calm, Covered, Holding
    <2>4. handler[b].pc \notin Holding /\ handler'[b].pc \notin Holding
        BY <2>1 DEF Holding
    <2> QED
        BY <1>2, <2>2, <2>3, <2>4, HandlerObservers
<1> QED
    BY <1>3, <1>4, <1>5, <1>6

LEMMA ReconnectObservers ==
    ASSUME TypeInv, OneByOne, FirstInv, StoredInv, RegisteredInv, SyncInv,
           NEW b \in CallbackThreads,
           \/ OnAbilityDisconnectDone(b) \/ ReconnectExtAbility(b) \/ ReconnectNow(b)
           \/ CountFirst(b) \/ DelayConnectExtAbility(b)
    PROVE  FirstInv' /\ StoredInv' /\ RegisteredInv' /\ SyncInv'
<1>1. CallbackThreads = {b} /\ handler[b] \in HandlerRecord
    BY HandlerFields DEF OneByOne
<1>2. UNCHANGED <<isInvalid, isReconnect, client, observerExtsProvider, registered, wanted, disturbed>>
    BY DEF OnAbilityDisconnectDone, ReconnectExtAbility, ReconnectNow, CountFirst,
           DelayConnectExtAbility, connectionVars, observerVars
<1>3. handler[b].pc \in {"disconnectDone", "reconnect", "connect", "count", "delay"}
    BY DEF OnAbilityDisconnectDone, ReconnectExtAbility, ReconnectNow, CountFirst,
           DelayConnectExtAbility
<1>4. handler'[b].pc \in {"idle", "reconnect", "connect", "count", "delay"}
    BY <1>1 DEF OnAbilityDisconnectDone, ReconnectExtAbility, ReconnectNow, CountFirst,
           DelayConnectExtAbility, Finish, Goto, IdleHandler, TypeInv, TypeOK, HandlerRecord
<1>5. dataShareProxy' \in {0, dataShareProxy}
    BY DEF OnAbilityDisconnectDone, ReconnectExtAbility, ReconnectNow, CountFirst,
           DelayConnectExtAbility, connectionVars
<1>6. Calm
    <2>1. CASE ReconnectNow(b)
        BY <2>1, ConnectCalm DEF ReconnectNow
    <2>2. CASE UNCHANGED <<inst, queue>>
        BY <2>2 DEF Calm
    <2> QED
        BY <2>1, <2>2 DEF OnAbilityDisconnectDone, ReconnectExtAbility, CountFirst,
                          DelayConnectExtAbility, amsVars
<1>7. FirstInv'
    BY <1>1, <1>2, <1>3, <1>5 DEF FirstInv
<1>8. Covered(b)
    BY <1>3 DEF Covered, Holding
<1>9. handler[b].pc \notin Holding /\ handler'[b].pc \notin Holding
    BY <1>3, <1>4 DEF Holding
<1> QED
    BY <1>2, <1>6, <1>7, <1>8, <1>9, HandlerObservers

\* The handler is through with the observers it held, or goes on with the rest.
LEMMA NextObserverFields ==
    ASSUME TypeInv, NEW b \in CallbackThreads, NEW rest, NextObserver(b, rest)
    PROVE  \/ rest = {} /\ handler'[b].pc = "idle"
           \/ handler'[b].pc = "reRegister" /\ handler'[b].moved = rest
<1>1. handler[b] \in HandlerRecord
    BY HandlerFields
<1>2. CASE rest = {}
    BY <1>2 DEF NextObserver, Finish, IdleHandler, TypeInv, TypeOK
<1>3. CASE rest # {}
    <2>1. handler'[b] = [handler[b] EXCEPT !.pc = "reRegister", !.moved = rest, !.current = {}]
        BY <1>3 DEF NextObserver, TypeInv, TypeOK
    <2> QED
        BY <1>1, <2>1 DEF HandlerRecord
<1> QED
    BY <1>2, <1>3

\* The observers are moved out of the map, and the map is cleared.
LEMMA MoveObserversKeeps ==
    ASSUME TypeInv, OneByOne, StoredInv, RegisteredInv, NEW b \in CallbackThreads,
           MoveObservers(b) \/ ClearObservers(b)
    PROVE  StoredInv' /\ RegisteredInv' /\ SyncInv'
<1>1. CallbackThreads = {b} /\ handler[b] \in HandlerRecord
    BY HandlerFields DEF OneByOne
<1>2. UNCHANGED <<client, registered, wanted>> /\ observerExtsProvider' = {}
    BY DEF MoveObservers, ClearObservers
<1>3. ClientsKeep
    BY <1>2 DEF ClientsKeep
<1>4. Pending' = Pending /\ (Storing' <=> Storing)
    BY <1>3, PendingKept
<1>5. CASE MoveObservers(b)
    <2>1. /\ handler[b].pc = "move" /\ handler'[b].pc = "clear"
          /\ handler'[b].moved = observerExtsProvider
        BY <1>1, <1>5 DEF MoveObservers, TypeInv, TypeOK, HandlerRecord
    <2>2. ~disturbed' => ~disturbed /\ ~Storing
        BY <1>5 DEF MoveObservers, Disturb
    <2>3. StoredInv'
        BY <1>1, <1>2, <1>4, <2>1, <2>2 DEF StoredInv, Holding
    <2>4. RegisteredInv'
        BY <1>1, <1>2, <1>4, <2>1, <2>2 DEF RegisteredInv
    <2>5. SyncInv'
        BY <1>1, <2>1 DEF SyncInv, Covered, Holding
    <2> QED
        BY <2>3, <2>4, <2>5
<1>6. CASE ClearObservers(b)
    <2>1. /\ handler[b].pc = "clear" /\ handler'[b].pc = "getProxy"
          /\ handler'[b].moved = handler[b].moved /\ UNCHANGED disturbed
        BY <1>1, <1>6 DEF ClearObservers, Goto, TypeInv, TypeOK, HandlerRecord
    <2>2. StoredInv'
        BY <1>1, <1>2, <1>4, <2>1 DEF StoredInv, Holding
    <2>3. RegisteredInv'
        BY <1>1, <1>2, <1>4, <2>1 DEF RegisteredInv
    <2>4. SyncInv'
        BY <1>1, <2>1 DEF SyncInv, Covered, Holding
    <2> QED
        BY <2>2, <2>3, <2>4
<1> QED
    BY <1>5, <1>6

LEMMA ReRegisterProxyKeeps ==
    ASSUME TypeInv, OneByOne, StoredInv, RegisteredInv, NEW b \in CallbackThreads, ReRegisterProxy(b)
    PROVE  StoredInv' /\ RegisteredInv' /\ SyncInv'
<1>1. CallbackThreads = {b} /\ handler[b] \in HandlerRecord
    BY HandlerFields DEF OneByOne
<1>2. UNCHANGED <<client, registered, wanted, observerExtsProvider>> /\ handler[b].pc = "getProxy"
    BY DEF ReRegisterProxy
<1>3. ClientsKeep
    BY <1>2 DEF ClientsKeep
<1>4. Pending' = Pending /\ (Storing' <=> Storing)
    BY <1>3, PendingKept
<1>5. ASSUME ~disturbed'
      PROVE  /\ ~disturbed /\ ~Storing /\ observerExtsProvider = {} /\ wanted = handler[b].moved
             /\ \/ handler'[b].pc = "idle" /\ handler[b].moved = {}
                \/ handler'[b].pc = "reRegister" /\ handler'[b].moved = handler[b].moved
    <2>1. ~disturbed
        BY <1>5 DEF ReRegisterProxy, Disturb
    <2>2. ~Storing /\ observerExtsProvider = {} /\ wanted = handler[b].moved
        BY <1>2, <2>1 DEF StoredInv, Holding
    <2>3. CASE dataShareProxy = 0 \/ handler[b].moved = {}
        <3>1. handler'[b].pc = "idle"
            BY <2>3 DEF ReRegisterProxy, Finish, IdleHandler, TypeInv, TypeOK
        <3>2. handler[b].moved = {}
            BY <1>5, <2>3 DEF ReRegisterProxy, Disturb
        <3> QED
            BY <2>1, <2>2, <3>1, <3>2
    <2>4. CASE ~(dataShareProxy = 0 \/ handler[b].moved = {})
        <3>1. handler'[b] = [handler[b] EXCEPT !.pc = "reRegister", !.remote = dataShareProxy]
            BY <2>4 DEF ReRegisterProxy, TypeInv, TypeOK
        <3>2. handler'[b].pc = "reRegister" /\ handler'[b].moved = handler[b].moved
            BY <1>1, <3>1 DEF HandlerRecord
        <3> QED
            BY <2>1, <2>2, <3>2
    <2> QED
        BY <2>3, <2>4
<1>6. StoredInv'
    BY <1>1, <1>2, <1>4, <1>5 DEF StoredInv, Holding
<1>7. RegisteredInv'
    BY <1>1, <1>2, <1>4, <1>5 DEF RegisteredInv
<1>8. SyncInv'
    BY <1>1, <1>2, <1>4, <1>5 DEF SyncInv, Covered, Holding
<1> QED
    BY <1>6, <1>7, <1>8

LEMMA ReRegisterKeeps ==
    ASSUME TypeInv, OneByOne, StoredInv, RegisteredInv, NEW b \in CallbackThreads,
           NEW o \in handler[b].moved, ReRegisterObserverExtProvider(b, o)
    PROVE  StoredInv' /\ RegisteredInv' /\ SyncInv'
<1>1. CallbackThreads = {b} /\ handler[b] \in HandlerRecord
    BY HandlerFields DEF OneByOne
<1>2. UNCHANGED <<client, wanted, observerExtsProvider>> /\ handler[b].pc = "reRegister"
    BY DEF ReRegisterObserverExtProvider
<1>3. ClientsKeep
    BY <1>2 DEF ClientsKeep
<1>4. Pending' = Pending /\ (Storing' <=> Storing)
    BY <1>3, PendingKept
<1>5. ASSUME ~disturbed'
      PROVE  /\ ~disturbed /\ ~Storing /\ registered' = registered \cup {o}
             /\ wanted = observerExtsProvider \cup handler[b].moved
             /\ wanted \subseteq registered \cup handler[b].moved
             /\ registered \subseteq wanted \cup Pending
             /\ handler'[b].pc = "update" /\ handler'[b].moved = handler[b].moved
             /\ handler'[b].current = {o}
    <2>1. ~disturbed /\ registered' = registered \cup {o}
          /\ handler' = [handler EXCEPT ![b].pc = "update", ![b].current = {o}]
        BY <1>5 DEF ReRegisterObserverExtProvider
    <2>2. handler'[b].pc = "update" /\ handler'[b].moved = handler[b].moved /\ handler'[b].current = {o}
        BY <1>1, <2>1 DEF TypeInv, TypeOK, HandlerRecord
    <2>3. ~Storing /\ wanted = observerExtsProvider \cup handler[b].moved
        BY <1>2, <2>1 DEF StoredInv, Holding
    <2>4. wanted \subseteq registered \cup handler[b].moved /\ registered \subseteq wanted \cup Pending
        BY <1>2, <2>1 DEF RegisteredInv
    <2> QED
        BY <2>1, <2>2, <2>3, <2>4
<1>6. StoredInv'
    BY <1>1, <1>2, <1>4, <1>5 DEF StoredInv, Holding
<1>7. RegisteredInv'
    BY <1>1, <1>2, <1>4, <1>5 DEF RegisteredInv, Storing
<1>8. SyncInv'
    BY <1>1, <1>5 DEF SyncInv, Covered, Holding
<1> QED
    BY <1>6, <1>7, <1>8

LEMMA StoreReRegisteredKeeps ==
    ASSUME TypeInv, OneByOne, StoredInv, RegisteredInv, NEW b \in CallbackThreads, StoreReRegistered(b)
    PROVE  StoredInv' /\ RegisteredInv' /\ SyncInv'
<1>1. CallbackThreads = {b}
    BY DEF OneByOne
<1>2. /\ UNCHANGED <<client, wanted, registered, disturbed>> /\ handler[b].pc = "update"
      /\ observerExtsProvider' = observerExtsProvider \cup handler[b].current
    BY DEF StoreReRegistered, Store
<1>3. ClientsKeep
    BY <1>2 DEF ClientsKeep
<1>4. Pending' = Pending /\ (Storing' <=> Storing)
    BY <1>3, PendingKept
<1> DEFINE rest == handler[b].moved \ handler[b].current
<1>5. \/ rest = {} /\ handler'[b].pc = "idle"
      \/ handler'[b].pc = "reRegister" /\ handler'[b].moved = rest
    BY NextObserverFields DEF StoreReRegistered
<1>6. ASSUME ~disturbed
      PROVE  /\ ~Storing /\ wanted = observerExtsProvider \cup handler[b].moved
             /\ handler[b].current \subseteq handler[b].moved
             /\ handler[b].current \subseteq registered
             /\ wanted \subseteq registered \cup handler[b].moved
    <2>1. ~Storing /\ wanted = observerExtsProvider \cup handler[b].moved
          /\ handler[b].current \subseteq handler[b].moved
        BY <1>2, <1>6 DEF StoredInv, Holding
    <2>2. handler[b].current \subseteq registered /\ wanted \subseteq registered \cup handler[b].moved
        BY <1>2, <1>6 DEF RegisteredInv
    <2> QED
        BY <2>1, <2>2
<1>7. ASSUME ~disturbed
      PROVE  /\ handler'[b].pc = "idle" => wanted = observerExtsProvider' /\ wanted \subseteq registered
             /\ handler'[b].pc = "reRegister" => /\ wanted = observerExtsProvider' \cup handler'[b].moved
                                                 /\ wanted \subseteq registered \cup handler'[b].moved
    BY <1>2, <1>5, <1>6, <1>7
<1> HIDE DEF rest
<1>8. handler'[b].pc \in {"idle", "reRegister"}
    BY <1>5
<1>9. StoredInv'
    BY <1>1, <1>2, <1>4, <1>6, <1>7, <1>8 DEF StoredInv, Holding
<1>10. RegisteredInv'
    BY <1>1, <1>2, <1>4, <1>7, <1>8 DEF RegisteredInv
<1>11. SyncInv'
    BY <1>1, <1>2, <1>7, <1>8 DEF SyncInv, Covered, Holding
<1> QED
    BY <1>9, <1>10, <1>11

LEMMA CallbackObservers ==
    ASSUME TypeInv, OneByOne, FollowInv, FollowInv', ProxyInv, FirstInv, StoredInv, RegisteredInv,
           SyncInv, NEW b \in CallbackThreads, CallbackStep(b)
    PROVE  ProxyInv' /\ FirstInv' /\ StoredInv' /\ RegisteredInv' /\ SyncInv'
<1>1. UNCHANGED <<client, helper>>
    BY DEF CallbackStep, TakeCallback, OnAbilityConnectDone, CheckInvalid, ExchangeReconnect,
           MoveObservers, ClearObservers, ReRegisterProxy, ReRegisterObserverExtProvider,
           StoreReRegistered, OnAbilityDisconnectDone, ReconnectExtAbility, ReconnectNow,
           CountFirst, DelayConnectExtAbility
<1>2. ProxyInv'
    BY <1>1 DEF ProxyInv
<1>3. ASSUME \/ MoveObservers(b) \/ ClearObservers(b) \/ ReRegisterProxy(b)
             \/ \E o \in handler[b].moved : ReRegisterObserverExtProvider(b, o)
             \/ StoreReRegistered(b)
      PROVE  FirstInv'
    <2>1. /\ handler[b].pc \notin {"checkInvalid", "exchange"} /\ CallbackThreads = {b}
          /\ UNCHANGED <<wanted, dataShareProxy, isInvalid, isReconnect>>
        BY <1>3 DEF MoveObservers, ClearObservers, ReRegisterProxy, ReRegisterObserverExtProvider,
                    StoreReRegistered, connectionVars, OneByOne
    <2> QED
        BY <1>1, <2>1 DEF FirstInv
<1>4. ASSUME NEW o \in handler[b].moved, ReRegisterObserverExtProvider(b, o)
      PROVE  StoredInv' /\ RegisteredInv' /\ SyncInv'
    BY <1>4, ReRegisterKeeps
<1> QED
    BY <1>2, <1>3, <1>4, TakeObservers, ConnectDoneObservers, ReconnectObservers, MoveObserversKeeps,
       ReRegisterProxyKeeps, StoreReRegisteredKeeps
    DEF CallbackStep

-----------------------------------------------------------------------------
(* The observers: all steps *)

LEMMA CrashObservers ==
    ASSUME StoredInv, RegisteredInv, Crash
    PROVE  StoredInv' /\ RegisteredInv' /\ SyncInv'
<1>1. /\ inst' = 0 /\ registered' = {}
      /\ UNCHANGED <<client, handler, observerExtsProvider, wanted>>
      /\ ~disturbed' => ~disturbed /\ ~Storing /\ ~ReRegistering
    BY DEF Crash, Disturb
<1>2. ClientsKeep
    BY <1>1 DEF ClientsKeep
<1>3. Storing' <=> Storing
    BY <1>2, PendingKept
<1>4. StoredInv'
    BY <1>1, <1>3 DEF StoredInv
<1>5. RegisteredInv'
    BY <1>1 DEF RegisteredInv, Storing, ReRegistering
<1>6. SyncInv'
    BY <1>1 DEF SyncInv
<1> QED
    BY <1>4, <1>5, <1>6

LEMMA NextObservers ==
    ASSUME TypeInv, OwnerInv, OneByOne, FollowInv, FollowInv', ObserverInv, [Next]_vars
    PROVE  ObserverInv'
<1>1. ProxyInv /\ FirstInv /\ StoredInv /\ RegisteredInv /\ SyncInv
    BY DEF ObserverInv
<1>2. ASSUME NEW c \in Clients, ClientStep(c) PROVE ObserverInv'
    BY <1>1, <1>2, ClientFirst, ClientObservers DEF ObserverInv
<1>3. ASSUME NEW b \in CallbackThreads, CallbackStep(b) PROVE ObserverInv'
    BY <1>1, <1>3, CallbackObservers DEF ObserverInv
<1>4. CASE Crash
    <2>1. ProxyInv' /\ FirstInv'
        BY <1>1, <1>4 DEF Crash, connectionVars, ProxyInv, FirstInv
    <2> QED
        BY <1>1, <1>4, <2>1, CrashObservers DEF ObserverInv
<1>5. CASE DisconnectDataShareExtAbility
    <2>1. isInvalid' /\ UNCHANGED <<client, handler, observerExtsProvider, registered, wanted, disturbed>>
          /\ helper' # "none"
        BY <1>5 DEF DisconnectDataShareExtAbility, OwnerInv, connectionVars, observerVars
    <2>2. ClientsKeep /\ HoldersKeep
        BY <2>1 DEF ClientsKeep, HoldersKeep
    <2>3. ProxyInv' /\ FirstInv' /\ SyncInv'
        BY <1>1, <2>1 DEF ProxyInv, FirstInv, SyncInv
    <2> QED
        BY <1>1, <2>1, <2>2, <2>3, StoredKept, RegisteredKept DEF ObserverInv
<1>6. CASE PoolStep \/ DropHelper \/ SetConnectInvalid \/ ClearUri \/ Quiet \/ UNCHANGED vars
    <2>1. UNCHANGED <<client, handler, observerExtsProvider, registered, wanted, disturbed,
                      isReconnect, dataShareProxy>>
        BY <1>6 DEF PoolStep, SkipReconnect, DelayedReconnect, CountDelayed, DropHelper,
           SetConnectInvalid, ClearUri, Quiet, vars, connectionVars, observerVars
    <2>2. (isInvalid => isInvalid') /\ (helper' = "none" => helper = "none")
        BY <1>6 DEF PoolStep, SkipReconnect, DelayedReconnect, CountDelayed, DropHelper,
           SetConnectInvalid, ClearUri, Quiet, vars, connectionVars
    <2>3. Calm
        <3>1. CASE DelayedReconnect
            BY <3>1, ConnectCalm DEF DelayedReconnect
        <3>2. CASE UNCHANGED <<inst, queue>>
            BY <3>2 DEF Calm
        <3> QED
            BY <1>6, <3>1, <3>2 DEF PoolStep, SkipReconnect, CountDelayed, DropHelper,
                                    SetConnectInvalid, ClearUri, Quiet, vars, amsVars
    <2>4. ClientsKeep
        BY <2>1 DEF ClientsKeep
    <2>5. ProxyInv' /\ FirstInv'
        BY <1>1, <2>1, <2>2 DEF ProxyInv, FirstInv
    <2> QED
        BY <1>1, <2>1, <2>2, <2>3, <2>4, <2>5, ObserversAlone DEF ObserverInv
<1> QED
    BY <1>2, <1>3, <1>4, <1>5, <1>6 DEF Next, ReleaseStep

LEMMA InitObservers == Init => ObserverInv
<1> SUFFICES ASSUME Init PROVE ObserverInv
    OBVIOUS
<1>1. ProxyInv /\ FirstInv
    BY DEF Init, ProxyInv, FirstInv, IdleClient
<1>2. StoredInv
    BY DEF Init, StoredInv, Holding, IdleHandler
<1>3. RegisteredInv /\ SyncInv
    BY DEF Init, RegisteredInv, SyncInv, IdleClient, IdleHandler
<1> QED
    BY <1>1, <1>2, <1>3 DEF ObserverInv

\* Across any number of crashes and reconnections the stored observers are those the
\* clients registered, and the extension a connection in use reaches knows exactly
\* them, unless a request overlapped, failed or was cut off (see Disturb).
THEOREM ConnectionObserversFollow == OneByOne => (Spec => []ObserversFollowReconnection)
<1> SUFFICES ASSUME OneByOne PROVE Spec => []ObserversFollowReconnection
    OBVIOUS
<1>1. Init => LinkInv /\ ObserverInv
    BY InitType, InitOwner, InitFollow, InitObservers DEF LinkInv
<1>2. LinkInv /\ ObserverInv /\ [Next]_vars => (LinkInv /\ ObserverInv)'
    BY NextType, NextOwner, NextFollow, NextReleased, NextObservers DEF LinkInv
<1>3. LinkInv /\ ObserverInv => ObserversFollowReconnection
    <2> SUFFICES ASSUME LinkInv, ObserverInv, helper = "held", Settled, ~disturbed
                 PROVE  /\ observerExtsProvider = wanted
                        /\ dataShareProxy # 0 => registered = wanted
        BY DEF ObserversFollowReconnection
    <2>1. /\ Len(queue) = 0 /\ \A b \in CallbackThreads : handler[b].pc = "idle"
          /\ \A c \in Clients : client[c].pc = "idle"
        BY DEF Settled
    <2>2. observerExtsProvider = wanted
        BY <2>1 DEF ObserverInv, StoredInv, OneByOne, Holding
    <2>3. Pending = {}
        BY <2>1 DEF Pending, Storer
    <2>4. ~isInvalid /\ Heading(inst)
        BY DEF LinkInv, OwnerInv, FollowInv
    <2>5. Nothing(queue)
        BY <2>1 DEF Nothing
    <2>6. Reached(inst)
        BY <2>1, <2>4 DEF Heading, Latest
    <2>7. dataShareProxy = inst
        BY <2>1, <2>6 DEF Reached, OneByOne
    <2>8. \A b \in CallbackThreads : Covered(b)
        BY <2>1 DEF Covered, Holding
    <2>9. dataShareProxy # 0 => wanted \subseteq registered
        BY <2>3, <2>4, <2>5, <2>7, <2>8 DEF ObserverInv, SyncInv
    <2>10. registered \subseteq wanted
        BY <2>3 DEF ObserverInv, RegisteredInv
    <2> QED
        BY <2>2, <2>9, <2>10
<1> QED
    BY <1>1, <1>2, <1>3, PTL DEF Spec

=============================================================================
