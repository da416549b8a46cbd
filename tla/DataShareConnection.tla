------------------------- MODULE DataShareConnection -------------------------
(***************************************************************************)
(* The connection of a DataShareHelper to a DataShare extension ability    *)
(* (frameworks/native/consumer/src/datashare_connection.cpp), the calls    *)
(* that use it (general_controller_provider_impl.cpp) and its life from    *)
(* CreateExtHelper to the deleter of its shared pointer.                   *)
(*                                                                         *)
(* Client threads ask for the proxy and register observers; binder threads *)
(* run OnAbilityConnectDone and OnAbilityDisconnectDone; pool threads run  *)
(* delayed reconnections; the last owner releases the connection.  A step  *)
(* is a section under mutex_, an access to an atomic or to the observer    *)
(* map, or a request to another process.                                   *)
(*                                                                         *)
(* External are the ability manager (AmsMgrProxy's peer) and the extension *)
(* itself: a Connect that is accepted starts the extension if need be and  *)
(* queues a callback; a crash of the extension queues one for the link.    *)
(***************************************************************************)
EXTENDS Naturals, Sequences, FiniteSets

CONSTANTS Clients,          \* threads that use the helper
          CallbackThreads,  \* binder threads that run the two callbacks
          Observers,        \* an observer together with its uri
          MaxReconnect,     \* MAX_RECONNECT
          MaxCrashes,       \* bound: crashes of the extension
          MaxFailures,      \* bound: refused or failed requests
          MaxQueue          \* bound: callbacks on their way when a client connects

ASSUME MaxReconnectAssumption == MaxReconnect \in Nat \ {0}

ASSUME ConnectionBoundsAssumption == MaxCrashes \in Nat /\ MaxFailures \in Nat /\ MaxQueue \in Nat

\* MAX_THREADS: tasks the connection's executor pool runs at the same time.
PoolThreads == 2

VARIABLES
    helper,        \* where the owner of the connection is, see HelperPc
    dataShareProxy,  \* dataShareProxy_: the extension it reaches, 0 for nullptr
    uri,           \* uri_ is not empty
    isInvalid,     \* isInvalid_
    isReconnect,   \* isReconnect_
    count,         \* reConnects_.count
    quiet,         \* MAX_RECONNECT_TIME_INTERVAL has passed since prevTime
    observerExtsProvider,  \* observerExtsProvider_: the stored observers
    scheduled,     \* tasks waiting in pool_
    counting,      \* tasks that have connected and not counted it yet
    client,        \* what each client thread is doing
    handler,       \* what each binder thread is doing
    inst,          \* the running extension's number, 0 if it is not running
    started,       \* extensions started so far
    link,          \* the ability manager holds this connection as connected
    queue,         \* callbacks that are on their way
    registered,    \* observers registered at the running extension
    failures,      \* failures so far
    wanted,        \* history: registered by a client and not unregistered
    disturbed      \* history: a failure or an overlap, see Disturb

vars == <<helper, dataShareProxy, uri, isInvalid, isReconnect, count, quiet,
          observerExtsProvider, scheduled, counting, client, handler, inst,
          started, link, queue, registered, failures, wanted, disturbed>>

connectionVars == <<dataShareProxy, uri, isInvalid, isReconnect>>
reconnectVars == <<count, quiet, scheduled, counting>>
observerVars == <<observerExtsProvider, registered, wanted, disturbed>>
amsVars == <<inst, started, link, queue, failures>>

Incarnations == 0 .. MaxCrashes + 1

-----------------------------------------------------------------------------
(* The ability manager and the extension (external). *)

\* A callback: OnAbilityConnectDone with the remote object of an extension (0:
\* with nullptr), or OnAbilityDisconnectDone.
Callback == [kind : {"connectDone"}, remote : Incarnations]
            \cup [kind : {"disconnectDone"}, remote : {0}]

ConnectDone(r) == [kind |-> "connectDone", remote |-> r]
DisconnectDone == [kind |-> "disconnectDone", remote |-> 0]

\* The request in hand fails though the extension is there.
Fail == failures < MaxFailures /\ failures' = failures + 1

\* AmsMgrProxy::Connect returns E_OK: the extension is (or gets) started and
\* OnAbilityConnectDone will be called, perhaps with nullptr.
ConnectAccepted ==
    \/ /\ LET i == IF inst = 0 THEN started + 1 ELSE inst
          IN  /\ inst' = i
              /\ started' = IF inst = 0 THEN started + 1 ELSE started
              /\ queue' = Append(queue, ConnectDone(i))
       /\ link' = TRUE
       /\ UNCHANGED failures
    \/ /\ Fail
       /\ queue' = Append(queue, ConnectDone(0))
       /\ UNCHANGED <<inst, started, link>>

\* AmsMgrProxy::Connect returns an error.
ConnectRefused == Fail /\ UNCHANGED <<inst, started, link, queue>>

\* Disconnect(): AmsMgrProxy::DisConnect ends the link.
Disconnect ==
    /\ link' = FALSE
    /\ queue' = IF link THEN Append(queue, DisconnectDone) ELSE queue
    /\ UNCHANGED <<inst, started, failures>>

\* What happens to the observers is undisturbed if no re-registration fails, no
\* crash comes between such a request and the update of the map, and no client's
\* request overlaps another's or a re-registration.
Disturb(when) == disturbed' = (disturbed \/ when)

ReRegistering == \E b \in CallbackThreads :
                     handler[b].pc \in {"move", "clear", "getProxy", "reRegister", "update"}
Storing == \E c \in Clients : client[c].pc \in {"store", "delete"}

\* The extension crashes, and with it the registrations it held.
Crash ==
    /\ inst # 0
    /\ started <= MaxCrashes
    /\ inst' = 0
    /\ registered' = {}
    /\ link' = FALSE
    /\ queue' = IF link THEN Append(queue, DisconnectDone) ELSE queue
    /\ Disturb(Storing \/ ReRegistering)
    /\ UNCHANGED <<helper, connectionVars, reconnectVars, observerExtsProvider,
                   client, handler, started, failures, wanted>>

\* Time passes.
Quiet ==
    /\ count > 0 /\ ~quiet
    /\ quiet' = TRUE
    /\ UNCHANGED <<helper, connectionVars, count, scheduled, counting, client,
                   handler, observerVars, amsVars>>

-----------------------------------------------------------------------------
(* Client threads. *)

IdleClient == [pc |-> "idle", want |-> "none", observer |-> {}, proxy |-> 0]

ClientRecord ==
    [pc : {"idle", "get", "connect", "wait", "request", "store", "delete"},
     want : {"none", "create", "call", "register", "unregister"},
     observer : SUBSET Observers, proxy : Incarnations]

\* A client's call is over.
Done(c) == client' = [client EXCEPT ![c] = IdleClient]

\* The helper is held, or being created by the call in hand.
HelperPc == {"none", "creating", "held", "setInvalid", "clearUri", "disconnect", "released"}

\* CreateExtHelper: the connection is made and its proxy asked for.
CreateExtHelper(c) ==
    /\ helper = "none"
    /\ helper' = "creating"
    /\ client' = [client EXCEPT ![c] = [IdleClient EXCEPT !.pc = "get", !.want = "create"]]
    /\ UNCHANGED <<connectionVars, reconnectVars, handler, observerVars, amsVars>>

\* A call of the helper.  "call" stands for those that only need the proxy.
Call(c, want, os) ==
    /\ helper = "held"
    /\ client[c].pc = "idle"
    /\ client' = [client EXCEPT ![c] = [pc |-> "get", want |-> want, observer |-> os,
                                        proxy |-> 0]]
    /\ UNCHANGED <<helper, connectionVars, reconnectVars, handler, observerVars, amsVars>>

\* GetDataShareProxy(uri, token) returns p to thread c: CreateExtHelper gives
\* up without it, the others return an error.
Got(c, p) ==
    /\ helper' = IF client[c].want # "create" THEN helper
                 ELSE IF p = 0 THEN "setInvalid" ELSE "held"
    /\ client' = [client EXCEPT ![c] =
                    IF p # 0 /\ client[c].want \in {"register", "unregister"}
                    THEN [client[c] EXCEPT !.pc = "request", !.proxy = p]
                    ELSE IdleClient]

\* ConnectDataShareExtAbility, up to the end of the first lock section.
GetDataShareProxy(c) ==
    /\ client[c].pc = "get"
    /\ IF dataShareProxy # 0
       THEN Got(c, dataShareProxy)
       ELSE /\ client' = [client EXCEPT ![c].pc = "connect"]
            /\ UNCHANGED helper
    /\ UNCHANGED <<connectionVars, reconnectVars, handler, observerVars, amsVars>>

\* instance->Connect(reqUri, this, token).
ConnectDataShareExtAbility(c) ==
    /\ client[c].pc = "connect"
    /\ Len(queue) < MaxQueue
    /\ \/ /\ ConnectAccepted
          /\ client' = [client EXCEPT ![c].pc = "wait"]
          /\ UNCHANGED helper
       \/ ConnectRefused /\ Got(c, 0)
    /\ UNCHANGED <<connectionVars, reconnectVars, handler, observerVars>>

\* The second lock section: the proxy is there, or it comes in time, or not.
WaitForProxy(c) ==
    /\ client[c].pc = "wait"
    /\ Got(c, dataShareProxy)
    /\ UNCHANGED <<connectionVars, reconnectVars, handler, observerVars, amsVars>>

\* proxy->RegisterObserverExtProvider.
RegisterObserverExtProvider(c) ==
    /\ client[c].pc = "request" /\ client[c].want = "register"
    /\ \/ /\ inst = client[c].proxy
          /\ registered' = registered \cup client[c].observer
          /\ client' = [client EXCEPT ![c].pc = "store"]
          /\ Disturb(ReRegistering \/ Storing)
          /\ UNCHANGED failures
       \/ /\ IF inst = client[c].proxy THEN Fail ELSE UNCHANGED failures
          /\ Done(c)
          /\ UNCHANGED <<registered, disturbed>>
    /\ UNCHANGED <<helper, connectionVars, reconnectVars, handler,
                   observerExtsProvider, wanted, inst, started, link, queue>>

\* Observers are stored in the map, by a client or by a re-registration.
Store(os) == observerExtsProvider' = observerExtsProvider \cup os

\* UpdateObserverExtsProviderMap.
UpdateObserverExtsProviderMap(c) ==
    /\ client[c].pc = "store"
    /\ Store(client[c].observer)
    /\ wanted' = wanted \cup client[c].observer
    /\ Done(c)
    /\ Disturb(ReRegistering)
    /\ UNCHANGED <<helper, connectionVars, reconnectVars, handler, registered, amsVars>>

\* proxy->UnregisterObserverExtProvider.  It may fail at an extension that does
\* not know the observer.
UnregisterObserverExtProvider(c) ==
    /\ client[c].pc = "request" /\ client[c].want = "unregister"
    /\ \/ /\ inst = client[c].proxy
          /\ registered' = registered \ client[c].observer
          /\ client' = [client EXCEPT ![c].pc = "delete"]
          /\ Disturb(ReRegistering \/ Storing)
          /\ UNCHANGED failures
       \/ /\ IF inst = client[c].proxy /\ client[c].observer \subseteq registered
             THEN Fail ELSE UNCHANGED failures
          /\ Done(c)
          /\ UNCHANGED <<registered, disturbed>>
    /\ UNCHANGED <<helper, connectionVars, reconnectVars, handler,
                   observerExtsProvider, wanted, inst, started, link, queue>>

\* DeleteObserverExtsProviderMap.
DeleteObserverExtsProviderMap(c) ==
    /\ client[c].pc = "delete"
    /\ observerExtsProvider' = observerExtsProvider \ client[c].observer
    /\ wanted' = wanted \ client[c].observer
    /\ Done(c)
    /\ Disturb(ReRegistering)
    /\ UNCHANGED <<helper, connectionVars, reconnectVars, handler, registered, amsVars>>

-----------------------------------------------------------------------------
(* The callbacks, on binder threads. *)

\* remote: the remote object passed in, later the proxy in use.  moved: observers
\* moved out of the map and not registered again yet; current: the one in hand.
IdleHandler == [pc |-> "idle", remote |-> 0, moved |-> {}, current |-> {}]

HandlerRecord ==
    [pc : {"idle", "connectDone", "checkInvalid", "exchange", "move", "clear",
           "getProxy", "reRegister", "update",
           "disconnectDone", "reconnect", "connect", "count", "delay"},
     remote : Incarnations, moved : SUBSET Observers, current : SUBSET Observers]

\* A callback handler returns, or goes on at another step.
Finish(b) == handler' = [handler EXCEPT ![b] = IdleHandler]
Goto(b, pc) == handler' = [handler EXCEPT ![b].pc = pc]

\* A binder thread takes the next callback.
TakeCallback(b) ==
    /\ handler[b].pc = "idle"
    /\ queue # <<>>
    /\ handler' = [handler EXCEPT ![b] = [IdleHandler EXCEPT !.pc = Head(queue).kind,
                                                            !.remote = Head(queue).remote]]
    /\ queue' = Tail(queue)
    /\ UNCHANGED <<helper, connectionVars, reconnectVars, client, observerVars,
                   inst, started, link, failures>>

\* OnAbilityConnectDone, the lock section: the proxy is set and the waiting
\* threads are notified.  Without a remote object they wait until they time out.
OnAbilityConnectDone(b) ==
    /\ handler[b].pc = "connectDone"
    /\ IF handler[b].remote = 0
       THEN Finish(b) /\ UNCHANGED dataShareProxy
       ELSE dataShareProxy' = handler[b].remote /\ Goto(b, "checkInvalid")
    /\ UNCHANGED <<helper, uri, isInvalid, isReconnect, reconnectVars, client,
                   observerVars, amsVars>>

\* Mutant: a late connection of a released helper is kept.
CheckInvalidMutant(b) ==
    /\ handler[b].pc = "checkInvalid"
    /\ Goto(b, "exchange")
    /\ UNCHANGED <<helper, connectionVars, reconnectVars, client, observerVars, amsVars>>

\* isInvalid_.load(): a connection released meanwhile is disconnected at once.
CheckInvalid(b) ==
    /\ handler[b].pc = "checkInvalid"
    /\ IF isInvalid
       THEN Finish(b) /\ Disconnect
       ELSE Goto(b, "exchange") /\ UNCHANGED amsVars
    /\ UNCHANGED <<helper, connectionVars, reconnectVars, client, observerVars>>

\* isReconnect_.exchange(true).
ExchangeReconnect(b) ==
    /\ handler[b].pc = "exchange"
    /\ isReconnect' = TRUE
    /\ IF isReconnect THEN Goto(b, "move") ELSE Finish(b)
    /\ UNCHANGED <<helper, dataShareProxy, uri, isInvalid, reconnectVars, client,
                   observerVars, amsVars>>

\* ReRegisterObserverExtProvider: the map is moved out ...
MoveObservers(b) ==
    /\ handler[b].pc = "move"
    /\ handler' = [handler EXCEPT ![b].pc = "clear", ![b].moved = observerExtsProvider]
    /\ observerExtsProvider' = {}
    /\ Disturb(Storing)
    /\ UNCHANGED <<helper, connectionVars, reconnectVars, client, registered, wanted,
                   amsVars>>

\* ... cleared (what was stored since goes with it) ...
ClearObservers(b) ==
    /\ handler[b].pc = "clear"
    /\ observerExtsProvider' = {}
    /\ Goto(b, "getProxy")
    /\ UNCHANGED <<helper, connectionVars, reconnectVars, client, registered, wanted,
                   disturbed, amsVars>>

\* ... and dropped if the connection was lost again.
ReRegisterProxy(b) ==
    /\ handler[b].pc = "getProxy"
    /\ IF dataShareProxy = 0 \/ handler[b].moved = {}
       THEN Finish(b)
       ELSE handler' = [handler EXCEPT ![b].pc = "reRegister", ![b].remote = dataShareProxy]
    /\ Disturb(dataShareProxy = 0 /\ handler[b].moved # {})
    /\ UNCHANGED <<helper, connectionVars, reconnectVars, client, registered, wanted,
                   observerExtsProvider, amsVars>>

\* The handler is through with the observer in hand.
NextObserver(b, rest) ==
    IF rest = {} THEN Finish(b)
    ELSE handler' = [handler EXCEPT ![b].pc = "reRegister", ![b].moved = rest,
                                    ![b].current = {}]

\* dataShareProxy->RegisterObserverExtProvider of one observer.  One that fails
\* is not stored again.
ReRegisterObserverExtProvider(b, o) ==
    /\ handler[b].pc = "reRegister"
    /\ o \in handler[b].moved
    /\ \/ /\ inst = handler[b].remote
          /\ registered' = registered \cup {o}
          /\ handler' = [handler EXCEPT ![b].pc = "update", ![b].current = {o}]
          /\ UNCHANGED <<failures, disturbed>>
       \/ /\ IF inst = handler[b].remote THEN Fail ELSE UNCHANGED failures
          /\ NextObserver(b, handler[b].moved \ {o})
          /\ disturbed' = TRUE
          /\ UNCHANGED registered
    /\ UNCHANGED <<helper, connectionVars, reconnectVars, client, observerExtsProvider,
                   wanted, inst, started, link, queue>>

\* Mutant: an observer registered again is not stored again.
StoreReRegisteredMutant(b) ==
    /\ handler[b].pc = "update"
    /\ NextObserver(b, handler[b].moved \ handler[b].current)
    /\ UNCHANGED <<helper, connectionVars, reconnectVars, client, observerVars, amsVars>>

\* UpdateObserverExtsProviderMap of the observer that was registered again.
StoreReRegistered(b) ==
    /\ handler[b].pc = "update"
    /\ Store(handler[b].current)
    /\ NextObserver(b, handler[b].moved \ handler[b].current)
    /\ UNCHANGED <<helper, connectionVars, reconnectVars, client, registered, wanted,
                   disturbed, amsVars>>

\* Mutant: the proxy of the lost extension is kept.
OnAbilityDisconnectDoneMutant(b) ==
    /\ handler[b].pc = "disconnectDone"
    /\ IF uri THEN Goto(b, "reconnect") ELSE Finish(b)
    /\ UNCHANGED <<helper, connectionVars, reconnectVars, client, observerVars, amsVars>>

\* OnAbilityDisconnectDone, the lock section: nothing more is done for a
\* connection that has been given up (uri_ is empty).
OnAbilityDisconnectDone(b) ==
    /\ handler[b].pc = "disconnectDone"
    /\ dataShareProxy' = 0
    /\ IF uri THEN Goto(b, "reconnect") ELSE Finish(b)
    /\ UNCHANGED <<helper, uri, isInvalid, isReconnect, reconnectVars, client,
                   observerVars, amsVars>>

\* ReconnectExtAbility: the first reconnection is tried at once ...
ReconnectExtAbility(b) ==
    /\ handler[b].pc = "reconnect"
    /\ Goto(b, IF count = 0 THEN "connect" ELSE "delay")
    /\ UNCHANGED <<helper, connectionVars, reconnectVars, client, observerVars, amsVars>>

ReconnectNow(b) ==
    /\ handler[b].pc = "connect"
    /\ \/ ConnectAccepted /\ Goto(b, "count")
       \/ ConnectRefused /\ Finish(b)
    /\ UNCHANGED <<helper, connectionVars, reconnectVars, client, observerVars>>

\* Mutant: counts down.
CountFirstMutant(b) ==
    /\ handler[b].pc = "count"
    /\ count' = count - 1
    /\ quiet' = FALSE
    /\ Finish(b)
    /\ UNCHANGED <<helper, connectionVars, scheduled, counting, client, observerVars,
                   amsVars>>

\* ... and counted; nothing locks reConnects_.
CountFirst(b) ==
    /\ handler[b].pc = "count"
    /\ count' = 1
    /\ quiet' = FALSE
    /\ Finish(b)
    /\ UNCHANGED <<helper, connectionVars, scheduled, counting, client, observerVars,
                   amsVars>>

\* Mutant: gives up one reconnection too early.
DelayConnectExtAbilityMutant(b) ==
    /\ handler[b].pc = "delay"
    /\ count' = IF quiet THEN 0 ELSE count
    /\ quiet' = FALSE
    /\ scheduled' = IF count' + 1 < MaxReconnect THEN scheduled + 1 ELSE scheduled
    /\ Finish(b)
    /\ UNCHANGED <<helper, connectionVars, counting, client, observerVars, amsVars>>

\* DelayConnectExtAbility: further ones are scheduled, as long as there have not
\* been too many of them; a quiet time forgives the earlier ones.  Whether the
\* task is delayed by RECONNECT_TIME_INTERVAL or not, it runs some time later.
DelayConnectExtAbility(b) ==
    /\ handler[b].pc = "delay"
    /\ count' = IF quiet THEN 0 ELSE count
    /\ quiet' = FALSE
    /\ scheduled' = IF count' < MaxReconnect THEN scheduled + 1 ELSE scheduled
    /\ Finish(b)
    /\ UNCHANGED <<helper, connectionVars, counting, client, observerVars, amsVars>>

-----------------------------------------------------------------------------
(* Scheduled reconnections, on pool threads. *)

\* self.lock() succeeds: a helper, or another task, still holds the connection.
Held == helper \in {"creating", "held"} \/ (helper = "setInvalid" /\ counting > 0)

SkipReconnect ==
    /\ scheduled > 0
    /\ ~Held
    /\ scheduled' = scheduled - 1
    /\ UNCHANGED <<helper, connectionVars, count, quiet, counting, client, handler,
                   observerVars, amsVars>>

DelayedReconnect ==
    /\ scheduled > 0
    /\ Held
    /\ counting < PoolThreads
    /\ scheduled' = scheduled - 1
    /\ \/ ConnectAccepted /\ counting' = counting + 1
       \/ ConnectRefused /\ UNCHANGED counting
    /\ UNCHANGED <<helper, connectionVars, count, quiet, client, handler, observerVars>>

CountDelayed ==
    /\ counting > 0
    /\ counting' = counting - 1
    /\ count' = count + 1
    /\ quiet' = FALSE
    /\ UNCHANGED <<helper, connectionVars, scheduled, client, handler, observerVars,
                   amsVars>>

-----------------------------------------------------------------------------
(* Release: the deleter of the connection's shared pointer. *)

\* The helper is dropped.  A task that holds the connection (self.lock()) is
\* over before the deleter runs.
DropHelper ==
    /\ helper = "held"
    /\ \A c \in Clients : client[c].pc = "idle"
    /\ helper' = "setInvalid"
    /\ UNCHANGED <<connectionVars, reconnectVars, client, handler, observerVars, amsVars>>

SetConnectInvalid ==
    /\ helper = "setInvalid"
    /\ counting = 0
    /\ isInvalid' = TRUE
    /\ helper' = "clearUri"
    /\ UNCHANGED <<dataShareProxy, uri, isReconnect, reconnectVars, client, handler,
                   observerVars, amsVars>>

\* DisconnectDataShareExtAbility, the lock section and the request.
ClearUri ==
    /\ helper = "clearUri"
    /\ uri' = FALSE
    /\ helper' = IF dataShareProxy = 0 THEN "released" ELSE "disconnect"
    /\ UNCHANGED <<dataShareProxy, isInvalid, isReconnect, reconnectVars, client, handler,
                   observerVars, amsVars>>

DisconnectDataShareExtAbility ==
    /\ helper = "disconnect"
    /\ Disconnect
    /\ helper' = "released"
    /\ UNCHANGED <<connectionVars, reconnectVars, client, handler, observerVars>>

-----------------------------------------------------------------------------

Init ==
    /\ helper = "none"
    /\ dataShareProxy = 0
    /\ uri = TRUE
    /\ isInvalid = FALSE
    /\ isReconnect = FALSE
    /\ count = 0
    /\ quiet = FALSE
    /\ observerExtsProvider = {}
    /\ scheduled = 0
    /\ counting = 0
    /\ client = [c \in Clients |-> IdleClient]
    /\ handler = [b \in CallbackThreads |-> IdleHandler]
    /\ inst = 0
    /\ started = 0
    /\ link = FALSE
    /\ queue = <<>>
    /\ registered = {}
    /\ failures = 0
    /\ wanted = {}
    /\ disturbed = FALSE

ClientStep(c) ==
    \/ CreateExtHelper(c)
    \/ Call(c, "call", {})
    \/ \E o \in Observers : Call(c, "register", {o}) \/ Call(c, "unregister", {o})
    \/ GetDataShareProxy(c)
    \/ ConnectDataShareExtAbility(c)
    \/ WaitForProxy(c)
    \/ RegisterObserverExtProvider(c)
    \/ UpdateObserverExtsProviderMap(c)
    \/ UnregisterObserverExtProvider(c)
    \/ DeleteObserverExtsProviderMap(c)

CallbackStep(b) ==
    \/ TakeCallback(b)
    \/ OnAbilityConnectDone(b)
    \/ CheckInvalid(b)
    \/ ExchangeReconnect(b)
    \/ MoveObservers(b)
    \/ ClearObservers(b)
    \/ ReRegisterProxy(b)
    \/ \E o \in handler[b].moved : ReRegisterObserverExtProvider(b, o)
    \/ StoreReRegistered(b)
    \/ OnAbilityDisconnectDone(b)
    \/ ReconnectExtAbility(b)
    \/ ReconnectNow(b)
    \/ CountFirst(b)
    \/ DelayConnectExtAbility(b)

PoolStep == SkipReconnect \/ DelayedReconnect \/ CountDelayed

ReleaseStep ==
    \/ DropHelper
    \/ SetConnectInvalid
    \/ ClearUri
    \/ DisconnectDataShareExtAbility

Next ==
    \/ \E c \in Clients : ClientStep(c)
    \/ \E b \in CallbackThreads : CallbackStep(b)
    \/ PoolStep
    \/ ReleaseStep
    \/ Crash
    \/ Quiet

Spec == Init /\ [][Next]_vars

\* Binder and pool threads run what they have started or been given.  Nothing is
\* assumed of the clients, of the owner, of crashes or of the clock.
Fairness ==
    /\ \A b \in CallbackThreads : WF_vars(CallbackStep(b))
    /\ WF_vars(PoolStep)

FairSpec == Spec /\ Fairness

\* The types of all variables.
TypeOK ==
    /\ helper \in HelperPc
    /\ dataShareProxy \in Incarnations
    /\ uri \in BOOLEAN /\ isInvalid \in BOOLEAN /\ isReconnect \in BOOLEAN
    /\ count \in Nat /\ quiet \in BOOLEAN /\ scheduled \in Nat /\ counting \in 0 .. PoolThreads
    /\ observerExtsProvider \in SUBSET Observers
    /\ client \in [Clients -> ClientRecord]
    /\ handler \in [CallbackThreads -> HandlerRecord]
    /\ inst \in Incarnations /\ started \in Incarnations
    /\ link \in BOOLEAN
    /\ queue \in Seq(Callback)
    /\ registered \in SUBSET Observers
    /\ failures \in 0 .. MaxFailures
    /\ wanted \in SUBSET Observers
    /\ disturbed \in BOOLEAN

-----------------------------------------------------------------------------
(* Properties *)

\* No callback is on its way or being handled, no reconnection is scheduled and
\* no client is in the middle of a call.
Settled ==
    /\ queue = <<>>
    /\ \A b \in CallbackThreads : handler[b].pc = "idle"
    /\ scheduled = 0 /\ counting = 0
    /\ \A c \in Clients : client[c].pc = "idle"

\* However the answer to a Connect races the timeout of the thread that waited
\* for it, a reconnection or the deleter: once the connection is released and
\* everything has been handled, the ability manager no longer holds it.
ReleasedIsDisconnected == helper = "released" /\ Settled => ~link

\* Once the callbacks have been handled, a connection in use has no proxy of an
\* extension that has crashed, and never lacks the proxy of one it is linked to.
ProxyFollowsExtension ==
    helper = "held" /\ Settled => dataShareProxy = IF link THEN inst ELSE 0

\* Across any number of crashes and reconnections, the observers the clients
\* have registered are the ones stored, and are registered at the extension the
\* connection reaches; unless something came between, see Disturb.
ObserversFollowReconnection ==
    helper = "held" /\ Settled /\ ~disturbed =>
        /\ observerExtsProvider = wanted
        /\ dataShareProxy # 0 => registered = wanted

\* What the comment at observerExtsProvider_ says: observers that have been
\* registered are stored, so that a reconnection can register them again.
StoredForReconnection ==
    helper = "held" /\ Settled => wanted \subseteq observerExtsProvider

\* A connection in use that loses its extension gets the proxy of a new one,
\* unless a request fails (nothing tries again) or its reconnections are used up.
Reconnects ==
    (helper = "held" /\ dataShareProxy # inst)
        ~> \/ dataShareProxy = inst /\ inst # 0
           \/ helper # "held"
           \/ failures > 0
           \/ count >= MaxReconnect

=============================================================================
