--------------------------- MODULE ProxyDataManager ---------------------------
(***************************************************************************)
(* ProxyDataSubscriberManager (proxy_data_subscriber_manager.rs): the      *)
(* observers of proxy data.  A change is given to every observer of every  *)
(* uri while the map is locked; a subscription is asked for after the lock *)
(* was left and never ended.  An observer may use the manager from its     *)
(* callback, where its own thread holds the lock.                          *)
(***************************************************************************)
EXTENDS Integers

CONSTANTS
    Uris, Subs,
    Threads,        \* threads of the application
    Reentrant,      \* the subscribers whose callback removes them
    MaxOps,         \* bound: calls of the application and restarts
    MaxChange       \* bound: changes the service reports

VARIABLES
    callbacks,      \* uri -> its subscribers
    locked,         \* emit holds the lock of the map
    pending,        \* observers emit has still to call, as <<uri, subscriber>>
    stuck,          \* the emitting thread waits for the lock it holds itself
    asking,         \* thread -> the uri it has still to subscribe, or "none"
    service,        \* uris subscribed at the service (external)
    lost,           \* the service restarted, the observers are not recovered
    failed,         \* uris whose subscription the service refused
    removed,        \* subscribers whose last removal has returned
    change, ops

proxyDataVars == <<callbacks, locked, pending, stuck, asking, service, lost, failed, removed, change, ops>>

Entries == {e \in Uris \X Subs : e[2] \in callbacks[e[1]]}
Counts == ops < MaxOps /\ ops' = ops + 1

ProxyDataInit ==
    /\ callbacks = [u \in Uris |-> {}] /\ locked = FALSE /\ pending = {} /\ stuck = FALSE
    /\ asking = [t \in Threads |-> "none"] /\ service = {} /\ lost = FALSE /\ failed = {}
    /\ removed = {} /\ change = 0 /\ ops = 0

----------------------------------------------------------------------------
\* add_observers: an entry more, then the service is asked, each time.
AddObservers(t, u, s) ==
    /\ asking[t] = "none" /\ ~locked /\ Counts
    /\ callbacks' = [callbacks EXCEPT ![u] = @ \cup {s}]
    /\ asking' = [asking EXCEPT ![t] = u]
    /\ removed' = removed \ {s}
    /\ UNCHANGED <<locked, pending, stuck, service, lost, failed, change>>

\* A failure is reported; the entry stays.
SubscribeProxyData(t) ==
    /\ asking[t] # "none"
    /\ \/ service' = service \cup {asking[t]} /\ failed' = failed \ {asking[t]}
       \/ failed' = failed \cup {asking[t]} /\ UNCHANGED service
    /\ asking' = [asking EXCEPT ![t] = "none"]
    /\ UNCHANGED <<callbacks, locked, pending, stuck, lost, removed, change, ops>>

\* del_observers and del_all_observers: nothing is asked of the service.
Removes(us, s) ==
    /\ callbacks' = [u \in Uris |-> IF u \in us THEN callbacks[u] \ {s} ELSE callbacks[u]]
    /\ removed' = IF \A u \in Uris : s \notin callbacks'[u] THEN removed \cup {s} ELSE removed
DelObservers(t, u, s) ==
    /\ asking[t] = "none" /\ ~locked /\ Counts
    /\ Removes({u}, s)
    /\ UNCHANGED <<locked, pending, stuck, asking, service, lost, failed, change>>
DelAllObservers(t, s) ==
    /\ asking[t] = "none" /\ ~locked /\ Counts
    /\ Removes(Uris, s)
    /\ UNCHANGED <<locked, pending, stuck, asking, service, lost, failed, change>>

\* emit: it takes the lock, calls every observer there is, and leaves it.
Emit ==
    /\ ~locked /\ service # {} /\ change < MaxChange
    /\ locked' = TRUE /\ pending' = Entries /\ change' = change + 1
    /\ UNCHANGED <<callbacks, stuck, asking, service, lost, failed, removed, ops>>

CallObserver(u, s) ==
    /\ ~stuck /\ <<u, s>> \in pending
    /\ pending' = pending \ {<<u, s>>}
    /\ stuck' = (s \in Reentrant)
    /\ UNCHANGED <<callbacks, locked, asking, service, lost, failed, removed, change, ops>>

EmitDone ==
    /\ locked /\ pending = {} /\ ~stuck
    /\ locked' = FALSE
    /\ UNCHANGED <<callbacks, pending, stuck, asking, service, lost, failed, removed, change, ops>>

ServiceRestarts ==
    /\ ~lost /\ Counts /\ lost' = TRUE /\ service' = {}
    /\ UNCHANGED <<callbacks, locked, pending, stuck, asking, failed, removed, change>>

\* Mutant: nothing is asked of the service after its restart.
RecoverObserversMutant ==
    /\ lost /\ ~locked /\ lost' = FALSE
    /\ UNCHANGED <<callbacks, locked, pending, stuck, asking, service, failed, removed, change, ops>>

\* recover_observers: one request with every uri of the map; a refusal is not
\* looked at.
RecoverObservers ==
    LET uris == {u \in Uris : callbacks[u] # {}} IN
    /\ lost /\ ~locked /\ lost' = FALSE
    /\ \E refused \in SUBSET uris :
         service' = service \cup (uris \ refused) /\ failed' = (failed \ uris) \cup refused
    /\ UNCHANGED <<callbacks, locked, pending, stuck, asking, removed, change, ops>>

ProxyDataNext ==
    \/ \E t \in Threads :
         \/ SubscribeProxyData(t)
         \/ \E u \in Uris, s \in Subs : AddObservers(t, u, s) \/ DelObservers(t, u, s)
         \/ \E s \in Subs : DelAllObservers(t, s)
    \/ \E u \in Uris, s \in Subs : CallObserver(u, s)
    \/ Emit \/ EmitDone \/ ServiceRestarts \/ RecoverObservers

----------------------------------------------------------------------------
\* Once the removal of an observer has returned it is not called again, not even
\* by a change that was being delivered when it was removed.
RemovedIsNotCalled == \A e \in pending : e[2] \notin removed

\* A uri with an observer is subscribed at the service, through restarts, unless
\* the service refused it or a call for it is under way.
ObservedIsSubscribed ==
    \A u \in Uris : callbacks[u] # {} /\ ~lost /\ (\A t \in Threads : asking[t] # u)
                    => u \in service \cup failed
=============================================================================
