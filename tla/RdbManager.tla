------------------------------ MODULE RdbManager ------------------------------
(***************************************************************************)
(* RdbSubscriberManager of the Rust consumer (rdb_subscriber_manager.rs):  *)
(* unlike the C++ manager it has no transaction of its own around a call,  *)
(* so that every step between two locks, and every request to the service, *)
(* interleaves with the other threads and with the emitting thread.  A     *)
(* call treats each of its uris alike; here it has one.                    *)
(***************************************************************************)
EXTENDS Integers

CONSTANTS
    Keys,          \* RdbObserverMapKey: <<clear uri, template>>
    Subs,          \* subscribers
    Threads,       \* threads of the application
    MaxOps,        \* bound: calls
    MaxChange      \* bound: changes the service sends

VARIABLES
    callbacks,     \* key and subscriber -> its entries; equal ones are treated alike
    last_change_node_map,   \* key -> number of a change, 0 for none
    job,           \* thread -> what it has still to do
    emitting,      \* what the thread that delivers a change has still to do
    service,       \* key -> "none", "on", "off" at the service (external)
    lost,          \* the service restarted and the observers are not yet recovered
    change, seen, owed,   \* last change sent; per key and subscriber, seen and to be seen
    excused,       \* keys whose service call failed or came late
    missed,        \* <<key, subscriber>> enabled between the mark and the store of a change
    ops

rdbVars == <<callbacks, last_change_node_map, job, emitting, service, lost, change, seen, owed, excused, missed, ops>>

Idle == [op |-> "idle", k |-> <<>>, s |-> {}, node |-> 0]
NotEmitting == [op |-> "idle", keys |-> {}, fire |-> {}, node |-> 0]
\* SubscriberEntry, as it is added.
Entry == [enabled |-> TRUE, notify |-> FALSE]
\* The keys with this clear uri, whatever their template.
Matching(uri) == {k \in Keys : k[1] = uri}
Job(op, k, s, node) == [op |-> op, k |-> k, s |-> s, node |-> node]
AnyEnabled(entries) == \E e \in entries : e.enabled
KeyEnabled(k) == \E s \in Subs : AnyEnabled(callbacks[k][s])
Observed(k) == \E s \in Subs : callbacks[k][s] # {}
Later(m, n) == IF m < n THEN n ELSE m
Begin(t) == job[t] = Idle /\ ops < MaxOps /\ ops' = ops + 1
Goes(t, j) == job' = [job EXCEPT ![t] = j]
Forget(f, ks, s) == [k \in Keys |-> IF k \in ks THEN [f[k] EXCEPT ![s] = 0] ELSE f[k]]
Delivers(k, to, node) ==
    seen' = [seen EXCEPT ![k] = [s \in Subs |-> IF s \in to THEN Later(seen[k][s], node) ELSE seen[k][s]]]

RdbInit ==
    /\ callbacks = [k \in Keys |-> [s \in Subs |-> {}]] /\ last_change_node_map = [k \in Keys |-> 0]
    /\ job = [t \in Threads |-> Idle] /\ emitting = NotEmitting
    /\ service = [k \in Keys |-> "none"] /\ lost = FALSE
    /\ change = 0 /\ seen = [k \in Keys |-> [s \in Subs |-> 0]] /\ owed = seen
    /\ excused = {} /\ missed = {} /\ ops = 0

----------------------------------------------------------------------------
\* add_observers: an entry is appended under the lock; with an enabled entry
\* beside it the last change is replayed, else the service is asked.
AddObservers(t, k, s) ==
    /\ Begin(t)
    /\ callbacks' = [callbacks EXCEPT ![k][s] = @ \cup {Entry}]
    /\ Goes(t, IF KeyEnabled(k) THEN Job("local", k, {s}, 0) ELSE Job("subscribe", k, {s}, 0))
    /\ UNCHANGED <<emitting, last_change_node_map, service, lost, change, seen, owed, excused, missed>>

LocalRegister(t) ==
    LET j == job[t] IN
    /\ j.op = "local"
    /\ Delivers(j.k, j.s, last_change_node_map[j.k])
    /\ Goes(t, Idle)
    /\ UNCHANGED <<emitting, callbacks, last_change_node_map, service, lost, change, owed, excused, missed, ops>>

\* subscribe_rdb_data: the entry stays whatever the service answers, and a request
\* that is refused or does not arrive, here and below, changes nothing there.
Subscribe(t) ==
    LET j == job[t] IN
    /\ j.op = "subscribe"
    /\ \/ service' = [service EXCEPT ![j.k] = "on"] /\ UNCHANGED excused
       \/ excused' = excused \cup {j.k} /\ UNCHANGED service
    /\ Goes(t, Idle)
    /\ UNCHANGED <<emitting, callbacks, last_change_node_map, lost, change, seen, owed, missed, ops>>

\* del_observers: the entries of the subscriber; with the last entry the last
\* change goes, then the subscription, each after the lock was left.
DelObservers(t, k, s) ==
    /\ Begin(t) /\ callbacks[k][s] # {}
    /\ callbacks' = [callbacks EXCEPT ![k][s] = {}]
    /\ seen' = Forget(seen, {k}, s) /\ owed' = Forget(owed, {k}, s)
    /\ Goes(t, IF \E r \in Subs \ {s} : callbacks[k][r] # {} THEN Idle ELSE Job("erase", k, {}, 0))
    /\ UNCHANGED <<emitting, last_change_node_map, service, lost, change, excused, missed>>

EraseLastChange(t) ==
    LET j == job[t] IN
    /\ j.op = "erase"
    /\ last_change_node_map' = [last_change_node_map EXCEPT ![j.k] = 0]
    /\ excused' = IF Observed(j.k) THEN excused \cup {j.k} ELSE excused
    /\ Goes(t, Job("unsubscribe", j.k, {}, 0))
    /\ UNCHANGED <<emitting, callbacks, service, lost, change, seen, owed, missed, ops>>

Unsubscribe(t) ==
    LET j == job[t] IN
    /\ j.op = "unsubscribe"
    /\ \/ service' = [service EXCEPT ![j.k] = "none"]
          /\ excused' = IF Observed(j.k) THEN excused \cup {j.k} ELSE excused
       \/ UNCHANGED <<service, excused>>
    /\ Goes(t, Idle)
    /\ UNCHANGED <<emitting, callbacks, last_change_node_map, lost, change, seen, owed, missed, ops>>

\* del_all_observers only drops the entries: no subscription is ended and no
\* last change erased.
DelAllObservers(t, s) ==
    /\ Begin(t) /\ \E k \in Keys : callbacks[k][s] # {}
    /\ callbacks' = [k \in Keys |-> [callbacks[k] EXCEPT ![s] = {}]]
    /\ seen' = Forget(seen, Keys, s) /\ owed' = Forget(owed, Keys, s)
    /\ UNCHANGED <<emitting, job, last_change_node_map, service, lost, change, excused, missed>>

\* enable_observers: every entry of the subscriber is enabled and its mark
\* cleared, unless one is enabled, and the last change kept for those that missed
\* one.
EnableObservers(t, k, s) ==
    LET mine   == callbacks[k][s]
        marked == \E e \in mine : e.notify
        j      == Job("enable", k, {s}, IF marked THEN last_change_node_map[k] ELSE 0)
    IN
    /\ Begin(t) /\ mine # {} /\ ~AnyEnabled(mine)
    /\ callbacks' = [callbacks EXCEPT ![k][s] = {Entry}]
    /\ Goes(t, IF KeyEnabled(k) THEN [j EXCEPT !.op = "replay"] ELSE j)
    /\ missed' = IF marked /\ emitting.op = "store" /\ k \in emitting.keys
                 THEN missed \cup {<<k, s>>} ELSE missed
    /\ UNCHANGED <<emitting, last_change_node_map, service, lost, change, seen, owed, excused>>

EnableAtService(t) ==
    LET j == job[t] IN
    /\ j.op = "enable"
    /\ \/ /\ service[j.k] # "none"
          /\ service' = [service EXCEPT ![j.k] = "on"] /\ UNCHANGED excused
       \/ excused' = excused \cup {j.k} /\ UNCHANGED service
    /\ Goes(t, [j EXCEPT !.op = "replay"])
    /\ UNCHANGED <<emitting, callbacks, last_change_node_map, lost, change, seen, owed, missed, ops>>

Replay(t) ==
    LET j == job[t] IN
    /\ j.op = "replay"
    /\ Delivers(j.k, j.s, j.node)
    /\ Goes(t, Idle)
    /\ UNCHANGED <<emitting, callbacks, last_change_node_map, service, lost, change, owed, excused, missed, ops>>

\* disable_observers: the service is told when the last enabled entry goes.
DisableObservers(t, k, s) ==
    /\ Begin(t) /\ KeyEnabled(k) /\ callbacks[k][s] # {}
    /\ callbacks' = [callbacks EXCEPT ![k][s] =
           {IF e.enabled THEN [enabled |-> FALSE, notify |-> FALSE] ELSE e : e \in @}]
    /\ Goes(t, IF \E r \in Subs \ {s} : AnyEnabled(callbacks[k][r]) THEN Idle ELSE Job("disable", k, {}, 0))
    /\ UNCHANGED <<emitting, last_change_node_map, service, lost, change, seen, owed, excused, missed>>

DisableAtService(t) ==
    LET j == job[t] IN
    /\ j.op = "disable"
    /\ \/ service' = [service EXCEPT ![j.k] = IF @ = "none" THEN @ ELSE "off"]
          /\ excused' = IF KeyEnabled(j.k) THEN excused \cup {j.k} ELSE excused
       \/ UNCHANGED <<service, excused>>
    /\ Goes(t, Idle)
    /\ UNCHANGED <<emitting, callbacks, last_change_node_map, lost, change, seen, owed, missed, ops>>

----------------------------------------------------------------------------
\* The service restarts and forgets; recover_observers subscribes every key that
\* has entries now, enabled or not.
ServiceRestarts ==
    /\ ~lost /\ ops < MaxOps /\ ops' = ops + 1
    /\ service' = [k \in Keys |-> "none"] /\ lost' = TRUE
    /\ UNCHANGED <<emitting, callbacks, last_change_node_map, job, change, seen, owed, excused, missed>>

RecoverObservers(t) ==
    LET keys == {k \in Keys : Observed(k)} IN
    /\ lost /\ job[t] = Idle /\ lost' = FALSE
    /\ \E failed \in SUBSET keys :
         /\ service' = [k \in Keys |-> IF k \in keys \ failed THEN "on" ELSE service[k]]
         /\ excused' = excused \cup failed
    /\ UNCHANGED <<emitting, callbacks, last_change_node_map, job, change, seen, owed, missed, ops>>

\* emit: the entries of every key with the uri are marked and the enabled ones
\* listed under the lock; the change is stored, then the observers are called,
\* each after the lock was left.
Emit(uri) ==
    LET keys == {k \in Matching(uri) : Observed(k)} IN
    /\ emitting = NotEmitting /\ change < MaxChange
    /\ \E k \in Matching(uri) : service[k] = "on"
    /\ change' = change + 1
    /\ callbacks' = [k \in Keys |-> [s \in Subs |->
           IF k \in keys THEN {[enabled |-> e.enabled, notify |-> ~e.enabled] : e \in callbacks[k][s]}
           ELSE callbacks[k][s]]]
    /\ owed' = [k \in Keys |-> [s \in Subs |->
           IF k \in keys /\ callbacks[k][s] # {} THEN change' ELSE owed[k][s]]]
    /\ emitting' = IF keys = {} THEN NotEmitting
                   ELSE [op |-> "store", keys |-> keys, node |-> change',
                         fire |-> {e \in keys \X Subs : AnyEnabled(callbacks[e[1]][e[2]])}]
    /\ UNCHANGED <<last_change_node_map, job, service, lost, seen, excused, missed, ops>>

\* Mutant: the change is not stored.
StoreLastChangeMutant ==
    /\ emitting.op = "store"
    /\ emitting' = [emitting EXCEPT !.op = "call"]
    /\ UNCHANGED <<callbacks, last_change_node_map, job, service, lost, change, seen, owed, excused, missed, ops>>

StoreLastChange ==
    /\ emitting.op = "store"
    /\ last_change_node_map' = [k \in Keys |-> IF k \in emitting.keys THEN emitting.node ELSE last_change_node_map[k]]
    /\ emitting' = [emitting EXCEPT !.op = "call"]
    /\ UNCHANGED <<callbacks, job, service, lost, change, seen, owed, excused, missed, ops>>

CallObservers ==
    /\ emitting.op = "call"
    /\ seen' = [k \in Keys |-> [s \in Subs |->
           IF <<k, s>> \in emitting.fire THEN Later(seen[k][s], emitting.node) ELSE seen[k][s]]]
    /\ emitting' = NotEmitting
    /\ UNCHANGED <<callbacks, last_change_node_map, job, service, lost, change, owed, excused, missed, ops>>

RdbNext ==
    \/ \E t \in Threads :
         \/ \E k \in Keys, s \in Subs :
              AddObservers(t, k, s) \/ DelObservers(t, k, s) \/ EnableObservers(t, k, s) \/ DisableObservers(t, k, s)
         \/ \E s \in Subs : DelAllObservers(t, s)
         \/ LocalRegister(t) \/ Subscribe(t) \/ EraseLastChange(t) \/ Unsubscribe(t)
         \/ EnableAtService(t) \/ Replay(t) \/ DisableAtService(t) \/ RecoverObservers(t)
    \/ \E k \in Keys : Emit(k[1])
    \/ StoreLastChange \/ CallObservers \/ ServiceRestarts

----------------------------------------------------------------------------
Quiet(k) == k \notin emitting.keys /\ \A t \in Threads : job[t].k # k

\* An observer that is enabled has seen every change that came while it was
\* registered, the ones it missed while disabled included, once no call on its
\* key is under way; unless it was enabled between the mark and the store of a
\* change, or a DelObservers that was late erased the change of a new entry.
EnabledIsUpToDate ==
    \A k \in Keys, s \in Subs :
        callbacks[k][s] # {} /\ (\A e \in callbacks[k][s] : e.enabled) /\ Quiet(k)
            /\ k \notin excused /\ <<k, s>> \notin missed => seen[k][s] >= owed[k][s]

\* While a key has an enabled observer the service delivers to it, once no call
\* is under way and the observers are recovered after a restart; unless a call of
\* the service failed, which the manager does not repair, or one overtook another.
EnabledIsSubscribed ==
    \A k \in Keys :
        KeyEnabled(k) /\ Quiet(k) /\ ~lost /\ k \notin excused => service[k] = "on"
=============================================================================
