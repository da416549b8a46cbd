--------------------------- MODULE PublishedManager ---------------------------
(***************************************************************************)
(* PublishedDataSubscriberManager of the Rust consumer                     *)
(* (published_data_subscriber_manager.rs).  A change is marked, stored and *)
(* delivered under both locks; the requests to the service, and what is    *)
(* rolled back when one fails, come after the lock was left.  A call       *)
(* treats each of its uris alike; here it has one.                         *)
(***************************************************************************)
EXTENDS Integers, Sequences

CONSTANTS
    Keys,          \* PublishedObserverMapKey: uri and subscriber id
    Subs,          \* subscribers
    Threads,       \* threads of the application
    MaxOps,        \* bound: calls
    MaxChange      \* bound: changes the service sends

VARIABLES
    callbacks,     \* key and subscriber -> sequence of its entries
    last_change_node_map,   \* key -> number of a change, 0 for none
    job,           \* thread -> what it has still to do
    service,       \* key -> "none", "on", "off" at the service (external)
    lost,          \* the service restarted and the observers are not yet recovered
    change, seen, owed,   \* last change sent; per key and subscriber, seen and to be seen
    excused,       \* keys on which a failed, late or unanswered call left an entry without
                   \* the service
    ops

publishedVars == <<callbacks, last_change_node_map, job, service, lost, change, seen, owed, excused, ops>>

Idle == [op |-> "idle", k |-> "none", s |-> "none", notify |-> FALSE, more |-> {}]
Job(op, k, s, notify) == [op |-> op, k |-> k, s |-> s, notify |-> notify, more |-> {}]
\* SubscriberEntry, as it is added.
Entry == [enabled |-> TRUE, notify |-> FALSE]
AnyEnabled(entries) == \E i \in DOMAIN entries : entries[i].enabled
KeyEnabled(k) == \E s \in Subs : AnyEnabled(callbacks[k][s])
Observed(k) == \E s \in Subs : callbacks[k][s] # <<>>
\* The key has entries of other subscribers.
Shared(k, s) == \E r \in Subs \ {s} : callbacks[k][r] # <<>>
Later(m, n) == IF m < n THEN n ELSE m
Begin(t) == job[t] = Idle /\ ops < MaxOps /\ ops' = ops + 1
Goes(t, j) == job' = [job EXCEPT ![t] = j]
Excuse(k, cond) == excused' = IF cond THEN excused \cup {k} ELSE excused

PublishedInit ==
    /\ callbacks = [k \in Keys |-> [s \in Subs |-> <<>>]] /\ last_change_node_map = [k \in Keys |-> 0]
    /\ job = [t \in Threads |-> Idle] /\ service = [k \in Keys |-> "none"] /\ lost = FALSE
    /\ change = 0 /\ seen = [k \in Keys |-> [s \in Subs |-> 0]] /\ owed = seen
    /\ excused = {} /\ ops = 0

----------------------------------------------------------------------------
\* add_observers: the first entry of a key asks the service; when that fails, all
\* entries of the subscriber on the key are removed.  An entry that joins a key
\* all of whose entries are disabled leaves the service switched off.
AddObservers(t, k, s) ==
    /\ Begin(t)
    /\ callbacks' = [callbacks EXCEPT ![k][s] = Append(@, Entry)]
    /\ Goes(t, IF Observed(k) THEN Idle ELSE Job("subscribe", k, s, FALSE))
    /\ Excuse(k, Observed(k) /\ ~KeyEnabled(k))
    /\ UNCHANGED <<last_change_node_map, service, lost, change, seen, owed>>

\* A request that is not written or not answered gives no results, and without a
\* result that says so nothing has failed: the entry stays.
Subscribe(t) ==
    LET j == job[t] IN
    /\ j.op = "subscribe"
    /\ \/ service' = [service EXCEPT ![j.k] = "on"] /\ Goes(t, Idle) /\ UNCHANGED excused
       \/ Goes(t, [j EXCEPT !.op = "rollback"]) /\ UNCHANGED <<service, excused>>
       \/ Goes(t, Idle) /\ Excuse(j.k, TRUE) /\ UNCHANGED service
    /\ UNCHANGED <<callbacks, last_change_node_map, lost, change, seen, owed, ops>>

RollbackAdd(t) ==
    LET j == job[t] IN
    /\ j.op = "rollback"
    /\ callbacks' = [callbacks EXCEPT ![j.k][j.s] = <<>>]
    /\ seen' = [seen EXCEPT ![j.k][j.s] = 0] /\ owed' = [owed EXCEPT ![j.k][j.s] = 0]
    /\ Excuse(j.k, Shared(j.k, j.s))
    /\ Goes(t, Idle)
    /\ UNCHANGED <<last_change_node_map, service, lost, change, ops>>

\* del_observers and, for every key of the subscriber, del_all_observers: the
\* subscription ends with the last entry.
DelObservers(t, ks, s) ==
    LET emptied == {k \in ks : callbacks[k][s] # <<>> /\ ~Shared(k, s)} IN
    /\ Begin(t) /\ \E k \in ks : callbacks[k][s] # <<>>
    /\ callbacks' = [k \in Keys |-> IF k \in ks THEN [callbacks[k] EXCEPT ![s] = <<>>] ELSE callbacks[k]]
    /\ seen' = [k \in Keys |-> IF k \in ks THEN [seen[k] EXCEPT ![s] = 0] ELSE seen[k]]
    /\ owed' = [k \in Keys |-> IF k \in ks THEN [owed[k] EXCEPT ![s] = 0] ELSE owed[k]]
    /\ IF emptied = {} THEN UNCHANGED job
       ELSE \E k \in emptied : Goes(t, [Job("unsubscribe", k, s, FALSE) EXCEPT !.more = emptied])
    /\ UNCHANGED <<last_change_node_map, service, lost, change, excused>>

\* The requests, one for each subscriber id: a subscription whose request is refused
\* or does not arrive stays at the service.
Unsubscribe(t) ==
    LET j == job[t] IN
    /\ j.op = "unsubscribe"
    /\ \E done \in SUBSET j.more :
         /\ service' = [k \in Keys |-> IF k \in done THEN "none" ELSE service[k]]
         /\ excused' = excused \cup {k \in done : Observed(k)}
    /\ Goes(t, Idle)
    /\ UNCHANGED <<callbacks, last_change_node_map, lost, change, seen, owed, ops>>

\* enable_observers: the first entry of the subscriber; the mark is read and not
\* cleared.
EnableObservers(t, k, s) ==
    /\ Begin(t) /\ callbacks[k][s] # <<>> /\ ~callbacks[k][s][1].enabled
    /\ callbacks' = [callbacks EXCEPT ![k][s][1].enabled = TRUE]
    /\ Goes(t, Job(IF KeyEnabled(k) THEN "replay" ELSE "enable", k, s, callbacks[k][s][1].notify))
    /\ UNCHANGED <<last_change_node_map, service, lost, change, seen, owed, excused>>

\* Without a result nothing is taken back here either.
EnableAtService(t) ==
    LET j == job[t] IN
    /\ j.op = "enable"
    /\ \/ /\ service[j.k] # "none"
          /\ service' = [service EXCEPT ![j.k] = "on"] /\ Goes(t, [j EXCEPT !.op = "replay"])
          /\ UNCHANGED excused
       \/ Goes(t, [j EXCEPT !.op = "unroll"]) /\ UNCHANGED <<service, excused>>
       \/ Goes(t, [j EXCEPT !.op = "replay"]) /\ Excuse(j.k, TRUE) /\ UNCHANGED service
    /\ UNCHANGED <<callbacks, last_change_node_map, lost, change, seen, owed, ops>>

RollbackEnable(t) ==
    LET j == job[t] IN
    /\ j.op = "unroll"
    /\ callbacks' = [callbacks EXCEPT ![j.k][j.s] = [i \in DOMAIN @ |-> [@[i] EXCEPT !.enabled = FALSE]]]
    /\ Excuse(j.k, \E s \in Subs \ {j.s} : AnyEnabled(callbacks[j.k][s]))
    /\ Goes(t, [j EXCEPT !.op = "replay"])
    /\ UNCHANGED <<last_change_node_map, service, lost, change, seen, owed, ops>>

\* emit_on_enable: the last change for an observer whose mark was set, after a
\* failure too.
EmitOnEnable(t) ==
    LET j == job[t] IN
    /\ j.op = "replay"
    /\ seen' = IF j.notify THEN [seen EXCEPT ![j.k][j.s] = Later(@, last_change_node_map[j.k])] ELSE seen
    /\ Goes(t, Idle)
    /\ UNCHANGED <<callbacks, last_change_node_map, service, lost, change, owed, excused, ops>>

\* disable_observers: all entries of the subscriber.
DisableObservers(t, k, s) ==
    /\ Begin(t) /\ KeyEnabled(k) /\ callbacks[k][s] # <<>>
    /\ callbacks' = [callbacks EXCEPT ![k][s] = [i \in DOMAIN @ |->
           IF @[i].enabled THEN [enabled |-> FALSE, notify |-> FALSE] ELSE @[i]]]
    /\ Goes(t, IF \E r \in Subs \ {s} : AnyEnabled(callbacks[k][r]) THEN Idle ELSE Job("disable", k, s, FALSE))
    /\ UNCHANGED <<last_change_node_map, service, lost, change, seen, owed, excused>>

DisableAtService(t) ==
    LET j == job[t] IN
    /\ j.op = "disable"
    /\ \/ service' = [service EXCEPT ![j.k] = IF @ = "none" THEN @ ELSE "off"] /\ Excuse(j.k, KeyEnabled(j.k))
       \/ UNCHANGED <<service, excused>>
    /\ Goes(t, Idle)
    /\ UNCHANGED <<callbacks, last_change_node_map, lost, change, seen, owed, ops>>

----------------------------------------------------------------------------
ServiceRestarts ==
    /\ ~lost /\ ops < MaxOps /\ ops' = ops + 1
    /\ service' = [k \in Keys |-> "none"] /\ lost' = TRUE
    /\ UNCHANGED <<callbacks, last_change_node_map, job, change, seen, owed, excused>>

RecoverObservers(t) ==
    LET keys == {k \in Keys : Observed(k)} IN
    /\ lost /\ job[t] = Idle /\ lost' = FALSE
    /\ \E failed \in SUBSET keys :
         /\ service' = [k \in Keys |-> IF k \in keys \ failed THEN "on" ELSE service[k]]
         /\ excused' = excused \cup failed
    /\ UNCHANGED <<callbacks, last_change_node_map, job, change, seen, owed, ops>>

\* emit: under both locks the disabled entries are marked, the change stored and
\* the enabled observers called.
Emit(k) ==
    /\ service[k] = "on" /\ change < MaxChange /\ change' = change + 1
    /\ callbacks' = [callbacks EXCEPT ![k] = [s \in Subs |-> [i \in DOMAIN @[s] |->
           IF @[s][i].enabled THEN @[s][i] ELSE [@[s][i] EXCEPT !.notify = TRUE]]]]
    /\ last_change_node_map' = [last_change_node_map EXCEPT ![k] = change']
    /\ owed' = [owed EXCEPT ![k] = [s \in Subs |-> IF callbacks[k][s] # <<>> THEN change' ELSE @[s]]]
    /\ seen' = [seen EXCEPT ![k] = [s \in Subs |-> IF AnyEnabled(callbacks[k][s]) THEN change' ELSE @[s]]]
    /\ UNCHANGED <<job, service, lost, excused, ops>>

PublishedNext ==
    \/ \E t \in Threads :
         \/ \E k \in Keys, s \in Subs :
              AddObservers(t, k, s) \/ EnableObservers(t, k, s) \/ DisableObservers(t, k, s)
         \/ \E ks \in {{k} : k \in Keys} \cup {Keys}, s \in Subs : DelObservers(t, ks, s)
         \/ Subscribe(t) \/ RollbackAdd(t) \/ Unsubscribe(t) \/ EnableAtService(t) \/ RollbackEnable(t)
         \/ EmitOnEnable(t) \/ DisableAtService(t) \/ RecoverObservers(t)
    \/ \E k \in Keys : Emit(k)
    \/ ServiceRestarts

----------------------------------------------------------------------------
Quiet(k) == \A t \in Threads : job[t].k # k /\ k \notin job[t].more

\* An observer all whose entries are enabled has seen every change that came
\* while it was registered, the ones it missed while disabled included, once no
\* call on its key is under way: no interleaving of enabling, its rollback, its
\* replay and a delivery loses one.
EnabledIsUpToDate ==
    \A k \in Keys, s \in Subs :
        callbacks[k][s] # <<>> /\ (\A i \in DOMAIN callbacks[k][s] : callbacks[k][s][i].enabled) /\ Quiet(k) => seen[k][s] >= owed[k][s]

\* A key with an enabled observer is delivered to, once no call is under way and
\* the observers are recovered after a restart: the entries of a call that the
\* service refused are rolled back.  Excused are the keys where a call came late,
\* where one was left without an answer (its empty results roll nothing back), where
\* another thread had joined the entry whose subscription then failed, and where an
\* entry was added while all the others were disabled.
EnabledIsSubscribed ==
    \A k \in Keys :
        KeyEnabled(k) /\ Quiet(k) /\ ~lost /\ k \notin excused => service[k] = "on"
=============================================================================
