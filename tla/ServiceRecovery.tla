---------------------------- MODULE ServiceRecovery ----------------------------
(***************************************************************************)
(* DataShareManagerImpl (manager_impl.rs) with the observers of the        *)
(* service controllers (service_impl.rs): the proxy to the data service is *)
(* obtained without the lock that guards it, dropped when the service      *)
(* dies, and when the service is back every controller registers its       *)
(* observers again.  The service dies and restarts; each life is an epoch. *)
(***************************************************************************)
EXTENDS Integers

CONSTANTS
    Threads,        \* threads that ask for the proxy or use a controller
    Controllers, Uris, Observers,
    MaxEpoch,       \* bound: lives of the service
    MaxCalls        \* bound: register and unregister calls

VARIABLES
    epoch, up,      \* the life of the service, and whether it is running
    watched,        \* epochs of which a death recipient stayed registered
    notices,        \* deaths not yet told to the client
    added,          \* the restart is not yet told to the client
    service_proxy,  \* the epoch of the cached proxy, 0 for none
    kv_service,     \* the epoch of the cached kv remote, 0 for none
    pc, mine,       \* thread -> where it stands, and what it holds
    alive,          \* the controllers that are not dropped
    callbacks,      \* DataShareManagerImpl::observers: controllers with a callback
    recovery,       \* the thread in on_add_system_ability: callbacks to run, and the current one
    observers,      \* controller -> set of <<observer, uri>>; unregistering drops all repetitions
    wanted,         \* what the application has registered and not unregistered
    raced,          \* epochs that died before a proxy of them was stored
    calls

recoveryVars == <<epoch, up, watched, notices, added, service_proxy, kv_service, pc, mine,
                  alive, callbacks, recovery, observers, wanted, raced, calls>>

serviceVars == <<epoch, up, watched, notices, added, raced>>
proxyVars == <<service_proxy, kv_service, pc, mine>>
controllerVars == <<alive, callbacks, recovery, observers, wanted, calls>>

None == 0
Idle == [on |-> FALSE, left |-> {}, at |-> {}, todo |-> {}]

RecoveryInit ==
    /\ epoch = 1 /\ up = TRUE /\ watched = {} /\ notices = {} /\ added = FALSE
    /\ service_proxy = None /\ kv_service = None
    /\ pc = [t \in Threads |-> "idle"] /\ mine = [t \in Threads |-> None]
    /\ alive = Controllers /\ callbacks = Controllers
    /\ recovery = Idle /\ observers = [c \in Controllers |-> {}]
    /\ wanted = {} /\ raced = {} /\ calls = 0

----------------------------------------------------------------------------
\* The service: it dies, the recipients of that life are told, it comes back and
\* the system ability manager reports it.
ServiceDies ==
    /\ up /\ up' = FALSE
    /\ notices' = notices \cup (watched \cap {epoch})
    /\ raced' = raced \cup {mine[t] : t \in {u \in Threads : pc[u] \in {"acquired", "linked"}}}
    /\ UNCHANGED <<epoch, watched, added>> /\ UNCHANGED proxyVars /\ UNCHANGED controllerVars

ServiceStarts ==
    /\ ~up /\ epoch < MaxEpoch
    /\ up' = TRUE /\ epoch' = epoch + 1 /\ added' = TRUE
    /\ UNCHANGED <<watched, notices, raced>> /\ UNCHANGED proxyVars /\ UNCHANGED controllerVars

\* get_proxy: the cached proxy is looked up under the lock ...
GetProxyCheck(t) ==
    /\ pc[t] = "idle" /\ service_proxy = None
    /\ pc' = [pc EXCEPT ![t] = "acquire"]
    /\ UNCHANGED <<service_proxy, kv_service, mine>> /\ UNCHANGED serviceVars /\ UNCHANGED controllerVars

\* ... the remote is obtained from the kv service without it (a service that is
\* down is not obtained, and get_proxy returns None) ...
Acquire(t) ==
    /\ pc[t] = "acquire"
    /\ pc' = [pc EXCEPT ![t] = IF up THEN "acquired" ELSE "idle"]
    /\ mine' = [mine EXCEPT ![t] = IF up THEN epoch ELSE None]
    /\ UNCHANGED <<service_proxy, kv_service>> /\ UNCHANGED serviceVars /\ UNCHANGED controllerVars

\* ... the client death observer and the death recipient are registered, the
\* kv remote is kept.  What add_death_recipient returns is dropped: its failure goes
\* unnoticed, and a recipient that lives only as long as its handle is gone with it ...
AddDeathRecipient(t) ==
    /\ pc[t] = "acquired"
    /\ \/ watched' = watched
       \/ up /\ mine[t] = epoch /\ watched' = watched \cup {epoch}
    /\ kv_service' = mine[t]
    /\ pc' = [pc EXCEPT ![t] = "linked"]
    /\ UNCHANGED <<epoch, up, notices, added, raced, service_proxy, mine>> /\ UNCHANGED controllerVars

\* ... and the proxy is stored under the lock, whatever is there now.
StoreProxy(t) ==
    /\ pc[t] = "linked"
    /\ service_proxy' = mine[t]
    /\ pc' = [pc EXCEPT ![t] = "idle"] /\ mine' = [mine EXCEPT ![t] = None]
    /\ UNCHANGED kv_service /\ UNCHANGED serviceVars /\ UNCHANGED controllerVars

\* set_service_proxy: C++ hands over the proxy it has, which may be that of a service
\* that died.  No death recipient is added.
SetServiceProxy ==
    /\ \E e \in 1 .. epoch :
         /\ service_proxy' = e
         /\ raced' = raced \cup {d \in {e} : d < epoch \/ ~up}
    /\ UNCHANGED <<epoch, up, watched, notices, added, kv_service, pc, mine>> /\ UNCHANGED controllerVars

\* Mutant: only the remote of the kv service is dropped.
OnRemoteDiedMutant ==
    /\ \E e \in notices : notices' = notices \ {e}
    /\ kv_service' = None
    /\ UNCHANGED <<epoch, up, watched, added, raced, service_proxy, pc, mine>> /\ UNCHANGED controllerVars

\* on_remote_died and reset_service_handle.
OnRemoteDied ==
    /\ \E e \in notices : notices' = notices \ {e}
    /\ service_proxy' = None /\ kv_service' = None
    /\ UNCHANGED <<epoch, up, watched, added, raced, pc, mine>> /\ UNCHANGED controllerVars

----------------------------------------------------------------------------
\* Mutant: the callbacks run outside the lock.
CallbacksLockedMutant == FALSE

\* on_add_system_ability takes the lock of the callbacks and keeps it until all
\* have run: CallbacksLocked.
CallbacksLocked == recovery.on

OnAddSystemAbility ==
    /\ added /\ ~CallbacksLocked
    /\ added' = FALSE
    /\ recovery' = [Idle EXCEPT !.on = TRUE, !.left = callbacks]
    /\ UNCHANGED <<epoch, up, watched, notices, raced, alive, callbacks, observers, wanted, calls>>
    /\ UNCHANGED proxyVars

\* Mutant: the map is cleared after it was copied for the one uri.
TakeObserversMutant ==
    /\ recovery.on /\ recovery.at = {}
    /\ \E c \in recovery.left :
         /\ recovery' = [recovery EXCEPT !.at = {c}, !.left = @ \ {c},
                                         !.todo = {e \in observers[c] : e = CHOOSE f \in observers[c] : TRUE}]
         /\ observers' = [observers EXCEPT ![c] = {}]
    /\ UNCHANGED <<alive, callbacks, wanted, calls>> /\ UNCHANGED serviceVars /\ UNCHANGED proxyVars

\* re_register_observer: the map is taken under its lock, then each uri of each
\* observer is registered again.
TakeObservers ==
    /\ recovery.on /\ recovery.at = {}
    /\ \E c \in recovery.left :
         /\ recovery' = [recovery EXCEPT !.at = {c}, !.todo = observers[c], !.left = @ \ {c}]
         /\ observers' = [observers EXCEPT ![c] = {}]
    /\ UNCHANGED <<alive, callbacks, wanted, calls>> /\ UNCHANGED serviceVars /\ UNCHANGED proxyVars

ReRegister ==
    /\ \E c \in recovery.at, e \in recovery.todo :
         /\ observers' = [observers EXCEPT ![c] = @ \cup {e}]
         /\ recovery' = [recovery EXCEPT !.todo = @ \ {e}]
    /\ UNCHANGED <<alive, callbacks, wanted, calls>> /\ UNCHANGED serviceVars /\ UNCHANGED proxyVars

ReRegistered ==
    /\ recovery.at # {} /\ recovery.todo = {}
    /\ recovery' = [recovery EXCEPT !.at = {}]
    /\ UNCHANGED <<alive, callbacks, observers, wanted, calls>> /\ UNCHANGED serviceVars /\ UNCHANGED proxyVars

CallbacksDone ==
    /\ recovery.on /\ recovery.at = {} /\ recovery.left = {}
    /\ recovery' = Idle
    /\ UNCHANGED <<alive, callbacks, observers, wanted, calls>> /\ UNCHANGED serviceVars /\ UNCHANGED proxyVars

----------------------------------------------------------------------------
\* register_observer and unregister_observer of a controller: the map under its
\* lock, which recovery does not hold while it registers.
RegisterObserver(c, id, uri) ==
    /\ c \in alive /\ calls < MaxCalls /\ calls' = calls + 1
    /\ observers' = [observers EXCEPT ![c] = @ \cup {<<id, uri>>}]
    /\ wanted' = wanted \cup {<<c, id, uri>>}
    /\ UNCHANGED <<alive, callbacks, recovery>> /\ UNCHANGED serviceVars /\ UNCHANGED proxyVars

UnregisterObserver(c, id, uri) ==
    /\ c \in alive /\ calls < MaxCalls /\ calls' = calls + 1
    /\ observers' = [observers EXCEPT ![c] = @ \ {<<id, uri>>}]
    /\ wanted' = wanted \ {<<c, id, uri>>}
    /\ UNCHANGED <<alive, callbacks, recovery>> /\ UNCHANGED serviceVars /\ UNCHANGED proxyVars

\* Drop of a controller: its callback is removed under the lock of the
\* callbacks, and its memory goes with it.
DropController(c) ==
    /\ c \in alive /\ ~CallbacksLocked
    /\ alive' = alive \ {c}
    /\ callbacks' = callbacks \ {c}
    /\ observers' = [observers EXCEPT ![c] = {}]
    /\ wanted' = {w \in wanted : w[1] # c}
    /\ UNCHANGED <<recovery, calls>> /\ UNCHANGED serviceVars /\ UNCHANGED proxyVars

RecoveryNext ==
    \/ ServiceDies \/ ServiceStarts \/ OnRemoteDied \/ SetServiceProxy
    \/ OnAddSystemAbility \/ TakeObservers \/ ReRegister \/ ReRegistered \/ CallbacksDone
    \/ \E t \in Threads : GetProxyCheck(t) \/ Acquire(t) \/ AddDeathRecipient(t) \/ StoreProxy(t)
    \/ \E c \in Controllers :
         \/ DropController(c)
         \/ \E id \in Observers, uri \in Uris : RegisterObserver(c, id, uri) \/ UnregisterObserver(c, id, uri)

----------------------------------------------------------------------------
Dead(e) == e # None /\ (e < epoch \/ ~up)

\* A proxy of a service that has died is cached only until its death is told, if
\* anything tells it: not if no death recipient stayed registered for that life, nor
\* if the service died before the proxy was stored, while a thread was obtaining it
\* or C++ was handing it over.
DeadProxyIsDropped ==
    Dead(service_proxy) /\ service_proxy \in watched => service_proxy \in notices \cup raced

\* The callback of a controller uses the raw address of the controller: it never
\* runs, and recovery never holds, a controller that was dropped.
CallbackUsesLiveController == ~recovery.on \/ recovery.left \cup recovery.at \subseteq alive

\* An observer that the application registered and did not unregister is never
\* lost, whatever register and unregister calls fall into a recovery: it is in
\* the map, or recovery is about to put it back.
RecoveryKeepsObservers ==
    \A w \in wanted :
        \/ <<w[2], w[3]>> \in observers[w[1]]
        \/ w[1] \in recovery.at /\ <<w[2], w[3]>> \in recovery.todo
=============================================================================
