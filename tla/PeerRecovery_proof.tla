-------------------------- MODULE PeerRecovery_proof --------------------------
(***************************************************************************)
(* Theorems about PeerRecovery, for any number of threads, controllers,    *)
(* observers, sessions and lives of the service, the extension and the     *)
(* provider, and about CallReporter, for any thresholds.  The components   *)
(* share no state, so each has its own inductive invariant, which the      *)
(* steps of the others leave alone.                                        *)
(***************************************************************************)
EXTENDS PeerRecovery, CallReporter, FiniteSetTheorems, SequenceTheorems, TLAPS

-----------------------------------------------------------------------------
(* The data service: the cached proxy *)

RecoveryPc == {"idle", "acquire", "acquired", "linked"}

ServiceType ==
    /\ epoch \in Nat \ {0} /\ up \in BOOLEAN
    /\ pc \in [RecoveryThreads -> RecoveryPc]
    /\ mine \in [RecoveryThreads -> Nat] /\ \A t \in RecoveryThreads : mine[t] <= epoch
    /\ service_proxy \in Nat /\ service_proxy <= epoch

Serving(e) == e = epoch /\ up

\* The remote a thread has obtained is that of the running service or its death is
\* on record; the death of the service whose proxy is cached is told or on record.
ProxyInv ==
    /\ \A t \in RecoveryThreads : pc[t] \in {"acquired", "linked"} => Serving(mine[t]) \/ mine[t] \in raced
    /\ Rec!DeadProxyIsDropped

ServiceInv == ServiceType /\ ProxyInv

LEMMA InitService == Rec!RecoveryInit => ServiceInv
<1> SUFFICES ASSUME Rec!RecoveryInit PROVE ServiceInv
    OBVIOUS
<1>1. ServiceType
    BY DEF Rec!RecoveryInit, Rec!None, ServiceType, RecoveryPc
<1>2. ProxyInv
    BY DEF Rec!RecoveryInit, Rec!None, ProxyInv, Serving, Rec!DeadProxyIsDropped, Rec!Dead
<1> QED
    BY <1>1, <1>2 DEF ServiceInv

LEMMA ServiceAlone ==
    ASSUME ServiceInv, UNCHANGED <<epoch, up, watched, notices, raced, service_proxy, pc, mine>>
    PROVE  ServiceInv'
BY DEF ServiceInv, ServiceType, ProxyInv, Serving, Rec!DeadProxyIsDropped, Rec!Dead

LEMMA ServiceDiesInv ==
    ASSUME ServiceInv, Rec!ServiceDies
    PROVE  ServiceInv'
<1>1. ServiceType /\ ProxyInv
    BY DEF ServiceInv
<1>2. /\ up /\ ~up' /\ UNCHANGED <<epoch, watched, service_proxy, pc, mine>>
      /\ notices' = notices \cup (watched \cap {epoch})
      /\ raced' = raced \cup {mine[t] : t \in {u \in RecoveryThreads : pc[u] \in {"acquired", "linked"}}}
    BY DEF Rec!ServiceDies, Rec!proxyVars
<1>3. ServiceType'
    BY <1>1, <1>2 DEF ServiceType, Rec!ServiceDies
<1>4. \A e : ~Serving(e)'
    BY <1>2 DEF Serving
<1>5. \A t \in RecoveryThreads : pc[t] \in {"acquired", "linked"} => mine[t] \in raced'
    BY <1>2
<1>6. Rec!DeadProxyIsDropped'
    <2>1. CASE Serving(service_proxy)
        BY <1>2, <2>1 DEF Serving, Rec!DeadProxyIsDropped
    <2>2. CASE ~Serving(service_proxy) /\ service_proxy # 0
        <3>1. service_proxy < epoch
            BY <1>1, <1>2, <2>2 DEF ServiceType, Serving
        <3>2. service_proxy \in watched => service_proxy \in notices \cup raced
            BY <1>1, <2>2, <3>1 DEF ProxyInv, Rec!DeadProxyIsDropped, Rec!Dead, Rec!None
        <3> QED
            BY <1>2, <3>2 DEF Rec!DeadProxyIsDropped
    <2>3. CASE service_proxy = 0
        BY <1>2, <2>3 DEF Rec!DeadProxyIsDropped, Rec!Dead, Rec!None
    <2> QED
        BY <2>1, <2>2, <2>3
<1>7. ProxyInv'
    BY <1>2, <1>4, <1>5, <1>6 DEF ProxyInv
<1> QED
    BY <1>3, <1>7 DEF ServiceInv

LEMMA ServiceStartsInv ==
    ASSUME ServiceInv, Rec!ServiceStarts
    PROVE  ServiceInv'
<1>1. ServiceType /\ ProxyInv
    BY DEF ServiceInv
<1>2. /\ ~up /\ up' = TRUE /\ epoch' = epoch + 1
      /\ UNCHANGED <<watched, notices, raced, service_proxy, pc, mine>>
    BY DEF Rec!ServiceStarts, Rec!proxyVars
<1>3. ServiceType'
    BY <1>1, <1>2 DEF ServiceType
<1>4. \A e \in Nat : e <= epoch => ~Serving(e) /\ ~Serving(e)'
    BY <1>1, <1>2 DEF ServiceType, Serving
<1>5. Rec!DeadProxyIsDropped'
    BY <1>1, <1>2 DEF ServiceType, ProxyInv, Rec!DeadProxyIsDropped, Rec!Dead
<1>6. ProxyInv'
    BY <1>1, <1>2, <1>4, <1>5 DEF ServiceType, ProxyInv
<1> QED
    BY <1>3, <1>6 DEF ServiceInv

\* A thread on its way from the lookup of the proxy to its store.
LEMMA GetProxyInv ==
    ASSUME ServiceInv, NEW t \in RecoveryThreads,
           Rec!GetProxyCheck(t) \/ Rec!Acquire(t) \/ Rec!AddDeathRecipient(t) \/ Rec!StoreProxy(t)
    PROVE  ServiceInv'
<1>1. ServiceType /\ ProxyInv
    BY DEF ServiceInv
<1>2. UNCHANGED <<epoch, up, notices, raced>>
    BY DEF Rec!GetProxyCheck, Rec!Acquire, Rec!AddDeathRecipient, Rec!StoreProxy, Rec!serviceVars
<1>3. \A e : Serving(e)' <=> Serving(e)
    BY <1>2 DEF Serving
<1>4. CASE Rec!GetProxyCheck(t)
    <2>1. ServiceType'
        BY <1>1, <1>2, <1>4 DEF ServiceType, RecoveryPc, Rec!GetProxyCheck
    <2>2. ProxyInv'
        BY <1>1, <1>2, <1>3, <1>4
        DEF ServiceType, ProxyInv, Rec!GetProxyCheck, Rec!serviceVars, Rec!DeadProxyIsDropped, Rec!Dead
    <2> QED
        BY <2>1, <2>2 DEF ServiceInv
<1>5. CASE Rec!Acquire(t)
    <2>1. UNCHANGED <<watched, service_proxy>>
        BY <1>5 DEF Rec!Acquire, Rec!serviceVars
    <2>2. CASE up
        <3>1. pc' = [pc EXCEPT ![t] = "acquired"] /\ mine' = [mine EXCEPT ![t] = epoch]
            BY <1>5, <2>2 DEF Rec!Acquire
        <3>2. Serving(epoch)
            BY <2>2 DEF Serving
        <3>3. ServiceType'
            BY <1>1, <1>2, <2>1, <3>1 DEF ServiceType, RecoveryPc
        <3>4. ProxyInv'
            BY <1>1, <1>2, <1>3, <2>1, <3>1, <3>2
            DEF ServiceType, ProxyInv, Rec!DeadProxyIsDropped, Rec!Dead
        <3> QED
            BY <3>3, <3>4 DEF ServiceInv
    <2>3. CASE ~up
        <3>1. pc' = [pc EXCEPT ![t] = "idle"] /\ mine' = [mine EXCEPT ![t] = 0]
            BY <1>5, <2>3 DEF Rec!Acquire, Rec!None
        <3>2. ServiceType'
            BY <1>1, <1>2, <2>1, <3>1 DEF ServiceType, RecoveryPc
        <3>3. ProxyInv'
            BY <1>1, <1>2, <1>3, <2>1, <3>1
            DEF ServiceType, ProxyInv, Rec!DeadProxyIsDropped, Rec!Dead
        <3> QED
            BY <3>2, <3>3 DEF ServiceInv
    <2> QED
        BY <2>2, <2>3
<1>6. CASE Rec!AddDeathRecipient(t)
    <2>1. /\ pc[t] = "acquired" /\ pc' = [pc EXCEPT ![t] = "linked"] /\ UNCHANGED <<service_proxy, mine>>
          /\ watched' = watched \/ (up /\ watched' = watched \cup {epoch})
        BY <1>6 DEF Rec!AddDeathRecipient
    <2>2. ServiceType'
        BY <1>1, <1>2, <2>1 DEF ServiceType, RecoveryPc
    <2>3. ProxyInv'
        BY <1>1, <1>2, <1>3, <2>1 DEF ServiceType, ProxyInv, Rec!DeadProxyIsDropped, Rec!Dead
    <2> QED
        BY <2>2, <2>3 DEF ServiceInv
<1>7. CASE Rec!StoreProxy(t)
    <2>1. /\ pc[t] = "linked" /\ pc' = [pc EXCEPT ![t] = "idle"] /\ mine' = [mine EXCEPT ![t] = 0]
          /\ service_proxy' = mine[t] /\ UNCHANGED watched
        BY <1>7 DEF Rec!StoreProxy, Rec!serviceVars, Rec!None
    <2>2. ServiceType'
        BY <1>1, <1>2, <2>1 DEF ServiceType, RecoveryPc
    <2>3. Serving(mine[t]) \/ mine[t] \in raced
        BY <1>1, <2>1 DEF ProxyInv
    <2>4. Rec!DeadProxyIsDropped'
        <3>1. CASE mine[t] \in raced
            BY <1>2, <2>1, <3>1 DEF Rec!DeadProxyIsDropped
        <3>2. CASE Serving(mine[t])
            BY <1>1, <1>2, <2>1, <3>2 DEF ServiceType, Serving, Rec!DeadProxyIsDropped, Rec!Dead
        <3> QED
            BY <2>3, <3>1, <3>2
    <2>5. ProxyInv'
        BY <1>1, <1>2, <1>3, <2>1, <2>4 DEF ServiceType, ProxyInv
    <2> QED
        BY <2>2, <2>5 DEF ServiceInv
<1> QED
    BY <1>4, <1>5, <1>6, <1>7

LEMMA SetServiceProxyInv ==
    ASSUME ServiceInv, Rec!SetServiceProxy
    PROVE  ServiceInv'
<1>1. ServiceType /\ ProxyInv
    BY DEF ServiceInv
<1>2. PICK e \in 1 .. epoch :
          /\ service_proxy' = e
          /\ raced' = raced \cup {d \in {e} : d < epoch \/ ~up}
          /\ UNCHANGED <<epoch, up, watched, notices, pc, mine>>
    BY DEF Rec!SetServiceProxy
<1>3. ServiceType'
    BY <1>1, <1>2 DEF ServiceType
<1>4. \A n : Serving(n)' <=> Serving(n)
    BY <1>2 DEF Serving
<1>5. Rec!DeadProxyIsDropped'
    BY <1>2 DEF Rec!DeadProxyIsDropped, Rec!Dead
<1>6. ProxyInv'
    BY <1>1, <1>2, <1>4, <1>5 DEF ProxyInv
<1> QED
    BY <1>3, <1>6 DEF ServiceInv

LEMMA OnRemoteDiedInv ==
    ASSUME ServiceInv, Rec!OnRemoteDied
    PROVE  ServiceInv'
<1>1. ServiceType /\ ProxyInv
    BY DEF ServiceInv
<1>2. UNCHANGED <<epoch, up, watched, raced, pc, mine>> /\ service_proxy' = 0
    BY DEF Rec!OnRemoteDied, Rec!None
<1>3. ServiceType'
    BY <1>1, <1>2 DEF ServiceType
<1>4. ~Serving(0)' /\ \A e : Serving(e)' <=> Serving(e)
    BY <1>1, <1>2 DEF Serving, ServiceType
<1>5. ProxyInv'
    BY <1>1, <1>2, <1>4 DEF ProxyInv, Rec!DeadProxyIsDropped, Rec!Dead, Rec!None
<1> QED
    BY <1>3, <1>5 DEF ServiceInv

LEMMA RecoveryService ==
    ASSUME ServiceInv, Rec!RecoveryNext
    PROVE  ServiceInv'
<1>1. CASE \/ Rec!OnAddSystemAbility \/ Rec!TakeObservers \/ Rec!ReRegister \/ Rec!ReRegistered
           \/ Rec!CallbacksDone
    BY <1>1, ServiceAlone
    DEF Rec!OnAddSystemAbility, Rec!TakeObservers, Rec!ReRegister, Rec!ReRegistered, Rec!CallbacksDone,
        Rec!serviceVars, Rec!proxyVars
<1>2. CASE \E c \in Controllers :
              \/ Rec!DropController(c)
              \/ \E id \in Observers, uri \in ObserverUris :
                     Rec!RegisterObserver(c, id, uri) \/ Rec!UnregisterObserver(c, id, uri)
    BY <1>2, ServiceAlone
    DEF Rec!DropController, Rec!RegisterObserver, Rec!UnregisterObserver, Rec!serviceVars, Rec!proxyVars
<1> QED
    BY <1>1, <1>2, ServiceDiesInv, ServiceStartsInv, SetServiceProxyInv, OnRemoteDiedInv, GetProxyInv
    DEF Rec!RecoveryNext
-----------------------------------------------------------------------------
(* The data service: controllers and their observers *)

ObserverPairs == Observers \X ObserverUris

ControllerType ==
    /\ recovery \in [on : BOOLEAN, left : SUBSET Controllers, at : SUBSET Controllers, todo : SUBSET ObserverPairs]
    /\ observers \in [Controllers -> SUBSET ObserverPairs]
    /\ observersWanted \in SUBSET (Controllers \X Observers \X ObserverUris)

\* Only controllers that are not dropped have a callback, and recovery is at one
\* of them at a time, which it keeps from being dropped.
LiveInv ==
    /\ recoveryCallbacks \subseteq alive /\ alive \subseteq Controllers
    /\ recovery.on \/ recovery = Rec!Idle
    /\ recovery.left \cup recovery.at \subseteq alive
    /\ \A c, d \in recovery.at : c = d

ControllerInv == ControllerType /\ LiveInv /\ Rec!RecoveryKeepsObservers

LEMMA InitController == Rec!RecoveryInit => ControllerInv
<1> SUFFICES ASSUME Rec!RecoveryInit PROVE ControllerInv
    OBVIOUS
<1>1. ControllerType
    BY DEF Rec!RecoveryInit, Rec!Idle, ControllerType
<1>2. LiveInv
    BY DEF Rec!RecoveryInit, Rec!Idle, LiveInv
<1> QED
    BY <1>1, <1>2 DEF Rec!RecoveryInit, Rec!RecoveryKeepsObservers, ControllerInv

LEMMA ControllerAlone ==
    ASSUME ControllerInv, UNCHANGED <<alive, recoveryCallbacks, recovery, observers, observersWanted>>
    PROVE  ControllerInv'
BY DEF ControllerInv, ControllerType, LiveInv, Rec!RecoveryKeepsObservers, Rec!Idle

RecoveryRecord ==
    [on : BOOLEAN, left : SUBSET Controllers, at : SUBSET Controllers, todo : SUBSET ObserverPairs]

LEMMA OnAddInv ==
    ASSUME ControllerInv, Rec!OnAddSystemAbility
    PROVE  ControllerInv'
<1>1. ControllerType /\ LiveInv /\ Rec!RecoveryKeepsObservers
    BY DEF ControllerInv
<1>2. /\ ~recovery.on /\ recovery' = [Rec!Idle EXCEPT !.on = TRUE, !.left = recoveryCallbacks]
      /\ UNCHANGED <<alive, recoveryCallbacks, observers, observersWanted>>
    BY DEF Rec!OnAddSystemAbility, Rec!CallbacksLocked
<1>3. recovery' = [on |-> TRUE, left |-> recoveryCallbacks, at |-> {}, todo |-> {}]
    BY <1>2 DEF Rec!Idle
<1>4. recovery.at = {}
    BY <1>1, <1>2 DEF LiveInv, Rec!Idle
<1>5. ControllerType'
    BY <1>1, <1>2, <1>3 DEF ControllerType, LiveInv
<1>6. LiveInv'
    BY <1>1, <1>2, <1>3 DEF LiveInv
<1>7. Rec!RecoveryKeepsObservers'
    BY <1>1, <1>2, <1>4 DEF Rec!RecoveryKeepsObservers
<1> QED
    BY <1>5, <1>6, <1>7 DEF ControllerInv

\* The steps of a recovery: each observer is in the map or about to be put back.
LEMMA RecoverInv ==
    ASSUME ControllerInv, Rec!TakeObservers \/ Rec!ReRegister \/ Rec!ReRegistered \/ Rec!CallbacksDone
    PROVE  ControllerInv'
<1>1. ControllerType /\ LiveInv /\ Rec!RecoveryKeepsObservers
    BY DEF ControllerInv
<1>2. recovery \in RecoveryRecord /\ UNCHANGED <<alive, recoveryCallbacks, observersWanted>>
    BY <1>1 DEF ControllerType, RecoveryRecord, Rec!TakeObservers, Rec!ReRegister, Rec!ReRegistered, Rec!CallbacksDone
<1>3. \A w \in observersWanted : w[1] \in Controllers
    BY <1>1 DEF ControllerType
<1>4. CASE Rec!TakeObservers
    <2>1. PICK c \in recovery.left :
              /\ recovery' = [recovery EXCEPT !.at = {c}, !.todo = observers[c], !.left = @ \ {c}]
              /\ observers' = [observers EXCEPT ![c] = {}]
        BY <1>4 DEF Rec!TakeObservers
    <2>2. recovery.on /\ recovery.at = {} /\ c \in Controllers /\ c \in alive
        BY <1>1, <1>4 DEF Rec!TakeObservers, LiveInv
    <2>3. /\ recovery'.on = recovery.on /\ recovery'.left = recovery.left \ {c}
          /\ recovery'.at = {c} /\ recovery'.todo = observers[c]
        BY <1>2, <2>1 DEF RecoveryRecord
    <2>4. recovery' \in RecoveryRecord /\ observers' \in [Controllers -> SUBSET ObserverPairs]
        BY <1>1, <1>2, <2>1, <2>2 DEF ControllerType, RecoveryRecord
    <2>5. ControllerType'
        BY <1>1, <1>2, <2>4 DEF ControllerType, RecoveryRecord
    <2>6. LiveInv'
        BY <1>1, <1>2, <2>2, <2>3 DEF LiveInv
    <2>7. \A d \in Controllers : d # c => observers'[d] = observers[d]
        BY <1>1, <2>1 DEF ControllerType
    <2>8. Rec!RecoveryKeepsObservers'
        BY <1>1, <1>2, <1>3, <2>2, <2>3, <2>7 DEF Rec!RecoveryKeepsObservers
    <2> QED
        BY <2>5, <2>6, <2>8 DEF ControllerInv
<1>5. CASE Rec!ReRegister
    <2>1. PICK c \in recovery.at, e \in recovery.todo :
              /\ observers' = [observers EXCEPT ![c] = @ \cup {e}]
              /\ recovery' = [recovery EXCEPT !.todo = @ \ {e}]
        BY <1>5 DEF Rec!ReRegister
    <2>2. c \in Controllers /\ e \in ObserverPairs /\ recovery.on
        BY <1>1, <1>2 DEF LiveInv, RecoveryRecord, Rec!Idle
    <2>3. /\ recovery'.on = recovery.on /\ recovery'.left = recovery.left
          /\ recovery'.at = recovery.at /\ recovery'.todo = recovery.todo \ {e}
        BY <1>2, <2>1 DEF RecoveryRecord
    <2>4. recovery' \in RecoveryRecord
        BY <1>2, <2>1 DEF RecoveryRecord
    <2>5. observers' \in [Controllers -> SUBSET ObserverPairs]
        BY <1>1, <2>1, <2>2 DEF ControllerType
    <2>6. ControllerType'
        BY <1>1, <1>2, <2>4, <2>5 DEF ControllerType, RecoveryRecord
    <2>7. LiveInv'
        BY <1>1, <1>2, <2>2, <2>3 DEF LiveInv
    <2>8. observers'[c] = observers[c] \cup {e} /\ \A d \in Controllers : d # c => observers'[d] = observers[d]
        BY <1>1, <2>1, <2>2 DEF ControllerType
    <2>9. \A d \in recovery.at : d = c
        BY <1>1 DEF LiveInv
    <2>10. Rec!RecoveryKeepsObservers'
        BY <1>1, <1>2, <1>3, <2>3, <2>8, <2>9 DEF Rec!RecoveryKeepsObservers
    <2> QED
        BY <2>6, <2>7, <2>10 DEF ControllerInv
<1>6. CASE Rec!ReRegistered
    <2>1. recovery.todo = {} /\ recovery.at # {} /\ recovery' = [recovery EXCEPT !.at = {}] /\ UNCHANGED observers
        BY <1>6 DEF Rec!ReRegistered
    <2>2. recovery.on
        BY <1>1, <2>1 DEF LiveInv, Rec!Idle
    <2>3. /\ recovery'.on = recovery.on /\ recovery'.left = recovery.left
          /\ recovery'.at = {} /\ recovery'.todo = recovery.todo
        BY <1>2, <2>1 DEF RecoveryRecord
    <2>4. recovery' \in RecoveryRecord
        BY <1>2, <2>1 DEF RecoveryRecord
    <2>5. ControllerType'
        BY <1>1, <1>2, <2>1, <2>4 DEF ControllerType, RecoveryRecord
    <2>6. LiveInv'
        BY <1>1, <1>2, <2>2, <2>3 DEF LiveInv
    <2>7. Rec!RecoveryKeepsObservers'
        BY <1>1, <1>2, <2>1 DEF Rec!RecoveryKeepsObservers
    <2> QED
        BY <2>5, <2>6, <2>7 DEF ControllerInv
<1>7. CASE Rec!CallbacksDone
    <2>1. recovery.at = {} /\ recovery' = Rec!Idle /\ UNCHANGED observers
        BY <1>7 DEF Rec!CallbacksDone
    <2>2. recovery' = [on |-> FALSE, left |-> {}, at |-> {}, todo |-> {}]
        BY <2>1 DEF Rec!Idle
    <2>3. ControllerType'
        BY <1>1, <1>2, <2>1, <2>2 DEF ControllerType
    <2>4. LiveInv'
        BY <1>1, <1>2, <2>2 DEF LiveInv, Rec!Idle
    <2>5. Rec!RecoveryKeepsObservers'
        BY <1>1, <1>2, <2>1 DEF Rec!RecoveryKeepsObservers
    <2> QED
        BY <2>3, <2>4, <2>5 DEF ControllerInv
<1> QED
    BY <1>4, <1>5, <1>6, <1>7

\* The application registers, unregisters and drops, a recovery under way or not.
LEMMA ApplicationInv ==
    ASSUME ControllerInv, NEW c \in Controllers, NEW id \in Observers, NEW uri \in ObserverUris,
           Rec!RegisterObserver(c, id, uri) \/ Rec!UnregisterObserver(c, id, uri)
    PROVE  ControllerInv'
<1>1. ControllerType /\ LiveInv /\ Rec!RecoveryKeepsObservers
    BY DEF ControllerInv
<1>2. UNCHANGED <<alive, recoveryCallbacks, recovery>>
    BY DEF Rec!RegisterObserver, Rec!UnregisterObserver
<1>3. LiveInv'
    BY <1>1, <1>2 DEF LiveInv, Rec!Idle
<1>4. <<id, uri>> \in ObserverPairs /\ <<c, id, uri>> \in Controllers \X Observers \X ObserverUris
    BY DEF ObserverPairs
<1>5. \A w \in observersWanted : w[1] \in Controllers /\ w = <<w[1], w[2], w[3]>>
    BY <1>1 DEF ControllerType
<1>6. CASE Rec!RegisterObserver(c, id, uri)
    <2>1. /\ observers' = [observers EXCEPT ![c] = @ \cup {<<id, uri>>}]
          /\ observersWanted' = observersWanted \cup {<<c, id, uri>>}
        BY <1>6 DEF Rec!RegisterObserver
    <2>2. /\ observers' \in [Controllers -> SUBSET ObserverPairs] /\ <<id, uri>> \in observers'[c]
          /\ \A d \in Controllers : observers[d] \subseteq observers'[d]
        BY <1>1, <1>4, <2>1 DEF ControllerType
    <2>3. ControllerType'
        BY <1>1, <1>2, <1>4, <2>1, <2>2 DEF ControllerType
    <2>4. ASSUME NEW w \in observersWanted'
          PROVE  \/ <<w[2], w[3]>> \in observers'[w[1]]
                 \/ w[1] \in recovery'.at /\ <<w[2], w[3]>> \in recovery'.todo
        <3>1. CASE w \in observersWanted
            BY <1>1, <1>2, <1>5, <2>2, <3>1 DEF Rec!RecoveryKeepsObservers
        <3>2. CASE w = <<c, id, uri>>
            BY <2>2, <3>2
        <3> QED
            BY <2>1, <3>1, <3>2
    <2>5. Rec!RecoveryKeepsObservers'
        BY <2>4 DEF Rec!RecoveryKeepsObservers
    <2> QED
        BY <1>3, <2>3, <2>5 DEF ControllerInv
<1>7. CASE Rec!UnregisterObserver(c, id, uri)
    <2>1. /\ observers' = [observers EXCEPT ![c] = @ \ {<<id, uri>>}]
          /\ observersWanted' = observersWanted \ {<<c, id, uri>>}
        BY <1>7 DEF Rec!UnregisterObserver
    <2>2. /\ observers' \in [Controllers -> SUBSET ObserverPairs]
          /\ observers'[c] = observers[c] \ {<<id, uri>>}
          /\ \A d \in Controllers : d # c => observers'[d] = observers[d]
        BY <1>1, <2>1 DEF ControllerType
    <2>3. ControllerType'
        BY <1>1, <1>2, <2>1, <2>2 DEF ControllerType
    <2>4. \A w \in observersWanted' : w[1] = c => <<w[2], w[3]>> # <<id, uri>>
        BY <1>5, <2>1
    <2>5. Rec!RecoveryKeepsObservers'
        BY <1>1, <1>2, <1>5, <2>1, <2>2, <2>4 DEF Rec!RecoveryKeepsObservers
    <2> QED
        BY <1>3, <2>3, <2>5 DEF ControllerInv
<1> QED
    BY <1>6, <1>7

LEMMA DropControllerInv ==
    ASSUME ControllerInv, NEW c \in Controllers, Rec!DropController(c)
    PROVE  ControllerInv'
<1>1. ControllerType /\ LiveInv /\ Rec!RecoveryKeepsObservers
    BY DEF ControllerInv
<1>2. /\ ~recovery.on /\ alive' = alive \ {c} /\ recoveryCallbacks' = recoveryCallbacks \ {c}
      /\ observers' = [observers EXCEPT ![c] = {}]
      /\ observersWanted' = {w \in observersWanted : w[1] # c} /\ UNCHANGED recovery
    BY DEF Rec!DropController, Rec!CallbacksLocked
<1>3. recovery.left = {} /\ recovery.at = {}
    BY <1>1, <1>2 DEF LiveInv, Rec!Idle
<1>4. /\ observers' \in [Controllers -> SUBSET ObserverPairs]
      /\ \A d \in Controllers : d # c => observers'[d] = observers[d]
    BY <1>1, <1>2 DEF ControllerType
<1>5. ControllerType'
    BY <1>1, <1>2, <1>4 DEF ControllerType
<1>6. LiveInv'
    BY <1>1, <1>2, <1>3 DEF LiveInv, Rec!Idle
<1>7. \A w \in observersWanted : w[1] \in Controllers
    BY <1>1 DEF ControllerType
<1>8. Rec!RecoveryKeepsObservers'
    BY <1>1, <1>2, <1>4, <1>7 DEF Rec!RecoveryKeepsObservers
<1> QED
    BY <1>5, <1>6, <1>8 DEF ControllerInv

LEMMA RecoveryController ==
    ASSUME ControllerInv, Rec!RecoveryNext
    PROVE  ControllerInv'
<1>1. CASE Rec!ServiceDies \/ Rec!ServiceStarts \/ Rec!OnRemoteDied \/ Rec!SetServiceProxy
    BY <1>1, ControllerAlone
    DEF Rec!ServiceDies, Rec!ServiceStarts, Rec!OnRemoteDied, Rec!SetServiceProxy, Rec!controllerVars
<1>2. CASE \E t \in RecoveryThreads :
              Rec!GetProxyCheck(t) \/ Rec!Acquire(t) \/ Rec!AddDeathRecipient(t) \/ Rec!StoreProxy(t)
    BY <1>2, ControllerAlone
    DEF Rec!GetProxyCheck, Rec!Acquire, Rec!AddDeathRecipient, Rec!StoreProxy, Rec!controllerVars
<1> QED
    BY <1>1, <1>2, OnAddInv, RecoverInv, ApplicationInv, DropControllerInv DEF Rec!RecoveryNext

-----------------------------------------------------------------------------
(* A provider hosted by a system ability *)

ProviderType ==
    /\ life \in Nat \ {0} /\ running \in BOOLEAN /\ crossed \in BOOLEAN
    /\ at \in [SaThreads -> {"idle", "info", "load", "ask", "link", "store"}]
    /\ saGot \in [SaThreads -> Nat] /\ \A t \in SaThreads : saGot[t] <= life
    /\ \A t \in SaThreads : at[t] \notin {"link", "store"} => saGot[t] = 0
    /\ saProxy \in Nat /\ saProxy <= life
    /\ \A n \in notice : n \in Nat /\ n <= life /\ ~Sa!Alive(n)

\* Unless a death came between: what a thread has been given is the provider that
\* runs, whose recipient is kept before and as long as its proxy is.
LinkedInv ==
    ~crossed =>
        /\ \A t \in SaThreads : at[t] \in {"link", "store"} => Sa!Alive(saGot[t])
        /\ \A t \in SaThreads : at[t] = "store" => death_handle = saGot[t]
        /\ Sa!Alive(saProxy) => death_handle = saProxy

ProviderInv == ProviderType /\ LinkedInv /\ Sa!DeadProviderIsForgotten

LEMMA InitProvider == Sa!SaInit => ProviderInv
<1> SUFFICES ASSUME Sa!SaInit PROVE ProviderInv
    OBVIOUS
<1>1. ProviderType
    <2>1. running \in BOOLEAN /\ crossed \in BOOLEAN
        BY DEF Sa!SaInit
    <2>2. /\ life = 1 /\ saProxy = 0 /\ notice = {} /\ saGot = [t \in SaThreads |-> 0]
          /\ at = [t \in SaThreads |-> "idle"]
        BY DEF Sa!SaInit
    <2>3. 1 \in Nat \ {0} /\ 0 \in Nat /\ 0 <= 1
        OBVIOUS
    <2> QED
        BY <2>1, <2>2, <2>3 DEF ProviderType
<1>2. LinkedInv
    BY DEF Sa!SaInit, LinkedInv, Sa!Alive
<1> QED
    BY <1>1, <1>2 DEF Sa!SaInit, Sa!DeadProviderIsForgotten, ProviderInv

\* A thread that connects, up to the answer of the provider.
LEMMA ConnectInv ==
    ASSUME ProviderInv, NEW t \in SaThreads,
           \/ Sa!GetOrConnect(t) \/ Sa!EnsureInterfaceInfo(t) \/ Sa!FetchInterfaceInfo(t)
           \/ Sa!ConnectToProvider(t)
    PROVE  ProviderInv'
<1>1. ProviderType /\ LinkedInv /\ Sa!DeadProviderIsForgotten
    BY DEF ProviderInv
<1>2. UNCHANGED <<life, running, notice, crossed, saProxy, death_handle>>
    BY DEF Sa!GetOrConnect, Sa!EnsureInterfaceInfo, Sa!FetchInterfaceInfo, Sa!ConnectToProvider, Sa!lifeVars,
           Sa!keptVars
<1>3. \A n : Sa!Alive(n)' <=> Sa!Alive(n)
    BY <1>2 DEF Sa!Alive
<1>4. Sa!DeadProviderIsForgotten'
    BY <1>1, <1>2, <1>3 DEF Sa!DeadProviderIsForgotten
<1>5. ASSUME NEW to \in {"idle", "info", "load"}, at[t] \in {"idle", "info", "ask"}, at' = [at EXCEPT ![t] = to],
             UNCHANGED saGot
      PROVE  ProviderInv'
    <2>1. ProviderType'
        BY <1>1, <1>2, <1>3, <1>5 DEF ProviderType
    <2>2. LinkedInv'
        BY <1>1, <1>2, <1>3, <1>5 DEF ProviderType, LinkedInv
    <2> QED
        BY <1>4, <2>1, <2>2 DEF ProviderInv
<1>6. ASSUME at' = [at EXCEPT ![t] = "link"], at[t] = "ask", running, saGot' = [saGot EXCEPT ![t] = life]
      PROVE  ProviderInv'
    <2>1. ProviderType'
        BY <1>1, <1>2, <1>3, <1>6 DEF ProviderType
    <2>2. Sa!Alive(life)
        BY <1>6 DEF Sa!Alive
    <2>3. LinkedInv'
        BY <1>1, <1>2, <1>3, <1>6, <2>2 DEF ProviderType, LinkedInv
    <2> QED
        BY <1>4, <2>1, <2>3 DEF ProviderInv
<1>7. CASE Sa!GetOrConnect(t)
    BY <1>5, <1>7 DEF Sa!GetOrConnect
<1>8. CASE Sa!EnsureInterfaceInfo(t)
    BY <1>5, <1>8 DEF Sa!EnsureInterfaceInfo, Sa!Step
<1>9. CASE Sa!FetchInterfaceInfo(t)
    BY <1>5, <1>9 DEF Sa!FetchInterfaceInfo, Sa!Step
<1>10. CASE Sa!ConnectToProvider(t)
    BY <1>5, <1>6, <1>10 DEF Sa!ConnectToProvider, Sa!Step
<1> QED
    BY <1>7, <1>8, <1>9, <1>10

\* A provider that is not running is started: nothing that was given before is of
\* its new life.
LEMMA LoadInv ==
    ASSUME ProviderInv, NEW t \in SaThreads, Sa!CheckAndLoadSA(t)
    PROVE  ProviderInv'
<1>1. ProviderType /\ LinkedInv /\ Sa!DeadProviderIsForgotten
    BY DEF ProviderInv
<1>2. UNCHANGED <<notice, crossed, saProxy, death_handle, saGot>> /\ at[t] = "load"
    BY DEF Sa!CheckAndLoadSA, Sa!keptVars, Sa!Step
<1>3. PICK to \in {"ask", "idle"} : at' = [at EXCEPT ![t] = to]
    BY DEF Sa!CheckAndLoadSA, Sa!Step
<1>4. CASE UNCHANGED <<life, running>>
    <2>1. \A n : Sa!Alive(n)' <=> Sa!Alive(n)
        BY <1>4 DEF Sa!Alive
    <2>2. ProviderType'
        BY <1>1, <1>2, <1>3, <1>4, <2>1 DEF ProviderType
    <2>3. LinkedInv' /\ Sa!DeadProviderIsForgotten'
        BY <1>1, <1>2, <1>3, <1>4, <2>1 DEF ProviderType, LinkedInv, Sa!DeadProviderIsForgotten
    <2> QED
        BY <2>2, <2>3 DEF ProviderInv
<1>5. CASE ~running /\ life' = life + 1 /\ running' = TRUE
    <2>1. life \in Nat
        BY <1>1 DEF ProviderType
    <2>2. \A n \in Nat : n <= life => ~Sa!Alive(n) /\ ~Sa!Alive(n)' /\ n <= life'
        BY <1>5, <2>1 DEF Sa!Alive
    <2>3. ProviderType'
        <3>1. life' \in Nat \ {0} /\ running' \in BOOLEAN
            BY <1>5, <2>1
        <3> QED
            BY <1>1, <1>2, <1>3, <2>2, <3>1 DEF ProviderType
    <2>4. LinkedInv' /\ Sa!DeadProviderIsForgotten'
        BY <1>1, <1>2, <1>3, <2>2 DEF ProviderType, LinkedInv, Sa!DeadProviderIsForgotten
    <2> QED
        BY <2>3, <2>4 DEF ProviderInv
<1> QED
    BY <1>4, <1>5 DEF Sa!CheckAndLoadSA

LEMMA LinkInv ==
    ASSUME ProviderInv, NEW t \in SaThreads, Sa!LinkToDeath(t)
    PROVE  ProviderInv'
<1>1. ProviderType /\ LinkedInv /\ Sa!DeadProviderIsForgotten
    BY DEF ProviderInv
<1>2. /\ at[t] = "link" /\ at' = [at EXCEPT ![t] = "store"] /\ UNCHANGED <<life, running, notice, crossed, saProxy, saGot>>
      /\ death_handle' = IF Sa!Alive(saGot[t]) THEN saGot[t] ELSE 0
    BY DEF Sa!LinkToDeath, Sa!Step, Sa!lifeVars
<1>3. \A n : Sa!Alive(n)' <=> Sa!Alive(n)
    BY <1>2 DEF Sa!Alive
<1>4. ProviderType'
    BY <1>1, <1>2, <1>3 DEF ProviderType
<1>5. ~crossed => death_handle' = saGot[t] /\ Sa!Alive(saGot[t])
    BY <1>1, <1>2 DEF LinkedInv
<1>6. \A m, n : Sa!Alive(m) /\ Sa!Alive(n) => m = n
    BY DEF Sa!Alive
<1>7. LinkedInv'
    BY <1>1, <1>2, <1>3, <1>5, <1>6 DEF ProviderType, LinkedInv
<1>8. Sa!DeadProviderIsForgotten'
    BY <1>1, <1>2, <1>3 DEF Sa!DeadProviderIsForgotten
<1> QED
    BY <1>4, <1>7, <1>8 DEF ProviderInv

LEMMA StoreInv ==
    ASSUME ProviderInv, NEW t \in SaThreads, Sa!StoreProxy(t)
    PROVE  ProviderInv'
<1>1. ProviderType /\ LinkedInv /\ Sa!DeadProviderIsForgotten
    BY DEF ProviderInv
<1>2. /\ at[t] = "store" /\ at' = [at EXCEPT ![t] = "idle"] /\ UNCHANGED <<life, running, notice, crossed, death_handle>>
      /\ saProxy' = saGot[t] /\ saGot' = [saGot EXCEPT ![t] = 0]
    BY DEF Sa!StoreProxy, Sa!Step, Sa!lifeVars
<1>3. \A n : Sa!Alive(n)' <=> Sa!Alive(n)
    BY <1>2 DEF Sa!Alive
<1>4. ProviderType'
    BY <1>1, <1>2, <1>3 DEF ProviderType
<1>5. ~crossed => death_handle = saGot[t] /\ Sa!Alive(saGot[t])
    BY <1>1, <1>2 DEF LinkedInv
<1>6. LinkedInv'
    BY <1>1, <1>2, <1>3, <1>5 DEF ProviderType, LinkedInv
<1>7. Sa!DeadProviderIsForgotten'
    BY <1>2, <1>3, <1>5 DEF Sa!DeadProviderIsForgotten
<1> QED
    BY <1>4, <1>6, <1>7 DEF ProviderInv

\* The provider dies: the recipient of the proxy that is kept will tell.
LEMMA ProviderDiesInv ==
    ASSUME ProviderInv, Sa!ProviderDies
    PROVE  ProviderInv'
<1>1. ProviderType /\ LinkedInv /\ Sa!DeadProviderIsForgotten
    BY DEF ProviderInv
<1>2. /\ running /\ running' = FALSE /\ notice' = notice \cup ({death_handle} \cap {life})
      /\ crossed' = (crossed \/ \E t \in SaThreads : saGot[t] = life)
      /\ UNCHANGED <<life, saProxy, death_handle, at, saGot>>
    BY DEF Sa!ProviderDies, Sa!keptVars, Sa!threadVars
<1>3. \A n : ~Sa!Alive(n)'
    BY <1>2 DEF Sa!Alive
<1>4. ProviderType'
    <2>1. running' \in BOOLEAN /\ crossed' \in BOOLEAN
        BY <1>2
    <2>2. \A n \in notice' : n \in Nat /\ n <= life /\ ~Sa!Alive(n)'
        BY <1>1, <1>2, <1>3 DEF ProviderType
    <2> QED
        BY <1>1, <1>2, <2>1, <2>2 DEF ProviderType
<1>5. ~crossed' => ~crossed /\ \A t \in SaThreads : at[t] \notin {"link", "store"}
    BY <1>1, <1>2 DEF LinkedInv, Sa!Alive
<1>6. LinkedInv'
    BY <1>2, <1>3, <1>5 DEF LinkedInv
<1>7. ASSUME saProxy # 0, ~crossed' PROVE saProxy \in notice'
    <2>1. CASE Sa!Alive(saProxy)
        <3>1. saProxy = life /\ death_handle = saProxy
            BY <1>1, <1>5, <1>7, <2>1 DEF LinkedInv, Sa!Alive
        <3> QED
            BY <1>2, <3>1
    <2>2. CASE ~Sa!Alive(saProxy)
        BY <1>1, <1>2, <1>5, <1>7, <2>2 DEF Sa!DeadProviderIsForgotten
    <2> QED
        BY <2>1, <2>2
<1>8. Sa!DeadProviderIsForgotten'
    BY <1>2, <1>7 DEF Sa!DeadProviderIsForgotten
<1> QED
    BY <1>4, <1>6, <1>8 DEF ProviderInv

\* The death is told; the handle that goes with it is the dead provider's, or the
\* loss is on record.
LEMMA ToldInv ==
    ASSUME ProviderInv, Sa!OnRemoteDied
    PROVE  ProviderInv'
<1>1. ProviderType /\ LinkedInv /\ Sa!DeadProviderIsForgotten
    BY DEF ProviderInv
<1>2. PICK n \in notice :
          /\ notice' = notice \ {n} /\ saProxy' = 0
          /\ death_handle' = IF route = "ffi" THEN 0 ELSE death_handle
          /\ crossed' = (crossed \/ (route = "ffi" /\ death_handle \notin {0, n}))
          /\ UNCHANGED <<life, running, at, saGot>>
    BY DEF Sa!OnRemoteDied, Sa!threadVars
<1>3. /\ \A m : Sa!Alive(m)' <=> Sa!Alive(m)
      /\ ~Sa!Alive(n) /\ ~Sa!Alive(0)
    BY <1>1, <1>2 DEF Sa!Alive, ProviderType
<1>4. ProviderType'
    BY <1>1, <1>2, <1>3 DEF ProviderType
<1>5. ASSUME ~crossed', NEW t \in SaThreads, at[t] = "store" PROVE death_handle' = saGot[t]
    <2>1. death_handle = saGot[t] /\ Sa!Alive(saGot[t])
        BY <1>1, <1>2, <1>5 DEF LinkedInv
    <2>2. death_handle \notin {0, n}
        BY <1>3, <2>1
    <2> QED
        BY <1>2, <1>5, <2>1, <2>2
<1>6. LinkedInv'
    BY <1>1, <1>2, <1>3, <1>5 DEF LinkedInv
<1>7. Sa!DeadProviderIsForgotten'
    BY <1>2 DEF Sa!DeadProviderIsForgotten
<1> QED
    BY <1>4, <1>6, <1>7 DEF ProviderInv

LEMMA SaProvider ==
    ASSUME ProviderInv, Sa!SaNext
    PROVE  ProviderInv'
BY ConnectInv, LoadInv, LinkInv, StoreInv, ProviderDiesInv, ToldInv DEF Sa!SaNext

LEMMA ProviderAlone ==
    ASSUME ProviderInv, UNCHANGED saVars
    PROVE  ProviderInv'
BY DEF ProviderInv, ProviderType, LinkedInv, Sa!DeadProviderIsForgotten, Sa!Alive, saVars

-----------------------------------------------------------------------------
(* The connection to an extension *)

WorkRecord ==
    [do : {"store", "on_connect", "connected", "register", "on_disconnect"}, s : Nat, todo : SUBSET ExtObservers]

ConnectionType ==
    /\ session \in Seq({"connecting", "connected", "closing", "closed"})
    /\ work \subseteq WorkRecord
    /\ overlap \in BOOLEAN
    /\ observer_exts_provider \subseteq ExtObservers

\* Only a thread that registers observers again holds any.
TodoInv == \A w \in work : w.do # "register" => w.todo = {}

\* While no session is opened beside another, the thread that has opened one is
\* the only one, and no other session is open until the handle is stored.
OneSession == overlap \/ \A s \in Conn!ToStore : Conn!Open \cup Conn!ToStore \subseteq {s}

\* A reconnection of a released connection counts in both counters.
CounterInv ==
    reconnects \in Nat /\ retries \in Nat /\ retries <= reconnects /\ reconnects <= MAX_RECONNECT

ConnectionInv ==
    /\ ConnectionType /\ TodoInv /\ OneSession /\ CounterInv
    /\ Conn!OpenSessionIsHeld /\ Conn!ReconnectKeepsObservers

LEMMA InitConnection == Conn!ConnInit => ConnectionInv
<1> SUFFICES ASSUME Conn!ConnInit PROVE ConnectionInv
    OBVIOUS
<1>1. ConnectionType /\ TodoInv
    <2>1. session = <<>> /\ work = {} /\ overlap = FALSE /\ observer_exts_provider = {}
        BY DEF Conn!ConnInit
    <2>2. session \in Seq({"connecting", "connected", "closing", "closed"})
        BY <2>1
    <2>3. overlap \in BOOLEAN
        BY <2>1
    <2> QED
        BY <2>1, <2>2, <2>3 DEF ConnectionType, TodoInv
<1>2. Conn!Open = {} /\ Conn!ToStore = {}
    BY DEF Conn!ConnInit, Conn!Open, Conn!ToStore
<1>3. OneSession /\ Conn!OpenSessionIsHeld
    BY <1>2 DEF OneSession, Conn!OpenSessionIsHeld
<1>4. CounterInv
    BY PeerRecoveryAssumption DEF Conn!ConnInit, CounterInv
<1>5. Conn!ReconnectKeepsObservers
    BY DEF Conn!ConnInit, Conn!ReconnectKeepsObservers
<1> QED
    BY <1>1, <1>3, <1>4, <1>5 DEF ConnectionInv

\* What a thread has to do, as a record.
LEMMA WorkFields ==
    ASSUME NEW do \in {"store", "on_connect", "connected", "register", "on_disconnect"}, NEW s \in Nat,
           NEW todo \in SUBSET ExtObservers
    PROVE  /\ Conn!Work(do, s, todo) \in WorkRecord
           /\ Conn!Work(do, s, todo).do = do /\ Conn!Work(do, s, todo).s = s
           /\ Conn!Work(do, s, todo).todo = todo
BY DEF Conn!Work, WorkRecord

SessionInv == OneSession /\ Conn!OpenSessionIsHeld

\* Sessions are closed, none is opened: what held the open ones holds the rest.
LEMMA SessionsKept ==
    ASSUME SessionInv, overlap' = overlap, Conn!ToStore' = Conn!ToStore, Conn!Open' \subseteq Conn!Open,
           connection_handle' = connection_handle \/ connection_handle \notin Conn!Open'
    PROVE  SessionInv'
BY DEF SessionInv, OneSession, Conn!OpenSessionIsHeld

\* The handles to be stored depend only on the threads that store one.
LEMMA StoringKept ==
    ASSUME \A w : w.do = "store" => (w \in work' <=> w \in work)
    PROVE  Conn!ToStore' = Conn!ToStore
BY DEF Conn!ToStore

\* A session is opened: the only one, or the overlap is on record.
LEMMA ConnectKept ==
    ASSUME ConnectionType, NEW done, Conn!ConnectExt(done)
    PROVE  /\ SessionInv' /\ session' \in Seq({"connecting", "connected", "closing", "closed"})
           /\ overlap' \in BOOLEAN /\ Len(session) + 1 \in Nat
           /\ work' = (work \ done) \cup {Conn!Work("store", Len(session) + 1, {})}
<1> DEFINE States == {"connecting", "connected", "closing", "closed"}
           s == Len(session) + 1
<1>1. session \in Seq(States) /\ overlap \in BOOLEAN
    BY DEF ConnectionType
<1>2. /\ session' = Append(session, "connecting")
      /\ work' = (work \ done) \cup {Conn!Work("store", s, {})}
      /\ overlap' = (overlap \/ Conn!Open # {} \/ Conn!ToStore # {})
    BY DEF Conn!ConnectExt
<1>3. session' \in Seq(States) /\ s \in Nat
    BY <1>1, <1>2
<1>4. DOMAIN session' = 1 .. s /\ DOMAIN session = 1 .. s - 1 /\ \A i \in 1 .. s - 1 : session'[i] = session[i]
    BY <1>1, <1>2
<1>5. \A i \in 1 .. s : i \in 1 .. s - 1 \/ i = s
    BY <1>3
<1>6. Conn!Open' \subseteq Conn!Open \cup {s}
    BY <1>4, <1>5 DEF Conn!Open
<1> HIDE DEF s
<1>7. Conn!Work("store", s, {}).do = "store" /\ Conn!Work("store", s, {}).s = s
    BY DEF Conn!Work
<1>8. s \in Conn!ToStore' /\ Conn!ToStore' \subseteq Conn!ToStore \cup {s}
    BY <1>2, <1>7 DEF Conn!ToStore
<1>9. SessionInv'
    BY <1>2, <1>6, <1>8 DEF SessionInv, OneSession, Conn!OpenSessionIsHeld
<1>10. overlap' \in BOOLEAN
    BY <1>1, <1>2
<1> QED
    BY <1>2, <1>3, <1>9, <1>10 DEF s

\* What is wanted stays, or is in the map, or still to be registered again.
LEMMA ObserversKept ==
    ASSUME Conn!ReconnectKeepsObservers, extWanted' \subseteq extWanted,
           observer_exts_provider \subseteq observer_exts_provider',
           \A w \in work : w.todo = {} \/ w \in work'
    PROVE  Conn!ReconnectKeepsObservers'
BY DEF Conn!ReconnectKeepsObservers

\* A caller of get_data_share_proxy, and the owner that releases the connection.
LEMMA CallerConnection ==
    ASSUME ConnectionInv, NEW t \in Callers,
           Conn!GetDataShareProxy(t) \/ Conn!CallerConnects(t) \/ Conn!CallerReturns(t)
    PROVE  ConnectionInv'
<1>1. /\ ConnectionType /\ TodoInv /\ SessionInv /\ CounterInv /\ Conn!ReconnectKeepsObservers
    BY DEF ConnectionInv, SessionInv
<1>2. CASE Conn!CallerConnects(t)
    <2>1. /\ Conn!ConnectExt({}) /\ UNCHANGED <<observer_exts_provider, extWanted, reconnects, retries>>
        BY <1>2 DEF Conn!CallerConnects
    <2>2. PICK s \in Nat : work' = work \cup {Conn!Work("store", s, {})}
        BY <1>1, <2>1, ConnectKept
    <2>3. ConnectionType' /\ SessionInv'
        BY <1>1, <2>1, <2>2, ConnectKept, WorkFields DEF ConnectionType
    <2>4. TodoInv'
        BY <1>1, <2>2, WorkFields DEF TodoInv
    <2>5. CounterInv'
        BY <1>1, <2>1 DEF CounterInv
    <2>6. Conn!ReconnectKeepsObservers'
        BY <1>1, <2>1, <2>2, ObserversKept
    <2> QED
        BY <2>3, <2>4, <2>5, <2>6 DEF ConnectionInv, SessionInv
<1>3. CASE Conn!GetDataShareProxy(t) \/ Conn!CallerReturns(t)
    BY <1>3
    DEF Conn!GetDataShareProxy, Conn!CallerReturns, ConnectionInv, ConnectionType, TodoInv, OneSession,
        CounterInv, Conn!OpenSessionIsHeld, Conn!ReconnectKeepsObservers, Conn!Open, Conn!ToStore
<1> QED
    BY <1>2, <1>3

LEMMA ConnectionAlone ==
    ASSUME ConnectionInv,
           UNCHANGED <<session, work, overlap, observer_exts_provider, connection_handle, reconnects, retries, extWanted>>
    PROVE  ConnectionInv'
BY DEF ConnectionInv, ConnectionType, TodoInv, OneSession, CounterInv, Conn!OpenSessionIsHeld,
       Conn!ReconnectKeepsObservers, Conn!Open, Conn!ToStore

-----------------------------------------------------------------------------
(* The steps of the ability manager and of the threads in the connection *)

\* The parts of ConnectionInv that do not speak of sessions.
RestInv == ConnectionType /\ TodoInv /\ CounterInv /\ Conn!ReconnectKeepsObservers

LEMMA TwoParts == ConnectionInv <=> RestInv /\ SessionInv
BY DEF ConnectionInv, RestInv, SessionInv

\* A session changes its state: at most the one that changes is opened or closed.
LEMMA SessionExcept ==
    ASSUME ConnectionType, NEW s, NEW v \in {"connecting", "connected", "closing", "closed"},
           session' = [session EXCEPT ![s] = v]
    PROVE  /\ session' \in Seq({"connecting", "connected", "closing", "closed"})
           /\ s \in Conn!Open \/ v \in {"closing", "closed"} => Conn!Open' \subseteq Conn!Open
           /\ v \in {"closing", "closed"} => s \notin Conn!Open'
<1> DEFINE States == {"connecting", "connected", "closing", "closed"}
<1>1. session \in Seq(States)
    BY DEF ConnectionType
<1>2. DOMAIN session' = DOMAIN session /\ \A i \in DOMAIN session : session'[i] = IF i = s THEN v ELSE session[i]
    BY <1>1
<1>3. session' \in Seq(States)
    <2>1. Len(session) \in Nat /\ session \in [1 .. Len(session) -> States]
        BY <1>1
    <2>2. session' \in [1 .. Len(session) -> States]
        BY <2>1
    <2> HIDE DEF States
    <2> QED
        BY <2>1, <2>2
<1>4. s \in Conn!Open \/ v \in {"closing", "closed"} => Conn!Open' \subseteq Conn!Open
    BY <1>2 DEF Conn!Open
<1>5. v \in {"closing", "closed"} => s \notin Conn!Open'
    BY <1>2 DEF Conn!Open
<1> QED
    BY <1>3, <1>4, <1>5

\* What a thread has to do is done and replaced by what it does next, which is
\* neither the store of a handle nor a registration.
LEMMA WorkReplaced ==
    ASSUME RestInv, NEW done, NEW do \in {"on_connect", "connected", "on_disconnect"}, NEW s \in Nat,
           \A w \in done : w \in work => w.todo = {} /\ w.do # "store",
           work' = (work \ done) \cup {Conn!Work(do, s, {})},
           session' \in Seq({"connecting", "connected", "closing", "closed"}),
           UNCHANGED <<overlap, observer_exts_provider, extWanted, reconnects, retries>>
    PROVE  RestInv' /\ Conn!ToStore' = Conn!ToStore
<1>1. ConnectionType /\ TodoInv /\ CounterInv /\ Conn!ReconnectKeepsObservers
    BY DEF RestInv
<1> DEFINE new == Conn!Work(do, s, {})
<1>2. new \in WorkRecord /\ new.do = do /\ new.todo = {}
    BY WorkFields
<1> HIDE DEF new
<1>3. work' = (work \ done) \cup {new}
    BY DEF new
<1>4. ConnectionType'
    BY <1>1, <1>2, <1>3 DEF ConnectionType
<1>5. TodoInv'
    BY <1>1, <1>2, <1>3 DEF TodoInv
<1>6. CounterInv'
    BY <1>1 DEF CounterInv
<1>7. Conn!ReconnectKeepsObservers'
    BY <1>1, <1>3, ObserversKept
<1>8. Conn!ToStore' = Conn!ToStore
    <2>1. \A w : w.do = "store" => (w \in work' <=> w \in work)
        BY <1>2, <1>3
    <2> QED
        BY <2>1, StoringKept
<1> QED
    BY <1>4, <1>5, <1>6, <1>7, <1>8 DEF RestInv

\* What a thread had to do is done; it held no observer.
LEMMA WorkDone ==
    ASSUME RestInv, NEW w \in work, w.todo = {}, work' = work \ {w},
           session' \in Seq({"connecting", "connected", "closing", "closed"}),
           UNCHANGED <<overlap, observer_exts_provider, extWanted>>, CounterInv'
    PROVE  RestInv'
<1>1. ConnectionType /\ TodoInv /\ Conn!ReconnectKeepsObservers
    BY DEF RestInv
<1>2. ConnectionType' /\ TodoInv'
    BY <1>1 DEF ConnectionType, TodoInv
<1>3. Conn!ReconnectKeepsObservers'
    BY <1>1, ObserversKept
<1> QED
    BY <1>2, <1>3 DEF RestInv

LEMMA AmsConnection ==
    ASSUME ConnectionInv, NEW s \in DOMAIN session, Conn!AmsConnects(s) \/ Conn!AmsDisconnects(s)
    PROVE  ConnectionInv'
<1>1. RestInv /\ SessionInv /\ ConnectionType
    BY TwoParts DEF RestInv
<1>2. s \in Nat
    BY <1>1 DEF ConnectionType
<1>3. UNCHANGED <<connection_handle, overlap, observer_exts_provider, extWanted, reconnects, retries>>
    BY DEF Conn!AmsConnects, Conn!AmsDisconnects
<1>4. CASE Conn!AmsConnects(s)
    <2>1. /\ s \in Conn!Open /\ session' = [session EXCEPT ![s] = "connected"]
          /\ work' = (work \ {}) \cup {Conn!Work("on_connect", s, {})}
        BY <1>4 DEF Conn!AmsConnects, Conn!Open
    <2>2. Conn!Open' \subseteq Conn!Open /\ session' \in Seq({"connecting", "connected", "closing", "closed"})
        BY <1>1, <2>1, SessionExcept
    <2>3. RestInv' /\ Conn!ToStore' = Conn!ToStore
        BY <1>1, <1>2, <1>3, <2>1, <2>2, WorkReplaced
    <2>4. SessionInv'
        BY <1>1, <1>3, <2>2, <2>3, SessionsKept
    <2> QED
        BY <2>3, <2>4 DEF ConnectionInv, RestInv, SessionInv
<1>5. CASE Conn!AmsDisconnects(s)
    <2>1. /\ session' = [session EXCEPT ![s] = "closed"]
          /\ work' = (work \ {}) \cup {Conn!Work("on_disconnect", s, {})}
        BY <1>5 DEF Conn!AmsDisconnects
    <2>2. Conn!Open' \subseteq Conn!Open /\ session' \in Seq({"connecting", "connected", "closing", "closed"})
        BY <1>1, <2>1, SessionExcept
    <2>3. RestInv' /\ Conn!ToStore' = Conn!ToStore
        <3>1. PICK do \in {"on_connect", "connected", "on_disconnect"} : work' = (work \ {}) \cup {Conn!Work(do, s, {})}
            BY <2>1
        <3>2. PICK done : done = {} /\ work' = (work \ done) \cup {Conn!Work(do, s, {})}
            BY <3>1
        <3>3. \A w \in done : w \in work => w.todo = {} /\ w.do # "store"
            BY <3>2
        <3> QED
            BY <1>1, <1>2, <1>3, <2>2, <3>2, <3>3, WorkReplaced
    <2>4. SessionInv'
        BY <1>1, <1>3, <2>2, <2>3, SessionsKept
    <2> QED
        BY <2>3, <2>4 DEF ConnectionInv, RestInv, SessionInv
<1> QED
    BY <1>4, <1>5

\* The handle is stored: without an overlap its session is the only open one.
LEMMA StoreConnection ==
    ASSUME ConnectionInv, NEW w \in work, Conn!StoreHandle(w)
    PROVE  ConnectionInv'
<1>1. RestInv /\ SessionInv /\ ConnectionType /\ TodoInv /\ CounterInv
    BY TwoParts DEF RestInv
<1>2. /\ w.do = "store" /\ connection_handle' = w.s /\ work' = work \ {w}
      /\ UNCHANGED <<session, overlap, observer_exts_provider, extWanted, reconnects, retries>>
    BY DEF Conn!StoreHandle
<1>3. w.todo = {} /\ CounterInv' /\ session' \in Seq({"connecting", "connected", "closing", "closed"})
    BY <1>1, <1>2 DEF TodoInv, CounterInv, ConnectionType
<1>4. RestInv'
    BY <1>1, <1>2, <1>3, WorkDone
<1>5. Conn!Open' = Conn!Open /\ w.s \in Conn!ToStore /\ Conn!ToStore' \subseteq Conn!ToStore
    BY <1>2 DEF Conn!Open, Conn!ToStore
<1>6. SessionInv'
    BY <1>1, <1>2, <1>5 DEF SessionInv, OneSession, Conn!OpenSessionIsHeld
<1> QED
    BY <1>4, <1>6 DEF ConnectionInv, RestInv, SessionInv

LEMMA OnConnectConnection ==
    ASSUME ConnectionInv, NEW w \in work, Conn!OnConnectFfi(w)
    PROVE  ConnectionInv'
<1>1. RestInv /\ SessionInv /\ ConnectionType /\ TodoInv /\ CounterInv
    BY TwoParts DEF RestInv
<1>2. /\ w.do = "on_connect"
      /\ work' = (work \ {w}) \cup {Conn!Work("connected", w.s, {})} \/ work' = work \ {w}
      /\ UNCHANGED <<session, connection_handle, overlap, observer_exts_provider, extWanted, reconnects, retries>>
    BY DEF Conn!OnConnectFfi
<1>3. /\ w.todo = {} /\ w.s \in Nat /\ CounterInv'
      /\ session' \in Seq({"connecting", "connected", "closing", "closed"})
    BY <1>1, <1>2 DEF TodoInv, CounterInv, ConnectionType, WorkRecord
<1>4. RestInv' /\ Conn!ToStore' = Conn!ToStore
    <2>1. CASE work' = (work \ {w}) \cup {Conn!Work("connected", w.s, {})}
        BY <1>1, <1>2, <1>3, <2>1, WorkReplaced
    <2>2. CASE work' = work \ {w}
        <3>1. RestInv'
            BY <1>1, <1>2, <1>3, <2>2, WorkDone
        <3>2. \A v : v.do = "store" => (v \in work' <=> v \in work)
            BY <1>2, <2>2
        <3> QED
            BY <3>1, <3>2, StoringKept
    <2> QED
        BY <1>2, <2>1, <2>2
<1>5. Conn!Open' = Conn!Open
    BY <1>2 DEF Conn!Open
<1>6. SessionInv'
    BY <1>1, <1>2, <1>4, <1>5, SessionsKept
<1> QED
    BY <1>4, <1>6 DEF ConnectionInv, RestInv, SessionInv

\* The session of the stored handle is closed with the handle.
LEMMA CloseKept ==
    ASSUME ConnectionType, Conn!CloseHandle
    PROVE  /\ session' \in Seq({"connecting", "connected", "closing", "closed"})
           /\ Conn!Open' \subseteq Conn!Open
           /\ connection_handle \notin Conn!Open'
<1>1. CASE session' = [session EXCEPT ![connection_handle] = "closing"]
    BY <1>1, SessionExcept
<1>2. CASE session' = session /\ ~ (connection_handle # Conn!None /\ session[connection_handle] \in {"connecting", "connected"})
    <2>1. Conn!Open' = Conn!Open
        BY <1>2 DEF Conn!Open
    <2>2. connection_handle \notin Conn!Open
        <3>1. \A i \in DOMAIN session : i # 0
            BY DEF ConnectionType
        <3> QED
            BY <1>2, <3>1 DEF Conn!Open, Conn!None
    <2> QED
        BY <1>2, <2>1, <2>2 DEF ConnectionType
<1> QED
    BY <1>1, <1>2 DEF Conn!CloseHandle

LEMMA DisconnectKept ==
    ASSUME ConnectionType, Conn!Disconnect
    PROVE  /\ session' \in Seq({"connecting", "connected", "closing", "closed"})
           /\ Conn!Open' \subseteq Conn!Open
           /\ connection_handle' = connection_handle \/ connection_handle \notin Conn!Open'
<1>1. CASE UNCHANGED <<connection_handle, session>>
    BY <1>1 DEF ConnectionType, Conn!Open
<1>2. CASE Conn!CloseHandle
    BY <1>2, CloseKept
<1> QED
    BY <1>1, <1>2 DEF Conn!Disconnect

LEMMA ConnectDoneConnection ==
    ASSUME ConnectionInv, NEW w \in work, Conn!OnAbilityConnectDone(w)
    PROVE  ConnectionInv'
<1>1. RestInv /\ SessionInv /\ ConnectionType /\ TodoInv /\ CounterInv /\ Conn!ReconnectKeepsObservers
    BY TwoParts DEF RestInv
<1>2. w.do = "connected" /\ UNCHANGED <<overlap, extWanted, reconnects, retries>>
    BY DEF Conn!OnAbilityConnectDone
<1>3. w.todo = {} /\ w.s \in Nat /\ CounterInv'
    BY <1>1, <1>2 DEF TodoInv, CounterInv, ConnectionType, WorkRecord
<1>4. ASSUME work' = work \ {w}, UNCHANGED observer_exts_provider,
             session' \in Seq({"connecting", "connected", "closing", "closed"}), Conn!Open' \subseteq Conn!Open,
             connection_handle' = connection_handle \/ connection_handle \notin Conn!Open'
      PROVE  ConnectionInv'
    <2>1. RestInv'
        BY <1>1, <1>2, <1>3, <1>4, WorkDone
    <2>2. \A v : v.do = "store" => (v \in work' <=> v \in work)
        BY <1>2, <1>4
    <2>3. SessionInv'
        BY <1>1, <1>2, <1>4, <2>2, SessionsKept, StoringKept
    <2> QED
        BY <2>1, <2>3 DEF ConnectionInv, RestInv, SessionInv
<1>5. CASE Conn!Disconnect /\ work' = work \ {w} /\ UNCHANGED observer_exts_provider
    BY <1>1, <1>4, <1>5, DisconnectKept
<1>6. CASE work' = work \ {w} /\ UNCHANGED <<connection_handle, session, observer_exts_provider>>
    BY <1>1, <1>4, <1>6 DEF ConnectionType, Conn!Open
<1>7. CASE /\ work' = (work \ {w}) \cup {Conn!Work("register", w.s, observer_exts_provider)}
           /\ observer_exts_provider' = {} /\ UNCHANGED <<connection_handle, session>>
    <2> DEFINE new == Conn!Work("register", w.s, observer_exts_provider)
    <2>1. observer_exts_provider \subseteq ExtObservers
        BY <1>1 DEF ConnectionType
    <2>2. new \in WorkRecord /\ new.do = "register" /\ new.todo = observer_exts_provider
        BY <1>3, <2>1, WorkFields
    <2> HIDE DEF new
    <2>3. work' = (work \ {w}) \cup {new}
        BY <1>7 DEF new
    <2>4. ConnectionType' /\ TodoInv'
        BY <1>1, <1>2, <1>7, <2>2, <2>3 DEF ConnectionType, TodoInv
    <2>5. Conn!ReconnectKeepsObservers'
        BY <1>1, <1>2, <1>3, <2>2, <2>3 DEF Conn!ReconnectKeepsObservers
    <2>6. \A v : v.do = "store" => (v \in work' <=> v \in work)
        BY <1>2, <2>2, <2>3
    <2>7. Conn!Open' = Conn!Open
        BY <1>7 DEF Conn!Open
    <2>8. SessionInv'
        BY <1>1, <1>2, <1>7, <2>6, <2>7, SessionsKept, StoringKept
    <2> QED
        BY <1>3, <2>4, <2>5, <2>8 DEF ConnectionInv, SessionInv
<1> QED
    BY <1>5, <1>6, <1>7 DEF Conn!OnAbilityConnectDone
\* One observer is registered again, or refused, and no longer to be registered.
LEMMA ReRegisterConnection ==
    ASSUME ConnectionInv, NEW w \in work, Conn!ReRegisterObserver(w)
    PROVE  ConnectionInv'
<1>1. RestInv /\ SessionInv /\ ConnectionType /\ TodoInv /\ CounterInv /\ Conn!ReconnectKeepsObservers
    BY TwoParts DEF RestInv
<1>2. PICK o \in w.todo :
          /\ w.do = "register" /\ work' = (work \ {w}) \cup {[w EXCEPT !.todo = @ \ {o}]}
          /\ \/ observer_exts_provider' = observer_exts_provider \cup {o} /\ extWanted' = extWanted
             \/ extWanted' = extWanted \ {o} /\ observer_exts_provider' = observer_exts_provider
          /\ UNCHANGED <<session, connection_handle, overlap, reconnects, retries>>
    BY DEF Conn!ReRegisterObserver
<1> DEFINE new == [w EXCEPT !.todo = @ \ {o}]
<1>3. w \in WorkRecord /\ w.todo \subseteq ExtObservers
    BY <1>1 DEF ConnectionType, WorkRecord
<1>4. new \in WorkRecord /\ new.do = "register" /\ new.todo = w.todo \ {o}
    BY <1>2, <1>3 DEF WorkRecord
<1> HIDE DEF new
<1>5. work' = (work \ {w}) \cup {new}
    BY <1>2 DEF new
<1>6. ConnectionType' /\ TodoInv'
    <2>1. observer_exts_provider' \subseteq ExtObservers
        BY <1>1, <1>2, <1>3 DEF ConnectionType
    <2>2. work' \subseteq WorkRecord
        BY <1>1, <1>4, <1>5 DEF ConnectionType
    <2>3. ConnectionType'
        BY <1>1, <1>2, <2>1, <2>2 DEF ConnectionType
    <2> QED
        BY <1>1, <1>4, <1>5, <2>3 DEF TodoInv
<1>7. Conn!ReconnectKeepsObservers'
    <2>1. \A p \in extWanted' : p \in observer_exts_provider' \/ \E v \in work' : p \in v.todo
        BY <1>1, <1>2, <1>4, <1>5 DEF Conn!ReconnectKeepsObservers
    <2> QED
        BY <2>1 DEF Conn!ReconnectKeepsObservers
<1>8. CounterInv'
    BY <1>1, <1>2 DEF CounterInv
<1>9. \A v : v.do = "store" => (v \in work' <=> v \in work)
    BY <1>2, <1>4, <1>5
<1>10. Conn!Open' = Conn!Open
    BY <1>2 DEF Conn!Open
<1>11. SessionInv'
    BY <1>1, <1>2, <1>9, <1>10, SessionsKept, StoringKept
<1> QED
    BY <1>6, <1>7, <1>8, <1>11 DEF ConnectionInv, SessionInv

\* All are registered again: the counters are reset.
LEMMA ReconnectedConnection ==
    ASSUME ConnectionInv, NEW w \in work, Conn!Reconnected(w)
    PROVE  ConnectionInv'
<1>1. RestInv /\ SessionInv /\ ConnectionType
    BY TwoParts DEF RestInv
<1>2. /\ w.do = "register" /\ w.todo = {} /\ work' = work \ {w} /\ reconnects' = 0 /\ retries' = 0
      /\ UNCHANGED <<session, connection_handle, overlap, observer_exts_provider, extWanted>>
    BY DEF Conn!Reconnected
<1>3. CounterInv'
    BY <1>2, PeerRecoveryAssumption DEF CounterInv
<1>4. RestInv'
    BY <1>1, <1>2, <1>3, WorkDone DEF ConnectionType
<1>5. \A v : v.do = "store" => (v \in work' <=> v \in work)
    BY <1>2
<1>6. Conn!Open' = Conn!Open
    BY <1>2 DEF Conn!Open
<1>7. SessionInv'
    BY <1>1, <1>2, <1>5, <1>6, SessionsKept, StoringKept
<1> QED
    BY <1>4, <1>7 DEF ConnectionInv, RestInv, SessionInv

\* A session is opened, by a caller, a callback or a task.
LEMMA OpenedConnection ==
    ASSUME RestInv, NEW done, \A w \in done : w.todo = {}, Conn!ConnectExt(done), CounterInv',
           UNCHANGED <<observer_exts_provider, extWanted>>
    PROVE  ConnectionInv'
<1>1. ConnectionType /\ TodoInv /\ Conn!ReconnectKeepsObservers
    BY DEF RestInv
<1>2. PICK s \in Nat : work' = (work \ done) \cup {Conn!Work("store", s, {})}
    BY <1>1, ConnectKept
<1>3. PICK new : work' = (work \ done) \cup {new} /\ new = Conn!Work("store", s, {})
    BY <1>2
<1>4. new \in WorkRecord /\ new.todo = {}
    BY <1>3, WorkFields
<1>5. work' \subseteq WorkRecord /\ TodoInv'
    BY <1>1, <1>3, <1>4 DEF ConnectionType, TodoInv
<1>6. ConnectionType' /\ SessionInv'
    BY <1>1, <1>5, ConnectKept DEF ConnectionType
<1>7. Conn!ReconnectKeepsObservers'
    BY <1>1, <1>3, ObserversKept
<1> QED
    BY <1>5, <1>6, <1>7 DEF ConnectionInv, SessionInv

\* A session is lost: it is opened again at once, by a task, or not at all.
LEMMA OnDisconnectConnection ==
    ASSUME ConnectionInv, NEW w \in work, Conn!OnDisconnectFfi(w)
    PROVE  ConnectionInv'
<1>1. RestInv /\ SessionInv /\ ConnectionType /\ TodoInv /\ CounterInv
    BY TwoParts DEF RestInv
<1>2. w.do = "on_disconnect" /\ UNCHANGED <<connection_handle, observer_exts_provider, extWanted>>
    BY DEF Conn!OnDisconnectFfi
<1>3. w.todo = {}
    BY <1>1, <1>2 DEF TodoInv
<1>4. CASE reconnects = 0 /\ reconnects' = 1 /\ Conn!ConnectExt({w}) /\ Conn!CountRetry
    <2>1. retries' \in {retries, retries + 1}
        BY <1>4 DEF Conn!CountRetry
    <2>2. CounterInv'
        BY <1>1, <1>4, <2>1, PeerRecoveryAssumption DEF CounterInv
    <2> QED
        BY <1>1, <1>2, <1>3, <1>4, <2>2, OpenedConnection
<1>5. CASE /\ CounterInv' /\ work' = work \ {w} /\ UNCHANGED <<session, overlap>>
    <2>1. RestInv'
        BY <1>1, <1>2, <1>3, <1>5, WorkDone DEF ConnectionType
    <2>2. \A v : v.do = "store" => (v \in work' <=> v \in work)
        BY <1>2, <1>5
    <2>3. Conn!Open' = Conn!Open
        BY <1>5 DEF Conn!Open
    <2>4. SessionInv'
        BY <1>1, <1>2, <1>5, <2>2, <2>3, SessionsKept, StoringKept
    <2> QED
        BY <2>1, <2>4 DEF ConnectionInv, RestInv, SessionInv
<1>6. CASE reconnects < MAX_RECONNECT /\ reconnects' = reconnects + 1 /\ Conn!CountRetry
           /\ work' = work \ {w} /\ UNCHANGED <<session, overlap>>
    <2>1. retries' \in {retries, retries + 1}
        BY <1>6 DEF Conn!CountRetry
    <2>2. CounterInv'
        BY <1>1, <1>6, <2>1, PeerRecoveryAssumption DEF CounterInv
    <2> QED
        BY <1>5, <1>6, <2>2
<1>7. CASE UNCHANGED <<reconnects, session, overlap, retries>> /\ work' = work \ {w}
    <2>1. CounterInv'
        BY <1>1, <1>7 DEF CounterInv
    <2> QED
        BY <1>5, <1>7, <2>1
<1> QED
    BY <1>4, <1>6, <1>7 DEF Conn!OnDisconnectFfi

\* A task wakes; after the drop the session it opens is on record as an overlap.
LEMMA TaskConnection ==
    ASSUME ConnectionInv, Conn!TaskWakes
    PROVE  ConnectionInv'
<1>1. RestInv /\ SessionInv /\ ConnectionType /\ TodoInv /\ CounterInv /\ Conn!ReconnectKeepsObservers
    BY TwoParts DEF RestInv
<1>2. UNCHANGED <<connection_handle, observer_exts_provider, extWanted, reconnects, retries>>
    BY DEF Conn!TaskWakes
<1>3. CounterInv'
    BY <1>1, <1>2 DEF CounterInv
<1>4. CASE Conn!ConnectExt({})
    BY <1>1, <1>2, <1>3, <1>4, OpenedConnection
<1>5. CASE session' = Append(session, "connecting") /\ overlap' = TRUE /\ UNCHANGED work
    <2>1. session' \in Seq({"connecting", "connected", "closing", "closed"})
        BY <1>1, <1>5 DEF ConnectionType
    <2>2. overlap' \in BOOLEAN /\ SessionInv'
        BY <1>5 DEF SessionInv, OneSession, Conn!OpenSessionIsHeld
    <2>3. ConnectionType' /\ TodoInv'
        BY <1>1, <1>2, <1>5, <2>1, <2>2 DEF ConnectionType, TodoInv
    <2>4. Conn!ReconnectKeepsObservers'
        BY <1>1, <1>2, <1>5, ObserversKept
    <2> QED
        BY <1>3, <2>2, <2>3, <2>4 DEF ConnectionInv, SessionInv
<1> QED
    BY <1>4, <1>5 DEF Conn!TaskWakes

\* The owner closes the session and drops the connection.
LEMMA OwnerConnection ==
    ASSUME ConnectionInv, Conn!SetConnectInvalid \/ Conn!OwnerDisconnects \/ Conn!DropConnection
    PROVE  ConnectionInv'
<1>1. RestInv /\ SessionInv /\ ConnectionType /\ TodoInv /\ CounterInv /\ Conn!ReconnectKeepsObservers
    BY TwoParts DEF RestInv
<1>2. CASE Conn!SetConnectInvalid
    BY <1>2, ConnectionAlone DEF Conn!SetConnectInvalid
<1>3. CASE Conn!OwnerDisconnects \/ Conn!DropConnection
    <2>1. UNCHANGED <<work, overlap, observer_exts_provider, extWanted, reconnects, retries>>
        BY <1>3 DEF Conn!OwnerDisconnects, Conn!DropConnection
    <2>2. /\ session' \in Seq({"connecting", "connected", "closing", "closed"})
          /\ Conn!Open' \subseteq Conn!Open
          /\ connection_handle' = connection_handle \/ connection_handle \notin Conn!Open'
        BY <1>1, <1>3, DisconnectKept, CloseKept DEF Conn!OwnerDisconnects, Conn!DropConnection
    <2>3. ConnectionType' /\ TodoInv' /\ CounterInv'
        BY <1>1, <2>1, <2>2 DEF ConnectionType, TodoInv, CounterInv
    <2>4. Conn!ToStore' = Conn!ToStore
        BY <2>1 DEF Conn!ToStore
    <2>5. SessionInv'
        BY <1>1, <2>1, <2>2, <2>4, SessionsKept
    <2>6. Conn!ReconnectKeepsObservers'
        BY <1>1, <2>1, ObserversKept
    <2> QED
        BY <2>3, <2>5, <2>6 DEF ConnectionInv, SessionInv
<1> QED
    BY <1>2, <1>3

\* The application registers and unregisters observers.
LEMMA MapConnection ==
    ASSUME ConnectionInv, NEW o \in ExtObservers, Conn!UpdateObserverMap(o) \/ Conn!DeleteObserverMap(o)
    PROVE  ConnectionInv'
<1>1. RestInv /\ SessionInv /\ ConnectionType /\ TodoInv /\ CounterInv /\ Conn!ReconnectKeepsObservers
    BY TwoParts DEF RestInv
<1>2. UNCHANGED <<session, work, connection_handle, overlap, reconnects, retries>>
    BY DEF Conn!UpdateObserverMap, Conn!DeleteObserverMap
<1>3. \/ observer_exts_provider' = observer_exts_provider \cup {o} /\ extWanted' = extWanted \cup {o}
      \/ observer_exts_provider' = observer_exts_provider \ {o} /\ extWanted' = extWanted \ {o}
    BY DEF Conn!UpdateObserverMap, Conn!DeleteObserverMap
<1>4. ConnectionType' /\ TodoInv' /\ CounterInv'
    BY <1>1, <1>2, <1>3 DEF ConnectionType, TodoInv, CounterInv
<1>5. SessionInv'
    BY <1>1, <1>2 DEF SessionInv, OneSession, Conn!OpenSessionIsHeld, Conn!Open, Conn!ToStore
<1>6. Conn!ReconnectKeepsObservers'
    BY <1>1, <1>2, <1>3 DEF Conn!ReconnectKeepsObservers
<1> QED
    BY <1>4, <1>5, <1>6 DEF ConnectionInv, SessionInv

LEMMA StepConnection ==
    ASSUME ConnectionInv, Conn!ConnNext
    PROVE  ConnectionInv'
<1>1. ASSUME NEW w \in work,
             \/ Conn!StoreHandle(w) \/ Conn!OnConnectFfi(w) \/ Conn!OnAbilityConnectDone(w)
             \/ Conn!ReRegisterObserver(w) \/ Conn!Reconnected(w) \/ Conn!OnDisconnectFfi(w)
      PROVE  ConnectionInv'
    BY <1>1, StoreConnection, OnConnectConnection, ConnectDoneConnection, ReRegisterConnection,
       ReconnectedConnection, OnDisconnectConnection
<1> QED
    BY <1>1, CallerConnection, AmsConnection, TaskConnection, OwnerConnection, MapConnection DEF Conn!ConnNext

-----------------------------------------------------------------------------
(* The three side by side *)

PeerInv == ServiceInv /\ ControllerInv /\ ConnectionInv /\ ProviderInv

LEMMA PeerAlone ==
    /\ ServiceInv /\ ControllerInv /\ UNCHANGED recoveryVars => ServiceInv' /\ ControllerInv'
    /\ ConnectionInv /\ UNCHANGED connectionVars => ConnectionInv'
    /\ ProviderInv /\ UNCHANGED saVars => ProviderInv'
<1>1. ASSUME ServiceInv, ControllerInv, UNCHANGED recoveryVars PROVE ServiceInv' /\ ControllerInv'
    BY <1>1, ServiceAlone, ControllerAlone DEF recoveryVars
<1>2. ASSUME ConnectionInv, UNCHANGED connectionVars PROVE ConnectionInv'
    BY <1>2, ConnectionAlone DEF connectionVars
<1> QED
    BY <1>1, <1>2, ProviderAlone

\* PeerInv is inductive.
LEMMA PeerInductive == PeerSpec => []PeerInv
<1>1. PeerInit => PeerInv
    BY InitService, InitController, InitConnection, InitProvider DEF PeerInit, PeerInv
<1>2. PeerInv /\ [PeerNext]_peerVars => PeerInv'
    <2> SUFFICES ASSUME PeerInv, [PeerNext]_peerVars PROVE PeerInv'
        OBVIOUS
    <2>1. ServiceInv /\ ControllerInv /\ ConnectionInv /\ ProviderInv
        BY DEF PeerInv
    <2>2. CASE RecoveryStep
        <3>1. Rec!RecoveryNext /\ UNCHANGED connectionVars /\ UNCHANGED saVars
            BY <2>2 DEF RecoveryStep
        <3> QED
            BY <2>1, <3>1, RecoveryService, RecoveryController, PeerAlone DEF PeerInv
    <2>3. CASE ConnectionStep
        <3>1. Conn!ConnNext /\ UNCHANGED recoveryVars /\ UNCHANGED saVars
            BY <2>3 DEF ConnectionStep
        <3> QED
            BY <2>1, <3>1, StepConnection, PeerAlone DEF PeerInv
    <2>4. CASE SaStep
        <3>1. Sa!SaNext /\ UNCHANGED recoveryVars /\ UNCHANGED connectionVars
            BY <2>4 DEF SaStep
        <3> QED
            BY <2>1, <3>1, SaProvider, PeerAlone DEF PeerInv
    <2>5. CASE UNCHANGED peerVars
        <3>1. UNCHANGED recoveryVars /\ UNCHANGED connectionVars /\ UNCHANGED saVars
            BY <2>5 DEF peerVars
        <3> QED
            BY <2>1, <3>1, PeerAlone DEF PeerInv
    <2> QED
        BY <2>2, <2>3, <2>4, <2>5 DEF PeerNext
<1> QED
    BY <1>1, <1>2, PTL DEF PeerSpec

\* A service or provider that died is not kept: once its death has been told no
\* proxy of it is cached (manager_impl.rs, datashare_sa_connection.rs), unless it
\* died between a thread's lookup and its store or before C++ handed its proxy over.
\* A life of the service for which no death recipient stayed registered tells none.
THEOREM PeersForgotten == PeerSpec => []DeadPeerIsForgotten
<1>1. PeerInv => DeadPeerIsForgotten
    BY DEF PeerInv, ServiceInv, ProxyInv, ProviderInv, DeadPeerIsForgotten
<1> QED
    BY <1>1, PeerInductive, PTL

\* A recovery never calls a controller that was dropped: dropping one takes its
\* callback out of the list first, under the lock the recovery holds.
THEOREM RecoveryCallbacksLive == PeerSpec => []CallbackUsesLiveController
<1>1. PeerInv => CallbackUsesLiveController
    BY DEF PeerInv, ControllerInv, LiveInv, CallbackUsesLiveController, Rec!CallbackUsesLiveController
<1> QED
    BY <1>1, PeerInductive, PTL

\* No observer is lost by the recovery of the service or the reconnection of an
\* extension: it is in the map or a thread is about to register it again.
THEOREM RecoveryObservers == PeerSpec => []RecoveryKeepsObservers
<1>1. PeerInv => RecoveryKeepsObservers
    BY DEF PeerInv, ControllerInv, ConnectionInv, RecoveryKeepsObservers
<1> QED
    BY <1>1, PeerInductive, PTL

\* An open session of an extension connection can still be closed while sessions
\* do not overlap, and a released connection gives up reconnecting.
THEOREM ConnectionSessions == PeerSpec => []SessionsEnd
<1>1. PeerInv => SessionsEnd
    <2>1. CounterInv => Conn!ReleasedGivesUp
        BY PeerRecoveryAssumption DEF CounterInv, Conn!ReleasedGivesUp
    <2> QED
        BY <2>1 DEF PeerInv, ConnectionInv, SessionsEnd
<1> QED
    BY <1>1, PeerInductive, PTL

-----------------------------------------------------------------------------
(* The call limiter *)


CallRecord == [at : Nat, over : BOOLEAN]

\* The calls s of a function fall into windows: w[i] is the call that began the
\* window of call i.
InWindow(s, w, i) ==
    /\ w[i] <= i /\ s[w[i]].at <= s[i].at /\ s[i].at < s[w[i]].at + TIME_THRESHOLD
    /\ s[i].over <=> i - w[i] + 1 >= ACCESS_COUNT_THRESHOLD

Apart(s, w, i, j) ==
    /\ s[i].at <= s[j].at
    /\ w[i] = w[j] \/ s[w[i]].at + TIME_THRESHOLD <= s[w[j]].at

Windowed(s, w) ==
    /\ w \in [DOMAIN s -> DOMAIN s]
    /\ \A i \in DOMAIN s : InWindow(s, w, i)
    /\ \A i, j \in DOMAIN s : i <= j => Apart(s, w, i, j)

\* The entry of a function is about the last window.
Counts(info, s, w) ==
    /\ s # <<>>
    /\ info.total_count = Len(s) - w[Len(s)] + 1 /\ info.start_time = s[w[Len(s)]].at

InfoFields == {"count", "total_count", "first_time", "start_time", "log_print_flag"}

FuncInv(f) ==
    /\ calls[f] \in Seq(CallRecord)
    /\ \A i \in DOMAIN calls[f] : calls[f][i].at <= now
    /\ \E w : /\ Windowed(calls[f], w)
              /\ f \in DOMAIN call_counts => Counts(call_counts[f], calls[f], w)
    /\ f \in DOMAIN call_counts => DOMAIN call_counts[f] = InfoFields
    /\ f \notin DOMAIN call_counts => calls[f] = <<>>

ReporterInv ==
    /\ now \in Nat /\ DOMAIN calls = Funcs
    /\ \A f \in Funcs : FuncInv(f)

\* The entry after a call: the window goes on, or begins with the call.
LEMMA UpdatedInfo ==
    ASSUME NEW info, DOMAIN info = InfoFields, NEW curr \in Nat,
           \/ info = NewCallInfo
           \/ info.total_count \in Nat \ {0} /\ info.start_time \in Nat /\ info.start_time <= curr
    PROVE  LET u == UpdateCallCounts(info, curr) IN
           /\ DOMAIN u = InfoFields
           /\ \/ info.total_count = 0 /\ u.total_count = 1 /\ u.start_time = curr
              \/ /\ info.total_count # 0 /\ curr - info.start_time >= TIME_THRESHOLD
                 /\ u.total_count = 1 /\ u.start_time = curr
              \/ /\ info.total_count # 0 /\ curr - info.start_time < TIME_THRESHOLD
                 /\ u.total_count = info.total_count + 1 /\ u.start_time = info.start_time
<1> DEFINE started == IF info.total_count = 0 THEN [info EXCEPT !.start_time = curr] ELSE info
           w == Window(info, curr)
<1>1. /\ DOMAIN started = InfoFields /\ started.total_count = info.total_count
      /\ started.start_time = IF info.total_count = 0 THEN curr ELSE info.start_time
    BY DEF InfoFields
<1>2. w = IF curr - started.start_time >= TIME_THRESHOLD \/ curr < started.start_time
          THEN [started EXCEPT !.start_time = curr, !.total_count = 0, !.log_print_flag = FALSE]
          ELSE started
    BY DEF Window
<1> HIDE DEF started
<1>3. /\ DOMAIN w = InfoFields
      /\ IF curr - started.start_time >= TIME_THRESHOLD \/ curr < started.start_time
         THEN w.total_count = 0 /\ w.start_time = curr
         ELSE w.total_count = started.total_count /\ w.start_time = started.start_time
    <2>1. CASE curr - started.start_time >= TIME_THRESHOLD \/ curr < started.start_time
        BY <1>1, <1>2, <2>1 DEF InfoFields
    <2>2. CASE ~(curr - started.start_time >= TIME_THRESHOLD \/ curr < started.start_time)
        BY <1>1, <1>2, <2>2
    <2> QED
        BY <2>1, <2>2
<1> HIDE DEF w
<1>4. LET u == UpdateCallCounts(info, curr) IN
      DOMAIN u = InfoFields /\ u.total_count = w.total_count + 1 /\ u.start_time = w.start_time
    BY <1>3 DEF UpdateCallCounts, InfoFields, w
<1>5. info.total_count = 0 \/ (info.total_count \in Nat \ {0} /\ info.start_time \in Nat /\ info.start_time <= curr)
    BY DEF NewCallInfo
<1> QED
    BY <1>1, <1>3, <1>4, <1>5, CallReporterAssumption

LEMMA WindowTypes ==
    ASSUME NEW s \in Seq(CallRecord), NEW w, Windowed(s, w)
    PROVE  /\ Len(s) \in Nat /\ DOMAIN s = 1 .. Len(s)
           /\ \A i \in 1 .. Len(s) : /\ w[i] \in 1 .. Len(s)
                                     /\ s[i].at \in Nat /\ s[i].over \in BOOLEAN /\ s[w[i]].at \in Nat
<1>1. Len(s) \in Nat /\ DOMAIN s = 1 .. Len(s) /\ \A i \in 1 .. Len(s) : s[i] \in CallRecord
    OBVIOUS
<1>2. \A i \in 1 .. Len(s) : s[i].at \in Nat /\ s[i].over \in BOOLEAN
    BY <1>1 DEF CallRecord
<1>3. w \in [1 .. Len(s) -> 1 .. Len(s)]
    BY <1>1 DEF Windowed
<1> QED
    BY <1>1, <1>2, <1>3

\* A call that comes after the calls s, into the window that call b began or, if it
\* is b itself, into a new one.
Follows(s, w, c, b) ==
    /\ b \in 1 .. Len(s) + 1
    /\ \A i \in 1 .. Len(s) : s[i].at <= c.at
    /\ c.over <=> Len(s) + 1 - b + 1 >= ACCESS_COUNT_THRESHOLD
    /\ \/ b = Len(s) + 1 /\ (Len(s) > 0 => c.at - s[w[Len(s)]].at >= TIME_THRESHOLD)
       \/ Len(s) > 0 /\ b = w[Len(s)] /\ c.at - s[w[Len(s)]].at < TIME_THRESHOLD

LEMMA CallAppended ==
    ASSUME NEW s \in Seq(CallRecord), NEW w, Windowed(s, w), NEW c \in CallRecord, NEW b, Follows(s, w, c, b),
           NEW v, v = [i \in 1 .. Len(s) + 1 |-> IF i = Len(s) + 1 THEN b ELSE w[i]]
    PROVE  /\ Windowed(Append(s, c), v) /\ v[Len(s) + 1] = b
           /\ Append(s, c)[b].at = IF b = Len(s) + 1 THEN c.at ELSE s[w[Len(s)]].at
<1> DEFINE n == Len(s)
           t == Append(s, c)
<1>1. /\ n \in Nat /\ DOMAIN s = 1 .. n
      /\ \A i \in 1 .. n : w[i] \in 1 .. n /\ s[i].at \in Nat /\ s[i].over \in BOOLEAN /\ s[w[i]].at \in Nat
    BY WindowTypes
<1>2. DOMAIN t = 1 .. n + 1 /\ t[n + 1] = c /\ \A i \in 1 .. n : t[i] = s[i]
    BY <1>1
<1>3. c.at \in Nat /\ c.over \in BOOLEAN
    BY DEF CallRecord
<1>4. b \in 1 .. n + 1
    BY DEF Follows
<1>5. v \in [1 .. n + 1 -> 1 .. n + 1] /\ v[n + 1] = b /\ \A i \in 1 .. n : v[i] = w[i]
    BY <1>1, <1>4
<1>6. /\ \A i \in 1 .. n : InWindow(s, w, i)
      /\ \A i, j \in 1 .. n : i <= j => Apart(s, w, i, j)
    BY <1>1 DEF Windowed
<1>7. \/ b = n + 1 /\ t[b].at = c.at /\ (n > 0 => c.at - s[w[n]].at >= TIME_THRESHOLD)
      \/ /\ n > 0 /\ b = w[n] /\ b \in 1 .. n /\ t[b].at = s[w[n]].at
         /\ c.at - s[w[n]].at < TIME_THRESHOLD
    BY <1>1, <1>2 DEF Follows
<1>8. /\ \A i \in 1 .. n : s[i].at <= c.at
      /\ c.over <=> n + 1 - b + 1 >= ACCESS_COUNT_THRESHOLD
    BY DEF Follows
<1> HIDE DEF n, t
<1>a. n > 0 => s[w[n]].at \in Nat /\ s[w[n]].at <= c.at
    <2> HAVE n > 0
    <2>1. n \in 1 .. n
        BY <1>1
    <2>2. w[n] \in 1 .. n /\ s[w[n]].at \in Nat
        BY <1>1, <2>1
    <2> QED
        BY <1>8, <2>2
<1>b. TIME_THRESHOLD \in Nat /\ TIME_THRESHOLD > 0
    BY CallReporterAssumption
<1>9. ASSUME NEW i \in 1 .. n + 1 PROVE InWindow(t, v, i)
    <2>1. CASE i \in 1 .. n
        <3>1. InWindow(s, w, i) /\ w[i] \in 1 .. n /\ v[i] = w[i] /\ t[i] = s[i] /\ t[w[i]] = s[w[i]]
            BY <1>1, <1>2, <1>5, <1>6, <2>1
        <3> QED
            BY <3>1 DEF InWindow
    <2>2. CASE i = n + 1
        <3>1. v[i] = b /\ t[i] = c
            BY <1>2, <1>5, <2>2
        <3>2. b <= i
            BY <1>1, <1>4, <2>2
        <3>3. t[b].at <= c.at
            BY <1>3, <1>7, <1>a
        <3>4. c.at < t[b].at + TIME_THRESHOLD
            <4>1. CASE t[b].at = c.at
                BY <1>3, <1>b, <4>1
            <4>2. CASE n > 0 /\ t[b].at = s[w[n]].at /\ c.at - s[w[n]].at < TIME_THRESHOLD
                <5>1. s[w[n]].at \in Nat
                    BY <1>a, <4>2
                <5> QED
                    BY <1>3, <1>b, <4>2, <5>1
            <4> QED
                BY <1>7, <4>1, <4>2
        <3>5. c.over <=> i - b + 1 >= ACCESS_COUNT_THRESHOLD
            <4>1. n \in Int /\ b \in Int
                BY <1>1, <1>4
            <4> QED
                BY <1>8, <2>2, <4>1
        <3> QED
            BY <3>1, <3>2, <3>3, <3>4, <3>5 DEF InWindow
    <2> QED
        BY <1>1, <2>1, <2>2
<1>10. ASSUME NEW i \in 1 .. n + 1, NEW j \in 1 .. n + 1, i <= j PROVE Apart(t, v, i, j)
    <2>1. CASE j \in 1 .. n
        <3>1. i \in 1 .. n
            BY <1>1, <1>10, <2>1
        <3>2. /\ Apart(s, w, i, j) /\ v[i] = w[i] /\ t[i] = s[i] /\ t[w[i]] = s[w[i]]
              /\ v[j] = w[j] /\ t[j] = s[j] /\ t[w[j]] = s[w[j]]
            BY <1>1, <1>2, <1>5, <1>6, <1>10, <2>1, <3>1
        <3> QED
            BY <3>2 DEF Apart
    <2>2. CASE i = n + 1
        <3>1. i = j
            BY <1>1, <1>10, <2>2
        <3>2. t[i].at <= t[i].at
            BY <1>2, <1>3, <2>2
        <3> QED
            BY <3>1, <3>2 DEF Apart
    <2>3. CASE i \in 1 .. n /\ j = n + 1
        <3>1. n > 0 /\ n \in 1 .. n /\ i <= n
            BY <1>1, <2>3
        <3>2. Apart(s, w, i, n)
            BY <1>6, <2>3, <3>1
        <3>3. /\ v[i] = w[i] /\ v[j] = b /\ t[i] = s[i] /\ t[j] = c /\ t[w[i]] = s[w[i]]
              /\ s[w[i]].at \in Nat /\ s[w[n]].at \in Nat
            BY <1>1, <1>2, <1>5, <2>3, <3>1
        <3>4. s[i].at <= c.at
            BY <1>8, <2>3
        <3>5. CASE b = n + 1 /\ t[b].at = c.at /\ c.at - s[w[n]].at >= TIME_THRESHOLD
            <4>1. s[w[i]].at + TIME_THRESHOLD <= c.at
                <5>1. w[i] = w[n] \/ s[w[i]].at + TIME_THRESHOLD <= s[w[n]].at
                    BY <3>2 DEF Apart
                <5>2. s[w[n]].at + TIME_THRESHOLD <= c.at
                    BY <1>3, <1>b, <3>3, <3>5
                <5> QED
                    <6>1. CASE w[i] = w[n]
                        BY <5>2, <6>1
                    <6>2. CASE s[w[i]].at + TIME_THRESHOLD <= s[w[n]].at
                        <7> DEFINE x == s[w[i]].at  y == s[w[n]].at
                        <7>1. x \in Nat /\ y \in Nat /\ x + TIME_THRESHOLD <= y /\ y + TIME_THRESHOLD <= c.at
                            BY <3>3, <5>2, <6>2
                        <7> HIDE DEF x, y
                        <7>2. x + TIME_THRESHOLD <= c.at
                            BY <1>3, <1>b, <7>1
                        <7> QED
                            BY <7>2 DEF x
                    <6> QED
                        BY <5>1, <6>1, <6>2
            <4> QED
                BY <3>3, <3>4, <3>5, <4>1 DEF Apart
        <3>6. CASE b = w[n] /\ t[b].at = s[w[n]].at
            BY <3>2, <3>3, <3>4, <3>6 DEF Apart
        <3> QED
            BY <1>7, <3>1, <3>5, <3>6
    <2> QED
        BY <1>1, <2>1, <2>2, <2>3
<1>11. Windowed(t, v)
    BY <1>2, <1>5, <1>9, <1>10 DEF Windowed
<1>12. t[b].at = IF b = n + 1 THEN c.at ELSE s[w[n]].at
    BY <1>1, <1>7
<1> QED
    BY <1>5, <1>11, <1>12 DEF n, t

LEMMA InitReporter == ReporterInit => ReporterInv
<1> SUFFICES ASSUME ReporterInit PROVE ReporterInv
    OBVIOUS
<1>1. ASSUME NEW f \in Funcs PROVE FuncInv(f)
    <2>1. calls[f] = <<>> /\ DOMAIN call_counts = {} /\ calls[f] \in Seq(CallRecord) /\ DOMAIN calls[f] = {}
        BY DEF ReporterInit
    <2>2. Windowed(calls[f], <<>>)
        BY <2>1 DEF Windowed
    <2> QED
        BY <2>1, <2>2 DEF FuncInv
<1> QED
    BY <1>1 DEF ReporterInit, ReporterInv

\* What a call finds: the last window, or no entry.
LEMMA LastWindow ==
    ASSUME ReporterInv, NEW f \in Funcs, NEW w, Windowed(calls[f], w),
           f \in DOMAIN call_counts => Counts(call_counts[f], calls[f], w)
    PROVE  LET s == calls[f]
               n == Len(s)
               old == IF f \in DOMAIN call_counts THEN call_counts[f] ELSE NewCallInfo
           IN  /\ DOMAIN old = InfoFields
               /\ \/ old = NewCallInfo /\ n = 0
                  \/ /\ n > 0 /\ w[n] \in 1 .. n /\ s[w[n]].at \in Nat /\ s[w[n]].at <= now
                     /\ old.total_count = n - w[n] + 1 /\ old.start_time = s[w[n]].at
<1> DEFINE s == calls[f]
           n == Len(s)
<1>1. FuncInv(f)
    BY DEF ReporterInv
<1>2. CASE f \notin DOMAIN call_counts
    BY <1>1, <1>2 DEF FuncInv, NewCallInfo, InfoFields
<1>3. CASE f \in DOMAIN call_counts
    <2>1. /\ s # <<>> /\ s \in Seq(CallRecord) /\ DOMAIN call_counts[f] = InfoFields
          /\ \A i \in DOMAIN s : s[i].at <= now
        BY <1>1, <1>3 DEF FuncInv, Counts
    <2>2. /\ n \in Nat /\ DOMAIN s = 1 .. n
          /\ \A i \in 1 .. n : w[i] \in 1 .. n /\ s[w[i]].at \in Nat
        BY <2>1, WindowTypes
    <2>3. n > 0
        BY <2>1
    <2>4. w[n] \in 1 .. n /\ s[w[n]].at \in Nat /\ s[w[n]].at <= now
        BY <2>1, <2>2, <2>3
    <2>5. call_counts[f].total_count = n - w[n] + 1 /\ call_counts[f].start_time = s[w[n]].at
        BY <1>3 DEF Counts
    <2> QED
        BY <1>3, <2>1, <2>3, <2>4, <2>5
<1> QED
    BY <1>2, <1>3

LEMMA CountKeeps ==
    ASSUME ReporterInv, NEW f \in Funcs, Count(f)
    PROVE  FuncInv(f)'
<1> DEFINE s == calls[f]
           n == Len(s)
           old == IF f \in DOMAIN call_counts THEN call_counts[f] ELSE NewCallInfo
           info == UpdateCallCounts(old, now)
           over == IsOverThreshold(info)
           c == [at |-> now, over |-> over]
<1>1. /\ now \in Nat /\ DOMAIN calls = Funcs /\ s \in Seq(CallRecord) /\ n \in Nat /\ DOMAIN s = 1 .. n
      /\ \A i \in DOMAIN s : s[i].at <= now
    BY DEF ReporterInv, FuncInv
<1>2. PICK w : Windowed(s, w) /\ (f \in DOMAIN call_counts => Counts(call_counts[f], s, w))
    BY DEF ReporterInv, FuncInv
<1>3. /\ DOMAIN old = InfoFields
      /\ \/ old = NewCallInfo /\ n = 0
         \/ /\ n > 0 /\ w[n] \in 1 .. n /\ s[w[n]].at \in Nat /\ s[w[n]].at <= now
            /\ old.total_count = n - w[n] + 1 /\ old.start_time = s[w[n]].at
    BY <1>2, LastWindow
<1>4. /\ calls' = [calls EXCEPT ![f] = Append(s, c)] /\ now' = now
      /\ call_counts' = [g \in DOMAIN call_counts \cup {f} |->
            IF g = f THEN [info EXCEPT !.log_print_flag = @ \/ over] ELSE call_counts[g]]
    BY DEF Count
<1> DEFINE kept == call_counts'[f]
<1>5. /\ calls'[f] = Append(s, c) /\ f \in DOMAIN call_counts'
      /\ kept = [info EXCEPT !.log_print_flag = @ \/ over]
    BY <1>1, <1>4
<1> HIDE DEF s, n, old
<1>6. /\ DOMAIN info = InfoFields
      /\ \/ old.total_count = 0 /\ info.total_count = 1 /\ info.start_time = now
         \/ /\ old.total_count # 0 /\ now - old.start_time >= TIME_THRESHOLD
            /\ info.total_count = 1 /\ info.start_time = now
         \/ /\ old.total_count # 0 /\ now - old.start_time < TIME_THRESHOLD
            /\ info.total_count = old.total_count + 1 /\ info.start_time = old.start_time
    <2>1. \/ old = NewCallInfo
          \/ old.total_count \in Nat \ {0} /\ old.start_time \in Nat /\ old.start_time <= now
        BY <1>1, <1>3
    <2> QED
        BY <1>1, <1>3, <2>1, UpdatedInfo
<1> HIDE DEF info
<1>7. over \in BOOLEAN /\ c \in CallRecord /\ c.at = now /\ c.over = over
    BY <1>1 DEF IsOverThreshold, CallRecord
<1>8. over <=> info.total_count >= ACCESS_COUNT_THRESHOLD
    BY DEF IsOverThreshold
<1> HIDE DEF over, c
<1>9. DOMAIN kept = InfoFields /\ kept.total_count = info.total_count /\ kept.start_time = info.start_time
    BY <1>5, <1>6 DEF InfoFields
<1> HIDE DEF kept
<1>10. PICK b \in 1 .. n + 1 :
          /\ info.total_count = n + 1 - b + 1
          /\ \/ b = n + 1 /\ info.start_time = now /\ (n > 0 => now - s[w[n]].at >= TIME_THRESHOLD)
             \/ /\ n > 0 /\ b = w[n] /\ now - s[w[n]].at < TIME_THRESHOLD
                /\ info.start_time = s[w[n]].at
    <2>1. CASE old = NewCallInfo /\ n = 0
        <3>1. old.total_count = 0
            BY <2>1 DEF NewCallInfo
        <3>2. info.total_count = 1 /\ info.start_time = now
            BY <1>6, <3>1
        <3> QED
            BY <2>1, <3>2
    <2>2. CASE /\ n > 0 /\ w[n] \in 1 .. n /\ s[w[n]].at \in Nat /\ s[w[n]].at <= now
               /\ old.total_count = n - w[n] + 1 /\ old.start_time = s[w[n]].at
        <3>1. old.total_count # 0 /\ old.total_count \in Nat
            BY <1>1, <2>2
        <3>2. CASE info.total_count = 1 /\ info.start_time = now /\ now - old.start_time >= TIME_THRESHOLD
            <4>1. n + 1 \in 1 .. n + 1 /\ n + 1 - (n + 1) + 1 = 1 /\ now - s[w[n]].at >= TIME_THRESHOLD
                BY <1>1, <2>2, <3>2
            <4> QED
                BY <3>2, <4>1
        <3>3. CASE /\ now - old.start_time < TIME_THRESHOLD
                   /\ info.total_count = old.total_count + 1 /\ info.start_time = old.start_time
            <4>1. w[n] \in 1 .. n + 1 /\ info.total_count = n + 1 - w[n] + 1
                BY <1>1, <2>2, <3>3
            <4> QED
                BY <2>2, <3>3, <4>1
        <3> QED
            BY <1>6, <3>1, <3>2, <3>3
    <2> QED
        BY <1>3, <2>1, <2>2
<1>11. Follows(s, w, c, b)
    <2>1. \A i \in 1 .. n : s[i].at <= c.at
        BY <1>1, <1>7
    <2>2. c.over <=> n + 1 - b + 1 >= ACCESS_COUNT_THRESHOLD
        BY <1>7, <1>8, <1>10
    <2>3. \/ b = n + 1 /\ (n > 0 => c.at - s[w[n]].at >= TIME_THRESHOLD)
          \/ n > 0 /\ b = w[n] /\ c.at - s[w[n]].at < TIME_THRESHOLD
        BY <1>7, <1>10
    <2> QED
        BY <2>1, <2>2, <2>3 DEF Follows, n
<1> DEFINE t == Append(s, c)
<1>12. PICK v : v = [i \in 1 .. n + 1 |-> IF i = n + 1 THEN b ELSE w[i]]
    OBVIOUS
<1>13. /\ Windowed(t, v) /\ v[n + 1] = b
       /\ t[b].at = IF b = n + 1 THEN c.at ELSE s[w[n]].at
    BY <1>1, <1>2, <1>7, <1>11, <1>12, CallAppended DEF n
<1>14. t \in Seq(CallRecord) /\ Len(t) = n + 1 /\ t # <<>> /\ t[n + 1] = c /\ \A i \in 1 .. n : t[i] = s[i]
    BY <1>1, <1>7 DEF n
<1> HIDE DEF t
<1>15. \A i \in DOMAIN t : t[i].at <= now
    <2> TAKE i \in DOMAIN t
    <2>1. i \in 1 .. n \/ i = n + 1
        BY <1>1, <1>14
    <2> QED
        BY <1>1, <1>7, <1>14, <2>1
<1>16. Counts(kept, t, v)
    <2>1. t[b].at = info.start_time
        <3>1. CASE b = n + 1 /\ info.start_time = now
            BY <1>7, <1>13, <3>1
        <3>2. CASE n > 0 /\ b = w[n] /\ info.start_time = s[w[n]].at
            <4>1. b # n + 1
                BY <1>1, <1>3, <3>2
            <4> QED
                BY <1>13, <3>2, <4>1
        <3> QED
            BY <1>10, <3>1, <3>2
    <2>2. kept.total_count = n + 1 - b + 1 /\ kept.start_time = info.start_time
        BY <1>9, <1>10
    <2> QED
        <3>1. v[Len(t)] = b /\ Len(t) = n + 1 /\ t # <<>>
            BY <1>13, <1>14
        <3>2. kept.total_count = Len(t) - v[Len(t)] + 1 /\ kept.start_time = t[v[Len(t)]].at
            <4> DEFINE m == Len(t)
            <4>1. m = n + 1 /\ v[m] = b
                BY <3>1
            <4> HIDE DEF m
            <4>2. kept.total_count = m - v[m] + 1
                <5>1. n \in Nat /\ b \in Int
                    BY <1>1
                <5> QED
                    BY ONLY <2>2, <4>1, <5>1
            <4>3. kept.start_time = t[v[m]].at
                BY ONLY <2>1, <2>2, <4>1
            <4> QED
                BY <4>2, <4>3 DEF m
        <3> QED
            BY ONLY <3>1, <3>2 DEF Counts
<1> QED
    BY <1>4, <1>5, <1>9, <1>13, <1>14, <1>15, <1>16 DEF FuncInv, kept, t

LEMMA ReporterStepKeeps ==
    ASSUME ReporterInv, [ReporterNext]_reporterVars
    PROVE  ReporterInv'
<1>1. CASE Tick
    <2>1. now' \in Nat /\ now <= now' /\ call_counts' = call_counts /\ calls' = calls
        BY <1>1 DEF Tick, ReporterInv
    <2>2. ASSUME NEW f \in Funcs PROVE FuncInv(f)'
        <3>1. FuncInv(f)
            BY DEF ReporterInv
        <3>2. \A i \in DOMAIN calls[f] : calls[f][i].at \in Nat
            <4>1. \A i \in DOMAIN calls[f] : calls[f][i] \in CallRecord
                BY <3>1 DEF FuncInv
            <4> QED
                BY <4>1 DEF CallRecord
        <3>3. \A i \in DOMAIN calls[f] : calls[f][i].at <= now'
            <4>1. now \in Nat /\ \A i \in DOMAIN calls[f] : calls[f][i].at <= now
                BY <3>1 DEF FuncInv, ReporterInv
            <4> QED
                BY <2>1, <3>2, <4>1
        <3> QED
            BY <2>1, <3>1, <3>3 DEF FuncInv
    <2> QED
        BY <2>1, <2>2 DEF ReporterInv
<1>2. ASSUME NEW f \in Funcs, Count(f) PROVE ReporterInv'
    <2>1. /\ now' = now /\ DOMAIN calls' = Funcs
          /\ \A g \in Funcs \ {f} : /\ calls'[g] = calls[g] /\ (g \in DOMAIN call_counts' <=> g \in DOMAIN call_counts)
                                    /\ g \in DOMAIN call_counts => call_counts'[g] = call_counts[g]
        BY <1>2 DEF Count, ReporterInv
    <2>2. ASSUME NEW g \in Funcs \ {f} PROVE FuncInv(g)'
        <3>1. FuncInv(g)
            BY DEF ReporterInv
        <3> QED
            <4>1. /\ calls'[g] = calls[g] /\ (g \in DOMAIN call_counts' <=> g \in DOMAIN call_counts)
                  /\ g \in DOMAIN call_counts => call_counts'[g] = call_counts[g]
                BY <2>1
            <4> QED
                BY ONLY <2>1, <3>1, <4>1 DEF FuncInv
    <2> QED
        BY <1>2, <2>1, <2>2, CountKeeps DEF ReporterInv
<1>3. ASSUME NEW f \in Funcs, CountWithoutClock(f) PROVE ReporterInv'
    <2>1. /\ now' = now /\ DOMAIN calls' = Funcs /\ calls'[f] = <<>> /\ f \notin DOMAIN call_counts'
          /\ \A g \in Funcs \ {f} : /\ calls'[g] = calls[g] /\ (g \in DOMAIN call_counts' <=> g \in DOMAIN call_counts)
                                    /\ g \in DOMAIN call_counts => call_counts'[g] = call_counts[g]
        BY <1>3 DEF CountWithoutClock, ReporterInv
    <2>2. ASSUME NEW g \in Funcs \ {f} PROVE FuncInv(g)'
        <3>1. FuncInv(g)
            BY DEF ReporterInv
        <3> QED
            <4>1. /\ calls'[g] = calls[g] /\ (g \in DOMAIN call_counts' <=> g \in DOMAIN call_counts)
                  /\ g \in DOMAIN call_counts => call_counts'[g] = call_counts[g]
                BY <2>1
            <4> QED
                BY ONLY <2>1, <3>1, <4>1 DEF FuncInv
    <2>3. Windowed(calls'[f], <<>>) /\ calls'[f] \in Seq(CallRecord) /\ DOMAIN calls'[f] = {}
        BY <2>1 DEF Windowed
    <2>4. FuncInv(f)'
        BY <2>1, <2>3 DEF FuncInv
    <2> QED
        BY <2>1, <2>2, <2>4 DEF ReporterInv
<1>4. CASE UNCHANGED reporterVars
    BY <1>4 DEF reporterVars, ReporterInv, FuncInv
<1> QED
    BY <1>1, <1>2, <1>3, <1>4 DEF ReporterNext

Stretch(s, from, to, over) ==
    {i \in DOMAIN s : s[i].at \in from .. to /\ s[i].over \in over}

\* The calls that were let through in a stretch of time lie in two windows.
LEMMA TwoWindows ==
    ASSUME NEW s \in Seq(CallRecord), NEW w, Windowed(s, w), NEW t \in Nat
    PROVE  Cardinality(Stretch(s, t, t + TIME_THRESHOLD - 1, {FALSE})) <= 2 * (ACCESS_COUNT_THRESHOLD - 1)
<1> DEFINE S == Stretch(s, t, t + TIME_THRESHOLD - 1, {FALSE})
           Span(a) == a .. a + ACCESS_COUNT_THRESHOLD - 2
<1>a. TIME_THRESHOLD \in Nat /\ ACCESS_COUNT_THRESHOLD \in Nat /\ ACCESS_COUNT_THRESHOLD > 0
    BY CallReporterAssumption
<1>1. /\ S \subseteq DOMAIN s /\ Len(s) \in Nat /\ DOMAIN s = 1 .. Len(s)
      /\ \A i \in S : /\ w[i] \in 1 .. Len(s) /\ s[w[i]].at \in Nat /\ s[i].at \in Nat
                      /\ s[i].at \in t .. t + TIME_THRESHOLD - 1 /\ s[i].over = FALSE
    BY WindowTypes DEF Stretch
<1> HIDE DEF S
<1>b. S \subseteq Int /\ \A i \in S : w[i] \in Int
    BY <1>1
<1>2. \A i \in S : i \in Span(w[i])
    <2> TAKE i \in S
    <2>1. InWindow(s, w, i)
        BY <1>1 DEF Windowed
    <2>2. w[i] <= i /\ ~(i - w[i] + 1 >= ACCESS_COUNT_THRESHOLD)
        BY <1>1, <2>1 DEF InWindow
    <2> QED
        BY <1>a, <1>b, <2>2
<1>3. ASSUME NEW i \in S, NEW j \in S, NEW k \in S
      PROVE  w[i] = w[j] \/ w[j] = w[k] \/ w[i] = w[k]
    <2>1. ASSUME NEW x \in S, NEW y \in S, NEW z \in S, x <= y, y <= z, w[x] # w[y], w[y] # w[z]
          PROVE  FALSE
        <3>1. /\ s[w[x]].at + TIME_THRESHOLD <= s[w[y]].at /\ s[w[y]].at + TIME_THRESHOLD <= s[w[z]].at
              /\ s[w[z]].at <= s[z].at /\ s[x].at < s[w[x]].at + TIME_THRESHOLD
            <4>1. Apart(s, w, x, y) /\ Apart(s, w, y, z) /\ InWindow(s, w, z) /\ InWindow(s, w, x)
                BY <1>1, <2>1 DEF Windowed
            <4> QED
                BY <2>1, <4>1 DEF Apart, InWindow
        <3>2. /\ s[w[x]].at \in Nat /\ s[w[y]].at \in Nat /\ s[w[z]].at \in Nat /\ s[x].at \in Nat /\ s[z].at \in Nat
              /\ t <= s[x].at /\ s[z].at <= t + TIME_THRESHOLD - 1
            BY <1>1
        <3> QED
            <4> DEFINE X == s[w[x]].at  Y == s[w[y]].at  Z == s[w[z]].at  first == s[x].at  last == s[z].at
            <4>1. /\ X \in Nat /\ Y \in Nat /\ Z \in Nat /\ first \in Nat /\ last \in Nat
                  /\ X + TIME_THRESHOLD <= Y /\ Y + TIME_THRESHOLD <= Z /\ Z <= last /\ first < X + TIME_THRESHOLD
                  /\ t <= first /\ last <= t + TIME_THRESHOLD - 1
                BY <3>1, <3>2
            <4> HIDE DEF X, Y, Z, first, last
            <4> QED
                BY ONLY <1>a, <4>1, t \in Nat
    <2>2. i \in Int /\ j \in Int /\ k \in Int
        BY <1>b
    <2> QED
        BY <2>1, <2>2
<1>4. PICK a \in Int, b \in Int : S \subseteq Span(a) \cup Span(b)
    <2>1. CASE S = {}
        BY <2>1
    <2>2. CASE S # {}
        <3>1. PICK i \in S : TRUE
            BY <2>2
        <3>2. CASE \A j \in S : w[j] = w[i]
            <4>1. S \subseteq Span(w[i]) \cup Span(w[i])
                BY <1>2, <3>2
            <4> QED
                BY <1>b, <4>1
        <3>3. CASE \E j \in S : w[j] # w[i]
            <4>1. PICK j \in S : w[j] # w[i]
                BY <3>3
            <4>2. \A k \in S : w[k] = w[i] \/ w[k] = w[j]
                BY <1>3, <4>1
            <4>3. S \subseteq Span(w[i]) \cup Span(w[j])
                BY <1>2, <4>2
            <4> QED
                BY <1>b, <4>3
        <3> QED
            BY <3>2, <3>3
    <2> QED
        BY <2>1, <2>2
<1>5. \A x \in Int : IsFiniteSet(Span(x)) /\ Cardinality(Span(x)) = ACCESS_COUNT_THRESHOLD - 1
    BY FS_Interval, CallReporterAssumption
<1> HIDE DEF Span
<1>6. /\ IsFiniteSet(Span(a) \cup Span(b))
      /\ Cardinality(Span(a) \cup Span(b)) =
            Cardinality(Span(a)) + Cardinality(Span(b)) - Cardinality(Span(a) \cap Span(b))
    BY <1>5, FS_Union
<1>7. Cardinality(Span(a) \cap Span(b)) \in Nat
    <2>1. IsFiniteSet(Span(a) \cap Span(b))
        BY <1>5, FS_Subset
    <2> QED
        BY <2>1, FS_CardinalityType
<1>8. /\ IsFiniteSet(S) /\ Cardinality(S) <= Cardinality(Span(a) \cup Span(b))
      /\ Cardinality(S) \in Nat
    BY <1>4, <1>6, FS_Subset, FS_CardinalityType
<1> QED
    BY <1>a, <1>5, <1>6, <1>7, <1>8 DEF S

\* A time between the beginning of a window and one in it lies in the stretch
\* that ends with the latter.
LEMMA LastStretch ==
    ASSUME NEW d \in Nat, NEW begin \in Nat, NEW x \in Nat, NEW end \in Nat,
           begin <= x, x <= end, end < begin + d
    PROVE  x \in end - d + 1 .. end
OBVIOUS

\* The window of a refused call was full.
LEMMA FullWindow ==
    ASSUME NEW s \in Seq(CallRecord), NEW w, Windowed(s, w), NEW i \in DOMAIN s, s[i].over
    PROVE  Cardinality(Stretch(s, s[i].at - TIME_THRESHOLD + 1, s[i].at, BOOLEAN)) >= ACCESS_COUNT_THRESHOLD
<1> DEFINE S == Stretch(s, s[i].at - TIME_THRESHOLD + 1, s[i].at, BOOLEAN)
<1>0. InWindow(s, w, i) /\ TIME_THRESHOLD \in Nat /\ ACCESS_COUNT_THRESHOLD \in Nat
    BY CallReporterAssumption DEF Windowed
<1>1. /\ Len(s) \in Nat /\ DOMAIN s = 1 .. Len(s) /\ w[i] \in DOMAIN s /\ w[i] <= i
      /\ \A k \in DOMAIN s : s[k].at \in Nat /\ s[k].over \in BOOLEAN
    BY <1>0, WindowTypes DEF InWindow
<1>2. w[i] .. i \subseteq S
    <2> SUFFICES ASSUME NEW k \in w[i] .. i PROVE k \in S
        OBVIOUS
    <2>1. k \in DOMAIN s
        BY <1>1
    <2>2. s[w[i]].at <= s[k].at /\ s[k].at <= s[i].at /\ s[i].at < s[w[i]].at + TIME_THRESHOLD
        <3>1. w[i] <= k /\ k <= i
            BY <1>1
        <3>2. Apart(s, w, w[i], k) /\ Apart(s, w, k, i)
            BY <1>1, <2>1, <3>1 DEF Windowed
        <3> QED
            BY <1>0, <3>2 DEF Apart, InWindow
    <2>3. s[k].at \in Nat /\ s[i].at \in Nat /\ s[w[i]].at \in Nat /\ s[k].over \in BOOLEAN
        BY <1>1, <2>1
    <2>4. s[k].at \in s[i].at - TIME_THRESHOLD + 1 .. s[i].at
        BY <1>0, <2>2, <2>3, LastStretch
    <2> QED
        BY <2>1, <2>3, <2>4 DEF Stretch
<1>3. IsFiniteSet(S) /\ Cardinality(S) \in Nat
    <2>1. IsFiniteSet(1 .. Len(s)) /\ S \subseteq 1 .. Len(s)
        <3>1. S \subseteq DOMAIN s
            BY DEF Stretch
        <3> QED
            BY <1>1, <3>1, FS_Interval
    <2> QED
        BY <2>1, FS_Subset, FS_CardinalityType
<1>4. Cardinality(w[i] .. i) = i - w[i] + 1 /\ Cardinality(w[i] .. i) <= Cardinality(S)
    <2>1. w[i] \in Int /\ i \in Int /\ ~(w[i] > i)
        BY <1>1
    <2>2. Cardinality(w[i] .. i) = i - w[i] + 1
        BY <2>1, FS_Interval
    <2>3. Cardinality(w[i] .. i) <= Cardinality(S)
        BY <1>2, <1>3, FS_Subset
    <2> QED
        BY <2>2, <2>3
<1>5. i - w[i] + 1 >= ACCESS_COUNT_THRESHOLD
    BY <1>0 DEF InWindow
<1>6. w[i] \in Int /\ i \in Int
    BY <1>1
<1> QED
    BY <1>0, <1>3, <1>4, <1>5, <1>6

LEMMA RateFollows == ReporterInv => LimitsCallRate
<1> SUFFICES ASSUME ReporterInv, NEW f \in Funcs
             PROVE  /\ \A t \in 0 .. MaxTime :
                          Cardinality(Within(f, t, t + TIME_THRESHOLD - 1, {FALSE})) <= 2 * (ACCESS_COUNT_THRESHOLD - 1)
                    /\ \A i \in DOMAIN calls[f] :
                          calls[f][i].over =>
                              Cardinality(Within(f, calls[f][i].at - TIME_THRESHOLD + 1, calls[f][i].at, BOOLEAN))
                                  >= ACCESS_COUNT_THRESHOLD
    BY DEF LimitsCallRate
<1>1. PICK w : Windowed(calls[f], w)
    BY DEF ReporterInv, FuncInv
<1>2. calls[f] \in Seq(CallRecord)
    BY DEF ReporterInv, FuncInv
<1>3. ASSUME NEW t \in 0 .. MaxTime
      PROVE  Cardinality(Within(f, t, t + TIME_THRESHOLD - 1, {FALSE})) <= 2 * (ACCESS_COUNT_THRESHOLD - 1)
    <2>1. Within(f, t, t + TIME_THRESHOLD - 1, {FALSE}) = Stretch(calls[f], t, t + TIME_THRESHOLD - 1, {FALSE})
        BY DEF Within, Stretch
    <2>2. t \in Nat
        BY CallReporterAssumption
    <2> QED
        BY <1>1, <1>2, <2>1, <2>2, TwoWindows
<1>4. ASSUME NEW i \in DOMAIN calls[f], calls[f][i].over
      PROVE  Cardinality(Within(f, calls[f][i].at - TIME_THRESHOLD + 1, calls[f][i].at, BOOLEAN)) >= ACCESS_COUNT_THRESHOLD
    <2>1. Within(f, calls[f][i].at - TIME_THRESHOLD + 1, calls[f][i].at, BOOLEAN)
            = Stretch(calls[f], calls[f][i].at - TIME_THRESHOLD + 1, calls[f][i].at, BOOLEAN)
        BY DEF Within, Stretch
    <2> QED
        BY <1>1, <1>2, <1>4, <2>1, FullWindow
<1> QED
    BY <1>3, <1>4

\* The limit of call_reporter.rs holds for any thresholds and across the borders of
\* its windows: in no stretch of TIME_THRESHOLD does a function get more than two
\* windows of calls through, and only a function that was called
\* ACCESS_COUNT_THRESHOLD times within the last TIME_THRESHOLD is refused.
THEOREM CallRateIsLimited == ReporterSpec => []LimitsCallRate
<1>1. ReporterInit => ReporterInv
    BY InitReporter
<1>2. ReporterInv /\ [ReporterNext]_reporterVars => ReporterInv'
    BY ReporterStepKeeps
<1> QED
    BY <1>1, <1>2, RateFollows, PTL DEF ReporterSpec

=============================================================================
