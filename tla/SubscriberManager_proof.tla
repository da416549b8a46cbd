----------------------- MODULE SubscriberManager_proof -----------------------
(***************************************************************************)
(* Facts about the registry's operators and the steps the two subscriber   *)
(* managers share, for every set of keys, subscribers and threads and for  *)
(* every bound.                                                            *)
(***************************************************************************)
EXTENDS SubscriberManager, WellFoundedInduction, SequenceTheorems, TLAPS

-----------------------------------------------------------------------------
(* The registry *)

\* A non-empty set of numbers has a least element.
LEMMA LeastNumber ==
    ASSUME NEW T \in SUBSET Nat, T # {}
    PROVE  \E x \in T : \A y \in T : x <= y
<1>1. PICK x \in T : \A y \in T : ~(<<y, x>> \in OpToRel(<, Nat))
    BY NatLessThanWellFounded, WFMin, Zenon
<1>2. ASSUME NEW y \in T PROVE x <= y
    <2>1. ~(<<y, x>> \in OpToRel(<, Nat))
        BY <1>1
    <2>2. x \in Nat /\ y \in Nat
        OBVIOUS
    <2>3. ~(y < x)
        BY <2>1, <2>2 DEF OpToRel
    <2> QED
        BY <2>2, <2>3
<1> QED
    BY <1>2

\* std::find_if finds a node of the subscriber whenever there is one.
LEMMA FirstNodeIsNode ==
    ASSUME NEW cbs \in Registry, NEW k \in Keys, NEW s, NodesOf(cbs, k, s) # {}
    PROVE  FirstNode(cbs, k, s) \in NodesOf(cbs, k, s)
<1> DEFINE T == {n.observer : n \in NodesOf(cbs, k, s)}
<1>1. NodesOf(cbs, k, s) \subseteq ObserverNode
    BY DEF NodesOf, Registry
<1>2. T \in SUBSET Nat /\ T # {}
    BY <1>1 DEF ObserverNode
<1>3. PICK x \in T : \A y \in T : x <= y
    BY <1>2, LeastNumber
<1>4. \E n \in NodesOf(cbs, k, s) :
          \A m \in NodesOf(cbs, k, s) : n.observer <= m.observer
    BY <1>3
<1> QED
    BY <1>4 DEF FirstNode

\* Every operation on the registry yields a registry.
LEMMA AddNodesType ==
    ASSUME NEW cbs \in Registry, NEW ks, NEW s \in Subscribers, NEW o \in Nat
    PROVE  AddNodes(cbs, ks, s, o) \in Registry
<1>1. NewNode(s, o) \in ObserverNode
    BY DEF NewNode, ObserverNode
<1> QED
    BY <1>1 DEF AddNodes, Registry

LEMMA DelNodesType ==
    ASSUME NEW cbs \in Registry, NEW ks, NEW s
    PROVE  DelNodes(cbs, ks, s) \in Registry
BY DEF DelNodes, Registry, NodesOf

LEMMA EnableNodesType ==
    ASSUME NEW cbs \in Registry, NEW ks, NEW s
    PROVE  EnableNodes(cbs, ks, s) \in Registry
<1>1. ASSUME NEW n \in ObserverNode PROVE [n EXCEPT !.enabled = TRUE] \in ObserverNode
    BY DEF ObserverNode
<1> QED
    BY <1>1 DEF EnableNodes, Registry

LEMMA DisableNodesType ==
    ASSUME NEW cbs \in Registry, NEW ks, NEW s
    PROVE  DisableNodes(cbs, ks, s) \in Registry
<1>1. ASSUME NEW n \in ObserverNode PROVE DisableNode(n, s) \in ObserverNode
    BY DEF ObserverNode, DisableNode
<1> QED
    BY <1>1 DEF DisableNodes, Registry

LEMMA SetNotifiedOnType ==
    ASSUME NEW cbs \in Registry, NEW k \in Keys
    PROVE  SetNotifiedOn(cbs, k) \in Registry
<1>1. ASSUME NEW n \in ObserverNode
      PROVE  [n EXCEPT !.isNotifyOnEnabled = ~n.enabled] \in ObserverNode
    BY DEF ObserverNode
<1> QED
    BY <1>1 DEF SetNotifiedOn, Registry

\* What EnableObservers collects names observers that are in the registry.
LEMMA RefreshObserversType ==
    ASSUME NEW cbs \in Registry, NEW ks \in SUBSET Keys, NEW s,
           NEW r \in RefreshObservers(cbs, ks, s)
    PROVE  /\ r.key \in Keys
           /\ r.isNotifyOnEnabled \in BOOLEAN
           /\ r = [key |-> r.key, observer |-> r.observer,
                   isNotifyOnEnabled |-> r.isNotifyOnEnabled]
           /\ \E n \in cbs[r.key] : n.observer = r.observer
<1>1. PICK k \in EnableKeys(cbs, ks, s) :
            r = [key |-> k, observer |-> FirstNode(cbs, k, s).observer,
                 isNotifyOnEnabled |-> FirstNode(cbs, k, s).isNotifyOnEnabled]
    BY DEF RefreshObservers
<1>2. k \in Keys /\ NodesOf(cbs, k, s) # {}
    BY DEF EnableKeys
<1>3. FirstNode(cbs, k, s) \in cbs[k]
    BY <1>2, FirstNodeIsNode DEF NodesOf
<1>4. FirstNode(cbs, k, s) \in ObserverNode
    BY <1>2, <1>3 DEF Registry
<1> QED
    BY <1>1, <1>2, <1>3, <1>4 DEF ObserverNode

-----------------------------------------------------------------------------
(* Type correctness *)

\* Observers in the registry have been numbered.
ObserverBound == \A k \in Keys : \A n \in callbacks[k] : n.observer < nextObserver

\* A service that is down may still be restarted.
RestartBound == up \/ epoch < MaxRestarts

TypeInv == TypeOK /\ ObserverBound /\ RestartBound

\* The registry's operations add no observers but the one AddObservers names.
LEMMA EnableNodesObservers ==
    ASSUME NEW cbs \in Registry, NEW ks, NEW s, NEW k \in Keys,
           NEW n \in EnableNodes(cbs, ks, s)[k]
    PROVE  \E m \in cbs[k] : m.observer = n.observer /\ m.subscriber = n.subscriber
<1>1. ASSUME NEW m \in ObserverNode
      PROVE  /\ [m EXCEPT !.enabled = TRUE].observer = m.observer
             /\ [m EXCEPT !.enabled = TRUE].subscriber = m.subscriber
    BY DEF ObserverNode
<1> QED
    BY <1>1 DEF EnableNodes, Registry

LEMMA DisableNodesObservers ==
    ASSUME NEW cbs \in Registry, NEW ks, NEW s, NEW k \in Keys,
           NEW n \in DisableNodes(cbs, ks, s)[k]
    PROVE  \E m \in cbs[k] : m.observer = n.observer /\ m.subscriber = n.subscriber
<1>1. ASSUME NEW m \in ObserverNode
      PROVE  /\ DisableNode(m, s).observer = m.observer
             /\ DisableNode(m, s).subscriber = m.subscriber
    BY DEF ObserverNode, DisableNode
<1> QED
    BY <1>1 DEF DisableNodes, Registry

LEMMA SetNotifiedOnObservers ==
    ASSUME NEW cbs \in Registry, NEW j \in Keys, NEW k \in Keys,
           NEW n \in SetNotifiedOn(cbs, j)[k]
    PROVE  \E m \in cbs[k] : m.observer = n.observer /\ m.enabled = n.enabled
<1>1. ASSUME NEW m \in ObserverNode
      PROVE  /\ [m EXCEPT !.isNotifyOnEnabled = ~m.enabled].observer = m.observer
             /\ [m EXCEPT !.isNotifyOnEnabled = ~m.enabled].enabled = m.enabled
    BY DEF ObserverNode
<1>2. CASE k # j
    BY <1>2 DEF SetNotifiedOn, Registry
<1>3. CASE k = j
    <2>1. SetNotifiedOn(cbs, j)[k] =
              {[m EXCEPT !.isNotifyOnEnabled = ~m.enabled] : m \in cbs[k]}
        BY <1>3 DEF SetNotifiedOn, Registry
    <2>2. PICK m \in cbs[k] : n = [m EXCEPT !.isNotifyOnEnabled = ~m.enabled]
        BY <2>1
    <2>3. m \in ObserverNode
        BY DEF Registry
    <2> QED
        BY <1>1, <2>2, <2>3
<1> QED
    BY <1>2, <1>3

\* A thread that is in no call.
LEMMA IdleOpType == IdleOp \in Op
BY DEF IdleOp, Op, ThreadPc

LEMMA AddObserversType ==
    ASSUME TypeInv, NEW t \in Threads, NEW s \in Subscribers, NEW ks \in SUBSET Keys,
           AddObservers(t, s, ks)
    PROVE  TypeInv'
<1> USE DEF TypeInv, TypeOK
<1>1. nextObserver \in Nat /\ nextObserver \in Observers /\ nextObserver' = nextObserver + 1
    BY BoundsAssumption DEF AddObservers, Observers
<1>2. callbacks' \in Registry
    BY <1>1, AddNodesType DEF AddObservers
<1>3. ObserverBound'
    <2> SUFFICES ASSUME NEW k \in Keys, NEW n \in callbacks'[k]
                 PROVE  n.observer < nextObserver + 1
        BY <1>1 DEF ObserverBound
    <2>1. n \in callbacks[k] \/ n = NewNode(s, nextObserver)
        BY DEF AddObservers, AddNodes
    <2>2. n \in callbacks[k] => n.observer < nextObserver /\ n.observer \in Nat
        BY DEF ObserverBound, Registry, ObserverNode
    <2> QED
        BY <1>1, <2>1, <2>2 DEF NewNode
<1>4. op' \in [Threads -> Op]
    <2> DEFINE first == FirstRegisterKeys(callbacks, ks)
               todo == [key : ks \ first, observer : {nextObserver},
                        isNotifyOnEnabled : {FALSE}]
               pc == IF ks \ first # {} THEN "addEmit" ELSE "subscribe"
               new == [IdleOp EXCEPT !.sub = s, !.pc = pc, !.keys = ks, !.todo = todo,
                                     !.ipc = first, !.proxy = epoch]
    <2>1. first \in SUBSET Keys
        BY DEF FirstRegisterKeys
    <2>2. todo \in SUBSET Refresh
        BY <1>1, <2>1 DEF Refresh
    <2>3. pc \in ThreadPc
        BY DEF ThreadPc
    <2>4. epoch \in Nat
        BY BoundsAssumption
    <2>5. op' = [op EXCEPT ![t] = new]
        BY DEF AddObservers
    <2> HIDE DEF first, todo, pc
    <2>6. new \in Op
        BY <2>1, <2>2, <2>3, <2>4 DEF Op, IdleOp
    <2> HIDE DEF new
    <2> QED
        BY <2>5, <2>6
<1>5. tainted' \in SUBSET Keys
    BY DEF AddObservers, Overlap
<1>6. nextObserver' \in 0 .. MaxObservers
    BY <1>1, BoundsAssumption DEF AddObservers
<1>7. UNCHANGED <<lastChangeNodeMap, disp, rec, svc, up, epoch, inbox, changes, seen, owed>>
    BY DEF AddObservers, serviceVars, historyVars
<1> QED
    BY <1>2, <1>3, <1>4, <1>5, <1>6, <1>7 DEF RestartBound

\* A step that leaves the registry alone and moves one thread on.
LEMMA OpStepType ==
    ASSUME TypeInv, NEW t \in Threads, NEW r \in Op, op' = [op EXCEPT ![t] = r],
           UNCHANGED <<callbacks, nextObserver, disp, rec, up, epoch, inbox, changes>>,
           lastChangeNodeMap' \in [Keys -> Versions],
           svc' \in [Keys -> Status],
           seen' \in [Observers -> [Keys -> Versions]],
           owed' \in [Observers -> [Keys -> Versions]],
           tainted' \in SUBSET Keys
    PROVE  TypeInv'
<1>1. op' \in [Threads -> Op]
    BY DEF TypeInv, TypeOK
<1> QED
    BY <1>1 DEF TypeInv, TypeOK, ObserverBound, RestartBound

\* A step that changes the registry, adds nobody to it, and moves a thread on.
LEMMA RegistryStepType ==
    ASSUME TypeInv, NEW t \in Threads, NEW r \in Op,
           op' = op \/ op' = [op EXCEPT ![t] = r],
           callbacks' \in Registry,
           \A k \in Keys : \A n \in callbacks'[k] :
               \E m \in callbacks[k] : m.observer = n.observer,
           UNCHANGED <<lastChangeNodeMap, nextObserver, disp, rec, svc, up, epoch, inbox,
                       changes, seen>>,
           owed' \in [Observers -> [Keys -> Versions]],
           tainted' \in SUBSET Keys
    PROVE  TypeInv'
<1>1. op' \in [Threads -> Op]
    BY DEF TypeInv, TypeOK
<1>2. ObserverBound'
    BY DEF TypeInv, ObserverBound
<1> QED
    BY <1>1, <1>2 DEF TypeInv, TypeOK, RestartBound

\* What a thread's record looks like after some of its fields are set.
LEMMA OpFields ==
    ASSUME TypeInv, NEW t \in Threads
    PROVE  /\ op[t] \in Op
           /\ op[t].sub \in Subscribers \cup {NoSubscriber}
           /\ op[t].keys \subseteq Keys /\ op[t].ipc \subseteq Keys
           /\ op[t].erase \subseteq Keys /\ op[t].failed \subseteq Keys
           /\ op[t].todo \subseteq Refresh /\ op[t].cur \subseteq Notice
BY DEF TypeInv, TypeOK, Op

LEMMA ZeroVersion == 0 \in Versions
BY BoundsAssumption DEF Versions

\* What the service does with the keys of a request keeps the status map typed.
LEMMA AnsweredType ==
    ASSUME TypeInv, NEW t \in Threads, NEW failed, NEW status \in Status,
           Answered(t, failed, status) \/ Unanswered
    PROVE  svc' \in [Keys -> Status]
BY DEF Answered, Unanswered, TypeInv, TypeOK

LEMMA SubscribeDataType ==
    ASSUME TypeInv, NEW t \in Threads, SubscribeData(t)
    PROVE  TypeInv'
<1>1. UNCHANGED <<callbacks, nextObserver, disp, rec, up, epoch, inbox, changes,
                  lastChangeNodeMap, seen, owed>>
    BY DEF SubscribeData, historyVars
<1>2. svc' \in [Keys -> Status]
    BY AnsweredType DEF SubscribeData, Status
<1>3. tainted' \in SUBSET Keys
    BY OpFields DEF SubscribeData, TypeInv, TypeOK
<1>4. \E r \in Op : op' = [op EXCEPT ![t] = r]
    <2>1. CASE Return(t)
        BY <2>1, IdleOpType DEF Return
    <2>2. ASSUME NEW failed \in SUBSET op[t].ipc,
                 op' = [op EXCEPT ![t].pc = "rollbackAdd", ![t].failed = failed]
          PROVE  \E r \in Op : op' = [op EXCEPT ![t] = r]
        <3> DEFINE r == [op[t] EXCEPT !.pc = "rollbackAdd", !.failed = failed]
        <3>1. r \in Op
            BY OpFields DEF Op, ThreadPc
        <3>2. op' = [op EXCEPT ![t] = r]
            BY <2>2 DEF TypeInv, TypeOK
        <3> QED
            BY <3>1, <3>2
    <2> QED
        BY <2>1, <2>2 DEF SubscribeData
<1> QED
    BY <1>1, <1>2, <1>3, <1>4, OpStepType DEF TypeInv, TypeOK

LEMMA RollbackAddType ==
    ASSUME TypeInv, NEW t \in Threads, RollbackAdd(t)
    PROVE  TypeInv'
<1>1. callbacks' \in Registry
    BY DelNodesType DEF RollbackAdd, TypeInv, TypeOK
<1>2. \A k \in Keys : callbacks'[k] \subseteq callbacks[k]
    BY DEF RollbackAdd, DelNodes
<1> QED
    BY <1>1, <1>2, IdleOpType, RegistryStepType
    DEF RollbackAdd, Return, TypeInv, TypeOK, serviceVars, historyVars

LEMMA DelObserversType ==
    ASSUME TypeInv, NEW t \in Threads, NEW s \in Subscribers, NEW ks \in SUBSET Keys,
           NEW each \in BOOLEAN, DelObservers(t, s, ks, each)
    PROVE  TypeInv'
<1>1. callbacks' \in Registry
    BY DelNodesType DEF DelObservers, TypeInv, TypeOK
<1>2. \A k \in Keys : callbacks'[k] \subseteq callbacks[k]
    BY DEF DelObservers, DelNodes
<1> DEFINE last == LastDelKeys(callbacks, ks, s)
           r == [IdleOp EXCEPT !.sub = s, !.pc = "erase", !.keys = ks, !.erase = last,
                               !.each = each, !.proxy = epoch]
<1>3. last \in SUBSET Keys /\ epoch \in Nat
    BY BoundsAssumption DEF LastDelKeys, TypeInv, TypeOK
<1>4. op' = op \/ op' = [op EXCEPT ![t] = r]
    BY DEF DelObservers
<1>5. UNCHANGED <<lastChangeNodeMap, nextObserver, disp, rec, svc, up, epoch, inbox,
                  changes, seen, owed>>
    BY DEF DelObservers, serviceVars, historyVars
<1>6. tainted' \in SUBSET Keys
    BY DEF DelObservers, Overlap, TypeInv, TypeOK
<1> HIDE DEF last
<1>7. r \in Op
    BY <1>3 DEF Op, IdleOp, ThreadPc
<1> HIDE DEF r
<1> QED
    BY <1>1, <1>2, <1>4, <1>5, <1>6, <1>7, RegistryStepType DEF TypeInv, TypeOK

LEMMA EraseLastChangeType ==
    ASSUME TypeInv, NEW t \in Threads, NEW k, EraseLastChange(t, k)
    PROVE  TypeInv'
<1>1. k \in Keys
    BY OpFields DEF EraseLastChange
<1> DEFINE r == [op[t] EXCEPT !.erase = @ \ {k}, !.ipc = @ \cup {k},
                        !.pc = IF op[t].each \/ op[t].erase = {k}
                               THEN "unsubscribe" ELSE "erase"]
<1>2. r \in Op
    BY <1>1, OpFields DEF Op, ThreadPc
<1>3. op' = [op EXCEPT ![t] = r]
    BY DEF EraseLastChange, TypeInv, TypeOK
<1>4. lastChangeNodeMap' \in [Keys -> Versions] /\ owed' \in [Observers -> [Keys -> Versions]]
    BY ZeroVersion DEF EraseLastChange, TypeInv, TypeOK
<1>5. UNCHANGED <<callbacks, nextObserver, disp, rec, svc, up, epoch, inbox, changes,
                  seen, tainted>>
    BY DEF EraseLastChange, serviceVars
<1> HIDE DEF r
<1> QED
    BY <1>2, <1>3, <1>4, <1>5, OpStepType DEF TypeInv, TypeOK

LEMMA UnSubscribeDataType ==
    ASSUME TypeInv, NEW t \in Threads, UnSubscribeData(t)
    PROVE  TypeInv'
<1>1. svc' \in [Keys -> Status]
    BY AnsweredType DEF UnSubscribeData, Status
<1> DEFINE r == [op[t] EXCEPT !.pc = "erase", !.ipc = {}]
<1>2. r \in Op
    BY OpFields DEF Op, ThreadPc
<1>3. op' = [op EXCEPT ![t] = r] \/ op' = [op EXCEPT ![t] = IdleOp]
    BY DEF UnSubscribeData, Return, TypeInv, TypeOK
<1>4. UNCHANGED <<callbacks, nextObserver, disp, rec, up, epoch, inbox, changes,
                  lastChangeNodeMap, seen, owed, tainted>>
    BY DEF UnSubscribeData, historyVars
<1> HIDE DEF r
<1> QED
    BY <1>1, <1>2, <1>3, <1>4, IdleOpType, OpStepType DEF TypeInv, TypeOK

\* Observers in the registry are among Observers.
LEMMA RegisteredObservers ==
    ASSUME TypeInv, NEW k \in Keys, NEW n \in callbacks[k]
    PROVE  n.observer \in Observers
BY BoundsAssumption DEF TypeInv, TypeOK, ObserverBound, Registry, ObserverNode, Observers

LEMMA RefreshType ==
    ASSUME TypeInv, NEW ks \in SUBSET Keys, NEW s
    PROVE  RefreshObservers(callbacks, ks, s) \subseteq Refresh
<1> SUFFICES ASSUME NEW r \in RefreshObservers(callbacks, ks, s) PROVE r \in Refresh
    OBVIOUS
<1>1. /\ r.key \in Keys
      /\ r.isNotifyOnEnabled \in BOOLEAN
      /\ r = [key |-> r.key, observer |-> r.observer,
              isNotifyOnEnabled |-> r.isNotifyOnEnabled]
      /\ \E n \in callbacks[r.key] : n.observer = r.observer
    BY RefreshObserversType DEF TypeInv, TypeOK
<1>2. r.observer \in Observers
    BY <1>1, RegisteredObservers
<1> QED
    BY <1>1, <1>2 DEF Refresh

LEMMA EnableObserversType ==
    ASSUME TypeInv, NEW t \in Threads, NEW s \in Subscribers, NEW ks \in SUBSET Keys,
           EnableObservers(t, s, ks)
    PROVE  TypeInv'
<1>1. callbacks' \in Registry
    BY EnableNodesType DEF EnableObservers, TypeInv, TypeOK
<1>2. \A k \in Keys : \A n \in callbacks'[k] : \E m \in callbacks[k] : m.observer = n.observer
    BY EnableNodesObservers DEF EnableObservers, TypeInv, TypeOK
<1> DEFINE send == SendServiceKeys(callbacks, ks, s)
           refresh == RefreshObservers(callbacks, ks, s)
           pc == IF send # {} THEN "enable" ELSE "enableEmit"
           r == [IdleOp EXCEPT !.sub = s, !.pc = pc, !.keys = ks, !.todo = refresh,
                               !.ipc = send, !.proxy = epoch]
<1>3. send \subseteq Keys /\ epoch \in Nat
    BY BoundsAssumption DEF SendServiceKeys, EnableKeys, TypeInv, TypeOK
<1>4. refresh \subseteq Refresh
    BY RefreshType
<1>5. pc \in ThreadPc
    BY DEF ThreadPc
<1>6. op' = [op EXCEPT ![t] = r]
    BY DEF EnableObservers
<1>7. UNCHANGED <<lastChangeNodeMap, nextObserver, disp, rec, svc, up, epoch, inbox,
                  changes, seen, owed>>
    BY DEF EnableObservers, serviceVars, historyVars
<1>8. tainted' \in SUBSET Keys
    BY DEF EnableObservers, Overlap, TypeInv, TypeOK
<1> HIDE DEF send, refresh, pc
<1>9. r \in Op
    BY <1>3, <1>4, <1>5 DEF Op, IdleOp
<1> HIDE DEF r
<1> QED
    BY <1>1, <1>2, <1>6, <1>7, <1>8, <1>9, RegistryStepType DEF TypeInv, TypeOK

LEMMA EmitOrReturnType ==
    ASSUME TypeInv, NEW t \in Threads, NEW todo \in SUBSET Refresh
    PROVE  EmitOrReturn(t, todo) \in Op
BY OpFields, IdleOpType DEF EmitOrReturn, Op, ThreadPc

LEMMA EnableSubscribeDataType ==
    ASSUME TypeInv, NEW t \in Threads, EnableSubscribeData(t)
    PROVE  TypeInv'
<1>1. UNCHANGED <<callbacks, nextObserver, disp, rec, up, epoch, inbox, changes,
                  lastChangeNodeMap, seen, owed>>
    BY DEF EnableSubscribeData, historyVars
<1>2. svc' \in [Keys -> Status]
    BY AnsweredType DEF EnableSubscribeData, Status
<1>3. tainted' \in SUBSET Keys
    BY OpFields DEF EnableSubscribeData, TypeInv, TypeOK
<1>4. ASSUME NEW failed \in SUBSET op[t].ipc
      PROVE  [op[t] EXCEPT !.pc = "rollbackEnable", !.failed = failed] \in Op
    BY OpFields DEF Op, ThreadPc
<1>5. EmitOrReturn(t, op[t].todo) \in Op
    BY OpFields, EmitOrReturnType
<1>6. \E r \in Op : op' = [op EXCEPT ![t] = r]
    BY <1>4, <1>5 DEF EnableSubscribeData
<1> QED
    BY <1>1, <1>2, <1>3, <1>6, OpStepType DEF TypeInv, TypeOK

LEMMA ForgiveType ==
    ASSUME TypeInv, NEW pairs, Forgive(pairs)
    PROVE  owed' \in [Observers -> [Keys -> Versions]]
BY ZeroVersion DEF Forgive, TypeInv, TypeOK

LEMMA RollbackEnableType ==
    ASSUME TypeInv, NEW t \in Threads, RollbackEnable(t)
    PROVE  TypeInv'
<1>1. callbacks' \in Registry
    BY DisableNodesType DEF RollbackEnable, TypeInv, TypeOK
<1>2. \A k \in Keys : \A n \in callbacks'[k] : \E m \in callbacks[k] : m.observer = n.observer
    BY DisableNodesObservers DEF RollbackEnable, TypeInv, TypeOK
<1>3. EmitOrReturn(t, op[t].todo) \in Op
    BY OpFields, EmitOrReturnType
<1>4. owed' \in [Observers -> [Keys -> Versions]]
    BY ForgiveType DEF RollbackEnable
<1>5. /\ op' = [op EXCEPT ![t] = EmitOrReturn(t, op[t].todo)]
      /\ UNCHANGED <<lastChangeNodeMap, nextObserver, disp, rec, svc, up, epoch, inbox,
                     changes, seen, tainted>>
    BY DEF RollbackEnable, serviceVars
<1> QED
    BY <1>1, <1>2, <1>3, <1>4, <1>5, RegistryStepType DEF TypeInv, TypeOK

LEMMA DisableObserversType ==
    ASSUME TypeInv, NEW t \in Threads, NEW s \in Subscribers, NEW ks \in SUBSET Keys,
           DisableObservers(t, s, ks)
    PROVE  TypeInv'
<1>1. callbacks' \in Registry
    BY DisableNodesType DEF DisableObservers, TypeInv, TypeOK
<1>2. \A k \in Keys : \A n \in callbacks'[k] : \E m \in callbacks[k] : m.observer = n.observer
    BY DisableNodesObservers DEF DisableObservers, TypeInv, TypeOK
<1> DEFINE last == LastDisabledKeys(callbacks, ks, s)
           r == [IdleOp EXCEPT !.sub = s, !.pc = "disable", !.keys = ks, !.ipc = last,
                               !.proxy = epoch]
<1>3. last \subseteq Keys /\ epoch \in Nat
    BY BoundsAssumption DEF LastDisabledKeys, DisableKeys, TypeInv, TypeOK
<1>4. op' = op \/ op' = [op EXCEPT ![t] = r]
    BY DEF DisableObservers
<1>5. UNCHANGED <<lastChangeNodeMap, nextObserver, disp, rec, svc, up, epoch, inbox,
                  changes, seen>>
    BY DEF DisableObservers, serviceVars
<1>6. tainted' \in SUBSET Keys
    BY DEF DisableObservers, Overlap, TypeInv, TypeOK
<1>7. owed' \in [Observers -> [Keys -> Versions]]
    BY ForgiveType DEF DisableObservers
<1> HIDE DEF last
<1>8. r \in Op
    BY <1>3 DEF Op, IdleOp, ThreadPc
<1> HIDE DEF r
<1> QED
    BY <1>1, <1>2, <1>4, <1>5, <1>6, <1>7, <1>8, RegistryStepType

LEMMA DisableSubscribeDataType ==
    ASSUME TypeInv, NEW t \in Threads, DisableSubscribeData(t)
    PROVE  TypeInv'
<1>1. UNCHANGED <<callbacks, nextObserver, disp, rec, up, epoch, inbox, changes,
                  lastChangeNodeMap, seen, owed, tainted>>
    BY DEF DisableSubscribeData, historyVars
<1>2. svc' \in [Keys -> Status]
    BY AnsweredType DEF DisableSubscribeData, Status
<1>3. ASSUME NEW failed \in SUBSET op[t].ipc
      PROVE  [op[t] EXCEPT !.pc = "rollbackDisable", !.failed = failed] \in Op
    BY OpFields DEF Op, ThreadPc
<1>4. ASSUME NEW failed \in SUBSET op[t].ipc,
             op' = [op EXCEPT ![t].pc = "rollbackDisable", ![t].failed = failed]
      PROVE  op' = [op EXCEPT ![t] = [op[t] EXCEPT !.pc = "rollbackDisable", !.failed = failed]]
    BY <1>4 DEF TypeInv, TypeOK
<1>5. \E r \in Op : op' = [op EXCEPT ![t] = r]
    BY <1>3, <1>4, IdleOpType DEF DisableSubscribeData, Return
<1> QED
    BY <1>1, <1>2, <1>5, OpStepType DEF TypeInv, TypeOK

LEMMA RollbackDisableType ==
    ASSUME TypeInv, NEW t \in Threads, RollbackDisable(t)
    PROVE  TypeInv'
<1>1. callbacks' \in Registry
    BY EnableNodesType DEF RollbackDisable, TypeInv, TypeOK
<1>2. \A k \in Keys : \A n \in callbacks'[k] : \E m \in callbacks[k] : m.observer = n.observer
    BY EnableNodesObservers DEF RollbackDisable, TypeInv, TypeOK
<1>3. owed' \in [Observers -> [Keys -> Versions]]
    BY ForgiveType DEF RollbackDisable
<1>4. /\ op' = [op EXCEPT ![t] = IdleOp]
      /\ UNCHANGED <<lastChangeNodeMap, nextObserver, disp, rec, svc, up, epoch, inbox,
                     changes, seen, tainted>>
    BY DEF RollbackDisable, Return, serviceVars
<1> QED
    BY <1>1, <1>2, <1>3, <1>4, IdleOpType, RegistryStepType DEF TypeInv, TypeOK

LEMMA AnnounceType ==
    ASSUME TypeInv, NEW ks \in SUBSET Keys, Announce(ks)
    PROVE  TypeInv'
<1>1. changes + 1 \in Versions /\ changes' = changes + 1
    BY BoundsAssumption DEF Announce, Versions, TypeInv, TypeOK
<1>2. [keys |-> ks, version |-> changes + 1] \in Change
    BY <1>1 DEF Change
<1>3. inbox' \in Seq(Change)
    BY <1>2, AppendProperties DEF Announce, TypeInv, TypeOK
<1> QED
    BY <1>1, <1>3 DEF Announce, historyVars, TypeInv, TypeOK, ObserverBound, RestartBound

LEMMA ServiceDiedType ==
    ASSUME TypeInv, ServiceDied
    PROVE  TypeInv'
BY DEF ServiceDied, historyVars, TypeInv, TypeOK, Status, ObserverBound, RestartBound

LEMMA ServiceAddedType ==
    ASSUME TypeInv, ServiceAdded
    PROVE  TypeInv'
<1>1. epoch' = epoch + 1 /\ epoch' \in 0 .. MaxRestarts /\ epoch' \in Nat
    BY BoundsAssumption DEF ServiceAdded, TypeInv, TypeOK, RestartBound
<1>2. rec' \in Rec
    BY <1>1 DEF ServiceAdded, IdleRec, Rec
<1> QED
    BY <1>1, <1>2 DEF ServiceAdded, historyVars, TypeInv, TypeOK, ObserverBound, RestartBound

\* A step of the recovery that touches nothing but its own record.
LEMMA RecStepType ==
    ASSUME TypeInv, rec' \in Rec, tainted' \in SUBSET Keys, svc' \in [Keys -> Status],
           UNCHANGED <<callbacks, lastChangeNodeMap, nextObserver, op, disp, up, epoch,
                       inbox, changes, seen, owed>>
    PROVE  TypeInv'
BY DEF TypeInv, TypeOK, ObserverBound, RestartBound

LEMMA IdleRecType == IdleRec \in Rec
BY DEF IdleRec, Rec

LEMMA RecoverNoProxyType ==
    ASSUME TypeInv, RecoverNoProxy
    PROVE  TypeInv'
BY RecStepType, IdleRecType
DEF RecoverNoProxy, GetKeys, serviceVars, historyVars, TypeInv, TypeOK

LEMMA RecoverSubscribeType ==
    ASSUME TypeInv, NEW k, NEW status \in Status, RecoverSubscribe(k, status)
    PROVE  TypeInv'
<1>1. k \in Keys
    BY DEF RecoverSubscribe, TypeInv, TypeOK, Rec
<1>2. rec' \in Rec
    BY IdleRecType DEF RecoverSubscribe, TypeInv, TypeOK, Rec
<1>3. tainted' \in SUBSET Keys /\ svc' \in [Keys -> Status]
    BY <1>1 DEF RecoverSubscribe, TypeInv, TypeOK
<1> QED
    BY <1>2, <1>3, RecStepType DEF RecoverSubscribe, historyVars

\* The initial state.
LEMMA InitType == Init => TypeInv
<1> SUFFICES ASSUME Init PROVE TypeInv
    OBVIOUS
<1>1. ObserverBound /\ RestartBound
    BY DEF Init, ObserverBound, RestartBound
<1>2. callbacks \in Registry /\ op \in [Threads -> Op] /\ rec \in Rec
    BY IdleOpType, IdleRecType DEF Init, Registry
<1>3. disp \in Disp
    BY ZeroVersion DEF Init, IdleDisp, Disp
<1>4. inbox \in Seq(Change)
    BY DEF Init
<1>5. /\ lastChangeNodeMap \in [Keys -> Versions]
      /\ nextObserver \in 0 .. MaxObservers
      /\ svc \in [Keys -> Status]
      /\ up \in BOOLEAN
      /\ epoch \in 0 .. MaxRestarts
      /\ changes \in Versions
      /\ seen \in [Observers -> [Keys -> Versions]]
      /\ owed \in [Observers -> [Keys -> Versions]]
      /\ tainted \in SUBSET Keys
    BY ZeroVersion, BoundsAssumption DEF Init, Status
<1> QED
    BY <1>1, <1>2, <1>3, <1>4, <1>5 DEF TypeInv, TypeOK

\* Calling observers with well-typed notices.
LEMMA OnChangeType ==
    ASSUME TypeInv, NEW notices \in SUBSET Notice, OnChange(notices)
    PROVE  seen' \in [Observers -> [Keys -> Versions]]
<1> SUFFICES ASSUME NEW o \in Observers, NEW k \in Keys
             PROVE  seen'[o][k] \in Versions
    BY DEF OnChange
<1> DEFINE newer == {n \in notices : /\ n.observer = o /\ n.key = k
                                     /\ n.version > seen[o][k]}
<1>1. seen'[o][k] = IF newer = {} THEN seen[o][k] ELSE (CHOOSE n \in newer : TRUE).version
    BY DEF OnChange
<1>2. newer # {} => (CHOOSE n \in newer : TRUE) \in newer
    OBVIOUS
<1>3. \A n \in newer : n.version \in Versions
    BY DEF Notice
<1> QED
    BY <1>1, <1>2, <1>3 DEF TypeInv, TypeOK

\* A step of Emit.
LEMMA DispStepType ==
    ASSUME TypeInv, disp' \in Disp,
           callbacks' \in Registry,
           \A k \in Keys : \A n \in callbacks'[k] :
               \E m \in callbacks[k] : m.observer = n.observer,
           lastChangeNodeMap' \in [Keys -> Versions],
           inbox' \in Seq(Change),
           seen' \in [Observers -> [Keys -> Versions]],
           owed' \in [Observers -> [Keys -> Versions]],
           UNCHANGED <<nextObserver, op, rec, svc, up, epoch, changes, tainted>>
    PROVE  TypeInv'
<1>1. ObserverBound'
    BY DEF TypeInv, ObserverBound
<1> QED
    BY <1>1 DEF TypeInv, TypeOK, RestartBound

\* A step of a thread that changes at most what observers have seen.
LEMMA ReplayStepType ==
    ASSUME TypeInv, NEW t \in Threads, NEW r \in Op, op' = [op EXCEPT ![t] = r],
           seen' = seen \/ OnChange(op[t].cur),
           UNCHANGED <<callbacks, lastChangeNodeMap, nextObserver, disp, rec, svc, up, epoch,
                       inbox, changes, owed, tainted>>
    PROVE  TypeInv'
<1>1. seen' \in [Observers -> [Keys -> Versions]]
    BY OpFields, OnChangeType DEF TypeInv, TypeOK
<1> QED
    BY <1>1, OpStepType DEF TypeInv, TypeOK

-----------------------------------------------------------------------------
(* What the registry's operations do to the enabled nodes of a key *)

\* All enabled nodes of key k belong to subscriber s.
EnabledOnly(cbs, k, s) == \A n \in cbs[k] : n.enabled => n.subscriber = s

LEMMA AddNodesEnabled ==
    ASSUME NEW cbs \in Registry, NEW ks, NEW s, NEW o, NEW k \in Keys,
           ~HasEnabled(cbs, k)
    PROVE  EnabledOnly(AddNodes(cbs, ks, s, o), k, s)
BY DEF AddNodes, HasEnabled, EnabledOnly, NewNode

LEMMA DelNodesEnabled ==
    ASSUME NEW cbs \in Registry, NEW ks, NEW s, NEW k \in Keys
    PROVE  /\ HasEnabled(DelNodes(cbs, ks, s), k) => HasEnabled(cbs, k)
           /\ k \in ks /\ EnabledOnly(cbs, k, s) => ~HasEnabled(DelNodes(cbs, ks, s), k)
           /\ k \in LastDelKeys(cbs, ks, s) => ~HasEnabled(DelNodes(cbs, ks, s), k)
           /\ k \notin ks => DelNodes(cbs, ks, s)[k] = cbs[k]
BY DEF DelNodes, HasEnabled, EnabledOnly, NodesOf, LastDelKeys

LEMMA EnableNodesEnabled ==
    ASSUME NEW cbs \in Registry, NEW ks, NEW s, NEW k \in Keys
    PROVE  /\ ~HasEnabled(cbs, k) => EnabledOnly(EnableNodes(cbs, ks, s), k, s)
           /\ k \notin EnableKeys(cbs, ks, s) => EnableNodes(cbs, ks, s)[k] = cbs[k]
<1>1. CASE k \notin EnableKeys(cbs, ks, s)
    BY <1>1 DEF EnableNodes, HasEnabled, EnabledOnly
<1>2. CASE k \in EnableKeys(cbs, ks, s)
    <2>1. FirstNode(cbs, k, s) \in NodesOf(cbs, k, s)
        BY <1>2, FirstNodeIsNode DEF EnableKeys
    <2>2. ASSUME ~HasEnabled(cbs, k), NEW n \in EnableNodes(cbs, ks, s)[k], n.enabled
          PROVE  n.subscriber = s
        <3>1. n \in {IF m = FirstNode(cbs, k, s) THEN [m EXCEPT !.enabled = TRUE] ELSE m :
                        m \in cbs[k]}
            BY <1>2 DEF EnableNodes
        <3>2. PICK m \in cbs[k] :
                n = IF m = FirstNode(cbs, k, s) THEN [m EXCEPT !.enabled = TRUE] ELSE m
            BY <3>1
        <3>3. m = FirstNode(cbs, k, s)
            BY <2>2, <3>2 DEF HasEnabled
        <3>4. m \in ObserverNode
            BY DEF Registry
        <3>5. [m EXCEPT !.enabled = TRUE].subscriber = m.subscriber
            BY <3>4 DEF ObserverNode
        <3> QED
            BY <2>1, <3>2, <3>3, <3>5 DEF NodesOf
    <2> QED
        BY <1>2, <2>2 DEF EnabledOnly
<1> QED
    BY <1>1, <1>2

LEMMA DisableNodesEnabled ==
    ASSUME NEW cbs \in Registry, NEW ks, NEW s, NEW k \in Keys
    PROVE  /\ HasEnabled(DisableNodes(cbs, ks, s), k) => HasEnabled(cbs, k)
           /\ k \in ks /\ EnabledOnly(cbs, k, s) => ~HasEnabled(DisableNodes(cbs, ks, s), k)
           /\ k \in LastDisabledKeys(cbs, ks, s) =>
                  HasEnabled(cbs, k) /\ ~HasEnabled(DisableNodes(cbs, ks, s), k)
           /\ k \notin ks => DisableNodes(cbs, ks, s)[k] = cbs[k]
<1>1. ASSUME NEW n \in ObserverNode
      PROVE  /\ DisableNode(n, s).enabled => n.enabled
             /\ n.subscriber = s => ~DisableNode(n, s).enabled
    BY DEF DisableNode, ObserverNode
<1>2. cbs[k] \subseteq ObserverNode
    BY DEF Registry
<1>3. HasEnabled(DisableNodes(cbs, ks, s), k) => HasEnabled(cbs, k)
    BY <1>1, <1>2 DEF DisableNodes, HasEnabled
<1>4. k \notin ks => DisableNodes(cbs, ks, s)[k] = cbs[k]
    BY DEF DisableNodes, DisableKeys
<1>5. ASSUME k \in ks, EnabledOnly(cbs, k, s)
      PROVE  ~HasEnabled(DisableNodes(cbs, ks, s), k)
    <2>1. CASE k \in DisableKeys(cbs, ks, s)
        BY <1>1, <1>2, <1>5, <2>1 DEF DisableNodes, HasEnabled, EnabledOnly
    <2>2. CASE k \notin DisableKeys(cbs, ks, s)
        BY <1>5, <2>2 DEF DisableNodes, DisableKeys, HasEnabled, EnabledOnly, NodesOf
    <2> QED
        BY <2>1, <2>2
<1>6. k \in LastDisabledKeys(cbs, ks, s) =>
          HasEnabled(cbs, k) /\ ~HasEnabled(DisableNodes(cbs, ks, s), k)
    BY DEF LastDisabledKeys, DisableKeys
<1> QED
    BY <1>3, <1>4, <1>5, <1>6

-----------------------------------------------------------------------------
(* The service carries what is enabled *)

\* The claim for one key.
Carried(k) == HasEnabled(callbacks, k) => svc[k] = "on"

\* The keys of a call whose enabled nodes the service has not accepted yet.
Refusable(o) ==
    IF o.pc \in {"addEmit", "addNotify", "subscribe", "enable"} THEN o.ipc
    ELSE IF o.pc \in {"rollbackAdd", "rollbackEnable"} THEN o.failed ELSE {}

\* What holds of key k in the middle of call o.
CallInv(o, k) ==
    /\ k \in Refusable(o) => EnabledOnly(callbacks, k, o.sub)
    /\ o.pc \in {"erase", "unsubscribe"} /\ k \in o.erase \cup o.ipc =>
           ~HasEnabled(callbacks, k)
    /\ o.pc = "disable" /\ k \in o.ipc => ~HasEnabled(callbacks, k) /\ svc[k] = "on"
    /\ o.pc = "rollbackDisable" /\ k \in o.failed => svc[k] = "on"
    /\ k \notin Refusable(o) => Carried(k)

\* A key that is not tainted is in at most one call, in none while the service is
\* down or being told of the observers, and otherwise carried.
KeyInv(k) ==
    /\ \A t, u \in Threads : k \in op[t].keys /\ k \in op[u].keys => t = u
    /\ \A t \in Threads : k \in op[t].keys => ~Recovering /\ CallInv(op[t], k)
    /\ ~Recovering /\ ~InCall(k) => Carried(k)

\* The keys a call works on are among those it was called with; a thread that is
\* in no call holds none.
KeysOfCall ==
    \A t \in Threads : /\ op[t].ipc \subseteq op[t].keys
                       /\ op[t].erase \subseteq op[t].keys
                       /\ op[t].failed \subseteq op[t].keys
                       /\ op[t].pc = "idle" => op[t].keys = {}

CarryInv == TypeInv /\ KeysOfCall /\ \A k \in Keys \ tainted : KeyInv(k)

\* While the service is down or being told, a step leaves key k alone.
Untouched(k) == Recovering => callbacks'[k] = callbacks[k] /\ svc'[k] = svc[k]

\* A step of thread t that is not about key k.
LEMMA OtherKey ==
    ASSUME CarryInv, NEW k \in Keys, KeyInv(k), NEW t \in Threads, NEW r \in Op,
           op' = [op EXCEPT ![t] = r], k \notin op[t].keys, k \notin r.keys,
           callbacks'[k] = callbacks[k], svc'[k] = svc[k], UNCHANGED <<up, rec>>
    PROVE  KeyInv(k)' /\ Untouched(k)
<1>1. ASSUME NEW u \in Threads, k \in op'[u].keys PROVE op'[u] = op[u] /\ k \in op[u].keys
    BY <1>1 DEF CarryInv, TypeInv, TypeOK
<1>2. InCall(k)' = InCall(k)
    BY DEF InCall, CarryInv, TypeInv, TypeOK
<1>3. Recovering' = Recovering /\ Carried(k)' = Carried(k)
    BY DEF Recovering, Carried, HasEnabled
<1>4. ASSUME NEW u \in Threads, k \in op'[u].keys PROVE CallInv(op[u], k)' = CallInv(op[u], k)
    BY <1>1, <1>4 DEF CallInv, Refusable, EnabledOnly, HasEnabled, Carried
<1> QED
    BY <1>1, <1>2, <1>3, <1>4 DEF KeyInv, Untouched

\* A step in the middle of thread t's call.
LEMMA CallGoesOn ==
    ASSUME CarryInv, NEW k \in Keys, KeyInv(k), NEW t \in Threads, NEW r \in Op,
           op' = [op EXCEPT ![t] = r], k \in op[t].keys, k \in r.keys,
           CallInv(op[t], k)', UNCHANGED <<up, rec>>
    PROVE  KeyInv(k)' /\ Untouched(k)
<1>1. ASSUME NEW u \in Threads, k \in op'[u].keys PROVE u = t
    BY <1>1 DEF CarryInv, TypeInv, TypeOK, KeyInv
<1>2. ~Recovering /\ ~Recovering'
    BY DEF KeyInv, Recovering
<1>3. InCall(k)'
    BY DEF InCall, CarryInv, TypeInv, TypeOK
<1> QED
    BY <1>1, <1>2, <1>3 DEF KeyInv, Untouched

\* Thread t's call on key k returns.
LEMMA CallReturns ==
    ASSUME CarryInv, NEW k \in Keys, KeyInv(k), NEW t \in Threads,
           op' = [op EXCEPT ![t] = IdleOp], k \in op[t].keys,
           Carried(k)', UNCHANGED <<up, rec>>
    PROVE  KeyInv(k)' /\ Untouched(k)
<1>1. ASSUME NEW u \in Threads, k \in op'[u].keys PROVE FALSE
    BY <1>1 DEF CarryInv, TypeInv, TypeOK, KeyInv, IdleOp
<1>2. ~Recovering
    BY DEF KeyInv
<1> QED
    BY <1>1, <1>2 DEF KeyInv, Untouched

\* Thread t starts a call on key k.
LEMMA CallStarts ==
    ASSUME CarryInv, NEW k \in Keys, KeyInv(k), NEW t \in Threads, NEW r \in Op,
           op' = [op EXCEPT ![t] = r], k \in r.keys, ~InCall(k), ~Recovering,
           CallInv(op[t], k)', UNCHANGED <<up, rec>>
    PROVE  KeyInv(k)' /\ Untouched(k)
<1>1. ASSUME NEW u \in Threads, k \in op'[u].keys PROVE u = t
    BY <1>1 DEF CarryInv, TypeInv, TypeOK, InCall
<1>2. InCall(k)'
    BY DEF InCall, CarryInv, TypeInv, TypeOK
<1>3. ~Recovering'
    BY DEF Recovering
<1> QED
    BY <1>1, <1>2, <1>3 DEF KeyInv, Untouched

\* A call that returns at once.
LEMMA CallIsOneStep ==
    ASSUME CarryInv, NEW k \in Keys, KeyInv(k), op' = op, ~InCall(k), ~Recovering,
           Carried(k)'
    PROVE  KeyInv(k)' /\ Untouched(k)
BY DEF KeyInv, Untouched, InCall

\* What has to be shown of a step of a thread.
CarryStep ==
    /\ KeysOfCall'
    /\ \A k \in Keys \ tainted' : KeyInv(k)' /\ Untouched(k)

LEMMA KeysOfCallStep ==
    ASSUME CarryInv, NEW t \in Threads, NEW r \in Op, op' = [op EXCEPT ![t] = r],
           r.ipc \subseteq r.keys, r.erase \subseteq r.keys, r.failed \subseteq r.keys,
           r.pc = "idle" => r.keys = {}
    PROVE  KeysOfCall'
BY DEF CarryInv, TypeInv, TypeOK, KeysOfCall

LEMMA AddObserversCarry ==
    ASSUME CarryInv, NEW t \in Threads, NEW s \in Subscribers, NEW ks \in SUBSET Keys,
           AddObservers(t, s, ks)
    PROVE  CarryStep
<1>1. TypeInv /\ TypeInv'
    BY AddObserversType DEF CarryInv
<1> DEFINE r == op'[t]
<1>2. r \in Op /\ op' = [op EXCEPT ![t] = r]
    BY <1>1 DEF TypeInv, TypeOK, AddObservers
<1>3. /\ r.keys = ks /\ r.sub = s /\ r.pc \in {"addEmit", "subscribe"}
      /\ r.ipc = FirstRegisterKeys(callbacks, ks)
      /\ r.erase = {} /\ r.failed = {}
    BY <1>1 DEF AddObservers, TypeInv, TypeOK, IdleOp
<1>4. callbacks' = AddNodes(callbacks, ks, s, nextObserver) /\ UNCHANGED <<svc, up, rec>>
    BY DEF AddObservers, serviceVars
<1>5. KeysOfCall'
    BY <1>2, <1>3, KeysOfCallStep DEF FirstRegisterKeys
<1>6. ASSUME NEW k \in Keys, k \notin tainted' PROVE KeyInv(k)' /\ Untouched(k)
    <2>1. k \notin tainted /\ (k \in ks => ~InCall(k) /\ ~Recovering)
        BY <1>6 DEF AddObservers, Overlap
    <2>2. KeyInv(k)
        BY <2>1 DEF CarryInv
    <2>3. CASE k \in ks
        <3>1. Carried(k)
            BY <2>1, <2>2, <2>3 DEF KeyInv
        <3>2. CallInv(op[t], k)'
            <4>1. CASE k \in r.ipc
                <5>1. ~HasEnabled(callbacks, k)
                    BY <1>3, <4>1 DEF FirstRegisterKeys
                <5>2. EnabledOnly(callbacks', k, s)
                    BY <1>1, <1>4, <5>1, AddNodesEnabled DEF TypeInv, TypeOK
                <5> QED
                    BY <1>3, <4>1, <5>2 DEF CallInv, Refusable
            <4>2. CASE k \notin r.ipc
                <5>1. HasEnabled(callbacks, k)
                    BY <1>3, <2>3, <4>2 DEF FirstRegisterKeys
                <5> QED
                    BY <1>3, <1>4, <3>1, <4>2, <5>1 DEF CallInv, Refusable, Carried
            <4> QED
                BY <4>1, <4>2
        <3> QED
            BY <1>2, <1>3, <1>4, <2>1, <2>2, <2>3, <3>2, CallStarts
    <2>4. CASE k \notin ks
        <3>1. callbacks'[k] = callbacks[k]
            BY <1>4, <2>4 DEF AddNodes
        <3>2. k \notin op[t].keys
            BY DEF AddObservers, CarryInv, KeysOfCall
        <3> QED
            BY <1>2, <1>3, <1>4, <2>2, <2>4, <3>1, <3>2, OtherKey
    <2> QED
        BY <2>3, <2>4
<1> QED
    BY <1>5, <1>6 DEF CarryStep

LEMMA SubscribeDataCarry ==
    ASSUME CarryInv, NEW t \in Threads, SubscribeData(t)
    PROVE  CarryStep
<1>1. TypeInv /\ TypeInv' /\ KeysOfCall
    BY SubscribeDataType DEF CarryInv
<1> DEFINE r == op'[t]
<1>2. r \in Op /\ op' = [op EXCEPT ![t] = r]
    BY <1>1 DEF TypeInv, TypeOK, SubscribeData, Return
<1>3. callbacks' = callbacks /\ UNCHANGED <<up, rec>> /\ tainted \subseteq tainted'
    BY DEF SubscribeData
<1>4. \/ r = IdleOp
      \/ /\ r.keys = op[t].keys /\ r.sub = op[t].sub /\ r.pc = "rollbackAdd"
         /\ r.ipc = op[t].ipc /\ r.erase = op[t].erase
         /\ r.failed \subseteq op[t].ipc
    BY <1>1 DEF SubscribeData, Return, TypeInv, TypeOK, Op
<1>5. KeysOfCall'
    BY <1>1, <1>2, <1>4, KeysOfCallStep DEF KeysOfCall, IdleOp
<1>6. ASSUME NEW k \in Keys, k \notin tainted'
      PROVE  /\ svc'[k] = IF k \in op[t].ipc /\ k \notin r.failed THEN "on" ELSE svc[k]
             /\ k \in r.failed => k \in op[t].ipc
    BY <1>1, <1>6 DEF SubscribeData, Answered, Unanswered, Return, IdleOp, TypeInv, TypeOK, Op
<1>7. ASSUME NEW k \in Keys, k \notin tainted' PROVE KeyInv(k)' /\ Untouched(k)
    <2>1. KeyInv(k)
        BY <1>3, <1>7 DEF CarryInv
    <2>2. CASE k \notin op[t].keys
        <3>1. svc'[k] = svc[k] /\ k \notin r.keys
            BY <1>1, <1>4, <1>6, <1>7, <2>2 DEF KeysOfCall, IdleOp
        <3> QED
            BY <1>2, <1>3, <2>1, <2>2, <3>1, OtherKey
    <2>3. CASE k \in op[t].keys
        <3>1. CallInv(op[t], k) /\ op[t].pc = "subscribe"
            BY <2>1, <2>3 DEF KeyInv, SubscribeData
        <3>2. CASE r = IdleOp
            <4>1. Carried(k)'
                BY <1>3, <1>6, <1>7, <3>1, <3>2 DEF CallInv, Refusable, Carried, IdleOp
            <4> QED
                BY <1>2, <1>3, <2>1, <2>3, <3>2, <4>1, CallReturns
        <3>3. CASE r # IdleOp
            <4>1. CallInv(op[t], k)'
                BY <1>3, <1>4, <1>6, <1>7, <3>1, <3>3 DEF CallInv, Refusable, Carried
            <4> QED
                BY <1>2, <1>3, <1>4, <2>1, <2>3, <3>3, <4>1, CallGoesOn
        <3> QED
            BY <3>2, <3>3
    <2> QED
        BY <2>2, <2>3
<1> QED
    BY <1>5, <1>7 DEF CarryStep

LEMMA RollbackAddCarry ==
    ASSUME CarryInv, NEW t \in Threads, RollbackAdd(t)
    PROVE  CarryStep
<1>1. TypeInv /\ KeysOfCall
    BY DEF CarryInv
<1>2. /\ op[t].pc = "rollbackAdd" /\ op' = [op EXCEPT ![t] = IdleOp]
      /\ callbacks' = DelNodes(callbacks, op[t].failed, op[t].sub)
      /\ UNCHANGED <<svc, up, rec, tainted>>
    BY DEF RollbackAdd, Return, serviceVars
<1>3. KeysOfCall'
    BY <1>2, IdleOpType, KeysOfCallStep DEF IdleOp
<1>4. ASSUME NEW k \in Keys, k \notin tainted' PROVE KeyInv(k)' /\ Untouched(k)
    <2>1. KeyInv(k)
        BY <1>2, <1>4 DEF CarryInv
    <2>2. /\ HasEnabled(callbacks, k)' => HasEnabled(callbacks, k)
          /\ k \in op[t].failed /\ EnabledOnly(callbacks, k, op[t].sub) =>
                 ~HasEnabled(callbacks, k)'
          /\ k \notin op[t].failed => callbacks'[k] = callbacks[k]
        BY <1>1, <1>2, DelNodesEnabled DEF TypeInv, TypeOK
    <2>3. CASE k \notin op[t].keys
        <3>1. callbacks'[k] = callbacks[k]
            BY <1>1, <2>2, <2>3 DEF KeysOfCall
        <3> QED
            BY <1>2, <2>1, <2>3, <3>1, IdleOpType, OtherKey DEF IdleOp
    <2>4. CASE k \in op[t].keys
        <3>1. CallInv(op[t], k)
            BY <2>1, <2>4 DEF KeyInv
        <3>2. Carried(k)'
            BY <1>2, <2>2, <3>1 DEF CallInv, Refusable, Carried
        <3> QED
            BY <1>2, <2>1, <2>4, <3>2, CallReturns
    <2> QED
        BY <2>3, <2>4
<1> QED
    BY <1>3, <1>4 DEF CarryStep

LEMMA DelObserversCarry ==
    ASSUME CarryInv, NEW t \in Threads, NEW s \in Subscribers, NEW ks \in SUBSET Keys,
           NEW each \in BOOLEAN, DelObservers(t, s, ks, each)
    PROVE  CarryStep
<1>1. TypeInv /\ TypeInv' /\ KeysOfCall
    BY DelObserversType DEF CarryInv
<1> DEFINE r == op'[t]
<1>2. r \in Op /\ (op' = op \/ op' = [op EXCEPT ![t] = r])
    BY <1>1 DEF TypeInv, TypeOK, DelObservers
<1>3. op' = op \/ (/\ r.keys = ks /\ r.pc = "erase" /\ r.ipc = {} /\ r.failed = {}
                   /\ r.erase = LastDelKeys(callbacks, ks, s))
    BY <1>1 DEF DelObservers, TypeInv, TypeOK, IdleOp
<1>4. callbacks' = DelNodes(callbacks, ks, s) /\ UNCHANGED <<svc, up, rec>>
    BY DEF DelObservers, serviceVars
<1>5. KeysOfCall'
    <2>1. LastDelKeys(callbacks, ks, s) \subseteq ks
        BY DEF LastDelKeys
    <2> QED
        BY <1>1, <1>2, <1>3, <2>1, KeysOfCallStep DEF KeysOfCall
<1>6. ASSUME NEW k \in Keys, k \notin tainted' PROVE KeyInv(k)' /\ Untouched(k)
    <2>1. k \notin tainted /\ (k \in ks => ~InCall(k) /\ ~Recovering)
        BY <1>6 DEF DelObservers, Overlap
    <2>2. KeyInv(k) /\ k \notin op[t].keys
        BY <2>1 DEF CarryInv, KeysOfCall, DelObservers
    <2>3. /\ HasEnabled(callbacks, k)' => HasEnabled(callbacks, k)
          /\ k \in LastDelKeys(callbacks, ks, s) => ~HasEnabled(callbacks, k)'
          /\ k \notin ks => callbacks'[k] = callbacks[k]
        BY <1>1, <1>4, DelNodesEnabled DEF TypeInv, TypeOK
    <2>4. CASE k \in ks
        <3>1. Carried(k)'
            BY <1>4, <2>1, <2>2, <2>3, <2>4 DEF KeyInv, Carried
        <3>2. CASE op' = op
            BY <2>1, <2>2, <2>4, <3>1, <3>2, <1>4, CallIsOneStep
        <3>3. CASE op' # op
            <4>1. CallInv(op[t], k)'
                BY <1>3, <2>3, <3>1, <3>3 DEF CallInv, Refusable
            <4> QED
                BY <1>2, <1>3, <1>4, <2>1, <2>2, <2>4, <3>3, <4>1, CallStarts
        <3> QED
            BY <3>2, <3>3
    <2>5. CASE k \notin ks
        <3>1. \E q \in Op : op' = [op EXCEPT ![t] = q] /\ k \notin q.keys
            BY <1>1, <1>2, <1>3, <2>2, <2>5 DEF TypeInv, TypeOK
        <3> QED
            BY <1>4, <2>2, <2>3, <2>5, <3>1, OtherKey
    <2> QED
        BY <2>4, <2>5
<1> QED
    BY <1>5, <1>6 DEF CarryStep

\* A step of thread t that changes neither the registry nor the service, and
\* leaves what its call has promised.
LEMMA QuietStepCarry ==
    ASSUME CarryInv, NEW t \in Threads, NEW r \in Op, op' = [op EXCEPT ![t] = r],
           UNCHANGED <<callbacks, svc, up, rec, tainted>>,
           \/ r = IdleOp /\ Refusable(op[t]) = {}
           \/ /\ r.keys = op[t].keys /\ r.sub = op[t].sub
              /\ Refusable(r) = Refusable(op[t])
              /\ r.pc \notin {"disable", "rollbackDisable", "idle"}
              /\ r.ipc \subseteq r.keys /\ r.erase \subseteq r.keys
              /\ r.failed \subseteq r.keys
              /\ r.pc \in {"erase", "unsubscribe"} =>
                    /\ op[t].pc \in {"erase", "unsubscribe"}
                    /\ r.erase \cup r.ipc \subseteq op[t].erase \cup op[t].ipc
    PROVE  CarryStep
<1>1. TypeInv /\ KeysOfCall
    BY DEF CarryInv
<1>2. KeysOfCall'
    BY KeysOfCallStep DEF IdleOp
<1>3. ASSUME NEW k \in Keys, k \notin tainted' PROVE KeyInv(k)' /\ Untouched(k)
    <2>1. KeyInv(k)
        BY <1>3 DEF CarryInv
    <2>2. CASE k \notin op[t].keys
        <3>1. k \notin r.keys
            BY <2>2 DEF IdleOp
        <3>2. callbacks'[k] = callbacks[k] /\ svc'[k] = svc[k]
            OBVIOUS
        <3> QED
            BY <2>1, <2>2, <3>1, <3>2, OtherKey
    <2>3. CASE k \in op[t].keys
        <3>1. CallInv(op[t], k)
            BY <2>1, <2>3 DEF KeyInv
        <3>2. CASE r = IdleOp /\ Refusable(op[t]) = {}
            BY <2>1, <2>3, <3>1, <3>2, CallReturns DEF CallInv, Carried
        <3>3. CASE ~(r = IdleOp /\ Refusable(op[t]) = {})
            <4>1. op'[t] = r
                BY <1>1 DEF TypeInv, TypeOK
            <4>2. EnabledOnly(callbacks, k, r.sub)' = EnabledOnly(callbacks, k, op[t].sub)
                BY <3>3 DEF EnabledOnly
            <4>3. Carried(k)' = Carried(k) /\ HasEnabled(callbacks, k)' = HasEnabled(callbacks, k)
                BY DEF Carried, HasEnabled
            <4>4. CallInv(r, k)'
                BY <3>1, <3>3, <4>2, <4>3 DEF CallInv
            <4>5. CallInv(op[t], k)'
                BY <4>1, <4>4
            <4> QED
                BY <2>1, <2>3, <3>3, <4>5, CallGoesOn
        <3> QED
            BY <3>2, <3>3
    <2> QED
        BY <2>2, <2>3
<1> QED
    BY <1>2, <1>3 DEF CarryStep

LEMMA EraseLastChangeCarry ==
    ASSUME CarryInv, NEW t \in Threads, NEW k, EraseLastChange(t, k)
    PROVE  CarryStep
<1>1. TypeInv /\ TypeInv' /\ KeysOfCall
    BY EraseLastChangeType DEF CarryInv
<1> DEFINE r == op'[t]
<1>2. r \in Op /\ op' = [op EXCEPT ![t] = r]
    BY <1>1 DEF TypeInv, TypeOK, EraseLastChange
<1>3. /\ r.keys = op[t].keys /\ r.sub = op[t].sub /\ r.failed = op[t].failed
      /\ r.pc \in {"erase", "unsubscribe"} /\ op[t].pc = "erase" /\ k \in op[t].erase
      /\ r.erase = op[t].erase \ {k} /\ r.ipc = op[t].ipc \cup {k}
    BY <1>1 DEF EraseLastChange, TypeInv, TypeOK, Op
<1>4. Refusable(r) = Refusable(op[t])
    BY <1>3 DEF Refusable
<1>5. UNCHANGED <<callbacks, svc, up, rec, tainted>>
    BY DEF EraseLastChange, serviceVars
<1> HIDE DEF r
<1> QED
    BY <1>1, <1>2, <1>3, <1>4, <1>5, QuietStepCarry DEF KeysOfCall

LEMMA UnSubscribeDataCarry ==
    ASSUME CarryInv, NEW t \in Threads, UnSubscribeData(t)
    PROVE  CarryStep
<1>1. TypeInv /\ TypeInv' /\ KeysOfCall
    BY UnSubscribeDataType DEF CarryInv
<1> DEFINE r == op'[t]
<1>2. r \in Op /\ op' = [op EXCEPT ![t] = r]
    BY <1>1 DEF TypeInv, TypeOK, UnSubscribeData, Return
<1>3. callbacks' = callbacks /\ UNCHANGED <<up, rec, tainted>> /\ op[t].pc = "unsubscribe"
    BY DEF UnSubscribeData
<1>4. \/ r = IdleOp
      \/ /\ r.keys = op[t].keys /\ r.sub = op[t].sub /\ r.pc = "erase"
         /\ r.ipc = {} /\ r.erase = op[t].erase /\ r.failed = op[t].failed
    BY <1>1 DEF UnSubscribeData, Return, TypeInv, TypeOK, Op
<1>5. KeysOfCall'
    BY <1>1, <1>2, <1>4, KeysOfCallStep DEF KeysOfCall, IdleOp
<1>6. ASSUME NEW k \in Keys, k \notin op[t].ipc PROVE svc'[k] = svc[k]
    BY <1>1, <1>6 DEF UnSubscribeData, Answered, Unanswered
<1>7. ASSUME NEW k \in Keys, k \notin tainted' PROVE KeyInv(k)' /\ Untouched(k)
    <2>1. KeyInv(k)
        BY <1>3, <1>7 DEF CarryInv
    <2>2. CASE k \notin op[t].keys
        <3>1. svc'[k] = svc[k] /\ k \notin r.keys
            BY <1>1, <1>4, <1>6, <2>2 DEF KeysOfCall, IdleOp
        <3> QED
            BY <1>2, <1>3, <2>1, <2>2, <3>1, OtherKey
    <2>3. CASE k \in op[t].keys
        <3>1. CallInv(op[t], k)
            BY <2>1, <2>3 DEF KeyInv
        <3>2. Carried(k)'
            BY <1>3, <1>6, <3>1 DEF CallInv, Refusable, Carried
        <3>3. CASE r = IdleOp
            BY <1>2, <1>3, <2>1, <2>3, <3>2, <3>3, CallReturns
        <3>4. CASE r # IdleOp
            <4>1. CallInv(op[t], k)'
                BY <1>3, <1>4, <3>1, <3>2, <3>4 DEF CallInv, Refusable
            <4> QED
                BY <1>2, <1>3, <1>4, <2>1, <2>3, <3>4, <4>1, CallGoesOn
        <3> QED
            BY <3>3, <3>4
    <2> QED
        BY <2>2, <2>3
<1> QED
    BY <1>5, <1>7 DEF CarryStep

LEMMA EnableObserversCarry ==
    ASSUME CarryInv, NEW t \in Threads, NEW s \in Subscribers, NEW ks \in SUBSET Keys,
           EnableObservers(t, s, ks)
    PROVE  CarryStep
<1>1. TypeInv /\ TypeInv' /\ KeysOfCall
    BY EnableObserversType DEF CarryInv
<1> DEFINE r == op'[t]
           send == SendServiceKeys(callbacks, ks, s)
<1>2. r \in Op /\ op' = [op EXCEPT ![t] = r]
    BY <1>1 DEF TypeInv, TypeOK, EnableObservers
<1>3. /\ r.keys = ks /\ r.sub = s
      /\ r.pc = IF send # {} THEN "enable" ELSE "enableEmit"
      /\ r.ipc = send /\ r.erase = {} /\ r.failed = {}
    BY <1>1 DEF EnableObservers, TypeInv, TypeOK, IdleOp
<1>4. callbacks' = EnableNodes(callbacks, ks, s) /\ UNCHANGED <<svc, up, rec>>
    BY DEF EnableObservers, serviceVars
<1>5. KeysOfCall'
    BY <1>2, <1>3, KeysOfCallStep DEF SendServiceKeys, EnableKeys
<1>6. ASSUME NEW k \in Keys, k \notin tainted' PROVE KeyInv(k)' /\ Untouched(k)
    <2>1. k \notin tainted /\ (k \in ks => ~InCall(k) /\ ~Recovering)
        BY <1>6 DEF EnableObservers, Overlap
    <2>2. KeyInv(k) /\ k \notin op[t].keys
        BY <2>1 DEF CarryInv, KeysOfCall, EnableObservers
    <2>3. /\ ~HasEnabled(callbacks, k) => EnabledOnly(callbacks', k, s)
          /\ k \notin EnableKeys(callbacks, ks, s) => callbacks'[k] = callbacks[k]
        BY <1>1, <1>4, EnableNodesEnabled DEF TypeInv, TypeOK
    <2>4. CASE k \in ks
        <3>1. Carried(k)
            BY <2>1, <2>2, <2>4 DEF KeyInv
        <3>2. CASE k \in send
            <4>1. EnabledOnly(callbacks', k, s)
                BY <2>3, <3>2 DEF SendServiceKeys
            <4>2. CallInv(op[t], k)'
                BY <1>3, <3>2, <4>1 DEF CallInv, Refusable
            <4> QED
                BY <1>2, <1>3, <1>4, <2>1, <2>2, <2>4, <4>2, CallStarts
        <3>3. CASE k \notin send
            <4>1. Carried(k)'
                BY <1>4, <2>3, <3>1, <3>3 DEF Carried, SendServiceKeys, HasEnabled
            <4>2. CallInv(op[t], k)'
                BY <1>3, <3>3, <4>1 DEF CallInv, Refusable
            <4> QED
                BY <1>2, <1>3, <1>4, <2>1, <2>2, <2>4, <4>2, CallStarts
        <3> QED
            BY <3>2, <3>3
    <2>5. CASE k \notin ks
        <3>1. callbacks'[k] = callbacks[k]
            BY <2>3, <2>5 DEF EnableKeys
        <3> QED
            BY <1>2, <1>3, <1>4, <2>2, <2>5, <3>1, OtherKey
    <2> QED
        BY <2>4, <2>5
<1> QED
    BY <1>5, <1>6 DEF CarryStep

\* After the service has been dealt with, EnableObservers owes it nothing.
LEMMA EmitOrReturnFields ==
    ASSUME TypeInv, NEW t \in Threads, NEW todo, NEW r, r = EmitOrReturn(t, todo)
    PROVE  \/ r = IdleOp
           \/ /\ r.keys = op[t].keys /\ r.sub = op[t].sub /\ r.erase = op[t].erase
              /\ r.pc = "enableEmit" /\ r.ipc = {} /\ r.failed = {}
BY OpFields DEF EmitOrReturn, Op

LEMMA EnableSubscribeDataCarry ==
    ASSUME CarryInv, NEW t \in Threads, EnableSubscribeData(t)
    PROVE  CarryStep
<1>1. TypeInv /\ TypeInv' /\ KeysOfCall
    BY EnableSubscribeDataType DEF CarryInv
<1> DEFINE r == op'[t]
<1>2. r \in Op /\ op' = [op EXCEPT ![t] = r]
    BY <1>1 DEF TypeInv, TypeOK, EnableSubscribeData
<1>3. /\ callbacks' = callbacks /\ UNCHANGED <<up, rec>> /\ tainted \subseteq tainted'
      /\ op[t].pc = "enable"
    BY DEF EnableSubscribeData
<1>31. \/ /\ Unanswered /\ tainted' = tainted \cup op[t].ipc
         /\ r = EmitOrReturn(t, op[t].todo)
      \/ \E failed \in SUBSET op[t].ipc :
            /\ Answered(t, failed, "on")
            /\ r = IF failed = {} THEN EmitOrReturn(t, op[t].todo)
                   ELSE [op[t] EXCEPT !.pc = "rollbackEnable", !.failed = failed]
    BY <1>1 DEF EnableSubscribeData, TypeInv, TypeOK
<1>32. ASSUME NEW failed, r = [op[t] EXCEPT !.pc = "rollbackEnable", !.failed = failed]
      PROVE  /\ r.keys = op[t].keys /\ r.sub = op[t].sub /\ r.erase = op[t].erase
             /\ r.pc = "rollbackEnable" /\ r.ipc = op[t].ipc /\ r.failed = failed
    BY <1>1, <1>32, OpFields DEF Op
<1>33. r = EmitOrReturn(t, op[t].todo) =>
      \/ r = IdleOp
      \/ /\ r.keys = op[t].keys /\ r.sub = op[t].sub /\ r.erase = op[t].erase
         /\ r.pc = "enableEmit" /\ r.ipc = {} /\ r.failed = {}
    BY <1>1, EmitOrReturnFields
<1>4. \/ r = IdleOp
      \/ /\ r.keys = op[t].keys /\ r.sub = op[t].sub /\ r.erase = op[t].erase
         /\ r.pc = "enableEmit" /\ r.ipc = {} /\ r.failed = {}
      \/ /\ r.keys = op[t].keys /\ r.sub = op[t].sub /\ r.erase = op[t].erase
         /\ r.pc = "rollbackEnable" /\ r.ipc = op[t].ipc /\ r.failed \subseteq op[t].ipc
    BY <1>31, <1>32, <1>33
<1>5. KeysOfCall'
    BY <1>1, <1>2, <1>4, KeysOfCallStep DEF KeysOfCall, IdleOp
<1>6. ASSUME NEW k \in Keys, k \notin tainted'
      PROVE  /\ svc'[k] = IF k \in op[t].ipc /\ k \notin r.failed THEN "on" ELSE svc[k]
             /\ k \in r.failed => k \in op[t].ipc
    <2>1. r.failed = {} \/ ~(r = EmitOrReturn(t, op[t].todo))
        BY <1>33 DEF IdleOp
    <2>2. CASE Unanswered /\ tainted' = tainted \cup op[t].ipc
                          /\ r = EmitOrReturn(t, op[t].todo)
        BY <1>6, <2>1, <2>2 DEF Unanswered
    <2>3. ASSUME NEW failed \in SUBSET op[t].ipc, Answered(t, failed, "on"),
                 r.failed = failed
          PROVE  /\ svc'[k] = IF k \in op[t].ipc /\ k \notin r.failed THEN "on" ELSE svc[k]
                 /\ k \in r.failed => k \in op[t].ipc
        BY <2>3 DEF Answered
    <2>4. ASSUME NEW failed \in SUBSET op[t].ipc,
                 r = IF failed = {} THEN EmitOrReturn(t, op[t].todo)
                     ELSE [op[t] EXCEPT !.pc = "rollbackEnable", !.failed = failed]
          PROVE  r.failed = failed
        BY <1>32, <2>1, <2>4
    <2> QED
        BY <1>31, <2>2, <2>3, <2>4
<1>7. ASSUME NEW k \in Keys, k \notin tainted' PROVE KeyInv(k)' /\ Untouched(k)
    <2>1. KeyInv(k)
        BY <1>3, <1>7 DEF CarryInv
    <2>2. CASE k \notin op[t].keys
        <3>1. svc'[k] = svc[k] /\ k \notin r.keys
            BY <1>1, <1>4, <1>6, <1>7, <2>2 DEF KeysOfCall, IdleOp
        <3> QED
            BY <1>2, <1>3, <2>1, <2>2, <3>1, OtherKey
    <2>3. CASE k \in op[t].keys
        <3>1. CallInv(op[t], k)
            BY <2>1, <2>3 DEF KeyInv
        <3>2. k \notin r.failed => Carried(k)'
            BY <1>3, <1>6, <1>7, <3>1 DEF CallInv, Refusable, Carried
        <3>3. CASE r = IdleOp
            BY <1>2, <1>3, <2>1, <2>3, <3>2, <3>3, CallReturns DEF IdleOp
        <3>4. CASE r # IdleOp
            <4>1. k \in r.failed => EnabledOnly(callbacks', k, r.sub)
                BY <1>3, <1>4, <1>6, <1>7, <3>1, <3>4 DEF CallInv, Refusable
            <4>2. CallInv(op[t], k)'
                BY <1>4, <3>2, <3>4, <4>1 DEF CallInv, Refusable
            <4> QED
                BY <1>2, <1>3, <1>4, <2>1, <2>3, <3>4, <4>2, CallGoesOn
        <3> QED
            BY <3>3, <3>4
    <2> QED
        BY <2>2, <2>3
<1> QED
    BY <1>5, <1>7 DEF CarryStep

LEMMA RollbackEnableCarry ==
    ASSUME CarryInv, NEW t \in Threads, RollbackEnable(t)
    PROVE  CarryStep
<1>1. TypeInv /\ TypeInv' /\ KeysOfCall
    BY RollbackEnableType DEF CarryInv
<1> DEFINE r == op'[t]
<1>2. r \in Op /\ op' = [op EXCEPT ![t] = r]
    BY <1>1 DEF TypeInv, TypeOK, RollbackEnable
<1>3. /\ op[t].pc = "rollbackEnable"
      /\ callbacks' = DisableNodes(callbacks, op[t].failed, op[t].sub)
      /\ UNCHANGED <<svc, up, rec, tainted>>
    BY DEF RollbackEnable, serviceVars
<1>4. \/ r = IdleOp
      \/ /\ r.keys = op[t].keys /\ r.sub = op[t].sub /\ r.erase = op[t].erase
         /\ r.pc = "enableEmit" /\ r.ipc = {} /\ r.failed = {}
    BY <1>1 DEF RollbackEnable, EmitOrReturn, TypeInv, TypeOK, Op
<1>5. KeysOfCall'
    BY <1>1, <1>2, <1>4, KeysOfCallStep DEF KeysOfCall, IdleOp
<1>6. ASSUME NEW k \in Keys, k \notin tainted' PROVE KeyInv(k)' /\ Untouched(k)
    <2>1. KeyInv(k)
        BY <1>3, <1>6 DEF CarryInv
    <2>2. /\ HasEnabled(callbacks, k)' => HasEnabled(callbacks, k)
          /\ k \in op[t].failed /\ EnabledOnly(callbacks, k, op[t].sub) =>
                 ~HasEnabled(callbacks, k)'
          /\ k \notin op[t].failed => callbacks'[k] = callbacks[k]
        BY <1>1, <1>3, DisableNodesEnabled DEF TypeInv, TypeOK
    <2>3. CASE k \notin op[t].keys
        <3>1. callbacks'[k] = callbacks[k] /\ k \notin r.keys
            BY <1>1, <1>4, <2>2, <2>3 DEF KeysOfCall, IdleOp
        <3> QED
            BY <1>2, <1>3, <2>1, <2>3, <3>1, OtherKey
    <2>4. CASE k \in op[t].keys
        <3>1. CallInv(op[t], k)
            BY <2>1, <2>4 DEF KeyInv
        <3>2. Carried(k)'
            BY <1>3, <2>2, <3>1 DEF CallInv, Refusable, Carried
        <3>3. CASE r = IdleOp
            BY <1>2, <1>3, <2>1, <2>4, <3>2, <3>3, CallReturns
        <3>4. CASE r # IdleOp
            <4>1. CallInv(op[t], k)'
                BY <1>4, <3>2, <3>4 DEF CallInv, Refusable
            <4> QED
                BY <1>2, <1>3, <1>4, <2>1, <2>4, <3>4, <4>1, CallGoesOn
        <3> QED
            BY <3>3, <3>4
    <2> QED
        BY <2>3, <2>4
<1> QED
    BY <1>5, <1>6 DEF CarryStep

LEMMA DisableObserversCarry ==
    ASSUME CarryInv, NEW t \in Threads, NEW s \in Subscribers, NEW ks \in SUBSET Keys,
           DisableObservers(t, s, ks)
    PROVE  CarryStep
<1>1. TypeInv /\ TypeInv' /\ KeysOfCall
    BY DisableObserversType DEF CarryInv
<1> DEFINE r == op'[t]
<1>2. r \in Op /\ (op' = op \/ op' = [op EXCEPT ![t] = r])
    BY <1>1 DEF TypeInv, TypeOK, DisableObservers
<1>3. op' = op \/ (/\ r.keys = ks /\ r.pc = "disable" /\ r.erase = {} /\ r.failed = {}
                   /\ r.ipc = LastDisabledKeys(callbacks, ks, s))
    BY <1>1 DEF DisableObservers, TypeInv, TypeOK, IdleOp
<1>4. callbacks' = DisableNodes(callbacks, ks, s) /\ UNCHANGED <<svc, up, rec>>
    BY DEF DisableObservers, serviceVars
<1>5. KeysOfCall'
    <2>1. LastDisabledKeys(callbacks, ks, s) \subseteq ks
        BY DEF LastDisabledKeys, DisableKeys
    <2> QED
        BY <1>1, <1>2, <1>3, <2>1, KeysOfCallStep DEF KeysOfCall
<1>6. ASSUME NEW k \in Keys, k \notin tainted' PROVE KeyInv(k)' /\ Untouched(k)
    <2>1. k \notin tainted /\ (k \in ks => ~InCall(k) /\ ~Recovering)
        BY <1>6 DEF DisableObservers, Overlap
    <2>2. KeyInv(k) /\ k \notin op[t].keys
        BY <2>1 DEF CarryInv, KeysOfCall, DisableObservers
    <2>3. /\ HasEnabled(callbacks, k)' => HasEnabled(callbacks, k)
          /\ k \in LastDisabledKeys(callbacks, ks, s) =>
                HasEnabled(callbacks, k) /\ ~HasEnabled(callbacks, k)'
          /\ k \notin ks => callbacks'[k] = callbacks[k]
        BY <1>1, <1>4, DisableNodesEnabled DEF TypeInv, TypeOK
    <2>4. CASE k \in ks
        <3>1. Carried(k) /\ Carried(k)'
            BY <1>4, <2>1, <2>2, <2>3, <2>4 DEF KeyInv, Carried
        <3>2. CASE op' = op
            BY <2>1, <2>2, <2>4, <3>1, <3>2, <1>4, CallIsOneStep
        <3>3. CASE op' # op
            <4>1. k \in r.ipc => ~HasEnabled(callbacks, k)' /\ svc'[k] = "on"
                BY <1>3, <1>4, <2>3, <3>1, <3>3 DEF Carried
            <4>2. CallInv(op[t], k)'
                BY <1>3, <3>1, <3>3, <4>1 DEF CallInv, Refusable
            <4> QED
                BY <1>2, <1>3, <1>4, <2>1, <2>2, <2>4, <3>3, <4>2, CallStarts
        <3> QED
            BY <3>2, <3>3
    <2>5. CASE k \notin ks
        <3>1. \E q \in Op : op' = [op EXCEPT ![t] = q] /\ k \notin q.keys
            BY <1>1, <1>2, <1>3, <2>2, <2>5 DEF TypeInv, TypeOK
        <3> QED
            BY <1>4, <2>2, <2>3, <2>5, <3>1, OtherKey
    <2> QED
        BY <2>4, <2>5
<1> QED
    BY <1>5, <1>6 DEF CarryStep

LEMMA DisableSubscribeDataCarry ==
    ASSUME CarryInv, NEW t \in Threads, DisableSubscribeData(t)
    PROVE  CarryStep
<1>1. TypeInv /\ TypeInv' /\ KeysOfCall
    BY DisableSubscribeDataType DEF CarryInv
<1> DEFINE r == op'[t]
<1>2. r \in Op /\ op' = [op EXCEPT ![t] = r]
    BY <1>1 DEF TypeInv, TypeOK, DisableSubscribeData, Return
<1>3. callbacks' = callbacks /\ UNCHANGED <<up, rec, tainted>> /\ op[t].pc = "disable"
    BY DEF DisableSubscribeData
<1>4. \/ r = IdleOp
      \/ /\ r.keys = op[t].keys /\ r.sub = op[t].sub /\ r.pc = "rollbackDisable"
         /\ r.ipc = op[t].ipc /\ r.erase = op[t].erase
         /\ r.failed \subseteq op[t].ipc
    BY <1>1 DEF DisableSubscribeData, Return, TypeInv, TypeOK, Op
<1>5. KeysOfCall'
    BY <1>1, <1>2, <1>4, KeysOfCallStep DEF KeysOfCall, IdleOp
<1>6. ASSUME NEW k \in Keys
      PROVE  /\ k \notin op[t].ipc => svc'[k] = svc[k]
             /\ k \in r.failed => svc'[k] = svc[k] /\ k \in op[t].ipc
    BY <1>1 DEF DisableSubscribeData, Answered, Unanswered, Return, IdleOp, TypeInv, TypeOK, Op
<1>7. ASSUME NEW k \in Keys, k \notin tainted' PROVE KeyInv(k)' /\ Untouched(k)
    <2>1. KeyInv(k)
        BY <1>3, <1>7 DEF CarryInv
    <2>2. CASE k \notin op[t].keys
        <3>1. svc'[k] = svc[k] /\ k \notin r.keys
            BY <1>1, <1>4, <1>6, <2>2 DEF KeysOfCall, IdleOp
        <3> QED
            BY <1>2, <1>3, <2>1, <2>2, <3>1, OtherKey
    <2>3. CASE k \in op[t].keys
        <3>1. CallInv(op[t], k)
            BY <2>1, <2>3 DEF KeyInv
        <3>2. Carried(k)'
            BY <1>3, <1>6, <3>1 DEF CallInv, Refusable, Carried
        <3>3. CASE r = IdleOp
            BY <1>2, <1>3, <2>1, <2>3, <3>2, <3>3, CallReturns
        <3>4. CASE r # IdleOp
            <4>1. k \in r.failed => svc'[k] = "on"
                BY <1>3, <1>6, <3>1 DEF CallInv
            <4>2. CallInv(op[t], k)'
                BY <1>4, <3>2, <3>4, <4>1 DEF CallInv, Refusable
            <4> QED
                BY <1>2, <1>3, <1>4, <2>1, <2>3, <3>4, <4>2, CallGoesOn
        <3> QED
            BY <3>3, <3>4
    <2> QED
        BY <2>2, <2>3
<1> QED
    BY <1>5, <1>7 DEF CarryStep

LEMMA RollbackDisableCarry ==
    ASSUME CarryInv, NEW t \in Threads, RollbackDisable(t)
    PROVE  CarryStep
<1>1. TypeInv /\ KeysOfCall
    BY DEF CarryInv
<1>2. /\ op[t].pc = "rollbackDisable" /\ op' = [op EXCEPT ![t] = IdleOp]
      /\ callbacks' = EnableNodes(callbacks, op[t].failed, op[t].sub)
      /\ UNCHANGED <<svc, up, rec, tainted>>
    BY DEF RollbackDisable, Return, serviceVars
<1>3. KeysOfCall'
    BY <1>2, IdleOpType, KeysOfCallStep DEF IdleOp
<1>4. ASSUME NEW k \in Keys, k \notin tainted' PROVE KeyInv(k)' /\ Untouched(k)
    <2>1. KeyInv(k)
        BY <1>2, <1>4 DEF CarryInv
    <2>2. k \notin op[t].failed => callbacks'[k] = callbacks[k]
        BY <1>1, <1>2, EnableNodesEnabled DEF TypeInv, TypeOK, EnableKeys
    <2>3. CASE k \notin op[t].keys
        <3>1. callbacks'[k] = callbacks[k]
            BY <1>1, <2>2, <2>3 DEF KeysOfCall
        <3> QED
            BY <1>2, <2>1, <2>3, <3>1, IdleOpType, OtherKey DEF IdleOp
    <2>4. CASE k \in op[t].keys
        <3>1. CallInv(op[t], k)
            BY <2>1, <2>4 DEF KeyInv
        <3>2. Carried(k)'
            BY <1>2, <2>2, <3>1 DEF CallInv, Refusable, Carried, HasEnabled
        <3> QED
            BY <1>2, <2>1, <2>4, <3>2, CallReturns
    <2> QED
        BY <2>3, <2>4
<1> QED
    BY <1>3, <1>4 DEF CarryStep

-----------------------------------------------------------------------------
(* Steps of the other threads *)

\* Marking observers changes nothing that matters to the service.
SameNodes(k) ==
    /\ HasEnabled(callbacks', k) = HasEnabled(callbacks, k)
    /\ \A s : EnabledOnly(callbacks', k, s) = EnabledOnly(callbacks, k, s)
    /\ callbacks'[k] = {} <=> callbacks[k] = {}

LEMMA SetNotifiedOnSame ==
    ASSUME TypeInv, NEW j \in Keys, callbacks' = SetNotifiedOn(callbacks, j), NEW k \in Keys
    PROVE  SameNodes(k)
<1>1. callbacks[k] \subseteq ObserverNode /\ callbacks \in [Keys -> SUBSET ObserverNode]
    BY DEF TypeInv, TypeOK, Registry
<1>2. CASE k # j
    <2>1. callbacks'[k] = callbacks[k]
        BY <1>1, <1>2 DEF SetNotifiedOn
    <2> QED
        BY <2>1 DEF SameNodes, HasEnabled, EnabledOnly
<1>3. CASE k = j
    <2> DEFINE mark(n) == [n EXCEPT !.isNotifyOnEnabled = ~n.enabled]
    <2>1. callbacks'[k] = {mark(n) : n \in callbacks[k]}
        BY <1>1, <1>3 DEF SetNotifiedOn
    <2>2. ASSUME NEW n \in callbacks[k]
          PROVE  mark(n).enabled = n.enabled /\ mark(n).subscriber = n.subscriber
        BY <1>1 DEF ObserverNode
    <2> HIDE DEF mark
    <2>3. HasEnabled(callbacks', k) = HasEnabled(callbacks, k)
        BY <2>1, <2>2 DEF HasEnabled
    <2>4. ASSUME NEW s PROVE EnabledOnly(callbacks', k, s) = EnabledOnly(callbacks, k, s)
        BY <2>1, <2>2 DEF EnabledOnly
    <2> QED
        BY <2>1, <2>3, <2>4 DEF SameNodes
<1> QED
    BY <1>2, <1>3

\* A step of Emit.
LEMMA EmitCarry ==
    ASSUME CarryInv, \A k \in Keys : SameNodes(k), UNCHANGED <<op, svc, up, rec, tainted>>
    PROVE  /\ KeysOfCall'
           /\ \A k \in Keys \ tainted' : KeyInv(k)'
<1>1. KeysOfCall'
    BY DEF CarryInv, KeysOfCall
<1>2. ASSUME NEW k \in Keys, k \notin tainted' PROVE KeyInv(k)'
    <2>1. KeyInv(k) /\ SameNodes(k)
        BY <1>2 DEF CarryInv
    <2>2. Carried(k)' = Carried(k) /\ Recovering' = Recovering /\ InCall(k)' = InCall(k)
        BY <2>1 DEF SameNodes, Carried, Recovering, InCall
    <2>3. ASSUME NEW t \in Threads PROVE CallInv(op[t], k)' = CallInv(op[t], k)
        BY <2>1, <2>2 DEF SameNodes, CallInv, Refusable
    <2> QED
        BY <2>1, <2>2, <2>3 DEF KeyInv
<1> QED
    BY <1>1, <1>2

\* A step of the recovery.  When it was the last one, the key must be carried.
LEMMA RecoverCarry ==
    ASSUME CarryInv, rec.pc # "idle", UNCHANGED <<callbacks, op, up>>,
           tainted \subseteq tainted',
           \A k \in Keys \ tainted' : up /\ rec'.pc = "idle" => Carried(k)'
    PROVE  /\ KeysOfCall'
           /\ \A k \in Keys \ tainted' : KeyInv(k)'
<1>1. KeysOfCall'
    BY DEF CarryInv, KeysOfCall
<1>2. ASSUME NEW k \in Keys, k \notin tainted' PROVE KeyInv(k)'
    <2>1. KeyInv(k)
        BY <1>2 DEF CarryInv
    <2>2. \A t \in Threads : k \notin op[t].keys
        BY <2>1 DEF KeyInv, Recovering
    <2>3. ~Recovering' => Carried(k)'
        BY <1>2 DEF Recovering
    <2> QED
        BY <2>2, <2>3 DEF KeyInv
<1> QED
    BY <1>1, <1>2

\* The death and the return of the service.
LEMMA ServiceCarry ==
    ASSUME CarryInv, ServiceDied \/ ServiceAdded
    PROVE  /\ KeysOfCall'
           /\ \A k \in Keys \ tainted' : KeyInv(k)'
<1>1. op' = op /\ KeysOfCall'
    BY DEF CarryInv, KeysOfCall, ServiceDied, ServiceAdded
<1>2. Recovering'
    BY DEF ServiceDied, ServiceAdded, Recovering, IdleRec
<1>3. ASSUME NEW k \in Keys, k \notin tainted' PROVE \A t \in Threads : k \notin op[t].keys
    <2>1. CASE ServiceDied
        BY <1>3, <2>1 DEF ServiceDied, InCall
    <2>2. CASE ServiceAdded
        BY <1>3, <2>2 DEF ServiceAdded, CarryInv, KeyInv, Recovering
    <2> QED
        BY <2>1, <2>2
<1> QED
    BY <1>1, <1>2, <1>3 DEF KeyInv

\* Steps that concern neither the registry nor the service's subscriptions.
LEMMA NothingCarry ==
    ASSUME CarryInv, UNCHANGED <<callbacks, op, svc, up, rec, tainted>>
    PROVE  /\ KeysOfCall'
           /\ \A k \in Keys \ tainted' : KeyInv(k)'
BY EmitCarry DEF SameNodes

\* The invariant says what the property says.
LEMMA CarryInvImplies == CarryInv => ServiceCarriesEnabled
BY DEF CarryInv, KeyInv, Carried, ServiceCarriesEnabled

=============================================================================
