---------------------- MODULE SubscriberDelivery_proof ----------------------
(***************************************************************************)
(* Why no observer misses a change: the part of the argument that the two  *)
(* subscriber managers share.                                              *)
(*                                                                         *)
(* An observer that is behind (it has a claim to a change it was not       *)
(* called with) always has its debt written down somewhere: in the Emit in *)
(* progress, in the flag of its disabled node, or in the flag of its       *)
(* enabled node together with the replay of an EnableObservers call.  The  *)
(* lemmas show that every step of a call keeps it so, however calls and    *)
(* deliveries interleave.                                                  *)
(***************************************************************************)
EXTENDS SubscriberManager_proof

-----------------------------------------------------------------------------
(* The inductive invariant *)

\* Changes are stored in the order in which the service numbered them: what an
\* observer has a claim to is not newer than the stored change, the stored change
\* not newer than the one Emit has in hand, and that one not newer than what waits.
Ordered ==
    /\ \A k \in Keys : lastChangeNodeMap[k] <= changes
    /\ \A k \in Keys : \A o \in Observers : owed[o][k] <= lastChangeNodeMap[k]
    /\ \A k \in Keys : \A o \in Observers : o >= nextObserver => owed[o][k] = 0
    /\ disp.version <= changes
    /\ disp.pc # "idle" => \A k \in Keys : lastChangeNodeMap[k] <= disp.version
    /\ \A x \in disp.todo : x.version = disp.version /\ x.observer < nextObserver

InboxOrdered ==
    \A i \in 1 .. Len(inbox) :
        /\ inbox[i].version <= changes
        /\ disp.version <= inbox[i].version
        /\ \A k \in Keys : lastChangeNodeMap[k] <= inbox[i].version
        /\ \A j \in i .. Len(inbox) : inbox[i].version <= inbox[j].version

\* The steps of EnableObservers after its lock section.
EnablePc == {"enable", "rollbackEnable", "enableEmit", "enableCheck", "enableNotify"}

\* The replay of key k for observer o is still to be read from the map.
Queued(q, k, o) ==
    /\ \A x \in q.cur : x.key # k
    /\ \E r \in q.todo : /\ r.key = k /\ r.observer = o /\ r.isNotifyOnEnabled
                         /\ \A p \in q.todo : p.key = k => p = r

\* It has been read: change v or a later one.
Taken(q, k, o, v) ==
    /\ \E x \in q.cur : x.key = k /\ x.observer = o
    /\ \A x \in q.cur : x.key = k => x.version >= v

\* Call q is going to replay change v, or a later one, of key k to observer o.
Replaying(q, k, o, v) ==
    /\ q.pc \in EnablePc
    /\ k \in q.keys
    /\ Queued(q, k, o) \/ Taken(q, k, o, v)

\* Where the debt to node n of key k is written down.
Pending(k, n) ==
    \/ disp.pc = "collect" /\ k \in disp.keys
    \/ \E x \in disp.todo : x.key = k /\ x.observer = n.observer
    \/ /\ n.isNotifyOnEnabled
       /\ \/ ~n.enabled
          \/ \E t \in Threads : Replaying(op[t], k, n.observer, owed[n.observer][k])

Behind(o, k) == seen[o][k] < owed[o][k]

DebtsOf(k) == \A n \in callbacks[k] : Behind(n.observer, k) => Pending(k, n)

\* Nothing has been read before the service was dealt with.
NothingReadBefore ==
    \A t \in Threads : op[t].pc \in {"enable", "rollbackEnable"} => op[t].cur = {}

DeliveryInv ==
    /\ TypeInv /\ Ordered /\ InboxOrdered /\ NothingReadBefore
    /\ \A k \in Keys : DebtsOf(k)

-----------------------------------------------------------------------------
(* Steps that leave replays alone *)

\* The debt to the nodes of key k is written down after a step wherever it was
\* before: an old node's flag is not lost, and it is enabled only when it was.
Keeps(k) ==
    \A n \in callbacks'[k] :
        \/ owed'[n.observer][k] = 0
        \/ \E m \in callbacks[k] :
              /\ m.observer = n.observer
              /\ owed'[n.observer][k] = owed[n.observer][k]
              /\ m.isNotifyOnEnabled => n.isNotifyOnEnabled /\ (n.enabled => m.enabled)

\* The calls that replay go on.
ReplaysGoOn ==
    \A t \in Threads : \A k \in Keys : \A o \in Observers :
        \A v \in Versions : Replaying(op[t], k, o, v) => Replaying(op'[t], k, o, v)

LEMMA NodeFields ==
    ASSUME TypeInv, NEW k \in Keys, NEW n \in callbacks[k]
    PROVE  /\ n \in ObserverNode
           /\ n.observer \in Observers
           /\ n.enabled \in BOOLEAN /\ n.isNotifyOnEnabled \in BOOLEAN
           /\ seen[n.observer][k] \in Versions /\ owed[n.observer][k] \in Versions
<1>1. n \in ObserverNode /\ n.observer \in Observers
    BY RegisteredObservers DEF TypeInv, TypeOK, Registry
<1> QED
    BY <1>1 DEF TypeInv, TypeOK, ObserverNode

\* The same after a step.
LEMMA NextNodeFields ==
    ASSUME TypeInv', NEW k \in Keys, NEW n \in callbacks'[k]
    PROVE  /\ n \in ObserverNode
           /\ n.observer \in Observers
           /\ n.enabled \in BOOLEAN /\ n.isNotifyOnEnabled \in BOOLEAN
           /\ seen'[n.observer][k] \in Versions /\ owed'[n.observer][k] \in Versions
<1>1. n \in ObserverNode /\ n.observer < nextObserver' /\ nextObserver' \in 0 .. MaxObservers
    BY DEF TypeInv, TypeOK, ObserverBound, Registry
<1>2. n.observer \in Observers
    BY <1>1, BoundsAssumption DEF ObserverNode, Observers
<1> QED
    BY <1>1, <1>2 DEF TypeInv, TypeOK, ObserverNode

LEMMA KeptDebts ==
    ASSUME TypeInv, TypeInv', NEW k \in Keys, DebtsOf(k), Keeps(k), ReplaysGoOn,
           UNCHANGED <<seen, disp>>
    PROVE  DebtsOf(k)'
<1> SUFFICES ASSUME NEW n \in callbacks'[k], Behind(n.observer, k)'
             PROVE  Pending(k, n)'
    BY DEF DebtsOf
<1>1. /\ n.observer \in Observers
      /\ seen'[n.observer][k] \in Versions /\ owed'[n.observer][k] \in Versions
      /\ n.enabled \in BOOLEAN /\ n.isNotifyOnEnabled \in BOOLEAN
    BY NextNodeFields
<1>2. owed'[n.observer][k] # 0
    BY <1>1, BoundsAssumption DEF Behind, Versions
<1>3. PICK m \in callbacks[k] :
              /\ m.observer = n.observer
              /\ owed'[n.observer][k] = owed[n.observer][k]
              /\ m.isNotifyOnEnabled => n.isNotifyOnEnabled /\ (n.enabled => m.enabled)
    BY <1>2 DEF Keeps
<1>4. Pending(k, m)
    BY <1>3 DEF DebtsOf, Behind
<1>5. CASE (disp.pc = "collect" /\ k \in disp.keys)
           \/ \E x \in disp.todo : x.key = k /\ x.observer = m.observer
    BY <1>3, <1>5 DEF Pending
<1>6. CASE m.isNotifyOnEnabled /\ ~m.enabled
    BY <1>3, <1>6 DEF Pending
<1>7. ASSUME NEW t \in Threads, m.isNotifyOnEnabled,
             Replaying(op[t], k, m.observer, owed[m.observer][k])
      PROVE  Pending(k, n)'
    <2>1. Replaying(op'[t], k, n.observer, owed'[n.observer][k])
        BY <1>1, <1>3, <1>7 DEF ReplaysGoOn
    <2> QED
        BY <1>3, <1>7, <2>1 DEF Pending
<1> QED
    BY <1>4, <1>5, <1>6, <1>7 DEF Pending

\* A thread that is not in EnableObservers moves: no replay is disturbed.
LEMMA OtherCallMoves ==
    ASSUME TypeInv, NEW t \in Threads, op[t].pc \notin EnablePc,
           \A u \in Threads \ {t} : op'[u] = op[u]
    PROVE  ReplaysGoOn
<1> SUFFICES ASSUME NEW u \in Threads, NEW k, NEW o, NEW v, Replaying(op[u], k, o, v)
             PROVE  Replaying(op'[u], k, o, v)
    BY DEF ReplaysGoOn
<1>1. u # t
    BY DEF Replaying
<1> QED
    BY <1>1

\* A step that stores nothing keeps the order of changes.
LEMMA KeptOrder ==
    ASSUME TypeInv, TypeInv', Ordered, InboxOrdered,
           UNCHANGED <<lastChangeNodeMap, disp, inbox, changes>>,
           nextObserver' >= nextObserver,
           \A o \in Observers : \A k \in Keys :
               owed'[o][k] = owed[o][k] \/ owed'[o][k] = 0
    PROVE  Ordered' /\ InboxOrdered'
<1>1. InboxOrdered'
    BY DEF InboxOrdered
<1>2. /\ lastChangeNodeMap \in [Keys -> Nat]
      /\ owed \in [Observers -> [Keys -> Nat]]
      /\ nextObserver \in Nat /\ nextObserver' \in Nat
      /\ Observers \subseteq Nat
      /\ disp.todo \subseteq Notice
    BY BoundsAssumption DEF TypeInv, TypeOK, Versions, Observers, Disp
<1>3. \A x \in disp.todo : x.observer \in Nat
    BY <1>2 DEF Notice
<1>4. \A k \in Keys : \A o \in Observers : owed'[o][k] <= lastChangeNodeMap'[k]
    BY <1>2 DEF Ordered
<1>5. \A k \in Keys : \A o \in Observers : o >= nextObserver' => owed'[o][k] = 0
    BY <1>2 DEF Ordered
<1>6. \A x \in disp.todo : x.observer < nextObserver'
    BY <1>2, <1>3 DEF Ordered
<1> QED
    BY <1>1, <1>4, <1>5, <1>6 DEF Ordered

\* What has to be shown of a step of a thread.
LEMMA CallKeepsDelivery ==
    ASSUME DeliveryInv, TypeInv', NEW t \in Threads,
           \A u \in Threads \ {t} : op'[u] = op[u],
           op'[t].pc \in {"enable", "rollbackEnable"} => op'[t].cur = {},
           ReplaysGoOn,
           UNCHANGED <<lastChangeNodeMap, disp, inbox, changes, seen>>,
           nextObserver' >= nextObserver,
           \A o \in Observers : \A k \in Keys :
               owed'[o][k] = owed[o][k] \/ owed'[o][k] = 0,
           \A k \in Keys : Keeps(k)
    PROVE  DeliveryInv'
<1>1. NothingReadBefore'
    BY DEF NothingReadBefore, DeliveryInv
<1>2. Ordered' /\ InboxOrdered'
    BY KeptOrder DEF DeliveryInv
<1>3. \A k \in Keys : DebtsOf(k)'
    BY KeptDebts DEF DeliveryInv
<1> QED
    BY <1>1, <1>2, <1>3 DEF DeliveryInv

-----------------------------------------------------------------------------
(* AddObservers and DelObservers *)

LEMMA SameNodesKeep ==
    ASSUME NEW k \in Keys, callbacks'[k] \subseteq callbacks[k],
           \A n \in callbacks[k] : \/ owed'[n.observer][k] = owed[n.observer][k]
                                   \/ owed'[n.observer][k] = 0
    PROVE  Keeps(k)
BY DEF Keeps

LEMMA IdlePc == IdleOp.pc = "idle"
BY DEF IdleOp

LEMMA ChangeNumbers ==
    ASSUME TypeInv
    PROVE  /\ changes \in Nat /\ disp.version \in Nat
           /\ \A k \in Keys : lastChangeNodeMap[k] \in Nat
           /\ \A i \in 1 .. Len(inbox) : inbox[i] \in Change /\ inbox[i].version \in Nat
<1>1. changes \in Nat /\ disp.version \in Nat /\ \A k \in Keys : lastChangeNodeMap[k] \in Nat
    BY BoundsAssumption DEF TypeInv, TypeOK, Versions, Disp
<1>2. \A i \in 1 .. Len(inbox) : inbox[i] \in Change
    BY ElementOfSeq DEF TypeInv, TypeOK
<1> QED
    BY <1>1, <1>2, BoundsAssumption DEF Change, Versions

LEMMA AddObserversDelivery ==
    ASSUME DeliveryInv, NEW t \in Threads, NEW s \in Subscribers, NEW ks \in SUBSET Keys,
           AddObservers(t, s, ks)
    PROVE  DeliveryInv'
<1>1. TypeInv /\ TypeInv'
    BY AddObserversType DEF DeliveryInv
<1>2. /\ \A u \in Threads \ {t} : op'[u] = op[u]
      /\ op'[t].pc \in {"addEmit", "subscribe"}
    BY <1>1 DEF AddObservers, IdleOp, TypeInv, TypeOK
<1>3. op[t].pc \notin EnablePc
    BY DEF AddObservers, EnablePc
<1>4. UNCHANGED <<lastChangeNodeMap, disp, inbox, changes, seen, owed>>
      /\ nextObserver' = nextObserver + 1
    BY DEF AddObservers, serviceVars, historyVars
<1>5. nextObserver \in Observers
    BY <1>1, BoundsAssumption DEF AddObservers, Observers, TypeInv, TypeOK
<1>6. ASSUME NEW k \in Keys PROVE Keeps(k)
    <2>1. owed[nextObserver][k] = 0
        BY <1>5 DEF DeliveryInv, Ordered, Observers
    <2>2. \A n \in callbacks'[k] : n \in callbacks[k] \/ n.observer = nextObserver
        BY DEF AddObservers, AddNodes, NewNode
    <2> QED
        BY <1>4, <2>1, <2>2 DEF Keeps
<1>7. nextObserver' >= nextObserver
    BY <1>4, <1>5 DEF Observers
<1> QED
    BY <1>1, <1>2, <1>3, <1>4, <1>6, <1>7, OtherCallMoves, CallKeepsDelivery

\* Steps of a call that leave the registry alone and take no part in a replay.
LEMMA QuietDelivery ==
    ASSUME DeliveryInv, TypeInv', NEW t \in Threads, NEW r, op' = [op EXCEPT ![t] = r],
           op[t].pc \notin EnablePc, r.pc \notin {"enable", "rollbackEnable"},
           UNCHANGED <<callbacks, lastChangeNodeMap, nextObserver, disp, inbox, changes, seen,
                       owed>>
    PROVE  DeliveryInv'
<1>1. TypeInv
    BY DEF DeliveryInv
<1>2. (\A u \in Threads \ {t} : op'[u] = op[u]) /\ op'[t] = r
    BY <1>1 DEF TypeInv, TypeOK
<1>3. \A k \in Keys : Keeps(k)
    BY SameNodesKeep
<1>4. nextObserver' >= nextObserver
    BY <1>1 DEF TypeInv, TypeOK
<1> QED
    BY <1>1, <1>2, <1>3, <1>4, OtherCallMoves, CallKeepsDelivery

LEMMA SubscribeDataDelivery ==
    ASSUME DeliveryInv, NEW t \in Threads, SubscribeData(t)
    PROVE  DeliveryInv'
<1>1. TypeInv /\ TypeInv'
    BY SubscribeDataType DEF DeliveryInv
<1>2. \E r : op' = [op EXCEPT ![t] = r] /\ r.pc \notin {"enable", "rollbackEnable"}
    <2>1. CASE Return(t)
        BY <2>1, IdlePc DEF Return
    <2>2. ASSUME NEW failed,
                 op' = [op EXCEPT ![t].pc = "rollbackAdd", ![t].failed = failed]
          PROVE  \E r : op' = [op EXCEPT ![t] = r] /\ r.pc \notin {"enable", "rollbackEnable"}
        <3> DEFINE r == [op[t] EXCEPT !.pc = "rollbackAdd", !.failed = failed]
        <3>1. op' = [op EXCEPT ![t] = r]
            BY <1>1, <2>2 DEF TypeInv, TypeOK
        <3>2. r.pc = "rollbackAdd"
            BY <1>1, OpFields DEF Op
        <3> QED
            BY <3>1, <3>2
    <2> QED
        BY <2>1, <2>2 DEF SubscribeData
<1> QED
    BY <1>1, <1>2, QuietDelivery DEF SubscribeData, EnablePc, historyVars

LEMMA RollbackAddDelivery ==
    ASSUME DeliveryInv, NEW t \in Threads, RollbackAdd(t)
    PROVE  DeliveryInv'
<1>1. TypeInv /\ TypeInv'
    BY RollbackAddType DEF DeliveryInv
<1>2. (\A u \in Threads \ {t} : op'[u] = op[u]) /\ op'[t] = IdleOp
    BY <1>1 DEF RollbackAdd, Return, TypeInv, TypeOK
<1>3. UNCHANGED <<lastChangeNodeMap, nextObserver, disp, inbox, changes, seen, owed>>
    BY DEF RollbackAdd, serviceVars, historyVars
<1>4. ASSUME NEW k \in Keys PROVE Keeps(k)
    BY <1>3, SameNodesKeep DEF RollbackAdd, DelNodes
<1>5. nextObserver' >= nextObserver
    BY <1>1, <1>3 DEF TypeInv, TypeOK
<1>6. op[t].pc \notin EnablePc /\ IdleOp.pc = "idle"
    BY DEF RollbackAdd, EnablePc, IdleOp
<1> QED
    BY <1>1, <1>2, <1>3, <1>4, <1>5, <1>6, OtherCallMoves, CallKeepsDelivery

LEMMA DelObserversDelivery ==
    ASSUME DeliveryInv, NEW t \in Threads, NEW s \in Subscribers, NEW ks \in SUBSET Keys,
           NEW each \in BOOLEAN, DelObservers(t, s, ks, each)
    PROVE  DeliveryInv'
<1>1. TypeInv /\ TypeInv'
    BY DelObserversType DEF DeliveryInv
<1>2. (\A u \in Threads \ {t} : op'[u] = op[u]) /\ op'[t].pc \in {"idle", "erase"}
    BY <1>1 DEF DelObservers, IdleOp, TypeInv, TypeOK
<1>3. UNCHANGED <<lastChangeNodeMap, nextObserver, disp, inbox, changes, seen, owed>>
    BY DEF DelObservers, serviceVars, historyVars
<1>4. ASSUME NEW k \in Keys PROVE Keeps(k)
    BY <1>3, SameNodesKeep DEF DelObservers, DelNodes
<1>5. nextObserver' >= nextObserver
    BY <1>1, <1>3 DEF TypeInv, TypeOK
<1>6. op[t].pc \notin EnablePc
    BY DEF DelObservers, EnablePc
<1> QED
    BY <1>1, <1>2, <1>3, <1>4, <1>5, <1>6, OtherCallMoves, CallKeepsDelivery

\* The stored change goes, and with it every claim to it.
LEMMA EraseLastChangeDelivery ==
    ASSUME DeliveryInv, NEW t \in Threads, NEW k \in op[t].erase, EraseLastChange(t, k)
    PROVE  DeliveryInv'
<1>1. TypeInv /\ TypeInv'
    BY EraseLastChangeType DEF DeliveryInv
<1>2. /\ \A u \in Threads \ {t} : op'[u] = op[u]
      /\ op'[t].pc \in {"erase", "unsubscribe"}
    BY <1>1, OpFields DEF EraseLastChange, TypeInv, TypeOK, Op
<1>3. /\ UNCHANGED <<callbacks, nextObserver, disp, inbox, changes, seen>>
      /\ lastChangeNodeMap' = [lastChangeNodeMap EXCEPT ![k] = 0]
    BY DEF EraseLastChange, serviceVars
<1>4. \A o \in Observers : \A j \in Keys :
          owed'[o][j] = IF j = k THEN 0 ELSE owed[o][j]
    BY <1>1 DEF EraseLastChange, TypeInv, TypeOK
<1>5. \A j \in Keys : lastChangeNodeMap'[j] = IF j = k THEN 0 ELSE lastChangeNodeMap[j]
    BY <1>1, <1>3 DEF TypeInv, TypeOK
<1>6. ASSUME NEW j \in Keys PROVE Keeps(j)
    BY <1>1, <1>3, <1>4, NodeFields DEF Keeps
<1>7. op[t].pc \notin EnablePc
    BY DEF EraseLastChange, EnablePc
<1>8. \A j \in Keys : DebtsOf(j)'
    BY <1>1, <1>2, <1>3, <1>6, <1>7, OtherCallMoves, KeptDebts DEF DeliveryInv
<1>9. Ordered' /\ InboxOrdered'
    <2>1. /\ changes \in Nat /\ disp.version \in Nat
          /\ \A i \in 1 .. Len(inbox) : inbox[i].version \in Nat
        BY <1>1, ChangeNumbers
    <2>2. Ordered'
        BY <1>3, <1>4, <1>5, <2>1 DEF DeliveryInv, Ordered
    <2>3. InboxOrdered'
        BY <1>3, <1>5, <2>1 DEF DeliveryInv, InboxOrdered
    <2> QED
        BY <2>2, <2>3
<1>10. NothingReadBefore'
    BY <1>2 DEF DeliveryInv, NothingReadBefore
<1> QED
    BY <1>1, <1>8, <1>9, <1>10 DEF DeliveryInv

LEMMA UnSubscribeDataDelivery ==
    ASSUME DeliveryInv, NEW t \in Threads, UnSubscribeData(t)
    PROVE  DeliveryInv'
<1>1. TypeInv /\ TypeInv'
    BY UnSubscribeDataType DEF DeliveryInv
<1>2. \E r : op' = [op EXCEPT ![t] = r] /\ r.pc \notin {"enable", "rollbackEnable"}
    <2>1. CASE Return(t)
        BY <2>1, IdlePc DEF Return
    <2>2. CASE op' = [op EXCEPT ![t].pc = "erase", ![t].ipc = {}]
        <3> DEFINE r == [op[t] EXCEPT !.pc = "erase", !.ipc = {}]
        <3>1. op' = [op EXCEPT ![t] = r]
            BY <1>1, <2>2 DEF TypeInv, TypeOK
        <3>2. r.pc = "erase"
            BY <1>1, OpFields DEF Op
        <3> QED
            BY <3>1, <3>2
    <2> QED
        BY <2>1, <2>2 DEF UnSubscribeData
<1> QED
    BY <1>1, <1>2, QuietDelivery DEF UnSubscribeData, EnablePc, historyVars

-----------------------------------------------------------------------------
(* EnableObservers *)

\* A node after EnableNodes is an old one, or the subscriber's first node enabled.
LEMMA EnabledNode ==
    ASSUME NEW cbs \in Registry, NEW ks, NEW s, NEW k \in Keys,
           NEW n \in EnableNodes(cbs, ks, s)[k], n \notin cbs[k]
    PROVE  /\ k \in EnableKeys(cbs, ks, s)
           /\ FirstNode(cbs, k, s) \in cbs[k]
           /\ ~FirstNode(cbs, k, s).enabled
           /\ n.observer = FirstNode(cbs, k, s).observer
           /\ n.isNotifyOnEnabled = FirstNode(cbs, k, s).isNotifyOnEnabled
<1>1. k \in EnableKeys(cbs, ks, s)
    BY DEF EnableNodes
<1>2. n \in {IF m = FirstNode(cbs, k, s) THEN [m EXCEPT !.enabled = TRUE] ELSE m :
                m \in cbs[k]}
    BY <1>1 DEF EnableNodes
<1>3. PICK m \in cbs[k] :
            n = IF m = FirstNode(cbs, k, s) THEN [m EXCEPT !.enabled = TRUE] ELSE m
    BY <1>2
<1>4. m = FirstNode(cbs, k, s) /\ n = [m EXCEPT !.enabled = TRUE]
    BY <1>3
<1>5. m \in ObserverNode
    BY DEF Registry
<1>6. /\ [m EXCEPT !.enabled = TRUE].observer = m.observer
      /\ [m EXCEPT !.enabled = TRUE].isNotifyOnEnabled = m.isNotifyOnEnabled
    BY <1>5 DEF ObserverNode
<1>7. ~m.enabled
    BY <1>1, <1>4 DEF EnableKeys
<1> QED
    BY <1>1, <1>3, <1>4, <1>6, <1>7

LEMMA EnableObserversDelivery ==
    ASSUME DeliveryInv, NEW t \in Threads, NEW s \in Subscribers, NEW ks \in SUBSET Keys,
           EnableObservers(t, s, ks)
    PROVE  DeliveryInv'
<1>1. TypeInv /\ TypeInv'
    BY EnableObserversType DEF DeliveryInv
<1> DEFINE refresh == RefreshObservers(callbacks, ks, s)
<1>2. /\ \A u \in Threads \ {t} : op'[u] = op[u]
      /\ op'[t].pc \in {"enable", "enableEmit"} /\ op'[t].keys = ks
      /\ op'[t].todo = refresh /\ op'[t].cur = {}
    BY <1>1 DEF EnableObservers, IdleOp, TypeInv, TypeOK
<1>3. UNCHANGED <<lastChangeNodeMap, nextObserver, disp, inbox, changes, seen, owed>>
    BY DEF EnableObservers, serviceVars, historyVars
<1>4. ReplaysGoOn
    BY <1>1, <1>2, OtherCallMoves DEF EnableObservers, EnablePc
<1>5. ASSUME NEW k \in Keys PROVE DebtsOf(k)'
    <2> SUFFICES ASSUME NEW n \in callbacks'[k], Behind(n.observer, k)'
                 PROVE  Pending(k, n)'
        BY DEF DebtsOf
    <2>1. n.observer \in Observers /\ owed[n.observer][k] \in Versions
        BY <1>1, <1>3, NextNodeFields
    <2>2. CASE n \in callbacks[k]
        <3>1. Pending(k, n)
            BY <1>3, <2>2 DEF DeliveryInv, DebtsOf, Behind
        <3>2. ASSUME NEW u \in Threads, Replaying(op[u], k, n.observer, owed[n.observer][k])
              PROVE  Replaying(op'[u], k, n.observer, owed'[n.observer][k])
            BY <1>3, <1>4, <2>1, <3>2 DEF ReplaysGoOn
        <3> QED
            BY <1>3, <3>1, <3>2 DEF Pending
    <2>3. CASE n \notin callbacks[k]
        <3> DEFINE m == FirstNode(callbacks, k, s)
        <3>1. /\ k \in EnableKeys(callbacks, ks, s)
              /\ m \in callbacks[k] /\ ~m.enabled
              /\ n.observer = m.observer /\ n.isNotifyOnEnabled = m.isNotifyOnEnabled
            BY <1>1, <2>3, EnabledNode DEF EnableObservers, TypeInv, TypeOK
        <3>2. Pending(k, m)
            BY <1>3, <3>1 DEF DeliveryInv, DebtsOf, Behind
        <3>3. CASE m.isNotifyOnEnabled
            <4> DEFINE r == [key |-> k, observer |-> m.observer,
                             isNotifyOnEnabled |-> m.isNotifyOnEnabled]
            <4>1. r \in refresh /\ \A p \in refresh : p.key = k => p = r
                BY <3>1 DEF RefreshObservers
            <4>2. k \in ks
                BY <3>1 DEF EnableKeys
            <4>3. r.key = k /\ r.observer = n.observer /\ r.isNotifyOnEnabled
                BY <3>1, <3>3
            <4> HIDE DEF r, refresh
            <4>4. Queued(op'[t], k, n.observer)
                BY <1>2, <4>1, <4>3 DEF Queued
            <4>5. Replaying(op'[t], k, n.observer, owed'[n.observer][k])
                BY <1>2, <4>2, <4>4 DEF Replaying, EnablePc
            <4> QED
                BY <3>1, <3>3, <4>5 DEF Pending
        <3>4. CASE ~m.isNotifyOnEnabled
            BY <1>3, <3>1, <3>2, <3>4 DEF Pending
        <3> QED
            BY <3>3, <3>4
    <2> QED
        BY <2>2, <2>3
<1>6. nextObserver' >= nextObserver
    BY <1>1, <1>3 DEF TypeInv, TypeOK
<1>7. Ordered' /\ InboxOrdered'
    BY <1>1, <1>3, <1>6, KeptOrder DEF DeliveryInv
<1>8. NothingReadBefore'
    BY <1>2 DEF DeliveryInv, NothingReadBefore
<1> QED
    BY <1>1, <1>5, <1>7, <1>8 DEF DeliveryInv

\* Once the service has been dealt with, the call goes on to its replays.
LEMMA EmitOrReturnReplays ==
    ASSUME TypeInv, NothingReadBefore, NEW t \in Threads,
           op[t].pc \in {"enable", "rollbackEnable"},
           NEW q, \/ q = EmitOrReturn(t, op[t].todo)
                  \/ \E failed : q = [op[t] EXCEPT !.pc = "rollbackEnable", !.failed = failed],
           op' = [op EXCEPT ![t] = q]
    PROVE  /\ \A u \in Threads \ {t} : op'[u] = op[u]
           /\ op'[t].pc \in {"enable", "rollbackEnable"} => op'[t].cur = {}
           /\ ReplaysGoOn
<1>1. (\A u \in Threads \ {t} : op'[u] = op[u]) /\ op'[t] = q
    BY DEF TypeInv, TypeOK
<1>2. op[t].cur = {}
    BY DEF NothingReadBefore
<1>3. q.cur = {}
    <2>1. CASE q = EmitOrReturn(t, op[t].todo)
        <3>1. IdleOp.cur = {}
            BY DEF IdleOp
        <3> QED
            BY <2>1, <3>1, OpFields DEF EmitOrReturn, Op
    <2>2. CASE \E failed : q = [op[t] EXCEPT !.pc = "rollbackEnable", !.failed = failed]
        BY <1>2, <2>2, OpFields DEF Op
    <2> QED
        BY <2>1, <2>2
<1>4. op[t].todo # {} =>
          q.keys = op[t].keys /\ q.todo = op[t].todo /\ q.pc \in {"enableEmit", "rollbackEnable"}
    BY OpFields DEF EmitOrReturn, Op
<1>5. ASSUME NEW k, NEW o, NEW v, Replaying(op[t], k, o, v) PROVE Replaying(q, k, o, v)
    <2>1. Queued(op[t], k, o)
        BY <1>2, <1>5 DEF Replaying, Taken
    <2>2. op[t].todo # {}
        BY <2>1 DEF Queued
    <2> QED
        BY <1>2, <1>3, <1>4, <1>5, <2>1, <2>2 DEF Replaying, Queued, EnablePc
<1>6. ASSUME NEW u \in Threads, NEW k, NEW o, NEW v, Replaying(op[u], k, o, v)
      PROVE  Replaying(op'[u], k, o, v)
    <2>1. CASE u = t
        <3>1. Replaying(q, k, o, v)
            BY <1>5, <1>6, <2>1
        <3> QED
            BY <1>1, <2>1, <3>1
    <2>2. CASE u # t
        BY <1>1, <1>6, <2>2
    <2> QED
        BY <2>1, <2>2
<1>7. ReplaysGoOn
    BY <1>6 DEF ReplaysGoOn
<1> QED
    BY <1>1, <1>3, <1>7

LEMMA EnableSubscribeDataDelivery ==
    ASSUME DeliveryInv, NEW t \in Threads, EnableSubscribeData(t)
    PROVE  DeliveryInv'
<1>1. TypeInv /\ TypeInv'
    BY EnableSubscribeDataType DEF DeliveryInv
<1>2. PICK q : /\ \/ q = EmitOrReturn(t, op[t].todo)
                  \/ \E failed : q = [op[t] EXCEPT !.pc = "rollbackEnable", !.failed = failed]
               /\ op' = [op EXCEPT ![t] = q]
    BY DEF EnableSubscribeData
<1>3. /\ \A u \in Threads \ {t} : op'[u] = op[u]
      /\ op'[t].pc \in {"enable", "rollbackEnable"} => op'[t].cur = {}
      /\ ReplaysGoOn
    BY <1>1, <1>2, EmitOrReturnReplays DEF EnableSubscribeData, DeliveryInv
<1>4. UNCHANGED <<callbacks, lastChangeNodeMap, nextObserver, disp, inbox, changes, seen, owed>>
    BY DEF EnableSubscribeData, historyVars
<1>5. nextObserver' >= nextObserver /\ \A k \in Keys : Keeps(k)
    BY <1>1, <1>4, SameNodesKeep DEF TypeInv, TypeOK
<1> QED
    BY <1>1, <1>3, <1>4, <1>5, CallKeepsDelivery

-----------------------------------------------------------------------------
(* DisableObservers, and the two rollbacks *)

LEMMA ForgivenPairs ==
    ASSUME TypeInv, NEW pairs, Forgive(pairs)
    PROVE  \A o \in Observers : \A k \in Keys :
               owed'[o][k] = IF <<o, k>> \in pairs THEN 0 ELSE owed[o][k]
BY DEF Forgive

\* Disabling forgets exactly what it forgives.
LEMMA DisablingKeeps ==
    ASSUME TypeInv, NEW ks, NEW s, NEW k \in Keys,
           callbacks' = DisableNodes(callbacks, ks, s),
           Forgive(DisableForgets(ks, s))
    PROVE  Keeps(k)
<1> SUFFICES ASSUME NEW n \in callbacks'[k]
             PROVE  \/ owed'[n.observer][k] = 0
                    \/ \E m \in callbacks[k] :
                          /\ m.observer = n.observer
                          /\ owed'[n.observer][k] = owed[n.observer][k]
                          /\ m.isNotifyOnEnabled =>
                                n.isNotifyOnEnabled /\ (n.enabled => m.enabled)
    BY DEF Keeps
<1>1. CASE n \in callbacks[k]
    <2>1. n.observer \in Observers
        BY <1>1, NodeFields
    <2> QED
        BY <1>1, <2>1, ForgivenPairs
<1>2. CASE n \notin callbacks[k]
    <2>1. k \in DisableKeys(callbacks, ks, s)
        BY <1>2 DEF DisableNodes
    <2>2. PICK m \in callbacks[k] : n = DisableNode(m, s)
        BY <2>1 DEF DisableNodes
    <2>3. m \in ObserverNode /\ m.observer \in Observers
        BY NodeFields
    <2>4. m.subscriber = s /\ m.enabled /\ n.observer = m.observer
        BY <1>2, <2>2, <2>3 DEF DisableNode, ObserverNode
    <2>5. CASE m.isNotifyOnEnabled
        <3>1. <<m.observer, k>> \in DisableForgets(ks, s)
            BY <2>1, <2>3, <2>4, <2>5 DEF DisableForgets, NodesOf
        <3> QED
            BY <2>3, <2>4, <3>1, ForgivenPairs
    <2>6. CASE ~m.isNotifyOnEnabled
        BY <2>3, <2>4, <2>6, ForgivenPairs
    <2> QED
        BY <2>5, <2>6
<1> QED
    BY <1>1, <1>2

LEMMA RollbackEnableDelivery ==
    ASSUME DeliveryInv, NEW t \in Threads, RollbackEnable(t)
    PROVE  DeliveryInv'
<1>1. TypeInv /\ TypeInv'
    BY RollbackEnableType DEF DeliveryInv
<1>2. /\ \A u \in Threads \ {t} : op'[u] = op[u]
      /\ op'[t].pc \in {"enable", "rollbackEnable"} => op'[t].cur = {}
      /\ ReplaysGoOn
    BY <1>1, EmitOrReturnReplays DEF RollbackEnable, DeliveryInv
<1>3. UNCHANGED <<lastChangeNodeMap, nextObserver, disp, inbox, changes, seen>>
    BY DEF RollbackEnable, serviceVars
<1>4. \A k \in Keys : Keeps(k)
    BY <1>1, DisablingKeeps DEF RollbackEnable
<1>5. \A o \in Observers : \A k \in Keys : owed'[o][k] = owed[o][k] \/ owed'[o][k] = 0
    BY <1>1, ForgivenPairs DEF RollbackEnable
<1>6. nextObserver' >= nextObserver
    BY <1>1, <1>3 DEF TypeInv, TypeOK
<1> QED
    BY <1>1, <1>2, <1>3, <1>4, <1>5, <1>6, CallKeepsDelivery

LEMMA DisableObserversDelivery ==
    ASSUME DeliveryInv, NEW t \in Threads, NEW s \in Subscribers, NEW ks \in SUBSET Keys,
           DisableObservers(t, s, ks)
    PROVE  DeliveryInv'
<1>1. TypeInv /\ TypeInv'
    BY DisableObserversType DEF DeliveryInv
<1>2. (\A u \in Threads \ {t} : op'[u] = op[u]) /\ op'[t].pc \in {"idle", "disable"}
    BY <1>1 DEF DisableObservers, IdleOp, TypeInv, TypeOK
<1>3. UNCHANGED <<lastChangeNodeMap, nextObserver, disp, inbox, changes, seen>>
    BY DEF DisableObservers, serviceVars
<1>4. \A k \in Keys : Keeps(k)
    BY <1>1, DisablingKeeps DEF DisableObservers
<1>5. \A o \in Observers : \A k \in Keys : owed'[o][k] = owed[o][k] \/ owed'[o][k] = 0
    BY <1>1, ForgivenPairs DEF DisableObservers
<1>6. nextObserver' >= nextObserver
    BY <1>1, <1>3 DEF TypeInv, TypeOK
<1>7. ReplaysGoOn
    BY <1>1, <1>2, OtherCallMoves DEF DisableObservers, EnablePc
<1> QED
    BY <1>1, <1>2, <1>3, <1>4, <1>5, <1>6, <1>7, CallKeepsDelivery

LEMMA DisableSubscribeDataDelivery ==
    ASSUME DeliveryInv, NEW t \in Threads, DisableSubscribeData(t)
    PROVE  DeliveryInv'
<1>1. TypeInv /\ TypeInv'
    BY DisableSubscribeDataType DEF DeliveryInv
<1>2. \E r : op' = [op EXCEPT ![t] = r] /\ r.pc \notin {"enable", "rollbackEnable"}
    <2>1. CASE Return(t)
        BY <2>1, IdlePc DEF Return
    <2>2. ASSUME NEW failed,
                 op' = [op EXCEPT ![t].pc = "rollbackDisable", ![t].failed = failed]
          PROVE  \E r : op' = [op EXCEPT ![t] = r] /\ r.pc \notin {"enable", "rollbackEnable"}
        <3> DEFINE r == [op[t] EXCEPT !.pc = "rollbackDisable", !.failed = failed]
        <3>1. op' = [op EXCEPT ![t] = r]
            BY <1>1, <2>2 DEF TypeInv, TypeOK
        <3>2. r.pc = "rollbackDisable"
            BY <1>1, OpFields DEF Op
        <3> QED
            BY <3>1, <3>2
    <2> QED
        BY <2>1, <2>2 DEF DisableSubscribeData
<1> QED
    BY <1>1, <1>2, QuietDelivery DEF DisableSubscribeData, EnablePc, historyVars

LEMMA RollbackDisableDelivery ==
    ASSUME DeliveryInv, NEW t \in Threads, RollbackDisable(t)
    PROVE  DeliveryInv'
<1>1. TypeInv /\ TypeInv'
    BY RollbackDisableType DEF DeliveryInv
<1> DEFINE refresh == RefreshObservers(callbacks, op[t].failed, op[t].sub)
           pairs == {<<r.observer, r.key>> : r \in {x \in refresh : x.isNotifyOnEnabled}}
<1>2. (\A u \in Threads \ {t} : op'[u] = op[u]) /\ op'[t] = IdleOp
    BY <1>1 DEF RollbackDisable, Return, TypeInv, TypeOK
<1>3. UNCHANGED <<lastChangeNodeMap, nextObserver, disp, inbox, changes, seen>>
    BY DEF RollbackDisable, serviceVars
<1>4. \A o \in Observers : \A k \in Keys :
          owed'[o][k] = IF <<o, k>> \in pairs THEN 0 ELSE owed[o][k]
    BY <1>1, ForgivenPairs DEF RollbackDisable
<1>5. ASSUME NEW k \in Keys, NEW n \in callbacks'[k]
      PROVE  \/ owed'[n.observer][k] = 0
             \/ \E m \in callbacks[k] :
                   /\ m.observer = n.observer
                   /\ owed'[n.observer][k] = owed[n.observer][k]
                   /\ m.isNotifyOnEnabled => n.isNotifyOnEnabled /\ (n.enabled => m.enabled)
    <2>1. n.observer \in Observers
        BY <1>1, NextNodeFields
    <2>2. CASE n \in callbacks[k]
        BY <1>4, <2>1, <2>2
    <2>3. CASE n \notin callbacks[k]
        <3> DEFINE m == FirstNode(callbacks, k, op[t].sub)
        <3>1. /\ k \in EnableKeys(callbacks, op[t].failed, op[t].sub)
              /\ m \in callbacks[k]
              /\ n.observer = m.observer /\ n.isNotifyOnEnabled = m.isNotifyOnEnabled
            BY <1>1, <2>3, EnabledNode DEF RollbackDisable, TypeInv, TypeOK
        <3>2. CASE m.isNotifyOnEnabled
            <4> DEFINE r == [key |-> k, observer |-> m.observer,
                             isNotifyOnEnabled |-> m.isNotifyOnEnabled]
            <4>1. r \in refresh
                BY <3>1 DEF RefreshObservers
            <4>2. <<m.observer, k>> \in pairs
                BY <3>2, <4>1
            <4> QED
                BY <1>4, <2>1, <3>1, <4>2
        <3>3. CASE ~m.isNotifyOnEnabled
            BY <1>4, <2>1, <3>1, <3>3
        <3> QED
            BY <3>2, <3>3
    <2> QED
        BY <2>2, <2>3
<1>6. \A k \in Keys : Keeps(k)
    BY <1>5 DEF Keeps
<1>7. nextObserver' >= nextObserver
    BY <1>1, <1>3 DEF TypeInv, TypeOK
<1>8. ReplaysGoOn
    BY <1>1, <1>2, OtherCallMoves DEF RollbackDisable, EnablePc
<1>9. \A o \in Observers : \A k \in Keys : owed'[o][k] = owed[o][k] \/ owed'[o][k] = 0
    BY <1>4
<1> QED
    BY <1>1, <1>2, <1>3, <1>6, <1>7, <1>8, <1>9, IdlePc, CallKeepsDelivery

-----------------------------------------------------------------------------
(* All steps of a call but its replays *)

SharedStep(t) ==
    \/ \E s \in Subscribers : \E ks \in SUBSET Keys :
          \/ AddObservers(t, s, ks)
          \/ \E each \in BOOLEAN : DelObservers(t, s, ks, each)
          \/ EnableObservers(t, s, ks)
          \/ DisableObservers(t, s, ks)
    \/ SubscribeData(t)
    \/ RollbackAdd(t)
    \/ \E k \in op[t].erase : EraseLastChange(t, k)
    \/ UnSubscribeData(t)
    \/ EnableSubscribeData(t)
    \/ RollbackEnable(t)
    \/ DisableSubscribeData(t)
    \/ RollbackDisable(t)

LEMMA SharedStepDelivery ==
    ASSUME DeliveryInv, NEW t \in Threads, SharedStep(t)
    PROVE  DeliveryInv'
BY AddObserversDelivery, DelObserversDelivery, EnableObserversDelivery,
   DisableObserversDelivery, SubscribeDataDelivery, RollbackAddDelivery,
   EraseLastChangeDelivery, UnSubscribeDataDelivery, EnableSubscribeDataDelivery,
   RollbackEnableDelivery, DisableSubscribeDataDelivery, RollbackDisableDelivery
DEF SharedStep

\* Thread t moves alone, and the replays it is led to are all still to be read.
MovesOn(t) ==
    /\ \A u \in Threads \ {t} : op'[u] = op[u]
    /\ \/ op'[t] = op[t]
       \/ op'[t].pc = "enableEmit" /\ op'[t].cur = {}
       \/ op'[t].pc \notin {"enableEmit", "enableCheck", "enableNotify"}

LEMMA SharedStepShape ==
    ASSUME TypeInv, NEW t \in Threads, SharedStep(t)
    PROVE  MovesOn(t) /\ UNCHANGED <<disp, inbox>>
<1> SUFFICES MovesOn(t)
    <2>1. UNCHANGED <<disp, inbox>>
        BY DEF SharedStep, AddObservers, DelObservers, EnableObservers, DisableObservers,
               SubscribeData, RollbackAdd, EraseLastChange, UnSubscribeData, EnableSubscribeData,
               RollbackEnable, DisableSubscribeData, RollbackDisable, serviceVars
    <2> QED
        BY <2>1
<1>2. CASE Return(t)
    <2>1. (\A u \in Threads \ {t} : op'[u] = op[u]) /\ op'[t].pc = "idle"
        BY <1>2 DEF Return, IdleOp, TypeInv, TypeOK
    <2> QED
        BY <2>1 DEF MovesOn
<1>3. ASSUME NEW s, NEW ks, AddObservers(t, s, ks) PROVE MovesOn(t)
    <2>1. (\A u \in Threads \ {t} : op'[u] = op[u]) /\ op'[t].pc \in {"addEmit", "subscribe"}
        BY <1>3 DEF AddObservers, IdleOp, TypeInv, TypeOK
    <2> QED
        BY <2>1 DEF MovesOn
<1>4. ASSUME NEW s, NEW ks, NEW each, DelObservers(t, s, ks, each) PROVE MovesOn(t)
    <2>1. (\A u \in Threads \ {t} : op'[u] = op[u]) /\ op'[t].pc \in {"idle", "erase"}
        BY <1>4 DEF DelObservers, IdleOp, TypeInv, TypeOK
    <2> QED
        BY <2>1 DEF MovesOn
<1>5. ASSUME NEW s, NEW ks, EnableObservers(t, s, ks) PROVE MovesOn(t)
    <2>1. /\ \A u \in Threads \ {t} : op'[u] = op[u]
          /\ op'[t].pc \in {"enable", "enableEmit"} /\ op'[t].cur = {}
        BY <1>5 DEF EnableObservers, IdleOp, TypeInv, TypeOK
    <2> QED
        BY <2>1 DEF MovesOn
<1>6. ASSUME NEW s, NEW ks, DisableObservers(t, s, ks) PROVE MovesOn(t)
    <2>1. (\A u \in Threads \ {t} : op'[u] = op[u]) /\ op'[t].pc \in {"idle", "disable"}
        BY <1>6 DEF DisableObservers, IdleOp, TypeInv, TypeOK
    <2> QED
        BY <2>1 DEF MovesOn
<1>7. CASE SubscribeData(t)
    <2>1. ~Return(t) => (\A u \in Threads \ {t} : op'[u] = op[u]) /\ op'[t].pc = "rollbackAdd"
        BY <1>7, OpFields DEF SubscribeData, TypeInv, TypeOK, Op
    <2>2. ~Return(t) => MovesOn(t)
        BY <2>1 DEF MovesOn
    <2> QED
        BY <1>2, <2>2
<1>8. CASE DisableSubscribeData(t)
    <2>1. ~Return(t) => (\A u \in Threads \ {t} : op'[u] = op[u]) /\ op'[t].pc = "rollbackDisable"
        BY <1>8, OpFields DEF DisableSubscribeData, TypeInv, TypeOK, Op
    <2>2. ~Return(t) => MovesOn(t)
        BY <2>1 DEF MovesOn
    <2> QED
        BY <1>2, <2>2
<1>9. CASE RollbackAdd(t) \/ RollbackDisable(t)
    BY <1>2, <1>9 DEF RollbackAdd, RollbackDisable
<1>10. ASSUME NEW k, EraseLastChange(t, k) PROVE MovesOn(t)
    <2>1. /\ \A u \in Threads \ {t} : op'[u] = op[u]
          /\ op'[t].pc \in {"erase", "unsubscribe"}
        BY <1>10, OpFields DEF EraseLastChange, TypeInv, TypeOK, Op
    <2> QED
        BY <2>1 DEF MovesOn
<1>11. CASE UnSubscribeData(t)
    <2>1. ~Return(t) => (\A u \in Threads \ {t} : op'[u] = op[u]) /\ op'[t].pc = "erase"
        BY <1>11, OpFields DEF UnSubscribeData, TypeInv, TypeOK, Op
    <2>2. ~Return(t) => MovesOn(t)
        BY <2>1 DEF MovesOn
    <2> QED
        BY <1>2, <2>2
<1>12. CASE EnableSubscribeData(t) \/ RollbackEnable(t)
    <2>1. \A u \in Threads \ {t} : op'[u] = op[u]
        BY <1>12 DEF EnableSubscribeData, RollbackEnable, TypeInv, TypeOK
    <2>2. op'[t] = EmitOrReturn(t, op[t].todo) \/ op'[t].pc = "rollbackEnable"
        <3>1. \/ op'[t] = EmitOrReturn(t, op[t].todo)
              \/ \E failed : op'[t] = [op[t] EXCEPT !.pc = "rollbackEnable", !.failed = failed]
            BY <1>12 DEF EnableSubscribeData, RollbackEnable, TypeInv, TypeOK
        <3>2. ASSUME NEW failed PROVE [op[t] EXCEPT !.pc = "rollbackEnable", !.failed = failed].pc
                                         = "rollbackEnable"
            BY OpFields DEF Op
        <3> QED
            BY <3>1, <3>2
    <2>3. CASE op'[t] = EmitOrReturn(t, op[t].todo)
        <3>1. op'[t].pc \in {"idle", "enableEmit"} /\ op'[t].cur = {}
            BY <2>3, OpFields DEF EmitOrReturn, IdleOp, Op
        <3> QED
            BY <2>1, <3>1 DEF MovesOn
    <2>4. CASE op'[t].pc = "rollbackEnable"
        BY <2>1, <2>4 DEF MovesOn
    <2> QED
        BY <2>2, <2>3, <2>4
<1> QED
    BY <1>3, <1>4, <1>5, <1>6, <1>7, <1>8, <1>9, <1>10, <1>11, <1>12 DEF SharedStep

-----------------------------------------------------------------------------
(* An observer has one node under a key *)

OneNode ==
    \A k \in Keys : \A n, m \in callbacks[k] : n.observer = m.observer => n = m

LEMMA AddedOneNode ==
    ASSUME TypeInv, OneNode, NEW ks, NEW s \in Subscribers,
           callbacks' = AddNodes(callbacks, ks, s, nextObserver)
    PROVE  OneNode'
<1> SUFFICES ASSUME NEW k \in Keys, NEW n \in callbacks'[k], NEW m \in callbacks'[k],
                    n.observer = m.observer
             PROVE  n = m
    BY DEF OneNode
<1>1. \A x \in callbacks[k] : x.observer < nextObserver /\ x.observer \in Nat
    BY DEF TypeInv, TypeOK, ObserverBound, Registry, ObserverNode
<1>2. nextObserver \in Nat /\ NewNode(s, nextObserver).observer = nextObserver
    BY DEF TypeInv, TypeOK, NewNode
<1>3. callbacks'[k] \subseteq callbacks[k] \cup {NewNode(s, nextObserver)}
    BY DEF AddNodes
<1>4. ASSUME NEW x \in callbacks[k] PROVE x.observer # NewNode(s, nextObserver).observer
    BY <1>1, <1>2
<1>5. n \in callbacks[k] /\ m \in callbacks[k] => n = m
    BY DEF OneNode
<1> QED
    BY <1>3, <1>4, <1>5

LEMMA RemovedOneNode ==
    ASSUME OneNode, NEW ks, NEW s, callbacks' = DelNodes(callbacks, ks, s)
    PROVE  OneNode'
<1>1. \A k \in Keys : callbacks'[k] \subseteq callbacks[k]
    BY DEF DelNodes
<1> QED
    BY <1>1 DEF OneNode

LEMMA EnabledOneNode ==
    ASSUME TypeInv, OneNode, NEW ks, NEW s, callbacks' = EnableNodes(callbacks, ks, s)
    PROVE  OneNode'
<1> SUFFICES ASSUME NEW k \in Keys, NEW n \in callbacks'[k], NEW m \in callbacks'[k],
                    n.observer = m.observer
             PROVE  n = m
    BY DEF OneNode
<1> DEFINE on(x) == IF x = FirstNode(callbacks, k, s) THEN [x EXCEPT !.enabled = TRUE] ELSE x
<1>1. \A x \in callbacks[k] : on(x).observer = x.observer
    BY DEF TypeInv, TypeOK, Registry, ObserverNode
<1>2. callbacks'[k] = callbacks[k] \/ callbacks'[k] = {on(x) : x \in callbacks[k]}
    BY DEF EnableNodes
<1> HIDE DEF on
<1>3. CASE callbacks'[k] = callbacks[k]
    BY <1>3 DEF OneNode
<1>4. CASE callbacks'[k] = {on(x) : x \in callbacks[k]}
    <2>1. PICK x \in callbacks[k], y \in callbacks[k] : n = on(x) /\ m = on(y)
        BY <1>4
    <2>2. x.observer = y.observer
        BY <1>1, <2>1
    <2>3. x = y
        BY <2>2 DEF OneNode
    <2> QED
        BY <2>1, <2>3
<1> QED
    BY <1>2, <1>3, <1>4

LEMMA DisabledOneNode ==
    ASSUME TypeInv, OneNode, NEW ks, NEW s, callbacks' = DisableNodes(callbacks, ks, s)
    PROVE  OneNode'
<1> SUFFICES ASSUME NEW k \in Keys, NEW n \in callbacks'[k], NEW m \in callbacks'[k],
                    n.observer = m.observer
             PROVE  n = m
    BY DEF OneNode
<1>1. \A x \in callbacks[k] : DisableNode(x, s).observer = x.observer
    BY DEF DisableNode, TypeInv, TypeOK, Registry, ObserverNode
<1>2. callbacks'[k] = callbacks[k] \/ callbacks'[k] = {DisableNode(x, s) : x \in callbacks[k]}
    BY DEF DisableNodes
<1>3. CASE callbacks'[k] = callbacks[k]
    BY <1>3 DEF OneNode
<1>4. CASE callbacks'[k] = {DisableNode(x, s) : x \in callbacks[k]}
    <2>1. PICK x \in callbacks[k], y \in callbacks[k] : n = DisableNode(x, s) /\ m = DisableNode(y, s)
        BY <1>4
    <2>2. x.observer = y.observer
        BY <1>1, <2>1
    <2>3. x = y
        BY <2>2 DEF OneNode
    <2> QED
        BY <2>1, <2>3
<1> QED
    BY <1>2, <1>3, <1>4

LEMMA SharedStepOneNode ==
    ASSUME TypeInv, OneNode, NEW t \in Threads, SharedStep(t)
    PROVE  OneNode'
<1>1. ASSUME NEW s \in Subscribers, NEW ks, AddObservers(t, s, ks) PROVE OneNode'
    BY <1>1, AddedOneNode DEF AddObservers
<1>2. ASSUME NEW s, NEW ks, NEW each, DelObservers(t, s, ks, each) PROVE OneNode'
    BY <1>2, RemovedOneNode DEF DelObservers
<1>3. ASSUME NEW s, NEW ks, EnableObservers(t, s, ks) PROVE OneNode'
    BY <1>3, EnabledOneNode DEF EnableObservers
<1>4. ASSUME NEW s, NEW ks, DisableObservers(t, s, ks) PROVE OneNode'
    BY <1>4, DisabledOneNode DEF DisableObservers
<1>5. CASE RollbackAdd(t) \/ RollbackEnable(t) \/ RollbackDisable(t)
    BY <1>5, RemovedOneNode, DisabledOneNode, EnabledOneNode
    DEF RollbackAdd, RollbackEnable, RollbackDisable
<1>6. CASE SubscribeData(t) \/ UnSubscribeData(t) \/ EnableSubscribeData(t)
           \/ DisableSubscribeData(t) \/ \E k \in op[t].erase : EraseLastChange(t, k)
    BY <1>6 DEF SubscribeData, UnSubscribeData, EnableSubscribeData, DisableSubscribeData,
                EraseLastChange, OneNode
<1> QED
    BY <1>1, <1>2, <1>3, <1>4, <1>5, <1>6 DEF SharedStep

-----------------------------------------------------------------------------
(* Calling observers *)

\* OnChange never takes anything back, and an observer that is called about key k
\* only with v and later changes has seen v.
LEMMA OnChangeRaises ==
    ASSUME TypeInv, NEW notices \in SUBSET Notice, OnChange(notices),
           NEW o \in Observers, NEW k \in Keys
    PROVE  /\ seen'[o][k] >= seen[o][k]
           /\ \A v \in Versions :
                 /\ \E x \in notices : x.key = k /\ x.observer = o
                 /\ \A x \in notices : x.key = k => x.version >= v
                 => seen'[o][k] >= v
<1> DEFINE newer == {n \in notices : /\ n.observer = o /\ n.key = k
                                     /\ n.version > seen[o][k]}
<1>1. seen'[o][k] = IF newer = {} THEN seen[o][k] ELSE (CHOOSE n \in newer : TRUE).version
    BY DEF OnChange
<1>2. newer # {} => (CHOOSE n \in newer : TRUE) \in newer
    OBVIOUS
<1>3. seen[o][k] \in Nat /\ Versions \subseteq Nat
    BY BoundsAssumption DEF TypeInv, TypeOK, Versions
<1>4. \A n \in notices : n.version \in Nat
    BY <1>3 DEF Notice
<1>5. CASE newer = {}
    BY <1>1, <1>3, <1>4, <1>5
<1>6. CASE newer # {}
    <2>1. PICK n \in newer : seen'[o][k] = n.version
        BY <1>1, <1>2, <1>6
    <2> QED
        BY <1>3, <1>4, <2>1
<1> QED
    BY <1>5, <1>6

\* A step in which a call replays: reading what to hand out, or handing it out.
LEMMA ReplayDelivery ==
    ASSUME DeliveryInv, TypeInv', NEW t \in Threads,
           \A u \in Threads \ {t} : op'[u] = op[u],
           op'[t].pc \in {"enable", "rollbackEnable"} => op'[t].cur = {},
           UNCHANGED <<callbacks, lastChangeNodeMap, nextObserver, disp, inbox, changes, owed>>,
           \A k \in Keys : \A o \in Observers : seen'[o][k] >= seen[o][k],
           \A k \in Keys : \A n \in callbacks[k] :
               LET o == n.observer
               IN  /\ n.isNotifyOnEnabled
                   /\ Replaying(op[t], k, o, owed[o][k])
                   /\ seen'[o][k] < owed[o][k]
                   => Replaying(op'[t], k, o, owed[o][k])
    PROVE  DeliveryInv'
<1>1. TypeInv
    BY DEF DeliveryInv
<1>2. nextObserver' >= nextObserver
    BY <1>1 DEF TypeInv, TypeOK
<1>3. Ordered' /\ InboxOrdered'
    BY <1>1, <1>2, KeptOrder DEF DeliveryInv
<1>4. NothingReadBefore'
    BY DEF DeliveryInv, NothingReadBefore
<1>5. ASSUME NEW k \in Keys, NEW n \in callbacks[k], Behind(n.observer, k)'
      PROVE  Pending(k, n)'
    <2>1. /\ n.observer \in Observers
          /\ seen'[n.observer][k] \in Versions /\ seen[n.observer][k] \in Versions
          /\ owed[n.observer][k] \in Versions
        BY <1>1, NodeFields, NextNodeFields
    <2>2. seen'[n.observer][k] < owed[n.observer][k] /\ seen'[n.observer][k] >= seen[n.observer][k]
        BY <1>5, <2>1 DEF Behind
    <2>3. Behind(n.observer, k)
        BY <2>1, <2>2, BoundsAssumption DEF Behind, Versions
    <2>4. Pending(k, n)
        BY <2>3 DEF DeliveryInv, DebtsOf
    <2>5. ASSUME NEW u \in Threads, n.isNotifyOnEnabled,
                 Replaying(op[u], k, n.observer, owed[n.observer][k])
          PROVE  Replaying(op'[u], k, n.observer, owed'[n.observer][k])
        <3>1. CASE u = t
            BY <2>2, <2>5, <3>1
        <3>2. CASE u # t
            BY <2>5, <3>2
        <3> QED
            BY <3>1, <3>2
    <2> QED
        BY <2>4, <2>5 DEF Pending
<1>6. \A k \in Keys : DebtsOf(k)'
    BY <1>5 DEF DebtsOf
<1> QED
    BY <1>3, <1>4, <1>6 DEF DeliveryInv

\* Where EnableObservers goes when some replays are left.
LEMMA EmitOrReturnLeaves ==
    ASSUME TypeInv, NEW t \in Threads, NEW todo
    PROVE  /\ EmitOrReturn(t, todo).cur = {}
           /\ EmitOrReturn(t, todo).pc \in {"idle", "enableEmit"}
           /\ todo # {} => /\ EmitOrReturn(t, todo).pc = "enableEmit"
                          /\ EmitOrReturn(t, todo).keys = op[t].keys
                          /\ EmitOrReturn(t, todo).todo = todo
<1>1. CASE todo = {}
    BY <1>1 DEF EmitOrReturn, IdleOp
<1>2. CASE todo # {}
    BY <1>2, OpFields DEF EmitOrReturn, Op
<1> QED
    BY <1>1, <1>2

\* AddObservers hands out the last change: more than anybody has a claim to.
LEMMA AddEmitDelivery ==
    ASSUME DeliveryInv, TypeInv', NEW t \in Threads, NEW r, op' = [op EXCEPT ![t] = r],
           op[t].pc \notin EnablePc, r.pc \notin {"enable", "rollbackEnable"},
           seen' = seen \/ OnChange(op[t].cur),
           UNCHANGED <<callbacks, lastChangeNodeMap, nextObserver, disp, inbox, changes, owed>>
    PROVE  DeliveryInv'
<1>1. TypeInv
    BY DEF DeliveryInv
<1>2. (\A u \in Threads \ {t} : op'[u] = op[u]) /\ op'[t] = r
    BY <1>1 DEF TypeInv, TypeOK
<1>3. \A k \in Keys : \A o \in Observers : seen[o][k] \in Nat
    BY <1>1, BoundsAssumption DEF TypeInv, TypeOK, Versions
<1>4. \A k \in Keys : \A o \in Observers : seen'[o][k] >= seen[o][k]
    <2>1. CASE seen' = seen
        BY <1>3, <2>1
    <2>2. CASE OnChange(op[t].cur)
        BY <1>1, <2>2, OpFields, OnChangeRaises
    <2> QED
        BY <2>1, <2>2
<1>5. \A k, o, v : ~Replaying(op[t], k, o, v)
    BY DEF Replaying
<1> QED
    BY <1>1, <1>2, <1>4, <1>5, ReplayDelivery

-----------------------------------------------------------------------------
(* The service and the recovery *)

\* They touch neither the registry nor what is delivered.
LEMMA ElsewhereDelivery ==
    ASSUME DeliveryInv, TypeInv',
           UNCHANGED <<callbacks, lastChangeNodeMap, nextObserver, op, disp, inbox, changes,
                       seen, owed>>
    PROVE  DeliveryInv'
BY DEF DeliveryInv, Ordered, InboxOrdered, NothingReadBefore, DebtsOf, Behind, Pending

LEMMA AnnounceDelivery ==
    ASSUME DeliveryInv, NEW ks \in SUBSET Keys, Announce(ks)
    PROVE  DeliveryInv'
<1>1. TypeInv /\ TypeInv'
    BY AnnounceType DEF DeliveryInv
<1>2. /\ UNCHANGED <<callbacks, lastChangeNodeMap, nextObserver, op, disp, seen, owed>>
      /\ changes' = changes + 1
      /\ inbox' = Append(inbox, [keys |-> ks, version |-> changes + 1])
    BY DEF Announce, historyVars
<1>3. /\ changes \in Nat /\ disp.version \in Nat
      /\ \A k \in Keys : lastChangeNodeMap[k] \in Nat
      /\ \A i \in 1 .. Len(inbox) : inbox[i].version \in Nat
    BY <1>1, ChangeNumbers
<1>4. Ordered'
    BY <1>2, <1>3 DEF DeliveryInv, Ordered
<1>5. inbox \in Seq(Change)
    BY <1>1 DEF TypeInv, TypeOK
<1>6. /\ Len(inbox) \in Nat /\ Len(inbox') = Len(inbox) + 1
      /\ \A i \in 1 .. Len(inbox) : inbox'[i] = inbox[i]
      /\ inbox'[Len(inbox) + 1].version = changes + 1
    BY <1>2, <1>5
<1>7. InboxOrdered'
    <2> SUFFICES ASSUME NEW i \in 1 .. Len(inbox) + 1
                 PROVE  /\ inbox'[i].version <= changes'
                        /\ disp.version <= inbox'[i].version
                        /\ \A k \in Keys : lastChangeNodeMap[k] <= inbox'[i].version
                        /\ \A j \in i .. Len(inbox) + 1 : inbox'[i].version <= inbox'[j].version
        BY <1>2, <1>6 DEF InboxOrdered
    <2>1. CASE i \in 1 .. Len(inbox)
        <3>1. /\ inbox[i].version <= changes
              /\ disp.version <= inbox[i].version
              /\ \A k \in Keys : lastChangeNodeMap[k] <= inbox[i].version
              /\ \A j \in i .. Len(inbox) : inbox[i].version <= inbox[j].version
            BY <2>1 DEF DeliveryInv, InboxOrdered
        <3>2. ASSUME NEW j \in i .. Len(inbox) + 1 PROVE inbox[i].version <= inbox'[j].version
            <4>1. CASE j = Len(inbox) + 1
                BY <1>3, <1>6, <2>1, <3>1, <4>1
            <4>2. CASE j # Len(inbox) + 1
                <5>1. j \in i .. Len(inbox) /\ j \in 1 .. Len(inbox)
                    BY <1>6, <4>2
                <5> QED
                    BY <1>6, <3>1, <5>1
            <4> QED
                BY <4>1, <4>2
        <3>3. inbox'[i].version = inbox[i].version
            BY <1>6, <2>1
        <3>4. inbox[i].version <= changes'
            BY <1>2, <1>3, <2>1, <3>1
        <3> QED
            BY <3>1, <3>2, <3>3, <3>4
    <2>2. CASE i = Len(inbox) + 1
        <3>1. inbox'[i].version = changes + 1 /\ \A j \in i .. Len(inbox) + 1 : j = i
            BY <1>6, <2>2
        <3>2. ASSUME NEW k \in Keys PROVE lastChangeNodeMap[k] <= changes + 1
            <4>1. lastChangeNodeMap[k] <= changes
                BY DEF DeliveryInv, Ordered
            <4>2. lastChangeNodeMap[k] \in Nat /\ changes \in Nat
                BY <1>3
            <4> QED
                BY <4>1, <4>2
        <3>3. disp.version <= changes + 1
            BY <1>3 DEF DeliveryInv, Ordered
        <3>4. inbox'[i].version <= changes' /\ inbox'[i].version <= inbox'[i].version
            BY <1>2, <1>3, <3>1
        <3> QED
            BY <3>1, <3>2, <3>3, <3>4
    <2> QED
        BY <1>6, <2>1, <2>2
<1>8. NothingReadBefore' /\ \A k \in Keys : DebtsOf(k)'
    BY <1>2 DEF DeliveryInv, NothingReadBefore, DebtsOf, Behind, Pending
<1> QED
    BY <1>1, <1>4, <1>7, <1>8 DEF DeliveryInv

\* The oldest change is taken out of the inbox.
LEMMA TakenFromInbox ==
    ASSUME DeliveryInv, inbox # <<>>
    PROVE  /\ Head(inbox) \in Change
           /\ Head(inbox).version \in Nat
           /\ Head(inbox).version <= changes
           /\ \A k \in Keys : lastChangeNodeMap[k] <= Head(inbox).version
           /\ \A i \in 1 .. Len(Tail(inbox)) :
                 /\ Tail(inbox)[i] \in Change
                 /\ Tail(inbox)[i].version \in Nat
                 /\ Tail(inbox)[i].version <= changes
                 /\ Head(inbox).version <= Tail(inbox)[i].version
                 /\ \A k \in Keys : lastChangeNodeMap[k] <= Tail(inbox)[i].version
                 /\ \A j \in i .. Len(Tail(inbox)) :
                       Tail(inbox)[i].version <= Tail(inbox)[j].version
<1>1. inbox \in Seq(Change)
    BY DEF DeliveryInv, TypeInv, TypeOK
<1>2. /\ Len(inbox) \in Nat \ {0} /\ Head(inbox) = inbox[1]
      /\ Len(Tail(inbox)) = Len(inbox) - 1
      /\ \A i \in 1 .. Len(Tail(inbox)) : Tail(inbox)[i] = inbox[i + 1]
    BY <1>1, HeadTailProperties
<1>3. \A i \in 1 .. Len(inbox) : inbox[i] \in Change /\ inbox[i].version \in Nat
    BY ChangeNumbers DEF DeliveryInv
<1>4. 1 \in 1 .. Len(inbox)
    BY <1>2
<1>5. /\ Head(inbox) \in Change /\ Head(inbox).version \in Nat
      /\ Head(inbox).version <= changes
      /\ \A k \in Keys : lastChangeNodeMap[k] <= Head(inbox).version
    BY <1>2, <1>3, <1>4 DEF DeliveryInv, InboxOrdered
<1>6. ASSUME NEW i \in 1 .. Len(Tail(inbox))
      PROVE  /\ Tail(inbox)[i] \in Change
             /\ Tail(inbox)[i].version \in Nat
             /\ Tail(inbox)[i].version <= changes
             /\ Head(inbox).version <= Tail(inbox)[i].version
             /\ \A k \in Keys : lastChangeNodeMap[k] <= Tail(inbox)[i].version
             /\ \A j \in i .. Len(Tail(inbox)) :
                   Tail(inbox)[i].version <= Tail(inbox)[j].version
    <2>1. i + 1 \in 1 .. Len(inbox) /\ Tail(inbox)[i] = inbox[i + 1]
        BY <1>2
    <2>2. /\ inbox[i + 1] \in Change /\ inbox[i + 1].version \in Nat
          /\ inbox[i + 1].version <= changes
          /\ \A k \in Keys : lastChangeNodeMap[k] <= inbox[i + 1].version
          /\ \A j \in i + 1 .. Len(inbox) : inbox[i + 1].version <= inbox[j].version
        BY <1>3, <2>1 DEF DeliveryInv, InboxOrdered
    <2>3. inbox[1].version <= inbox[i + 1].version
        <3>1. i + 1 \in 1 .. Len(inbox)
            BY <2>1
        <3> QED
            BY <1>4, <3>1 DEF DeliveryInv, InboxOrdered
    <2>4. ASSUME NEW j \in i .. Len(Tail(inbox))
          PROVE  Tail(inbox)[i].version <= Tail(inbox)[j].version
        <3>1. j \in 1 .. Len(Tail(inbox)) /\ j + 1 \in i + 1 .. Len(inbox)
            BY <1>2
        <3>2. Tail(inbox)[j] = inbox[j + 1]
            BY <1>2, <3>1
        <3> QED
            BY <2>1, <2>2, <3>1, <3>2
    <2> QED
        BY <1>2, <2>1, <2>2, <2>3, <2>4
<1> QED
    BY <1>5, <1>6

-----------------------------------------------------------------------------
(* The initial state, and what the invariant is for *)

LEMMA InitDelivery == Init => DeliveryInv
<1> SUFFICES ASSUME Init PROVE DeliveryInv
    OBVIOUS
<1>1. TypeInv
    BY InitType
<1>2. Ordered
    BY BoundsAssumption DEF Init, Ordered, IdleDisp
<1>3. InboxOrdered
    BY DEF Init, InboxOrdered
<1>4. NothingReadBefore
    BY IdlePc DEF Init, NothingReadBefore
<1>5. \A k \in Keys : DebtsOf(k)
    BY DEF Init, DebtsOf
<1> QED
    BY <1>1, <1>2, <1>3, <1>4, <1>5 DEF DeliveryInv

LEMMA DeliveryInvImplies == DeliveryInv => NoMissedChange
<1> SUFFICES ASSUME DeliveryInv, NEW k \in Keys, Settled(k), NEW n \in callbacks[k], n.enabled
             PROVE  seen[n.observer][k] >= owed[n.observer][k]
    BY DEF NoMissedChange
<1>1. ~Pending(k, n)
    BY DEF Pending, Settled, InCall, Replaying
<1>2. ~Behind(n.observer, k)
    BY <1>1 DEF DeliveryInv, DebtsOf
<1>3. seen[n.observer][k] \in Nat /\ owed[n.observer][k] \in Nat
    BY NodeFields, BoundsAssumption DEF DeliveryInv, Versions
<1> QED
    BY <1>2, <1>3 DEF Behind

=============================================================================
