---------------- MODULE PublishedDataSubscriberManager_proof ----------------
(***************************************************************************)
(* Theorems about PublishedDataSubscriberManager, for every set of keys,   *)
(* subscribers and threads and for every bound.                            *)
(***************************************************************************)
EXTENDS PublishedDataSubscriberManager, SubscriberDelivery_proof

-----------------------------------------------------------------------------
(* Marking *)

\* What SetObserversNotifiedOnEnabled makes of a node.
Marked(n) == IF n.enabled THEN n ELSE [n EXCEPT !.isNotifyOnEnabled = TRUE]

LEMMA MarkedNode ==
    ASSUME NEW n \in ObserverNode
    PROVE  /\ Marked(n) \in ObserverNode
           /\ Marked(n).observer = n.observer
           /\ Marked(n).subscriber = n.subscriber
           /\ Marked(n).enabled = n.enabled
BY DEF Marked, ObserverNode

LEMMA MarkedKey ==
    ASSUME NEW cbs \in Registry, NEW j \in Keys, NEW k \in Keys
    PROVE  /\ k # j => SetObserversNotifiedOnEnabled(cbs, j)[k] = cbs[k]
           /\ k = j => SetObserversNotifiedOnEnabled(cbs, j)[k] = {Marked(n) : n \in cbs[k]}
BY DEF SetObserversNotifiedOnEnabled, Registry, Marked

LEMMA MarkingType ==
    ASSUME NEW cbs \in Registry, NEW j \in Keys
    PROVE  SetObserversNotifiedOnEnabled(cbs, j) \in Registry
<1>1. {Marked(n) : n \in cbs[j]} \subseteq ObserverNode
    BY MarkedNode DEF Registry
<1>2. SetObserversNotifiedOnEnabled(cbs, j) = [cbs EXCEPT ![j] = {Marked(n) : n \in cbs[j]}]
    BY DEF SetObserversNotifiedOnEnabled, Marked
<1> QED
    BY <1>1, <1>2 DEF Registry

\* Marking adds nobody ...
LEMMA MarkingObservers ==
    ASSUME NEW cbs \in Registry, NEW j \in Keys, NEW k \in Keys,
           NEW n \in SetObserversNotifiedOnEnabled(cbs, j)[k]
    PROVE  \E m \in cbs[k] : m.observer = n.observer
<1>1. cbs[k] \subseteq ObserverNode
    BY DEF Registry
<1> QED
    BY <1>1, MarkedKey, MarkedNode

\* ... and changes nothing that matters to the service.
LEMMA MarkingSame ==
    ASSUME TypeInv, NEW j \in Keys,
           callbacks' = SetObserversNotifiedOnEnabled(callbacks, j), NEW k \in Keys
    PROVE  SameNodes(k)
<1>1. callbacks \in Registry /\ callbacks[k] \subseteq ObserverNode
    BY DEF TypeInv, TypeOK, Registry
<1>2. CASE k # j
    <2>1. callbacks'[k] = callbacks[k]
        BY <1>1, <1>2, MarkedKey
    <2> QED
        BY <2>1 DEF SameNodes, HasEnabled, EnabledOnly
<1>3. CASE k = j
    <2>1. callbacks'[k] = {Marked(n) : n \in callbacks[k]}
        BY <1>1, <1>3, MarkedKey
    <2>2. ASSUME NEW n \in callbacks[k]
          PROVE  Marked(n).enabled = n.enabled /\ Marked(n).subscriber = n.subscriber
        BY <1>1, MarkedNode
    <2>3. HasEnabled(callbacks', k) = HasEnabled(callbacks, k)
        BY <2>1, <2>2 DEF HasEnabled
    <2>4. ASSUME NEW s PROVE EnabledOnly(callbacks', k, s) = EnabledOnly(callbacks, k, s)
        BY <2>1, <2>2 DEF EnabledOnly
    <2> QED
        BY <2>1, <2>3, <2>4 DEF SameNodes
<1> QED
    BY <1>2, <1>3

-----------------------------------------------------------------------------
(* Type correctness *)

LEMMA DispFields ==
    ASSUME TypeInv
    PROVE  /\ disp.keys \subseteq Keys /\ disp.now \subseteq Keys
           /\ disp.version \in Versions /\ disp.todo \subseteq Notice
           /\ IdleDisp \in Disp
BY ZeroVersion DEF TypeInv, TypeOK, Disp, IdleDisp

LEMMA EmitTakeType ==
    ASSUME TypeInv, EmitTake
    PROVE  TypeInv'
<1> DEFINE c == Head(inbox)
<1>1. c \in Change /\ Tail(inbox) \in Seq(Change)
    BY DEF EmitTake, TypeInv, TypeOK
<1>2. disp' = [IdleDisp EXCEPT !.pc = "mark", !.keys = c.keys, !.version = c.version]
    BY DEF EmitTake
<1> HIDE DEF c
<1>3. disp' \in Disp
    BY <1>1, <1>2 DEF Change, IdleDisp, Disp
<1>4. UNCHANGED <<callbacks, lastChangeNodeMap, nextObserver, op, rec, svc, up, epoch,
                  changes, seen, owed, tainted>> /\ inbox' = Tail(inbox)
    BY DEF EmitTake, historyVars
<1> QED
    BY <1>1, <1>3, <1>4, DispStepType DEF TypeInv, TypeOK

LEMMA EmitMarkType ==
    ASSUME TypeInv, NEW k, EmitMark(k)
    PROVE  TypeInv'
<1>1. k \in Keys
    BY DispFields DEF EmitMark
<1>2. callbacks' \in Registry
    BY <1>1, MarkingType DEF EmitMark, TypeInv, TypeOK
<1>3. \A j \in Keys : \A n \in callbacks'[j] : \E m \in callbacks[j] : m.observer = n.observer
    BY <1>1, MarkingObservers DEF EmitMark, TypeInv, TypeOK
<1>4. disp' \in Disp
    BY <1>1 DEF EmitMark, Disp, TypeInv, TypeOK
<1>5. UNCHANGED <<lastChangeNodeMap, inbox, seen, owed, nextObserver, op, rec, svc, up,
                  epoch, changes, tainted>>
    BY DEF EmitMark, serviceVars, historyVars
<1> QED
    BY <1>2, <1>3, <1>4, <1>5, DispStepType DEF TypeInv, TypeOK

LEMMA EmitListType ==
    ASSUME TypeInv, NEW k, EmitList(k)
    PROVE  TypeInv'
<1>1. k \in Keys
    BY DispFields DEF EmitList
<1> DEFINE calls == [key : {k}, version : {disp.version},
                     observer : GetEnabledObservers(callbacks, k)]
<1>2. GetEnabledObservers(callbacks, k) \subseteq Observers
    BY <1>1, RegisteredObservers DEF GetEnabledObservers
<1>3. calls \subseteq Notice
    BY <1>1, <1>2, DispFields DEF Notice
<1>4. disp' = [disp EXCEPT !.pc = "store", !.todo = @ \cup calls]
    BY DEF EmitList
<1> HIDE DEF calls
<1>5. disp' \in Disp
    BY <1>3, <1>4 DEF Disp, TypeInv, TypeOK
<1>6. UNCHANGED <<callbacks, lastChangeNodeMap, inbox, seen, owed, nextObserver, op, rec, svc,
                  up, epoch, changes, tainted>>
    BY DEF EmitList, serviceVars, historyVars
<1> QED
    BY <1>5, <1>6, DispStepType DEF TypeInv, TypeOK

LEMMA EmitStoreType ==
    ASSUME TypeInv, NEW k, EmitStore(k)
    PROVE  TypeInv'
<1>1. k \in Keys
    BY DispFields DEF EmitStore
<1>2. lastChangeNodeMap' \in [Keys -> Versions]
    BY <1>1, DispFields DEF EmitStore, TypeInv, TypeOK
<1>3. owed' \in [Observers -> [Keys -> Versions]]
    <2> DEFINE claims(o) == \/ \E n \in disp.todo : n.key = k /\ n.observer = o
                            \/ \E n \in callbacks[k] : /\ n.observer = o /\ ~n.enabled
                                                       /\ n.isNotifyOnEnabled
    <2>1. owed' = [o \in Observers |-> IF claims(o) THEN [owed[o] EXCEPT ![k] = disp.version]
                                       ELSE owed[o]]
        BY DEF EmitStore
    <2> HIDE DEF claims
    <2>2. ASSUME NEW o \in Observers
          PROVE  owed[o] \in [Keys -> Versions]
                 /\ [owed[o] EXCEPT ![k] = disp.version] \in [Keys -> Versions]
        BY <1>1, DispFields DEF TypeInv, TypeOK
    <2> QED
        BY <2>1, <2>2
<1>4. \/ disp' = IdleDisp
      \/ disp' = [disp EXCEPT !.pc = "mark", !.keys = @ \ {k}, !.now = {}]
      \/ disp' = [disp EXCEPT !.pc = "notify", !.keys = {}, !.now = {}]
    BY DEF EmitStore
<1>5. disp' \in Disp
    <2>1. [disp EXCEPT !.pc = "mark", !.keys = @ \ {k}, !.now = {}] \in Disp
        BY DEF Disp, TypeInv, TypeOK
    <2>2. [disp EXCEPT !.pc = "notify", !.keys = {}, !.now = {}] \in Disp
        BY DEF Disp, TypeInv, TypeOK
    <2> QED
        BY <1>4, <2>1, <2>2, DispFields
<1>6. UNCHANGED <<callbacks, inbox, seen, nextObserver, op, rec, svc, up, epoch, changes,
                  tainted>>
    BY DEF EmitStore, serviceVars
<1> QED
    BY <1>2, <1>3, <1>5, <1>6, DispStepType DEF TypeInv, TypeOK

LEMMA EmitNotifyType ==
    ASSUME TypeInv, NEW o, EmitNotify(o)
    PROVE  TypeInv'
<1> DEFINE notices == {n \in disp.todo : n.observer = o}
<1>1. notices \in SUBSET Notice
    BY DispFields
<1>2. OnChange(notices) /\ (disp' = IdleDisp \/ disp' = [disp EXCEPT !.todo = @ \ notices])
    BY DEF EmitNotify
<1> HIDE DEF notices
<1>3. seen' \in [Observers -> [Keys -> Versions]]
    BY <1>1, <1>2, OnChangeType
<1>4. disp' \in Disp
    BY <1>2, DispFields DEF Disp, TypeInv, TypeOK
<1>5. UNCHANGED <<callbacks, lastChangeNodeMap, inbox, owed, nextObserver, op, rec, svc, up,
                  epoch, changes, tainted>>
    BY DEF EmitNotify, serviceVars
<1> QED
    BY <1>3, <1>4, <1>5, DispStepType DEF TypeInv, TypeOK

\* Replay.
LEMMA ReadLastChangeType ==
    ASSUME TypeInv, NEW t \in Threads, NEW r \in op[t].todo, NEW wanted \in BOOLEAN,
           NEW pc \in ThreadPc
    PROVE  ReadLastChange(t, r, wanted, pc) \in Op
<1> DEFINE n == [key |-> r.key, observer |-> r.observer, version |-> lastChangeNodeMap[r.key]]
<1>1. r \in Refresh
    BY OpFields
<1>2. n \in Notice
    BY <1>1 DEF Refresh, Notice, TypeInv, TypeOK
<1> DEFINE o == op[t]
<1>3. o \in Op /\ o.todo \ {r} \subseteq Refresh /\ o.cur \cup {n} \subseteq Notice
    BY <1>2, OpFields
<1>4. /\ [o EXCEPT !.todo = @ \ {r}] \in Op
      /\ [o EXCEPT !.todo = @ \ {r}, !.pc = pc] \in Op
      /\ [o EXCEPT !.todo = @ \ {r}, !.cur = @ \cup {n}] \in Op
      /\ [o EXCEPT !.todo = @ \ {r}, !.pc = pc, !.cur = @ \cup {n}] \in Op
    <2> HIDE DEF o, n
    <2> QED
        BY <1>3 DEF Op
<1>5. \/ ReadLastChange(t, r, wanted, pc) = [o EXCEPT !.todo = @ \ {r}]
      \/ ReadLastChange(t, r, wanted, pc) = [o EXCEPT !.todo = @ \ {r}, !.pc = pc]
      \/ ReadLastChange(t, r, wanted, pc) = [o EXCEPT !.todo = @ \ {r}, !.cur = @ \cup {n}]
      \/ ReadLastChange(t, r, wanted, pc) =
            [o EXCEPT !.todo = @ \ {r}, !.pc = pc, !.cur = @ \cup {n}]
    BY <1>3 DEF ReadLastChange, Op
<1> QED
    BY <1>4, <1>5

\* What a replay step leaves of the thread's record.
ReplayNext(t, r) ==
    \/ r = IdleOp /\ (op[t].pc \in {"addEmit", "addNotify"} => op[t].ipc = {})
    \/ /\ r.keys = op[t].keys /\ r.sub = op[t].sub
       /\ r.ipc = op[t].ipc /\ r.erase = op[t].erase /\ r.failed = op[t].failed
       /\ \/ op[t].pc \in {"addEmit", "addNotify"} /\ r.pc \in {"addEmit", "addNotify", "subscribe"}
          \/ op[t].pc \in {"enableEmit", "enableNotify"} /\ r.pc \in {"enableEmit", "enableNotify"}

ReplayStep(t) ==
    /\ op[t].pc \in {"addEmit", "addNotify", "enableEmit", "enableNotify"}
    /\ op'[t] \in Op /\ op' = [op EXCEPT ![t] = op'[t]]
    /\ ReplayNext(t, op'[t])
    /\ seen' \in [Observers -> [Keys -> Versions]]
    /\ UNCHANGED <<callbacks, lastChangeNodeMap, nextObserver, disp, rec, svc, up, epoch, inbox,
                   changes, owed, tainted>>

LEMMA ReadLastChangeFields ==
    ASSUME TypeInv, NEW t \in Threads, NEW r, NEW wanted \in BOOLEAN, NEW pc,
           NEW q, q = ReadLastChange(t, r, wanted, pc)
    PROVE  /\ q.keys = op[t].keys /\ q.sub = op[t].sub
           /\ q.ipc = op[t].ipc /\ q.erase = op[t].erase /\ q.failed = op[t].failed
           /\ q.pc = op[t].pc \/ q.pc = pc
<1>1. op[t] \in Op
    BY OpFields
<1> QED
    BY <1>1 DEF ReadLastChange, Op

LEMMA AddEmitReadStep ==
    ASSUME TypeInv, NEW t \in Threads, NEW r \in op[t].todo, AddEmitRead(t, r)
    PROVE  ReplayStep(t)
<1> DEFINE q == ReadLastChange(t, r, TRUE, "addNotify")
<1>1. q \in Op
    BY ReadLastChangeType DEF ThreadPc
<1>2. op' = [op EXCEPT ![t] = q] /\ op[t].pc = "addEmit"
    BY DEF AddEmitRead
<1>3. /\ q.keys = op[t].keys /\ q.sub = op[t].sub
      /\ q.ipc = op[t].ipc /\ q.erase = op[t].erase /\ q.failed = op[t].failed
      /\ q.pc = op[t].pc \/ q.pc = "addNotify"
    BY OpFields DEF ReadLastChange, Op
<1> HIDE DEF q
<1>4. op'[t] = q
    BY <1>2 DEF TypeInv, TypeOK
<1>5. ReplayNext(t, q)
    BY <1>2, <1>3 DEF ReplayNext
<1> QED
    BY <1>1, <1>2, <1>4, <1>5
    DEF ReplayStep, AddEmitRead, serviceVars, historyVars, TypeInv, TypeOK

LEMMA EnableEmitReadStep ==
    ASSUME TypeInv, NEW t \in Threads, NEW r \in op[t].todo, EnableEmitRead(t, r)
    PROVE  ReplayStep(t)
<1> DEFINE q == ReadLastChange(t, r, r.isNotifyOnEnabled, "enableNotify")
<1>1. q \in Op
    <2>1. r.isNotifyOnEnabled \in BOOLEAN
        BY OpFields DEF Refresh
    <2> QED
        BY <2>1, ReadLastChangeType DEF ThreadPc
<1>2. /\ op[t].pc = "enableEmit"
      /\ op' = [op EXCEPT ![t] = IF q.todo = {} /\ q.cur = {} THEN IdleOp ELSE q]
    BY DEF EnableEmitRead
<1>3. /\ q.keys = op[t].keys /\ q.sub = op[t].sub
      /\ q.ipc = op[t].ipc /\ q.erase = op[t].erase /\ q.failed = op[t].failed
      /\ q.pc = op[t].pc \/ q.pc = "enableNotify"
    BY ReadLastChangeFields, OpFields DEF Refresh
<1> HIDE DEF q
<1>4. op'[t] = IdleOp \/ op'[t] = q
    BY <1>2 DEF TypeInv, TypeOK
<1>5. op' = [op EXCEPT ![t] = op'[t]] /\ op'[t] \in Op
    BY <1>1, <1>2, <1>4, IdleOpType DEF TypeInv, TypeOK
<1>6. ReplayNext(t, op'[t])
    BY <1>2, <1>3, <1>4 DEF ReplayNext
<1> QED
    BY <1>2, <1>5, <1>6
    DEF ReplayStep, EnableEmitRead, serviceVars, historyVars, TypeInv, TypeOK

LEMMA AddEmitNotifyStep ==
    ASSUME TypeInv, NEW t \in Threads, AddEmitNotify(t)
    PROVE  ReplayStep(t)
<1> DEFINE q == [op[t] EXCEPT !.pc = "subscribe", !.cur = {}]
<1>1. /\ q \in Op /\ q.keys = op[t].keys /\ q.sub = op[t].sub /\ q.pc = "subscribe"
      /\ q.ipc = op[t].ipc /\ q.erase = op[t].erase /\ q.failed = op[t].failed
    BY OpFields DEF Op, ThreadPc
<1>2. /\ op[t].pc = "addNotify"
      /\ op' = [op EXCEPT ![t] = IF op[t].ipc # {} THEN q ELSE IdleOp]
    BY DEF AddEmitNotify
<1> HIDE DEF q
<1>3. (op'[t] = IdleOp /\ op[t].ipc = {}) \/ op'[t] = q
    BY <1>2 DEF TypeInv, TypeOK
<1>4. op' = [op EXCEPT ![t] = op'[t]] /\ op'[t] \in Op
    BY <1>1, <1>2, <1>3, IdleOpType DEF TypeInv, TypeOK
<1>5. ReplayNext(t, op'[t])
    BY <1>1, <1>2, <1>3 DEF ReplayNext
<1>6. seen' \in [Observers -> [Keys -> Versions]]
    BY OpFields, OnChangeType DEF AddEmitNotify
<1> QED
    BY <1>2, <1>4, <1>5, <1>6 DEF ReplayStep, AddEmitNotify, serviceVars

LEMMA EnableEmitNotifyStep ==
    ASSUME TypeInv, NEW t \in Threads, NEW o, EnableEmitNotify(t, o)
    PROVE  ReplayStep(t)
<1> DEFINE notices == {n \in op[t].cur : n.observer = o}
           q == [op[t] EXCEPT !.cur = @ \ notices]
<1>1. notices \in SUBSET Notice
    BY OpFields
<1>2. /\ q \in Op /\ q.keys = op[t].keys /\ q.sub = op[t].sub /\ q.pc = op[t].pc
      /\ q.ipc = op[t].ipc /\ q.erase = op[t].erase /\ q.failed = op[t].failed
    BY OpFields DEF Op
<1>3. /\ op[t].pc = "enableNotify" /\ OnChange(notices)
      /\ op' = [op EXCEPT ![t] = IF notices = op[t].cur THEN IdleOp ELSE q]
    BY DEF EnableEmitNotify
<1> HIDE DEF q, notices
<1>4. op'[t] = IdleOp \/ op'[t] = q
    BY <1>3 DEF TypeInv, TypeOK
<1>5. op' = [op EXCEPT ![t] = op'[t]] /\ op'[t] \in Op
    BY <1>2, <1>3, <1>4, IdleOpType DEF TypeInv, TypeOK
<1>6. ReplayNext(t, op'[t])
    BY <1>2, <1>3, <1>4 DEF ReplayNext
<1>7. seen' \in [Observers -> [Keys -> Versions]]
    BY <1>1, <1>3, OnChangeType
<1> QED
    BY <1>3, <1>5, <1>6, <1>7 DEF ReplayStep, EnableEmitNotify, serviceVars

\* The replay steps of a call in progress.
Replay(t) ==
    \/ \E r \in op[t].todo : AddEmitRead(t, r) \/ EnableEmitRead(t, r)
    \/ AddEmitNotify(t)
    \/ \E o \in Observers : EnableEmitNotify(t, o)

LEMMA ReplayIsStep ==
    ASSUME TypeInv, NEW t \in Threads, Replay(t)
    PROVE  ReplayStep(t)
BY AddEmitReadStep, EnableEmitReadStep, AddEmitNotifyStep, EnableEmitNotifyStep DEF Replay

LEMMA ReplayType ==
    ASSUME TypeInv, NEW t \in Threads, Replay(t)
    PROVE  TypeInv'
<1>1. ReplayStep(t)
    BY ReplayIsStep
<1> QED
    BY <1>1, OpStepType DEF ReplayStep, TypeInv, TypeOK

\* Recovery.
LEMMA RecoverType ==
    ASSUME TypeInv, RecoverObservers
    PROVE  TypeInv'
<1> USE DEF serviceVars, historyVars
<1>1. CASE RecoverNoProxy
    BY <1>1, RecoverNoProxyType
<1>2. CASE RecoverKeys
    <2>1. rec' \in Rec
        BY <1>2, IdleRecType DEF RecoverKeys, Rec, GetKeys, TypeInv, TypeOK
    <2> QED
        BY <1>2, <2>1, RecStepType DEF RecoverKeys, TypeInv, TypeOK
<1>3. ASSUME NEW k \in rec.keys, RecoverKey(k) PROVE TypeInv'
    BY <1>3, RecoverSubscribeType DEF RecoverKey, Status
<1> QED
    BY <1>1, <1>2, <1>3 DEF RecoverObservers

LEMMA NextType == TypeInv /\ [Next]_vars => TypeInv'
<1> SUFFICES ASSUME TypeInv, [Next]_vars PROVE TypeInv'
    OBVIOUS
<1>1. ASSUME NEW t \in Threads, Call(t) PROVE TypeInv'
    <2>1. PICK s \in Subscribers :
                \/ \E ks \in SUBSET Keys \ {{}} :
                      \/ AddObservers(t, s, ks)
                      \/ DelKeys(t, s, ks)
                      \/ EnableObservers(t, s, ks)
                      \/ DisableObservers(t, s, ks)
                \/ DelAll(t, s)
        BY <1>1 DEF Call
    <2>2. CASE DelAll(t, s)
        BY <2>2, DelObserversType DEF DelAll, GetKeys
    <2>3. ASSUME NEW ks \in SUBSET Keys, DelKeys(t, s, ks) PROVE TypeInv'
        BY <2>3, DelObserversType DEF DelKeys
    <2> QED
        BY <2>1, <2>2, <2>3, AddObserversType, EnableObserversType, DisableObserversType
<1>2. ASSUME NEW t \in Threads, Continue(t) PROVE TypeInv'
    BY <1>2, ReplayType, SubscribeDataType, RollbackAddType, EraseLastChangeType,
       UnSubscribeDataType, EnableSubscribeDataType, RollbackEnableType,
       DisableSubscribeDataType, RollbackDisableType
    DEF Continue, Replay
<1>3. CASE Emit
    BY <1>3, EmitTakeType, EmitMarkType, EmitListType, EmitStoreType, EmitNotifyType DEF Emit
<1>4. CASE RecoverObservers
    BY <1>4, RecoverType
<1>5. CASE Service
    BY <1>5, AnnounceType, ServiceDiedType, ServiceAddedType DEF Service
<1>6. CASE UNCHANGED vars
    BY <1>6 DEF vars, TypeInv, TypeOK, ObserverBound, RestartBound
<1> QED
    BY <1>1, <1>2, <1>3, <1>4, <1>5, <1>6 DEF Next

\* The types of PublishedDataSubscriberManager's state: in particular, deliveries
\* and replays only ever name observers that were registered and changes that
\* were announced.
THEOREM PublishedTypeCorrect == Spec => []TypeOK
<1>1. Spec => []TypeInv
    BY InitType, NextType, PTL DEF Spec
<1>2. TypeInv => TypeOK
    BY DEF TypeInv
<1> QED
    BY <1>1, <1>2, PTL

-----------------------------------------------------------------------------
(* The service carries what is enabled *)

\* What the recovery has done about key k.
RecInv(k) == up /\ rec.pc = "subscribe" /\ k \notin rec.keys => Carried(k)

PublishedInv == CarryInv /\ \A k \in Keys \ tainted : RecInv(k)

\* A step of a call keeps what the recovery has done.
LEMMA CallKeepsRec ==
    ASSUME PublishedInv, CarryStep, UNCHANGED <<up, rec>>, tainted \subseteq tainted'
    PROVE  \A k \in Keys \ tainted' : RecInv(k)'
<1> SUFFICES ASSUME NEW k \in Keys, k \notin tainted' PROVE RecInv(k)'
    OBVIOUS
<1>1. RecInv(k) /\ Untouched(k)
    BY DEF PublishedInv, CarryStep
<1> QED
    BY <1>1 DEF RecInv, Untouched, Recovering, Carried, HasEnabled

LEMMA ReplayCarry ==
    ASSUME CarryInv, NEW t \in Threads, Replay(t)
    PROVE  CarryStep /\ UNCHANGED <<up, rec, tainted>>
<1> DEFINE r == op'[t]
<1>1. ReplayStep(t) /\ TypeInv /\ KeysOfCall
    BY ReplayIsStep DEF CarryInv
<1>2. /\ r \in Op /\ op' = [op EXCEPT ![t] = r] /\ ReplayNext(t, r)
      /\ op[t].pc \in {"addEmit", "addNotify", "enableEmit", "enableNotify"}
      /\ UNCHANGED <<callbacks, svc, up, rec, tainted>>
    BY <1>1 DEF ReplayStep
<1>3. op[t].ipc \subseteq op[t].keys /\ op[t].erase \subseteq op[t].keys
      /\ op[t].failed \subseteq op[t].keys
    BY <1>1 DEF KeysOfCall
<1> HIDE DEF r
<1>4. CASE r = IdleOp /\ (op[t].pc \in {"addEmit", "addNotify"} => op[t].ipc = {})
    <2>1. Refusable(op[t]) = {}
        BY <1>2, <1>4 DEF Refusable
    <2> QED
        BY <1>2, <1>4, <2>1, QuietStepCarry
<1>5. CASE /\ r.keys = op[t].keys /\ r.sub = op[t].sub
           /\ r.ipc = op[t].ipc /\ r.erase = op[t].erase /\ r.failed = op[t].failed
           /\ \/ /\ op[t].pc \in {"addEmit", "addNotify"}
                 /\ r.pc \in {"addEmit", "addNotify", "subscribe"}
              \/ /\ op[t].pc \in {"enableEmit", "enableNotify"}
                 /\ r.pc \in {"enableEmit", "enableNotify"}
    <2>1. Refusable(r) = Refusable(op[t])
        BY <1>5 DEF Refusable
    <2>2. /\ r.pc \notin {"disable", "rollbackDisable", "idle"}
          /\ r.pc \notin {"erase", "unsubscribe"}
        BY <1>5
    <2>3. r.ipc \subseteq r.keys /\ r.erase \subseteq r.keys /\ r.failed \subseteq r.keys
        BY <1>3, <1>5
    <2> QED
        BY <1>2, <1>5, <2>1, <2>2, <2>3, QuietStepCarry
<1> QED
    BY <1>2, <1>4, <1>5 DEF ReplayNext

\* Every step of a call.
LEMMA CallCarry ==
    ASSUME CarryInv, NEW t \in Threads, Call(t) \/ Continue(t)
    PROVE  CarryStep /\ UNCHANGED <<up, rec>> /\ tainted \subseteq tainted'
<1> USE DEF serviceVars, historyVars
<1>1. CASE Call(t)
    <2>1. PICK s \in Subscribers :
                \/ \E ks \in SUBSET Keys \ {{}} :
                      \/ AddObservers(t, s, ks)
                      \/ DelKeys(t, s, ks)
                      \/ EnableObservers(t, s, ks)
                      \/ DisableObservers(t, s, ks)
                \/ DelAll(t, s)
        BY <1>1 DEF Call
    <2>2. ASSUME NEW ks \in SUBSET Keys, AddObservers(t, s, ks)
          PROVE  CarryStep /\ UNCHANGED <<up, rec>> /\ tainted \subseteq tainted'
        BY <2>2, AddObserversCarry DEF AddObservers, Overlap
    <2>3. ASSUME NEW ks \in SUBSET Keys, DelObservers(t, s, ks, FALSE)
          PROVE  CarryStep /\ UNCHANGED <<up, rec>> /\ tainted \subseteq tainted'
        BY <2>3, DelObserversCarry DEF DelObservers, Overlap
    <2>4. ASSUME NEW ks \in SUBSET Keys, EnableObservers(t, s, ks)
          PROVE  CarryStep /\ UNCHANGED <<up, rec>> /\ tainted \subseteq tainted'
        BY <2>4, EnableObserversCarry DEF EnableObservers, Overlap
    <2>5. ASSUME NEW ks \in SUBSET Keys, DisableObservers(t, s, ks)
          PROVE  CarryStep /\ UNCHANGED <<up, rec>> /\ tainted \subseteq tainted'
        BY <2>5, DisableObserversCarry DEF DisableObservers, Overlap
    <2>6. GetKeys(callbacks) \in SUBSET Keys
        BY DEF GetKeys
    <2> QED
        BY <2>1, <2>2, <2>3, <2>4, <2>5, <2>6 DEF DelKeys, DelAll
<1>2. CASE Replay(t)
    BY <1>2, ReplayCarry
<1>3. CASE SubscribeData(t)
    BY <1>3, SubscribeDataCarry DEF SubscribeData
<1>4. CASE RollbackAdd(t)
    BY <1>4, RollbackAddCarry DEF RollbackAdd
<1>5. ASSUME NEW k, EraseLastChange(t, k)
      PROVE  CarryStep /\ UNCHANGED <<up, rec>> /\ tainted \subseteq tainted'
    BY <1>5, EraseLastChangeCarry DEF EraseLastChange
<1>6. CASE UnSubscribeData(t)
    BY <1>6, UnSubscribeDataCarry DEF UnSubscribeData
<1>7. CASE EnableSubscribeData(t)
    BY <1>7, EnableSubscribeDataCarry DEF EnableSubscribeData
<1>8. CASE RollbackEnable(t)
    BY <1>8, RollbackEnableCarry DEF RollbackEnable
<1>9. CASE DisableSubscribeData(t)
    BY <1>9, DisableSubscribeDataCarry DEF DisableSubscribeData
<1>10. CASE RollbackDisable(t)
    BY <1>10, RollbackDisableCarry DEF RollbackDisable
<1> QED
    BY <1>1, <1>2, <1>3, <1>4, <1>5, <1>6, <1>7, <1>8, <1>9, <1>10 DEF Continue, Replay

\* A step that neither changes who is enabled nor concerns the service.
LEMMA SameKeeps ==
    ASSUME PublishedInv, TypeInv', \A k \in Keys : SameNodes(k),
           UNCHANGED <<op, svc, up, rec, tainted>>
    PROVE  PublishedInv'
<1>1. KeysOfCall' /\ \A k \in Keys \ tainted' : KeyInv(k)'
    BY EmitCarry DEF PublishedInv
<1>2. ASSUME NEW k \in Keys, k \notin tainted' PROVE RecInv(k)'
    BY <1>2 DEF PublishedInv, RecInv, SameNodes, Carried
<1> QED
    BY <1>1, <1>2 DEF PublishedInv, CarryInv

LEMMA EmitKeeps ==
    ASSUME PublishedInv, TypeInv', Emit
    PROVE  PublishedInv'
<1> USE DEF serviceVars, historyVars
<1>1. UNCHANGED <<op, svc, up, rec, tainted>>
    BY DEF Emit, EmitTake, EmitMark, EmitList, EmitStore, EmitNotify
<1>2. ASSUME NEW k \in Keys PROVE SameNodes(k)
    <2>1. CASE callbacks' = callbacks
        BY <2>1 DEF SameNodes
    <2>2. ASSUME NEW j \in disp.keys, EmitMark(j) PROVE SameNodes(k)
        <3>1. TypeInv /\ j \in Keys
            BY DispFields DEF PublishedInv, CarryInv
        <3> QED
            BY <2>2, <3>1, MarkingSame DEF EmitMark
    <2> QED
        BY <2>1, <2>2 DEF Emit, EmitTake, EmitList, EmitStore, EmitNotify
<1> QED
    BY <1>1, <1>2, SameKeeps

LEMMA RecoverKeeps ==
    ASSUME PublishedInv, TypeInv', RecoverObservers
    PROVE  PublishedInv'
<1> USE DEF serviceVars, historyVars
<1>1. CarryInv /\ TypeInv
    BY DEF PublishedInv, CarryInv
<1>2. rec.pc # "idle" /\ UNCHANGED <<callbacks, op, up>> /\ tainted \subseteq tainted'
    BY DEF RecoverObservers, RecoverNoProxy, RecoverKeys, RecoverKey, RecoverSubscribe
<1>3. ASSUME NEW k \in Keys, k \notin tainted'
      PROVE  RecInv(k)' /\ (up /\ rec'.pc = "idle" => Carried(k)')
    <2>1. RecInv(k)
        BY <1>2, <1>3 DEF PublishedInv
    <2>2. CASE RecoverNoProxy
        BY <1>3, <2>2 DEF RecoverNoProxy, RecInv, IdleRec, GetKeys, Carried, HasEnabled
    <2>3. CASE RecoverKeys
        BY <1>1, <2>3
        DEF RecoverKeys, RecInv, IdleRec, GetKeys, Carried, HasEnabled, TypeInv, TypeOK, Rec
    <2>4. ASSUME NEW j \in rec.keys, RecoverKey(j)
          PROVE  RecInv(k)' /\ (up /\ rec'.pc = "idle" => Carried(k)')
        BY <1>1, <1>2, <1>3, <2>1, <2>4
        DEF RecoverKey, RecoverSubscribe, RecInv, IdleRec, HasEnabled, Carried, TypeInv, TypeOK,
            Rec
    <2> QED
        BY <2>2, <2>3, <2>4 DEF RecoverObservers
<1>4. KeysOfCall' /\ \A k \in Keys \ tainted' : KeyInv(k)'
    BY <1>1, <1>2, <1>3, RecoverCarry
<1> QED
    BY <1>3, <1>4 DEF PublishedInv, CarryInv

LEMMA ServiceKeeps ==
    ASSUME PublishedInv, TypeInv', Service
    PROVE  PublishedInv'
<1>1. CASE \E ks \in SUBSET Keys \ {{}} : Announce(ks)
    <2>1. UNCHANGED <<callbacks, op, svc, up, rec, tainted>>
        BY <1>1 DEF Announce
    <2>2. \A k \in Keys : SameNodes(k)
        BY <2>1 DEF SameNodes
    <2> QED
        BY <2>1, <2>2, SameKeeps
<1>2. CASE ServiceDied \/ ServiceAdded
    <2>1. KeysOfCall' /\ \A k \in Keys \ tainted' : KeyInv(k)'
        BY <1>2, ServiceCarry DEF PublishedInv
    <2>2. ~up' \/ rec'.pc = "start"
        BY <1>2 DEF ServiceDied, ServiceAdded, IdleRec
    <2>3. \A k \in Keys \ tainted' : RecInv(k)'
        BY <2>2 DEF RecInv
    <2> QED
        BY <2>1, <2>3 DEF PublishedInv, CarryInv
<1> QED
    BY <1>1, <1>2 DEF Service

LEMMA InitPublished == Init => PublishedInv
<1> SUFFICES ASSUME Init PROVE PublishedInv
    OBVIOUS
<1>1. TypeInv
    BY InitType
<1>2. KeysOfCall
    BY DEF Init, KeysOfCall, IdleOp
<1>3. ASSUME NEW k \in Keys PROVE KeyInv(k) /\ RecInv(k)
    BY DEF Init, KeyInv, RecInv, Carried, HasEnabled, IdleOp, IdleRec
<1> QED
    BY <1>1, <1>2, <1>3 DEF PublishedInv, CarryInv

LEMMA NextPublished == PublishedInv /\ [Next]_vars => PublishedInv'
<1> SUFFICES ASSUME PublishedInv, [Next]_vars PROVE PublishedInv'
    OBVIOUS
<1>1. TypeInv'
    BY NextType DEF PublishedInv, CarryInv
<1>2. ASSUME NEW t \in Threads, Call(t) \/ Continue(t) PROVE PublishedInv'
    <2>1. CarryStep /\ UNCHANGED <<up, rec>> /\ tainted \subseteq tainted'
        BY <1>2, CallCarry DEF PublishedInv
    <2>2. \A k \in Keys \ tainted' : RecInv(k)'
        BY <2>1, CallKeepsRec
    <2> QED
        BY <1>1, <2>1, <2>2 DEF PublishedInv, CarryInv, CarryStep
<1>3. CASE Emit
    BY <1>1, <1>3, EmitKeeps
<1>4. CASE RecoverObservers
    BY <1>1, <1>4, RecoverKeeps
<1>5. CASE Service
    BY <1>1, <1>5, ServiceKeeps
<1>6. CASE UNCHANGED vars
    <2>1. UNCHANGED <<callbacks, op, svc, up, rec, tainted>>
        BY <1>6 DEF vars
    <2>2. \A k \in Keys : SameNodes(k)
        BY <2>1 DEF SameNodes
    <2> QED
        BY <1>1, <2>1, <2>2, SameKeeps
<1> QED
    BY <1>2, <1>3, <1>4, <1>5, <1>6 DEF Next

\* For every number of threads, subscribers and keys and every bound: while no
\* call and no recovery is working on a key of published data, its enabled
\* observers are enabled at the service, through refusals of parts of a request,
\* roll-backs and restarts of the service.
THEOREM PublishedServiceCarriesEnabled == Spec => []ServiceCarriesEnabled
<1>1. Spec => []PublishedInv
    BY InitPublished, NextPublished, PTL DEF Spec
<1>2. PublishedInv => ServiceCarriesEnabled
    BY CarryInvImplies DEF PublishedInv
<1> QED
    BY <1>1, <1>2, PTL

-----------------------------------------------------------------------------
(* No missed change *)

\* There are no calls to make without an Emit, and once an EnableObservers call
\* hands out what it read nothing is left to read.
DeliveryShape ==
    /\ disp.pc = "idle" => disp.todo = {}
    /\ \A t \in Threads : op[t].pc = "enableNotify" => op[t].todo = {}

PublishedDeliveryInv == DeliveryInv /\ OneNode /\ DeliveryShape

LEMMA IdleDispFields ==
    IdleDisp.pc = "idle" /\ IdleDisp.version = 0 /\ IdleDisp.todo = {} /\ IdleDisp.keys = {}
BY DEF IdleDisp

\* What has to be shown of a step of Emit.
LEMMA EmitKeepsDelivery ==
    ASSUME PublishedDeliveryInv, TypeInv', OneNode', Ordered', InboxOrdered',
           UNCHANGED op, disp'.pc = "idle" => disp'.todo = {},
           \A k \in Keys : \A n \in callbacks'[k] : Behind(n.observer, k)' => Pending(k, n)'
    PROVE  PublishedDeliveryInv'
<1>1. NothingReadBefore' /\ DeliveryShape'
    BY DEF PublishedDeliveryInv, DeliveryInv, NothingReadBefore, DeliveryShape
<1>2. \A k \in Keys : DebtsOf(k)'
    BY DEF DebtsOf
<1> QED
    BY <1>1, <1>2 DEF PublishedDeliveryInv, DeliveryInv

LEMMA EmitTakeDelivery ==
    ASSUME PublishedDeliveryInv, EmitTake
    PROVE  PublishedDeliveryInv'
<1> DEFINE c == Head(inbox)
<1>1. TypeInv /\ TypeInv'
    BY EmitTakeType DEF PublishedDeliveryInv, DeliveryInv
<1>2. /\ UNCHANGED <<callbacks, lastChangeNodeMap, nextObserver, op, changes, seen, owed>>
      /\ inbox' = Tail(inbox) /\ inbox # <<>> /\ disp.pc = "idle"
    BY DEF EmitTake, historyVars
<1>3. /\ c.version \in Nat /\ c.version <= changes
      /\ \A k \in Keys : lastChangeNodeMap[k] <= c.version
    BY <1>2, TakenFromInbox DEF PublishedDeliveryInv
<1>4. disp'.pc = "mark" /\ disp'.version = c.version /\ disp'.todo = {}
    BY DEF EmitTake, IdleDisp
<1> HIDE DEF c
<1>5. Ordered'
    BY <1>2, <1>3, <1>4 DEF PublishedDeliveryInv, DeliveryInv, Ordered
<1>6. InboxOrdered'
    <2> SUFFICES ASSUME NEW i \in 1 .. Len(Tail(inbox))
                 PROVE  /\ Tail(inbox)[i].version <= changes
                        /\ c.version <= Tail(inbox)[i].version
                        /\ \A k \in Keys : lastChangeNodeMap[k] <= Tail(inbox)[i].version
                        /\ \A j \in i .. Len(Tail(inbox)) :
                              Tail(inbox)[i].version <= Tail(inbox)[j].version
        BY <1>2, <1>4 DEF InboxOrdered
    <2> QED
        BY <1>2, TakenFromInbox DEF PublishedDeliveryInv, c
<1>7. disp.todo = {}
    BY <1>2 DEF PublishedDeliveryInv, DeliveryShape
<1>8. ASSUME NEW k \in Keys, NEW n \in callbacks'[k], Behind(n.observer, k)' PROVE Pending(k, n)'
    <2>1. Pending(k, n)
        BY <1>2, <1>8 DEF PublishedDeliveryInv, DeliveryInv, DebtsOf, Behind
    <2> QED
        BY <1>2, <1>7, <2>1 DEF Pending
<1>9. OneNode'
    BY <1>2 DEF PublishedDeliveryInv, OneNode
<1> QED
    BY <1>1, <1>2, <1>4, <1>5, <1>6, <1>8, <1>9, EmitKeepsDelivery

LEMMA EmitMarkDelivery ==
    ASSUME PublishedDeliveryInv, NEW j \in disp.keys, EmitMark(j)
    PROVE  PublishedDeliveryInv'
<1>1. TypeInv /\ TypeInv'
    BY EmitMarkType DEF PublishedDeliveryInv, DeliveryInv
<1>2. /\ UNCHANGED <<lastChangeNodeMap, nextObserver, op, inbox, changes, seen, owed>>
      /\ callbacks' = SetObserversNotifiedOnEnabled(callbacks, j) /\ disp.pc = "mark"
    BY DEF EmitMark, serviceVars, historyVars
<1>3. disp'.pc = "list" /\ disp'.version = disp.version /\ disp'.todo = disp.todo /\ j \in Keys
    BY <1>1, DispFields DEF EmitMark, TypeInv, TypeOK, Disp
<1>4. Ordered' /\ InboxOrdered'
    BY <1>2, <1>3 DEF PublishedDeliveryInv, DeliveryInv, Ordered, InboxOrdered
<1>5. ASSUME NEW k \in Keys, NEW n \in callbacks'[k]
      PROVE  \E m \in callbacks[k] : n = m \/ n = Marked(m)
    BY <1>1, <1>2, <1>3, MarkedKey DEF TypeInv, TypeOK
<1>6. \A k \in Keys : \A m \in callbacks[k] :
          /\ Marked(m).observer = m.observer /\ Marked(m).enabled = m.enabled
          /\ m.isNotifyOnEnabled => Marked(m).isNotifyOnEnabled
    BY <1>1 DEF TypeInv, TypeOK, Registry, Marked, ObserverNode
<1>7. OneNode'
    <2> SUFFICES ASSUME NEW k \in Keys, NEW n \in callbacks'[k], NEW m \in callbacks'[k],
                        n.observer = m.observer
                 PROVE  n = m
        BY DEF OneNode
    <2>1. callbacks'[k] = callbacks[k] \/ callbacks'[k] = {Marked(x) : x \in callbacks[k]}
        BY <1>1, <1>2, <1>3, MarkedKey DEF TypeInv, TypeOK
    <2>2. CASE callbacks'[k] = callbacks[k]
        BY <2>2 DEF PublishedDeliveryInv, OneNode
    <2>3. CASE callbacks'[k] = {Marked(x) : x \in callbacks[k]}
        <3>1. PICK x \in callbacks[k], y \in callbacks[k] : n = Marked(x) /\ m = Marked(y)
            BY <2>3
        <3>2. x.observer = y.observer
            BY <1>6, <3>1
        <3>3. x = y
            BY <3>2 DEF PublishedDeliveryInv, OneNode
        <3> QED
            BY <3>1, <3>3
    <2> QED
        BY <2>1, <2>2, <2>3
<1>8. ASSUME NEW k \in Keys, NEW n \in callbacks'[k], Behind(n.observer, k)' PROVE Pending(k, n)'
    <2>1. PICK m \in callbacks[k] :
              /\ n.observer = m.observer /\ n.enabled = m.enabled
              /\ m.isNotifyOnEnabled => n.isNotifyOnEnabled
        BY <1>5, <1>6
    <2>2. Pending(k, m)
        BY <1>2, <1>8, <2>1 DEF PublishedDeliveryInv, DeliveryInv, DebtsOf, Behind
    <2> QED
        BY <1>2, <1>3, <2>1, <2>2 DEF Pending
<1> QED
    BY <1>1, <1>2, <1>3, <1>4, <1>7, <1>8, EmitKeepsDelivery

LEMMA EmitListDelivery ==
    ASSUME PublishedDeliveryInv, NEW j \in disp.now, EmitList(j)
    PROVE  PublishedDeliveryInv'
<1>1. TypeInv /\ TypeInv'
    BY EmitListType DEF PublishedDeliveryInv, DeliveryInv
<1>2. /\ UNCHANGED <<callbacks, lastChangeNodeMap, nextObserver, op, inbox, changes, seen, owed>>
      /\ disp.pc = "list" /\ j \in Keys
    BY <1>1, DispFields DEF EmitList, serviceVars, historyVars
<1> DEFINE calls == [key : {j}, version : {disp.version},
                     observer : GetEnabledObservers(callbacks, j)]
<1>3. disp'.pc = "store" /\ disp'.version = disp.version /\ disp'.todo = disp.todo \cup calls
    BY <1>1 DEF EmitList, TypeInv, TypeOK, Disp
<1>4. \A o \in GetEnabledObservers(callbacks, j) : o < nextObserver
    BY <1>1, <1>2 DEF GetEnabledObservers, TypeInv, ObserverBound
<1>5. \A x \in calls : x.version = disp.version /\ x.observer < nextObserver
    BY <1>4
<1> HIDE DEF calls
<1>6. Ordered' /\ InboxOrdered'
    BY <1>2, <1>3, <1>5 DEF PublishedDeliveryInv, DeliveryInv, Ordered, InboxOrdered
<1>7. ASSUME NEW k \in Keys, NEW n \in callbacks'[k], Behind(n.observer, k)' PROVE Pending(k, n)'
    <2>1. Pending(k, n)
        BY <1>2, <1>7 DEF PublishedDeliveryInv, DeliveryInv, DebtsOf, Behind
    <2> QED
        BY <1>2, <1>3, <2>1 DEF Pending
<1>8. OneNode'
    BY <1>2 DEF PublishedDeliveryInv, OneNode
<1> QED
    BY <1>1, <1>2, <1>3, <1>6, <1>7, <1>8, EmitKeepsDelivery

\* Who has a claim to the change of key k once it is stored.
Claims(k, o) ==
    \/ \E n \in disp.todo : n.key = k /\ n.observer = o
    \/ \E n \in callbacks[k] : n.observer = o /\ ~n.enabled /\ n.isNotifyOnEnabled

LEMMA EmitStoreDelivery ==
    ASSUME PublishedDeliveryInv, NEW j \in disp.now, EmitStore(j)
    PROVE  PublishedDeliveryInv'
<1>1. TypeInv /\ TypeInv'
    BY EmitStoreType DEF PublishedDeliveryInv, DeliveryInv
<1>2. /\ UNCHANGED <<callbacks, nextObserver, op, inbox, changes, seen>>
      /\ disp.pc = "store" /\ j \in Keys
    BY <1>1, DispFields DEF EmitStore, serviceVars
<1>3. \A k \in Keys :
          lastChangeNodeMap'[k] = IF k = j THEN disp.version ELSE lastChangeNodeMap[k]
    BY <1>1, <1>2 DEF EmitStore, TypeInv, TypeOK
<1>4. \A o \in Observers : \A k \in Keys :
          owed'[o][k] = IF k = j /\ Claims(j, o) THEN disp.version ELSE owed[o][k]
    <2>1. owed' = [o \in Observers |-> IF Claims(j, o) THEN [owed[o] EXCEPT ![j] = disp.version]
                                       ELSE owed[o]]
        BY DEF EmitStore, Claims
    <2>2. \A o \in Observers : owed[o] \in [Keys -> Versions]
        BY <1>1 DEF TypeInv, TypeOK
    <2> QED
        BY <1>2, <2>1, <2>2
<1>5. \/ disp' = IdleDisp /\ disp.todo = {}
      \/ disp'.pc \in {"mark", "notify"} /\ disp'.version = disp.version /\ disp'.todo = disp.todo
    BY <1>1 DEF EmitStore, TypeInv, TypeOK, Disp
<1>6. /\ changes \in Nat /\ disp.version \in Nat /\ nextObserver \in Nat
      /\ \A k \in Keys : lastChangeNodeMap[k] \in Nat
      /\ \A i \in 1 .. Len(inbox) : inbox[i].version \in Nat
    BY <1>1, ChangeNumbers DEF TypeInv, TypeOK
<1>7. \A o \in Observers : o \in Nat /\ \A k \in Keys : owed[o][k] \in Nat
    BY <1>1, BoundsAssumption DEF TypeInv, TypeOK, Versions, Observers
<1>8. /\ disp.version <= changes
      /\ \A k \in Keys : lastChangeNodeMap[k] <= disp.version
      /\ \A x \in disp.todo : x.version = disp.version /\ x.observer < nextObserver
    BY <1>2 DEF PublishedDeliveryInv, DeliveryInv, Ordered
<1>9. disp'.todo = disp.todo
    BY <1>5, IdleDispFields
<1>10. Ordered'
    <2>1. \A k \in Keys : lastChangeNodeMap'[k] <= changes /\ lastChangeNodeMap'[k] <= disp.version
        BY <1>3, <1>6, <1>8 DEF PublishedDeliveryInv, DeliveryInv, Ordered
    <2>2. ASSUME NEW k \in Keys, NEW o \in Observers
          PROVE  owed'[o][k] <= lastChangeNodeMap'[k] /\ (o >= nextObserver => owed'[o][k] = 0)
        <3>1. owed[o][k] <= lastChangeNodeMap[k] /\ (o >= nextObserver => owed[o][k] = 0)
            BY DEF PublishedDeliveryInv, DeliveryInv, Ordered
        <3>2. \A n \in callbacks[j] : n.observer < nextObserver /\ n.observer \in Nat
            BY <1>1, <1>2 DEF TypeInv, TypeOK, ObserverBound, Registry, ObserverNode
        <3>3. Claims(j, o) => o < nextObserver
            BY <1>8, <3>2 DEF Claims
        <3>4. owed[o][k] \in Nat /\ o \in Nat /\ lastChangeNodeMap[k] \in Nat
              /\ lastChangeNodeMap[k] <= disp.version
            BY <1>6, <1>7, <1>8
        <3> QED
            BY <1>3, <1>4, <1>6, <3>1, <3>3, <3>4
    <2>3. disp'.version = disp.version \/ (disp'.version = 0 /\ disp'.pc = "idle")
        BY <1>5, IdleDispFields
    <2>4. \A x \in disp'.todo : x.version = disp'.version /\ x.observer < nextObserver
        BY <1>5, <1>8, IdleDispFields
    <2> QED
        BY <1>2, <1>6, <1>8, <2>1, <2>2, <2>3, <2>4 DEF Ordered
<1>11. InboxOrdered'
    <2>1. disp'.version = disp.version \/ disp'.version = 0
        BY <1>5, IdleDispFields
    <2> QED
        BY <1>2, <1>3, <1>6, <2>1 DEF PublishedDeliveryInv, DeliveryInv, InboxOrdered
<1>12. ASSUME NEW k \in Keys, NEW n \in callbacks'[k], Behind(n.observer, k)' PROVE Pending(k, n)'
    <2>1. n \in callbacks[k] /\ n.observer \in Observers
        BY <1>1, <1>2, <1>12, NodeFields
    <2>2. CASE k = j /\ Claims(j, n.observer)
        <3>1. CASE \E x \in disp.todo : x.key = j /\ x.observer = n.observer
            BY <1>9, <2>2, <3>1 DEF Pending
        <3>2. CASE \E m \in callbacks[j] : m.observer = n.observer /\ ~m.enabled /\ m.isNotifyOnEnabled
            <4>1. ~n.enabled /\ n.isNotifyOnEnabled
                BY <1>2, <2>1, <2>2, <3>2 DEF PublishedDeliveryInv, OneNode
            <4> QED
                BY <4>1 DEF Pending
        <3> QED
            BY <2>2, <3>1, <3>2 DEF Claims
    <2>3. CASE ~(k = j /\ Claims(j, n.observer))
        <3>1. owed'[n.observer][k] = owed[n.observer][k]
            BY <1>4, <2>1, <2>3
        <3>2. Pending(k, n)
            BY <1>2, <1>12, <2>1, <3>1 DEF PublishedDeliveryInv, DeliveryInv, DebtsOf, Behind
        <3> QED
            BY <1>2, <1>9, <3>1, <3>2 DEF Pending
    <2> QED
        BY <2>2, <2>3
<1>13. OneNode'
    BY <1>2 DEF PublishedDeliveryInv, OneNode
<1>14. disp'.pc = "idle" => disp'.todo = {}
    BY <1>5, IdleDispFields
<1> QED
    BY <1>1, <1>2, <1>10, <1>11, <1>12, <1>13, <1>14, EmitKeepsDelivery

LEMMA EmitNotifyDelivery ==
    ASSUME PublishedDeliveryInv, NEW o \in Observers, EmitNotify(o)
    PROVE  PublishedDeliveryInv'
<1> DEFINE notices == {x \in disp.todo : x.observer = o}
<1>1. TypeInv /\ TypeInv'
    BY EmitNotifyType DEF PublishedDeliveryInv, DeliveryInv
<1>2. /\ UNCHANGED <<callbacks, lastChangeNodeMap, nextObserver, op, inbox, changes, owed>>
      /\ disp.pc = "notify" /\ OnChange(notices)
    BY DEF EmitNotify, serviceVars
<1>3. \/ disp' = IdleDisp /\ disp.todo \ notices = {}
      \/ /\ disp'.pc = "notify" /\ disp'.version = disp.version
         /\ disp'.todo = disp.todo \ notices
    BY <1>1, <1>2 DEF EmitNotify, TypeInv, TypeOK, Disp
<1>4. notices \in SUBSET Notice /\ disp.version \in Nat /\ changes \in Nat
    BY <1>1, DispFields, ChangeNumbers
<1>5. \A x \in disp.todo : x.observer = o <=> x \in notices
    OBVIOUS
<1>51. notices \subseteq disp.todo
    OBVIOUS
<1> HIDE DEF notices
<1>6. disp'.todo = disp.todo \ notices
    BY <1>3, IdleDispFields
<1>7. Ordered'
    <2>1. CASE disp' = IdleDisp
        BY <1>2, <1>4, <2>1, IdleDispFields DEF PublishedDeliveryInv, DeliveryInv, Ordered
    <2>2. CASE disp'.pc = "notify" /\ disp'.version = disp.version
        BY <1>2, <1>6, <2>2 DEF PublishedDeliveryInv, DeliveryInv, Ordered
    <2> QED
        BY <1>3, <2>1, <2>2
<1>8. InboxOrdered'
    <2>1. disp'.version = disp.version \/ disp'.version = 0
        BY <1>3, IdleDispFields
    <2>2. \A i \in 1 .. Len(inbox) : inbox[i].version \in Nat
        BY <1>1, ChangeNumbers
    <2> QED
        BY <1>2, <2>1, <2>2 DEF PublishedDeliveryInv, DeliveryInv, InboxOrdered
<1>9. ASSUME NEW k \in Keys, NEW n \in callbacks'[k], Behind(n.observer, k)'
      PROVE  Pending(k, n)'
    <2> DEFINE p == n.observer
    <2>1. /\ n \in callbacks[k] /\ p \in Observers /\ seen[p][k] \in Nat /\ seen'[p][k] \in Nat
          /\ owed[p][k] \in Versions /\ owed[p][k] \in Nat
        BY <1>1, <1>2, <1>9, NodeFields, NextNodeFields, BoundsAssumption DEF Versions
    <2>2. seen'[p][k] >= seen[p][k] /\ seen'[p][k] < owed[p][k]
        BY <1>1, <1>2, <1>4, <1>9, <2>1, OnChangeRaises DEF Behind
    <2>3. Pending(k, n)
        BY <2>1, <2>2 DEF PublishedDeliveryInv, DeliveryInv, DebtsOf, Behind
    <2>4. ASSUME NEW y \in disp.todo, y.key = k, y.observer = p PROVE y \notin notices
        <3>1. owed[p][k] <= lastChangeNodeMap[k] /\ lastChangeNodeMap[k] <= disp.version
              /\ \A x \in disp.todo : x.version = disp.version
            BY <1>2, <2>1 DEF PublishedDeliveryInv, DeliveryInv, Ordered
        <3>2. lastChangeNodeMap[k] \in Nat
            BY <1>1, ChangeNumbers
        <3>3. \A x \in notices : x.version >= owed[p][k]
            BY <1>4, <1>51, <2>1, <3>1, <3>2
        <3>4. y \in notices => seen'[p][k] >= owed[p][k]
            BY <1>1, <1>2, <1>4, <2>1, <2>4, <3>3, OnChangeRaises
        <3> QED
            BY <2>1, <2>2, <3>4
    <2> QED
        BY <1>2, <1>6, <2>3, <2>4 DEF Pending
<1>10. OneNode'
    BY <1>2 DEF PublishedDeliveryInv, OneNode
<1>11. disp'.pc = "idle" => disp'.todo = {}
    BY <1>3, IdleDispFields
<1> QED
    BY <1>1, <1>2, <1>7, <1>8, <1>9, <1>10, <1>11, EmitKeepsDelivery

\* The steps of AddObservers that call the new observer.
LEMMA AddReplayDelivery ==
    ASSUME PublishedDeliveryInv, NEW t \in Threads,
           (\E r \in op[t].todo : AddEmitRead(t, r)) \/ AddEmitNotify(t)
    PROVE  PublishedDeliveryInv'
<1>1. TypeInv /\ TypeInv'
    BY ReplayType DEF PublishedDeliveryInv, DeliveryInv, Replay
<1>2. op[t].pc \in {"addEmit", "addNotify"}
    BY DEF AddEmitRead, AddEmitNotify
<1>3. /\ UNCHANGED <<callbacks, lastChangeNodeMap, nextObserver, disp, inbox, changes, owed>>
      /\ seen' = seen \/ OnChange(op[t].cur)
    BY DEF AddEmitRead, AddEmitNotify, serviceVars, historyVars
<1>4. ReplayStep(t)
    BY <1>1, ReplayIsStep DEF Replay
<1>5. op'[t].pc \in {"idle", "addEmit", "addNotify", "subscribe"}
    BY <1>2, <1>4, IdlePc DEF ReplayStep, ReplayNext
<1>6. DeliveryInv'
    BY <1>1, <1>2, <1>3, <1>4, <1>5, AddEmitDelivery DEF PublishedDeliveryInv, ReplayStep, EnablePc
<1>7. \A u \in Threads \ {t} : op'[u] = op[u]
    BY <1>1, <1>4 DEF ReplayStep, TypeInv, TypeOK
<1>8. DeliveryShape' /\ OneNode'
    BY <1>3, <1>5, <1>7 DEF PublishedDeliveryInv, DeliveryShape, OneNode
<1> QED
    BY <1>6, <1>8 DEF PublishedDeliveryInv

\* Reading the last change of r's key for an observer that was enabled.
LEMMA EnableEmitReadDelivery ==
    ASSUME PublishedDeliveryInv, NEW t \in Threads, NEW r \in op[t].todo, EnableEmitRead(t, r)
    PROVE  PublishedDeliveryInv'
<1>1. TypeInv /\ TypeInv'
    BY ReplayType DEF PublishedDeliveryInv, DeliveryInv, Replay
<1>2. /\ UNCHANGED <<callbacks, lastChangeNodeMap, nextObserver, disp, inbox, changes, owed, seen>>
      /\ op[t].pc = "enableEmit"
    BY DEF EnableEmitRead, serviceVars, historyVars
<1> DEFINE x == [key |-> r.key, observer |-> r.observer, version |-> lastChangeNodeMap[r.key]]
           left == op[t].todo \ {r}
           wanted == lastChangeNodeMap[r.key] # 0 /\ r.isNotifyOnEnabled
           read == ReadLastChange(t, r, r.isNotifyOnEnabled, "enableNotify")
<1>3. /\ \A u \in Threads \ {t} : op'[u] = op[u]
      /\ op'[t] = IF read.todo = {} /\ read.cur = {} THEN IdleOp ELSE read
    BY <1>1 DEF EnableEmitRead, TypeInv, TypeOK
<1>4. /\ read.keys = op[t].keys /\ read.todo = left
      /\ read.pc = IF op[t].todo = {r} THEN "enableNotify" ELSE "enableEmit"
      /\ read.cur = IF wanted THEN op[t].cur \cup {x} ELSE op[t].cur
    BY <1>1, <1>2, OpFields DEF ReadLastChange, Op
<1>5. x.key = r.key /\ x.observer = r.observer /\ x.version = lastChangeNodeMap[r.key]
    OBVIOUS
<1>51. op[t].todo = {r} <=> left = {}
    OBVIOUS
<1> HIDE DEF x, read
<1>6. ASSUME NEW k \in Keys, NEW n \in callbacks[k],
             Replaying(op[t], k, n.observer, owed[n.observer][k]),
             seen[n.observer][k] < owed[n.observer][k]
      PROVE  Replaying(op'[t], k, n.observer, owed[n.observer][k])
    <2> DEFINE o == n.observer
    <2>1. o \in Observers /\ owed[o][k] \in Nat /\ seen[o][k] \in Nat
        BY <1>1, NodeFields, BoundsAssumption DEF Versions
    <2>2. owed[o][k] <= lastChangeNodeMap[k] /\ lastChangeNodeMap[k] \in Nat
        BY <1>1, <2>1, ChangeNumbers DEF PublishedDeliveryInv, DeliveryInv, Ordered
    <2>3. lastChangeNodeMap[k] # 0 /\ lastChangeNodeMap[k] >= owed[o][k]
        BY <1>6, <2>1, <2>2
    <2>4. k \in op[t].keys
        BY <1>6 DEF Replaying
    <2>5. ASSUME Taken(read, k, o, owed[o][k]) \/ Queued(read, k, o)
          PROVE  Replaying(op'[t], k, o, owed[o][k])
        <3>1. read.todo # {} \/ read.cur # {}
            BY <2>5 DEF Taken, Queued
        <3>2. op'[t] = read
            BY <1>3, <3>1
        <3>3. read.pc \in EnablePc
            BY <1>4 DEF EnablePc
        <3> QED
            BY <1>4, <2>4, <2>5, <3>2, <3>3 DEF Replaying
    <2>6. CASE Taken(op[t], k, o, owed[o][k])
        <3>1. \E y \in read.cur : y.key = k /\ y.observer = o
            BY <1>4, <2>6 DEF Taken
        <3>2. \A y \in read.cur : y.key = k => y.version >= owed[o][k]
            BY <1>4, <1>5, <2>3, <2>6 DEF Taken
        <3> QED
            BY <2>5, <3>1, <3>2 DEF Taken
    <2>7. CASE Queued(op[t], k, o)
        <3>1. PICK p \in op[t].todo : /\ p.key = k /\ p.observer = o /\ p.isNotifyOnEnabled
                                     /\ \A p1 \in op[t].todo : p1.key = k => p1 = p
            BY <2>7 DEF Queued
        <3>2. CASE r.key = k
            <4>1. r = p /\ wanted
                BY <2>3, <3>1, <3>2
            <4>2. read.cur = op[t].cur \cup {x} /\ x.key = k /\ x.observer = o
                BY <1>4, <1>5, <3>1, <4>1
            <4>3. x.version >= owed[o][k]
                BY <1>5, <2>3, <3>2
            <4>4. \A y \in op[t].cur : y.key # k
                BY <2>7 DEF Queued
            <4> QED
                BY <2>5, <4>2, <4>3, <4>4 DEF Taken
        <3>3. CASE r.key # k
            <4>1. p \in left /\ \A p1 \in left : p1.key = k => p1 = p
                BY <3>1, <3>3
            <4>2. \A y \in read.cur : y.key # k
                BY <1>4, <1>5, <2>7, <3>3 DEF Queued
            <4> QED
                BY <1>4, <2>5, <3>1, <4>1, <4>2 DEF Queued
        <3> QED
            BY <3>2, <3>3
    <2> QED
        BY <1>6, <2>6, <2>7 DEF Replaying
<1>7. \A k \in Keys : \A o \in Observers : seen'[o][k] >= seen[o][k]
    BY <1>1, <1>2, BoundsAssumption DEF TypeInv, TypeOK, Versions
<1>8. /\ op'[t].pc \in {"idle", "enableEmit", "enableNotify"}
      /\ op'[t].pc = "enableNotify" => op'[t].todo = {}
    BY <1>3, <1>4, <1>51, IdlePc
<1>9. DeliveryInv'
    BY <1>1, <1>2, <1>3, <1>6, <1>7, <1>8, ReplayDelivery DEF PublishedDeliveryInv
<1>10. DeliveryShape' /\ OneNode'
    BY <1>2, <1>3, <1>8 DEF PublishedDeliveryInv, DeliveryShape, OneNode
<1> QED
    BY <1>9, <1>10 DEF PublishedDeliveryInv

\* Handing an observer what was read for it.
LEMMA EnableEmitNotifyDelivery ==
    ASSUME PublishedDeliveryInv, NEW t \in Threads, NEW o \in Observers, EnableEmitNotify(t, o)
    PROVE  PublishedDeliveryInv'
<1> DEFINE notices == {x \in op[t].cur : x.observer = o}
           rest == [op[t] EXCEPT !.cur = @ \ notices]
<1>1. TypeInv /\ TypeInv'
    BY ReplayType DEF PublishedDeliveryInv, DeliveryInv, Replay
<1>2. /\ UNCHANGED <<callbacks, lastChangeNodeMap, nextObserver, disp, inbox, changes, owed>>
      /\ op[t].pc = "enableNotify" /\ OnChange(notices)
    BY DEF EnableEmitNotify, serviceVars
<1>3. /\ \A u \in Threads \ {t} : op'[u] = op[u]
      /\ op'[t] = IF notices = op[t].cur THEN IdleOp ELSE rest
    BY <1>1 DEF EnableEmitNotify, TypeInv, TypeOK
<1>4. notices \in SUBSET Notice /\ \A x \in op[t].cur : x.observer = o <=> x \in notices
    BY <1>1, OpFields
<1>5. /\ rest.pc = "enableNotify" /\ rest.keys = op[t].keys /\ rest.todo = op[t].todo
      /\ rest.cur = op[t].cur \ notices
    BY <1>1, <1>2, OpFields DEF Op
<1>6. notices \subseteq op[t].cur
    OBVIOUS
<1> HIDE DEF notices, rest
<1>7. op[t].todo = {}
    BY <1>2 DEF PublishedDeliveryInv, DeliveryShape
<1>8. ASSUME NEW k \in Keys, NEW n \in callbacks[k],
             Replaying(op[t], k, n.observer, owed[n.observer][k]),
             seen'[n.observer][k] < owed[n.observer][k]
      PROVE  Replaying(op'[t], k, n.observer, owed[n.observer][k])
    <2> DEFINE p == n.observer
    <2>1. /\ p \in Observers /\ owed[p][k] \in Versions
          /\ owed[p][k] \in Nat /\ seen'[p][k] \in Nat
        BY <1>1, <1>2, NodeFields, NextNodeFields, BoundsAssumption DEF Versions
    <2>2. k \in op[t].keys /\ Taken(op[t], k, p, owed[p][k])
        BY <1>7, <1>8 DEF Replaying, Queued
    <2>3. PICK y \in op[t].cur : y.key = k /\ y.observer = p
        BY <2>2 DEF Taken
    <2>4. \A x \in notices : x.key = k => x.version >= owed[p][k]
        BY <1>6, <2>2 DEF Taken
    <2>5. y \in notices => seen'[p][k] >= owed[p][k]
        BY <1>1, <1>2, <1>4, <2>1, <2>3, <2>4, OnChangeRaises
    <2>6. y \notin notices
        BY <1>8, <2>1, <2>5
    <2>7. op'[t] = rest
        BY <1>3, <2>3, <2>6
    <2>8. Taken(rest, k, p, owed[p][k])
        BY <1>5, <2>2, <2>3, <2>6 DEF Taken
    <2> QED
        BY <1>5, <2>2, <2>7, <2>8 DEF Replaying, EnablePc
<1>9. \A k \in Keys : \A p \in Observers : seen'[p][k] >= seen[p][k]
    BY <1>1, <1>2, <1>4, OnChangeRaises
<1>10. /\ op'[t].pc \in {"idle", "enableNotify"}
       /\ op'[t].pc = "enableNotify" => op'[t].todo = {}
    BY <1>3, <1>5, <1>7, IdlePc
<1>11. DeliveryInv'
    BY <1>1, <1>2, <1>3, <1>8, <1>9, <1>10, ReplayDelivery DEF PublishedDeliveryInv
<1>12. DeliveryShape' /\ OneNode'
    BY <1>2, <1>3, <1>10 DEF PublishedDeliveryInv, DeliveryShape, OneNode
<1> QED
    BY <1>11, <1>12 DEF PublishedDeliveryInv

\* The steps that the two managers share.
LEMMA SharedStepPublished ==
    ASSUME PublishedDeliveryInv, NEW t \in Threads, SharedStep(t)
    PROVE  PublishedDeliveryInv'
<1>1. MovesOn(t) /\ UNCHANGED <<disp, inbox>>
    BY SharedStepShape DEF PublishedDeliveryInv, DeliveryInv
<1>2. DeliveryInv'
    BY SharedStepDelivery DEF PublishedDeliveryInv
<1>3. OneNode'
    BY SharedStepOneNode DEF PublishedDeliveryInv, DeliveryInv
<1>4. DeliveryShape'
    BY <1>1 DEF PublishedDeliveryInv, DeliveryShape, MovesOn
<1> QED
    BY <1>2, <1>3, <1>4 DEF PublishedDeliveryInv

\* Steps that touch neither the registry nor what is delivered.
LEMMA ElsewherePublished ==
    ASSUME PublishedDeliveryInv, TypeInv',
           UNCHANGED <<callbacks, lastChangeNodeMap, nextObserver, op, disp, inbox, changes,
                       seen, owed>>
    PROVE  PublishedDeliveryInv'
BY ElsewhereDelivery DEF PublishedDeliveryInv, DeliveryShape, OneNode

LEMMA AnnouncePublished ==
    ASSUME PublishedDeliveryInv, NEW ks \in SUBSET Keys, Announce(ks)
    PROVE  PublishedDeliveryInv'
<1>1. DeliveryInv'
    BY AnnounceDelivery DEF PublishedDeliveryInv
<1>2. UNCHANGED <<callbacks, op, disp>>
    BY DEF Announce
<1> QED
    BY <1>1, <1>2 DEF PublishedDeliveryInv, DeliveryShape, OneNode

LEMMA InitPublishedDelivery == Init => PublishedDeliveryInv
<1> SUFFICES ASSUME Init PROVE PublishedDeliveryInv
    OBVIOUS
<1>1. DeliveryShape
    BY IdlePc, IdleDispFields DEF Init, DeliveryShape
<1>2. OneNode
    BY DEF Init, OneNode
<1> QED
    BY <1>1, <1>2, InitDelivery DEF PublishedDeliveryInv

\* Calls are shared steps.
LEMMA CallIsShared ==
    ASSUME NEW t \in Threads, Call(t)
    PROVE  SharedStep(t)
<1>1. PICK s \in Subscribers :
          \/ \E ks \in SUBSET Keys \ {{}} :
                \/ AddObservers(t, s, ks)
                \/ DelKeys(t, s, ks)
                \/ EnableObservers(t, s, ks)
                \/ DisableObservers(t, s, ks)
          \/ DelAll(t, s)
    BY DEF Call
<1>2. CASE DelAll(t, s)
    <2>1. DelObservers(t, s, GetKeys(callbacks), FALSE)
        BY <1>2 DEF DelAll
    <2>2. GetKeys(callbacks) \in SUBSET Keys
        BY DEF GetKeys
    <2> QED
        BY <2>1, <2>2 DEF SharedStep
<1>3. ASSUME NEW ks \in SUBSET Keys, DelKeys(t, s, ks) PROVE SharedStep(t)
    BY <1>3 DEF DelKeys, SharedStep
<1> QED
    BY <1>1, <1>2, <1>3 DEF SharedStep

LEMMA NextPublishedDelivery == PublishedDeliveryInv /\ [Next]_vars => PublishedDeliveryInv'
<1> SUFFICES ASSUME PublishedDeliveryInv, [Next]_vars PROVE PublishedDeliveryInv'
    OBVIOUS
<1>1. TypeInv'
    BY NextType DEF PublishedDeliveryInv, DeliveryInv
<1>2. ASSUME NEW t \in Threads, Call(t) PROVE PublishedDeliveryInv'
    BY <1>2, CallIsShared, SharedStepPublished
<1>3. ASSUME NEW t \in Threads, Continue(t) PROVE PublishedDeliveryInv'
    <2>1. \/ (\E r \in op[t].todo : AddEmitRead(t, r)) \/ AddEmitNotify(t)
          \/ \E r \in op[t].todo : EnableEmitRead(t, r)
          \/ \E o \in Observers : EnableEmitNotify(t, o)
          \/ SharedStep(t)
        BY <1>3 DEF Continue, SharedStep
    <2> QED
        BY <2>1, AddReplayDelivery, EnableEmitReadDelivery, EnableEmitNotifyDelivery,
           SharedStepPublished
<1>4. CASE Emit
    BY <1>4, EmitTakeDelivery, EmitMarkDelivery, EmitListDelivery, EmitStoreDelivery,
       EmitNotifyDelivery
    DEF Emit
<1>5. CASE RecoverObservers
    BY <1>1, <1>5, ElsewherePublished
    DEF RecoverObservers, RecoverNoProxy, RecoverKeys, RecoverKey, RecoverSubscribe,
        serviceVars, historyVars
<1>6. CASE Service
    <2>1. CASE ServiceDied \/ ServiceAdded
        BY <1>1, <2>1, ElsewherePublished DEF ServiceDied, ServiceAdded, historyVars
    <2> QED
        BY <1>6, <2>1, AnnouncePublished DEF Service
<1>7. CASE UNCHANGED vars
    BY <1>1, <1>7, ElsewherePublished DEF vars
<1> QED
    BY <1>2, <1>3, <1>4, <1>5, <1>6, <1>7 DEF Next

\* An observer that Emit listed, or found disabled and marked, is called with that
\* change or a later one once it is enabled and the calls on its key are done,
\* although marking, listing and storing are three lock sections and the replay
\* goes by the flag as it was when the observer was enabled.
THEOREM PublishedNoMissedChange == Spec => []NoMissedChange
<1>1. Spec => []PublishedDeliveryInv
    BY InitPublishedDelivery, NextPublishedDelivery, PTL DEF Spec
<1>2. PublishedDeliveryInv => NoMissedChange
    BY DeliveryInvImplies DEF PublishedDeliveryInv
<1> QED
    BY <1>1, <1>2, PTL

=============================================================================
