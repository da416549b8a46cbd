--------------------- MODULE RdbSubscriberManager_proof ---------------------
(***************************************************************************)
(* Theorems about RdbSubscriberManager, for every set of keys, subscribers *)
(* and threads and for every bound.                                        *)
(***************************************************************************)
EXTENDS RdbSubscriberManager, SubscriberDelivery_proof

-----------------------------------------------------------------------------
(* Type correctness *)

LEMMA EmitStoreType ==
    ASSUME TypeInv, EmitStore
    PROVE  TypeInv'
<1> DEFINE c == Head(inbox)
<1>1. c \in Change /\ Tail(inbox) \in Seq(Change)
    BY DEF EmitStore, TypeInv, TypeOK
<1>2. c.keys \in SUBSET Keys /\ c.version \in Versions
    BY <1>1 DEF Change
<1>3. lastChangeNodeMap' \in [Keys -> Versions]
    BY <1>2 DEF EmitStore, TypeInv, TypeOK
<1>4. owed' \in [Observers -> [Keys -> Versions]]
    BY <1>2 DEF EmitStore, TypeInv, TypeOK
<1>5. disp' = [IdleDisp EXCEPT !.pc = "collect", !.keys = c.keys, !.version = c.version]
    BY DEF EmitStore
<1> HIDE DEF c
<1>6. disp' \in Disp
    BY <1>2, <1>5 DEF IdleDisp, Disp
<1>7. UNCHANGED <<callbacks, nextObserver, op, rec, svc, up, epoch, changes, seen, tainted>>
      /\ inbox' = Tail(inbox)
    BY DEF EmitStore
<1> QED
    BY <1>1, <1>3, <1>4, <1>6, <1>7, DispStepType DEF TypeInv, TypeOK

LEMMA EmitCollectType ==
    ASSUME TypeInv, NEW k, EmitCollect(k)
    PROVE  TypeInv'
<1>1. k \in Keys
    BY DEF EmitCollect, TypeInv, TypeOK, Disp
<1>2. callbacks' \in Registry
    BY <1>1, SetNotifiedOnType DEF EmitCollect, TypeInv, TypeOK
<1>3. \A j \in Keys : \A n \in callbacks'[j] : \E m \in callbacks[j] : m.observer = n.observer
    BY <1>1, SetNotifiedOnObservers DEF EmitCollect, TypeInv, TypeOK
<1> DEFINE todo == [key : {k}, version : {disp.version},
                    observer : GetEnabledObservers(callbacks, k)]
<1>4. GetEnabledObservers(callbacks, k) \subseteq Observers
    BY <1>1, RegisteredObservers DEF GetEnabledObservers
<1>5. todo \subseteq Notice
    BY <1>1, <1>4 DEF Notice, TypeInv, TypeOK, Disp
<1>6. disp' = IdleDisp \/ disp' = [disp EXCEPT !.pc = "notify", !.keys = {}, !.todo = todo]
    BY DEF EmitCollect
<1> HIDE DEF todo
<1>7. disp' \in Disp
    <2>1. IdleDisp \in Disp
        BY ZeroVersion DEF IdleDisp, Disp
    <2>2. [disp EXCEPT !.pc = "notify", !.keys = {}, !.todo = todo] \in Disp
        BY <1>5 DEF Disp, TypeInv, TypeOK
    <2> QED
        BY <1>6, <2>1, <2>2
<1>8. UNCHANGED <<lastChangeNodeMap, inbox, seen, owed, nextObserver, op, rec, svc, up,
                  epoch, changes, tainted>>
    BY DEF EmitCollect, serviceVars, historyVars
<1> QED
    BY <1>2, <1>3, <1>7, <1>8, DispStepType DEF TypeInv, TypeOK

LEMMA EmitNotifyType ==
    ASSUME TypeInv, NEW n, EmitNotify(n)
    PROVE  TypeInv'
<1>1. {n} \in SUBSET Notice
    BY DEF EmitNotify, TypeInv, TypeOK, Disp
<1>2. seen' \in [Observers -> [Keys -> Versions]]
    BY <1>1, OnChangeType DEF EmitNotify
<1>3. disp' \in Disp
    BY ZeroVersion DEF EmitNotify, IdleDisp, Disp, TypeInv, TypeOK
<1>4. UNCHANGED <<callbacks, lastChangeNodeMap, inbox, owed, nextObserver, op, rec, svc, up,
                  epoch, changes, tainted>>
    BY DEF EmitNotify, serviceVars
<1> QED
    BY <1>2, <1>3, <1>4, DispStepType DEF TypeInv, TypeOK

\* Replay.
LEMMA AddEmitOrSubscribeType ==
    ASSUME TypeInv, NEW t \in Threads, NEW todo \in SUBSET Refresh
    PROVE  AddEmitOrSubscribe(t, todo) \in Op
BY OpFields, IdleOpType DEF AddEmitOrSubscribe, Op, ThreadPc

LEMMA ReadLastChangeType ==
    ASSUME TypeInv, NEW t \in Threads, NEW r \in op[t].todo, NEW pc \in ThreadPc
    PROVE  ReadLastChange(t, r, pc) \in Op
<1>1. r \in Refresh
    BY OpFields
<1>2. [key |-> r.key, observer |-> r.observer, version |-> lastChangeNodeMap[r.key]] \in Notice
    BY <1>1 DEF Refresh, Notice, TypeInv, TypeOK
<1> DEFINE cur == {[key |-> r.key, observer |-> r.observer,
                    version |-> lastChangeNodeMap[r.key]]}
<1>3. cur \subseteq Notice
    BY <1>2
<1>4. ReadLastChange(t, r, pc) = [op[t] EXCEPT !.pc = pc, !.todo = @ \ {r}, !.cur = cur]
    BY DEF ReadLastChange
<1> HIDE DEF cur
<1> QED
    BY <1>3, <1>4, OpFields DEF Op

LEMMA ContinueEmitType ==
    ASSUME TypeInv, NEW t \in Threads,
           \/ \E r \in op[t].todo : AddEmitRead(t, r) \/ EnableEmitRead(t, r)
           \/ AddEmitNotify(t)
           \/ EnableEmitCheck(t)
           \/ EnableEmitNotify(t)
    PROVE  TypeInv'
<1> USE DEF serviceVars, historyVars
<1>1. ASSUME NEW r \in op[t].todo, AddEmitRead(t, r) PROVE TypeInv'
    <2>1. AddEmitOrSubscribe(t, op[t].todo \ {r}) \in Op
        BY AddEmitOrSubscribeType, OpFields
    <2>2. ReadLastChange(t, r, "addNotify") \in Op
        BY ReadLastChangeType DEF ThreadPc
    <2>3. \E q \in Op : op' = [op EXCEPT ![t] = q]
        BY <1>1, <2>1, <2>2 DEF AddEmitRead
    <2> QED
        BY <1>1, <2>3, ReplayStepType DEF AddEmitRead
<1>2. ASSUME NEW r \in op[t].todo, EnableEmitRead(t, r) PROVE TypeInv'
    <2>1. EmitOrReturn(t, op[t].todo \ {r}) \in Op
        BY EmitOrReturnType, OpFields
    <2>2. ReadLastChange(t, r, "enableCheck") \in Op
        BY ReadLastChangeType DEF ThreadPc
    <2>3. \E q \in Op : op' = [op EXCEPT ![t] = q]
        BY <1>2, <2>1, <2>2 DEF EnableEmitRead
    <2> QED
        BY <1>2, <2>3, ReplayStepType DEF EnableEmitRead
<1>3. CASE AddEmitNotify(t)
    BY <1>3, AddEmitOrSubscribeType, OpFields, ReplayStepType DEF AddEmitNotify
<1>4. CASE EnableEmitCheck(t)
    <2>1. EmitOrReturn(t, op[t].todo) \in Op
        BY EmitOrReturnType, OpFields
    <2>2. [op[t] EXCEPT !.pc = "enableNotify"] \in Op
        BY OpFields DEF Op, ThreadPc
    <2>3. \E q \in Op : op' = [op EXCEPT ![t] = q]
        BY <1>4, <2>1, <2>2 DEF EnableEmitCheck
    <2> QED
        BY <1>4, <2>3, ReplayStepType DEF EnableEmitCheck
<1>5. CASE EnableEmitNotify(t)
    BY <1>5, EmitOrReturnType, OpFields, ReplayStepType DEF EnableEmitNotify
<1> QED
    BY <1>1, <1>2, <1>3, <1>4, <1>5

\* Recovery.
LEMMA RecoverType ==
    ASSUME TypeInv, RecoverObservers
    PROVE  TypeInv'
<1> USE DEF serviceVars, historyVars
<1>1. CASE RecoverNoProxy
    BY <1>1, RecoverNoProxyType
<1>2. CASE RecoverKeys
    <2>1. rec' \in Rec
        BY <1>2, IdleRecType DEF RecoverKeys, Rec, GetKeys, TypeInv, TypeOK
    <2> QED
        BY <1>2, <2>1, RecStepType DEF RecoverKeys, TypeInv, TypeOK
<1>3. ASSUME NEW k \in rec.unread, RecoverStatus(k) PROVE TypeInv'
    <2>1. rec' \in Rec
        BY <1>3 DEF RecoverStatus, Rec, TypeInv, TypeOK
    <2> QED
        BY <1>3, <2>1, RecStepType DEF RecoverStatus, TypeInv, TypeOK
<1>4. ASSUME NEW k \in rec.keys, RecoverKey(k) PROVE TypeInv'
    BY <1>4, RecoverSubscribeType DEF RecoverKey, Status
<1> QED
    BY <1>1, <1>2, <1>3, <1>4 DEF RecoverObservers

LEMMA NextType == TypeInv /\ [Next]_vars => TypeInv'
<1> SUFFICES ASSUME TypeInv, [Next]_vars PROVE TypeInv'
    OBVIOUS
<1>1. ASSUME NEW t \in Threads, Call(t) PROVE TypeInv'
    <2> SUFFICES ASSUME NEW s \in Subscribers,
                        \/ \E ks \in SUBSET Keys \ {{}} :
                              \/ AddObservers(t, s, ks)
                              \/ DelKeys(t, s, ks)
                              \/ EnableObservers(t, s, ks)
                              \/ DisableObservers(t, s, ks)
                        \/ DelAll(t, s)
                 PROVE  TypeInv'
        BY <1>1 DEF Call
    <2>1. CASE DelAll(t, s)
        BY <2>1, DelObserversType DEF DelAll, GetKeys
    <2>2. ASSUME NEW ks \in SUBSET Keys, DelKeys(t, s, ks) PROVE TypeInv'
        BY <2>2, DelObserversType DEF DelKeys
    <2> QED
        BY <2>1, <2>2, AddObserversType, EnableObserversType, DisableObserversType
<1>2. ASSUME NEW t \in Threads, Continue(t) PROVE TypeInv'
    BY <1>2, ContinueEmitType, SubscribeDataType, RollbackAddType, EraseLastChangeType,
       UnSubscribeDataType, EnableSubscribeDataType, RollbackEnableType,
       DisableSubscribeDataType, RollbackDisableType
    DEF Continue
<1>3. CASE Emit
    BY <1>3, EmitStoreType, EmitCollectType, EmitNotifyType DEF Emit
<1>4. CASE RecoverObservers
    BY <1>4, RecoverType
<1>5. CASE Service
    BY <1>5, AnnounceType, ServiceDiedType, ServiceAddedType DEF Service
<1>6. CASE UNCHANGED vars
    BY <1>6 DEF vars, TypeInv, TypeOK, ObserverBound, RestartBound
<1> QED
    BY <1>1, <1>2, <1>3, <1>4, <1>5, <1>6 DEF Next

\* The types of RdbSubscriberManager's state, and with them that no observer is
\* called and none is in the registry that was not registered.
THEOREM RdbTypeCorrect == Spec => []TypeOK
<1>1. Spec => []TypeInv
    BY InitType, NextType, PTL DEF Spec
<1>2. TypeInv => TypeOK
    BY DEF TypeInv
<1> QED
    BY <1>1, <1>2, PTL

-----------------------------------------------------------------------------
(* The service carries what is enabled *)

\* What the recovery has found out and done about key k.
RecInv(k) ==
    /\ up /\ rec.pc = "status" =>
          /\ callbacks[k] # {} => k \in rec.keys
          /\ HasEnabled(callbacks, k) => k \in rec.unread \cup rec.enabled
    /\ up /\ rec.pc = "subscribe" =>
          /\ k \notin rec.keys => Carried(k)
          /\ HasEnabled(callbacks, k) => k \in rec.enabled

RdbInv == CarryInv /\ \A k \in Keys \ tainted : RecInv(k)

\* A step of a call keeps what the recovery knows.
LEMMA CallKeepsRec ==
    ASSUME RdbInv, CarryStep, UNCHANGED <<up, rec>>, tainted \subseteq tainted'
    PROVE  \A k \in Keys \ tainted' : RecInv(k)'
<1> SUFFICES ASSUME NEW k \in Keys, k \notin tainted' PROVE RecInv(k)'
    OBVIOUS
<1>1. RecInv(k) /\ Untouched(k)
    BY DEF RdbInv, CarryStep
<1> QED
    BY <1>1 DEF RecInv, Untouched, Recovering, Carried, HasEnabled

LEMMA ContinueEmitCarry ==
    ASSUME CarryInv, NEW t \in Threads,
           \/ \E r \in op[t].todo : AddEmitRead(t, r) \/ EnableEmitRead(t, r)
           \/ AddEmitNotify(t)
           \/ EnableEmitCheck(t)
           \/ EnableEmitNotify(t)
    PROVE  CarryStep /\ UNCHANGED <<up, rec, tainted>>
<1>1. TypeInv /\ TypeInv' /\ KeysOfCall
    BY ContinueEmitType DEF CarryInv
<1>2. UNCHANGED <<callbacks, svc, up, rec, tainted>>
    BY DEF AddEmitRead, EnableEmitRead, AddEmitNotify, EnableEmitCheck, EnableEmitNotify,
           serviceVars
<1>3. op[t] \in Op /\ op'[t] \in Op /\ op' = [op EXCEPT ![t] = op'[t]]
    BY <1>1 DEF AddEmitRead, EnableEmitRead, AddEmitNotify, EnableEmitCheck,
                EnableEmitNotify, TypeInv, TypeOK
<1>4. \/ /\ op[t].pc \in {"addEmit", "addNotify"}
         /\ \/ \E todo : op'[t] = AddEmitOrSubscribe(t, todo)
            \/ \E r : op'[t] = ReadLastChange(t, r, "addNotify")
      \/ /\ op[t].pc \in {"enableEmit", "enableCheck", "enableNotify"}
         /\ \/ \E todo : op'[t] = EmitOrReturn(t, todo)
            \/ \E r : op'[t] = ReadLastChange(t, r, "enableCheck")
            \/ op'[t] = [op[t] EXCEPT !.pc = "enableNotify"]
    BY <1>1 DEF AddEmitRead, EnableEmitRead, AddEmitNotify, EnableEmitCheck,
                EnableEmitNotify, TypeInv, TypeOK
<1>5. ASSUME op[t].pc \in {"addEmit", "addNotify"}, NEW todo,
             op'[t] = AddEmitOrSubscribe(t, todo)
      PROVE  \/ op'[t] = IdleOp /\ op[t].ipc = {}
             \/ /\ op'[t].keys = op[t].keys /\ op'[t].sub = op[t].sub
                /\ op'[t].ipc = op[t].ipc /\ op'[t].erase = op[t].erase
                /\ op'[t].failed = op[t].failed /\ op'[t].pc \in {"addEmit", "subscribe"}
    BY <1>3, <1>5 DEF AddEmitOrSubscribe, Op
<1>6. ASSUME NEW r, NEW pc, op'[t] = ReadLastChange(t, r, pc)
      PROVE  /\ op'[t].keys = op[t].keys /\ op'[t].sub = op[t].sub
             /\ op'[t].ipc = op[t].ipc /\ op'[t].erase = op[t].erase
             /\ op'[t].failed = op[t].failed /\ op'[t].pc = pc
    BY <1>3, <1>6 DEF ReadLastChange, Op
<1>7. ASSUME op'[t] = [op[t] EXCEPT !.pc = "enableNotify"]
      PROVE  /\ op'[t].keys = op[t].keys /\ op'[t].sub = op[t].sub
             /\ op'[t].ipc = op[t].ipc /\ op'[t].erase = op[t].erase
             /\ op'[t].failed = op[t].failed /\ op'[t].pc = "enableNotify"
    BY <1>3, <1>7 DEF Op
<1>8. CASE op[t].pc \in {"addEmit", "addNotify"}
    <2>1. \/ op'[t] = IdleOp /\ op[t].ipc = {}
          \/ /\ op'[t].keys = op[t].keys /\ op'[t].sub = op[t].sub
             /\ op'[t].ipc = op[t].ipc /\ op'[t].erase = op[t].erase
             /\ op'[t].failed = op[t].failed
             /\ op'[t].pc \in {"addEmit", "subscribe", "addNotify"}
        BY <1>4, <1>5, <1>6, <1>8
    <2>2. CASE op'[t] = IdleOp /\ op[t].ipc = {}
        <3>1. Refusable(op[t]) = {}
            BY <1>8, <2>2 DEF Refusable
        <3> QED
            BY <1>2, <1>3, <2>2, <3>1, QuietStepCarry
    <2>3. CASE /\ op'[t].keys = op[t].keys /\ op'[t].sub = op[t].sub
               /\ op'[t].ipc = op[t].ipc /\ op'[t].erase = op[t].erase
               /\ op'[t].failed = op[t].failed
               /\ op'[t].pc \in {"addEmit", "subscribe", "addNotify"}
        <3> DEFINE r == op'[t]
        <3>1. Refusable(r) = Refusable(op[t])
            BY <1>8, <2>3 DEF Refusable
        <3>2. /\ r.ipc \subseteq r.keys /\ r.erase \subseteq r.keys
              /\ r.failed \subseteq r.keys
            BY <1>1, <2>3 DEF KeysOfCall
        <3>3. /\ r.pc \notin {"disable", "rollbackDisable", "idle"}
              /\ r.pc \notin {"erase", "unsubscribe"}
              /\ r.keys = op[t].keys /\ r.sub = op[t].sub
            BY <2>3
        <3>4. r \in Op /\ op' = [op EXCEPT ![t] = r]
            BY <1>3
        <3> HIDE DEF r
        <3> QED
            BY <1>2, <3>1, <3>2, <3>3, <3>4, QuietStepCarry
    <2> QED
        BY <2>1, <2>2, <2>3
<1>9. CASE op[t].pc \in {"enableEmit", "enableCheck", "enableNotify"}
    <2>1. \/ op'[t] = IdleOp
          \/ /\ op'[t].keys = op[t].keys /\ op'[t].sub = op[t].sub
             /\ op'[t].erase = op[t].erase
             /\ op'[t].ipc \subseteq op[t].ipc /\ op'[t].failed \subseteq op[t].failed
             /\ op'[t].pc \in {"enableEmit", "enableCheck", "enableNotify"}
        BY <1>1, <1>4, <1>6, <1>7, <1>9, EmitOrReturnFields
    <2>2. /\ Refusable(op[t]) = {}
          /\ op'[t] # IdleOp => Refusable(op'[t]) = {}
        BY <1>9, <2>1 DEF Refusable
    <2>3. CASE op'[t] = IdleOp
        BY <1>2, <1>3, <2>2, <2>3, QuietStepCarry
    <2>4. CASE op'[t] # IdleOp
        <3> DEFINE r == op'[t]
        <3>1. /\ r.ipc \subseteq r.keys /\ r.erase \subseteq r.keys
              /\ r.failed \subseteq r.keys
            BY <1>1, <2>1, <2>4 DEF KeysOfCall
        <3>2. /\ r.pc \notin {"disable", "rollbackDisable", "idle"}
              /\ r.pc \notin {"erase", "unsubscribe"}
              /\ r.keys = op[t].keys /\ r.sub = op[t].sub
            BY <2>1, <2>4
        <3>3. r \in Op /\ op' = [op EXCEPT ![t] = r] /\ Refusable(r) = Refusable(op[t])
            BY <1>3, <2>2, <2>4
        <3> HIDE DEF r
        <3> QED
            BY <1>2, <3>1, <3>2, <3>3, QuietStepCarry
    <2> QED
        BY <2>3, <2>4
<1> QED
    BY <1>2, <1>4, <1>8, <1>9

\* Every step of a call.
LEMMA CallCarry ==
    ASSUME CarryInv, NEW t \in Threads, Call(t) \/ Continue(t)
    PROVE  CarryStep /\ UNCHANGED <<up, rec>> /\ tainted \subseteq tainted'
<1> USE DEF serviceVars, historyVars
<1>1. CASE Call(t)
    <2>1. PICK s \in Subscribers :
                \/ \E ks \in SUBSET Keys \ {{}} :
                      \/ AddObservers(t, s, ks)
                      \/ DelKeys(t, s, ks)
                      \/ EnableObservers(t, s, ks)
                      \/ DisableObservers(t, s, ks)
                \/ DelAll(t, s)
        BY <1>1 DEF Call
    <2>2. ASSUME NEW ks \in SUBSET Keys, AddObservers(t, s, ks)
          PROVE  CarryStep /\ UNCHANGED <<up, rec>> /\ tainted \subseteq tainted'
        BY <2>2, AddObserversCarry DEF AddObservers, Overlap
    <2>3. ASSUME NEW ks \in SUBSET Keys, NEW each \in BOOLEAN, DelObservers(t, s, ks, each)
          PROVE  CarryStep /\ UNCHANGED <<up, rec>> /\ tainted \subseteq tainted'
        BY <2>3, DelObserversCarry DEF DelObservers, Overlap
    <2>4. ASSUME NEW ks \in SUBSET Keys, EnableObservers(t, s, ks)
          PROVE  CarryStep /\ UNCHANGED <<up, rec>> /\ tainted \subseteq tainted'
        BY <2>4, EnableObserversCarry DEF EnableObservers, Overlap
    <2>5. ASSUME NEW ks \in SUBSET Keys, DisableObservers(t, s, ks)
          PROVE  CarryStep /\ UNCHANGED <<up, rec>> /\ tainted \subseteq tainted'
        BY <2>5, DisableObserversCarry DEF DisableObservers, Overlap
    <2>6. GetKeys(callbacks) \in SUBSET Keys
        BY DEF GetKeys
    <2> QED
        BY <2>1, <2>2, <2>3, <2>4, <2>5, <2>6 DEF DelKeys, DelAll
<1>2. CASE \/ \E r \in op[t].todo : AddEmitRead(t, r) \/ EnableEmitRead(t, r)
           \/ AddEmitNotify(t)
           \/ EnableEmitCheck(t)
           \/ EnableEmitNotify(t)
    BY <1>2, ContinueEmitCarry
<1>3. CASE SubscribeData(t)
    BY <1>3, SubscribeDataCarry DEF SubscribeData
<1>4. CASE RollbackAdd(t)
    BY <1>4, RollbackAddCarry DEF RollbackAdd
<1>5. ASSUME NEW k, EraseLastChange(t, k)
      PROVE  CarryStep /\ UNCHANGED <<up, rec>> /\ tainted \subseteq tainted'
    BY <1>5, EraseLastChangeCarry DEF EraseLastChange
<1>6. CASE UnSubscribeData(t)
    BY <1>6, UnSubscribeDataCarry DEF UnSubscribeData
<1>7. CASE EnableSubscribeData(t)
    BY <1>7, EnableSubscribeDataCarry DEF EnableSubscribeData
<1>8. CASE RollbackEnable(t)
    BY <1>8, RollbackEnableCarry DEF RollbackEnable
<1>9. CASE DisableSubscribeData(t)
    BY <1>9, DisableSubscribeDataCarry DEF DisableSubscribeData
<1>10. CASE RollbackDisable(t)
    BY <1>10, RollbackDisableCarry DEF RollbackDisable
<1> QED
    BY <1>1, <1>2, <1>3, <1>4, <1>5, <1>6, <1>7, <1>8, <1>9, <1>10 DEF Continue

\* A step that neither changes who is enabled nor concerns the service.
LEMMA SameKeepsRdb ==
    ASSUME RdbInv, TypeInv', \A k \in Keys : SameNodes(k),
           UNCHANGED <<op, svc, up, rec, tainted>>
    PROVE  RdbInv'
<1>1. KeysOfCall' /\ \A k \in Keys \ tainted' : KeyInv(k)'
    BY EmitCarry DEF RdbInv
<1>2. ASSUME NEW k \in Keys, k \notin tainted' PROVE RecInv(k)'
    BY <1>2 DEF RdbInv, RecInv, SameNodes, Carried
<1> QED
    BY <1>1, <1>2 DEF RdbInv, CarryInv

LEMMA EmitSame ==
    ASSUME TypeInv, Emit, NEW k \in Keys
    PROVE  SameNodes(k)
<1>1. CASE callbacks' = callbacks
    BY <1>1 DEF SameNodes
<1>2. ASSUME NEW j \in disp.keys, EmitCollect(j) PROVE SameNodes(k)
    <2>1. j \in Keys
        BY DEF TypeInv, TypeOK, Disp
    <2> QED
        BY <1>2, <2>1, SetNotifiedOnSame DEF EmitCollect
<1> QED
    BY <1>1, <1>2 DEF Emit, EmitStore, EmitNotify

LEMMA EmitKeepsRdb ==
    ASSUME RdbInv, TypeInv', Emit
    PROVE  RdbInv'
<1>1. UNCHANGED <<op, svc, up, rec, tainted>>
    BY DEF Emit, EmitStore, EmitCollect, EmitNotify, serviceVars
<1>2. TypeInv
    BY DEF RdbInv, CarryInv
<1> QED
    BY <1>1, <1>2, EmitSame, SameKeepsRdb

LEMMA RecoverKeepsRdb ==
    ASSUME RdbInv, TypeInv', RecoverObservers
    PROVE  RdbInv'
<1> USE DEF serviceVars, historyVars
<1>1. CarryInv /\ TypeInv
    BY DEF RdbInv, CarryInv
<1>2. rec.pc # "idle" /\ UNCHANGED <<callbacks, op, up>> /\ tainted \subseteq tainted'
    BY DEF RecoverObservers, RecoverNoProxy, RecoverKeys, RecoverStatus, RecoverKey,
           RecoverSubscribe
<1>3. ASSUME NEW k \in Keys, k \notin tainted'
      PROVE  RecInv(k)' /\ (up /\ rec'.pc = "idle" => Carried(k)')
    <2>1. RecInv(k)
        BY <1>2, <1>3 DEF RdbInv
    <2>2. CASE RecoverNoProxy
        BY <1>3, <2>2 DEF RecoverNoProxy, RecInv, IdleRec, GetKeys, Carried, HasEnabled
    <2>3. CASE RecoverKeys
        BY <1>1, <2>3
        DEF RecoverKeys, RecInv, IdleRec, GetKeys, Carried, HasEnabled, TypeInv, TypeOK, Rec
    <2>4. ASSUME NEW j \in rec.unread, RecoverStatus(j)
          PROVE  RecInv(k)' /\ (up /\ rec'.pc = "idle" => Carried(k)')
        BY <1>1, <2>1, <2>4
        DEF RecoverStatus, RecInv, HasEnabled, Carried, TypeInv, TypeOK, Rec
    <2>5. ASSUME NEW j \in rec.keys, RecoverKey(j)
          PROVE  RecInv(k)' /\ (up /\ rec'.pc = "idle" => Carried(k)')
        BY <1>1, <1>2, <1>3, <2>1, <2>5
        DEF RecoverKey, RecoverSubscribe, RecInv, IdleRec, HasEnabled, Carried, TypeInv, TypeOK,
            Rec
    <2> QED
        BY <2>2, <2>3, <2>4, <2>5 DEF RecoverObservers
<1>4. KeysOfCall' /\ \A k \in Keys \ tainted' : KeyInv(k)'
    BY <1>1, <1>2, <1>3, RecoverCarry
<1> QED
    BY <1>3, <1>4 DEF RdbInv, CarryInv

LEMMA ServiceKeepsRdb ==
    ASSUME RdbInv, TypeInv', Service
    PROVE  RdbInv'
<1>1. CASE \E k \in Keys : Announce({k})
    <2>1. UNCHANGED <<callbacks, op, svc, up, rec, tainted>>
        BY <1>1 DEF Announce
    <2>2. \A k \in Keys : SameNodes(k)
        BY <2>1 DEF SameNodes
    <2> QED
        BY <2>1, <2>2, SameKeepsRdb
<1>2. CASE ServiceDied \/ ServiceAdded
    <2>1. KeysOfCall' /\ \A k \in Keys \ tainted' : KeyInv(k)'
        BY <1>2, ServiceCarry DEF RdbInv
    <2>2. ~up' \/ rec'.pc = "start"
        BY <1>2 DEF ServiceDied, ServiceAdded, IdleRec
    <2>3. \A k \in Keys \ tainted' : RecInv(k)'
        BY <2>2 DEF RecInv
    <2> QED
        BY <2>1, <2>3 DEF RdbInv, CarryInv
<1> QED
    BY <1>1, <1>2 DEF Service

LEMMA InitRdb == Init => RdbInv
<1> SUFFICES ASSUME Init PROVE RdbInv
    OBVIOUS
<1>1. TypeInv
    BY InitType
<1>2. KeysOfCall
    BY DEF Init, KeysOfCall, IdleOp
<1>3. ASSUME NEW k \in Keys PROVE KeyInv(k) /\ RecInv(k)
    BY DEF Init, KeyInv, RecInv, Carried, HasEnabled, IdleOp, IdleRec
<1> QED
    BY <1>1, <1>2, <1>3 DEF RdbInv, CarryInv

LEMMA NextRdb == RdbInv /\ [Next]_vars => RdbInv'
<1> SUFFICES ASSUME RdbInv, [Next]_vars PROVE RdbInv'
    OBVIOUS
<1>1. TypeInv'
    BY NextType DEF RdbInv, CarryInv
<1>2. ASSUME NEW t \in Threads, Call(t) \/ Continue(t) PROVE RdbInv'
    <2>1. CarryStep /\ UNCHANGED <<up, rec>> /\ tainted \subseteq tainted'
        BY <1>2, CallCarry DEF RdbInv
    <2>2. \A k \in Keys \ tainted' : RecInv(k)'
        BY <2>1, CallKeepsRec
    <2> QED
        BY <1>1, <2>1, <2>2 DEF RdbInv, CarryInv, CarryStep
<1>3. CASE Emit
    BY <1>1, <1>3, EmitKeepsRdb
<1>4. CASE RecoverObservers
    BY <1>1, <1>4, RecoverKeepsRdb
<1>5. CASE Service
    BY <1>1, <1>5, ServiceKeepsRdb
<1>6. CASE UNCHANGED vars
    <2>1. UNCHANGED <<callbacks, op, svc, up, rec, tainted>>
        BY <1>6 DEF vars
    <2>2. \A k \in Keys : SameNodes(k)
        BY <2>1 DEF SameNodes
    <2> QED
        BY <1>1, <2>1, <2>2, SameKeepsRdb
<1> QED
    BY <1>2, <1>3, <1>4, <1>5, <1>6 DEF Next

\* For every number of threads, subscribers and keys and every bound: while no
\* call and no recovery is working on a key, its enabled observers are enabled
\* at the service, whatever the service refused and however often it died.
THEOREM RdbServiceCarriesEnabled == Spec => []ServiceCarriesEnabled
<1>1. Spec => []RdbInv
    BY InitRdb, NextRdb, PTL DEF Spec
<1>2. RdbInv => ServiceCarriesEnabled
    BY CarryInvImplies DEF RdbInv
<1> QED
    BY <1>1, <1>2, PTL

-----------------------------------------------------------------------------
(* What the recovery leaves at the service *)

\* What the service should hold for key k.
StatusOf(k) ==
    IF HasEnabled(callbacks, k) THEN "on" ELSE IF callbacks[k] # {} THEN "off" ELSE "none"

\* RecInv says that no enabled observer is forgotten; this is the converse: the
\* service holds nothing it was not told, and is told nothing that is not so.
ExactInv(k) ==
    /\ ~up \/ rec.pc \in {"start", "status"} => svc[k] = "none"
    /\ up /\ rec.pc \in {"status", "subscribe"} =>
          /\ k \in rec.keys => callbacks[k] # {}
          /\ k \in rec.enabled => HasEnabled(callbacks, k)
    /\ up /\ rec.pc = "subscribe" /\ k \notin rec.keys => svc[k] = StatusOf(k)

NothingReadYet == rec.pc = "start" => rec.enabled = {}

StatusInv == RdbInv /\ NothingReadYet /\ \A k \in Keys \ tainted : ExactInv(k)

\* A recovery that is over has restored key k.
Restored(k) == rec.pc # "idle" /\ rec'.pc = "idle" /\ up' => svc'[k] = StatusOf(k)'

\* Steps of calls and deliveries do not touch what the recovery works on.
LEMMA SameExact ==
    ASSUME NEW k \in Keys, ExactInv(k), UNCHANGED <<up, rec>>,
           Recovering => SameNodes(k) /\ svc'[k] = svc[k]
    PROVE  ExactInv(k)'
BY DEF ExactInv, Recovering, SameNodes, StatusOf

LEMMA RecoverExact ==
    ASSUME StatusInv, RecoverObservers, NEW k \in Keys, k \notin tainted'
    PROVE  ExactInv(k)' /\ Restored(k)
<1> USE DEF serviceVars, historyVars
<1>1. TypeInv /\ NothingReadYet
    BY DEF StatusInv, RdbInv, CarryInv
<1>2. tainted \subseteq tainted' /\ UNCHANGED <<callbacks, up>>
    BY DEF RecoverObservers, RecoverNoProxy, RecoverKeys, RecoverStatus, RecoverKey,
           RecoverSubscribe
<1>3. ExactInv(k) /\ RecInv(k)
    BY <1>2 DEF StatusInv, RdbInv
<1>4. StatusOf(k)' = StatusOf(k) /\ HasEnabled(callbacks, k)' = HasEnabled(callbacks, k)
    BY <1>2 DEF StatusOf, HasEnabled
<1>5. CASE RecoverNoProxy
    <2>1. callbacks[k] = {}
        BY <1>5 DEF RecoverNoProxy, GetKeys
    <2> QED
        BY <1>3, <1>4, <1>5, <2>1
        DEF RecoverNoProxy, ExactInv, Restored, IdleRec, StatusOf, HasEnabled
<1>6. CASE RecoverKeys
    BY <1>1, <1>3, <1>4, <1>6
    DEF RecoverKeys, ExactInv, Restored, IdleRec, StatusOf, HasEnabled, GetKeys,
        NothingReadYet, TypeInv, TypeOK, Rec
<1>7. ASSUME NEW j \in rec.unread, RecoverStatus(j) PROVE ExactInv(k)' /\ Restored(k)
    <2>1. /\ rec.pc = "status" /\ rec'.keys = rec.keys
          /\ rec'.pc \in {"status", "subscribe"}
          /\ k \in rec'.enabled => k \in rec.enabled \/ HasEnabled(callbacks, k)
        BY <1>1, <1>7 DEF RecoverStatus, TypeInv, TypeOK, Rec
    <2>2. UNCHANGED <<callbacks, up, svc>>
        BY <1>7 DEF RecoverStatus
    <2>3. up /\ k \notin rec.keys => StatusOf(k) = "none"
        BY <1>3, <2>1 DEF RecInv, StatusOf, HasEnabled
    <2> QED
        BY <1>3, <1>4, <2>1, <2>2, <2>3 DEF ExactInv, Restored
<1>8. ASSUME NEW j \in rec.keys, RecoverKey(j) PROVE ExactInv(k)' /\ Restored(k)
    <2> DEFINE status == IF j \in rec.enabled THEN "on" ELSE "off"
    <2>1. /\ rec.pc = "subscribe"
          /\ \/ rec' = IdleRec /\ rec.keys = {j}
             \/ rec' = [rec EXCEPT !.keys = @ \ {j}]
          /\ \/ svc' = svc /\ j \in tainted'
             \/ up /\ svc' = [svc EXCEPT ![j] = status]
        BY <1>8 DEF RecoverKey, RecoverSubscribe
    <2>2. \/ rec'.pc = "idle" /\ rec.keys = {j}
          \/ /\ rec'.pc = "subscribe" /\ rec'.enabled = rec.enabled
             /\ rec'.keys = rec.keys \ {j}
        BY <1>1, <2>1 DEF IdleRec, TypeInv, TypeOK, Rec
    <2>3. ~up => svc'[k] = "none"
        BY <1>3, <2>1 DEF ExactInv
    <2>4. up /\ k = j => svc'[k] = StatusOf(k)
        <3>1. up /\ k = j => svc'[k] = status
            BY <1>1, <1>2, <2>1 DEF TypeInv, TypeOK
        <3>2. up /\ k = j => status = StatusOf(k)
            BY <1>3, <2>1 DEF ExactInv, RecInv, StatusOf
        <3> QED
            BY <3>1, <3>2
    <2>5. k # j => svc'[k] = svc[k]
        BY <1>1, <2>1 DEF TypeInv, TypeOK
    <2> HIDE DEF status
    <2>6. up /\ k \notin rec.keys \ {j} => svc'[k] = StatusOf(k)
        BY <1>3, <2>1, <2>4, <2>5 DEF ExactInv
    <2>7. Restored(k)
        BY <1>2, <1>4, <2>1, <2>2, <2>6 DEF Restored
    <2> QED
        BY <1>2, <1>3, <1>4, <2>1, <2>2, <2>3, <2>6, <2>7 DEF ExactInv
<1> QED
    BY <1>5, <1>6, <1>7, <1>8 DEF RecoverObservers

LEMMA NextStatus ==
    ASSUME StatusInv, [Next]_vars
    PROVE  StatusInv' /\ \A k \in Keys \ tainted' : Restored(k)
<1> USE DEF serviceVars, historyVars
<1>1. RdbInv /\ RdbInv' /\ CarryInv /\ TypeInv
    BY NextRdb DEF StatusInv, RdbInv, CarryInv
<1>2. ASSUME NEW t \in Threads, Call(t) \/ Continue(t)
      PROVE  StatusInv' /\ \A k \in Keys \ tainted' : Restored(k)
    <2>1. CarryStep /\ UNCHANGED <<up, rec>> /\ tainted \subseteq tainted'
        BY <1>1, <1>2, CallCarry
    <2>2. ASSUME NEW k \in Keys, k \notin tainted' PROVE ExactInv(k)'
        <3>1. ExactInv(k) /\ Untouched(k)
            BY <2>1, <2>2 DEF StatusInv, CarryStep
        <3>2. Recovering => SameNodes(k) /\ svc'[k] = svc[k]
            BY <3>1 DEF Untouched, SameNodes, HasEnabled, EnabledOnly
        <3> QED
            BY <2>1, <3>1, <3>2, SameExact
    <2> QED
        BY <1>1, <2>1, <2>2 DEF StatusInv, NothingReadYet, Restored
<1>3. ASSUME \A k \in Keys : SameNodes(k), UNCHANGED <<op, svc, up, rec, tainted>>
      PROVE  StatusInv' /\ \A k \in Keys \ tainted' : Restored(k)
    <2>1. ASSUME NEW k \in Keys, k \notin tainted' PROVE ExactInv(k)'
        BY <1>3, <2>1, SameExact DEF StatusInv
    <2> QED
        BY <1>1, <1>3, <2>1 DEF StatusInv, NothingReadYet, Restored
<1>4. CASE Emit
    <2>1. UNCHANGED <<op, svc, up, rec, tainted>>
        BY <1>4 DEF Emit, EmitStore, EmitCollect, EmitNotify
    <2>2. \A k \in Keys : SameNodes(k)
        BY <1>1, <1>4, EmitSame
    <2> QED
        BY <1>3, <2>1, <2>2
<1>5. CASE RecoverObservers
    <2>1. rec \in Rec
        BY <1>1 DEF TypeInv, TypeOK
    <2>2. RecoverNoProxy \/ RecoverKeys => rec'.pc # "start"
        <3>1. IdleRec.pc = "idle"
            BY DEF IdleRec
        <3>2. \A ks : [rec EXCEPT !.pc = "status", !.keys = ks, !.unread = ks].pc = "status"
            BY <2>1 DEF Rec
        <3> QED
            BY <3>1, <3>2 DEF RecoverNoProxy, RecoverKeys
    <2>3. ASSUME NEW j, RecoverStatus(j) PROVE rec'.pc # "start"
        BY <2>1, <2>3 DEF RecoverStatus, Rec
    <2>4. ASSUME NEW j, RecoverKey(j) PROVE rec'.pc # "start"
        BY <2>1, <2>4 DEF RecoverKey, RecoverSubscribe, IdleRec, Rec
    <2>5. NothingReadYet'
        BY <1>5, <2>2, <2>3, <2>4 DEF RecoverObservers, NothingReadYet
    <2> QED
        BY <1>1, <1>5, <2>5, RecoverExact DEF StatusInv
<1>6. CASE Service
    <2>1. CASE \E k \in Keys : Announce({k})
        <3>1. UNCHANGED <<callbacks, op, svc, up, rec, tainted>>
            BY <2>1 DEF Announce
        <3> QED
            BY <1>3, <3>1 DEF SameNodes
    <2>2. CASE ServiceDied
        <3>1. rec' = rec /\ ~up' /\ \A k \in Keys : svc'[k] = "none"
            BY <2>2 DEF ServiceDied
        <3>2. NothingReadYet' /\ \A k \in Keys : ExactInv(k)' /\ Restored(k)
            BY <3>1 DEF StatusInv, NothingReadYet, ExactInv, Restored
        <3> QED
            BY <1>1, <3>2 DEF StatusInv
    <2>3. CASE ServiceAdded
        <3>1. /\ ~up /\ UNCHANGED <<callbacks, svc, tainted>>
              /\ rec.pc = "idle" /\ rec'.pc = "start" /\ rec'.enabled = {}
            BY <2>3 DEF ServiceAdded, IdleRec
        <3>2. NothingReadYet' /\ \A k \in Keys \ tainted' : ExactInv(k)' /\ Restored(k)
            BY <3>1 DEF StatusInv, NothingReadYet, ExactInv, Restored
        <3> QED
            BY <1>1, <3>2 DEF StatusInv
    <2> QED
        BY <1>6, <2>1, <2>2, <2>3 DEF Service
<1>7. CASE UNCHANGED vars
    <2>1. UNCHANGED <<callbacks, op, svc, up, rec, tainted>>
        BY <1>7 DEF vars
    <2> QED
        BY <1>3, <2>1 DEF SameNodes
<1> QED
    BY <1>2, <1>4, <1>5, <1>6, <1>7 DEF Next

\* RecoverObservers, for every number of threads, subscribers and keys: when it
\* ends, the service holds exactly what the registry holds for every key that no
\* call touched meanwhile and whose request did not fail.
THEOREM RdbRecoveryRestoresStatus == Spec => RecoveryRestoresStatus
<1>1. Init => StatusInv
    BY InitRdb DEF StatusInv, NothingReadYet, ExactInv, Init, IdleRec
<1>2. StatusInv /\ [Next]_vars => StatusInv'
    BY NextStatus
<1>3. StatusInv /\ [Next]_vars =>
        [rec.pc # "idle" /\ rec'.pc = "idle" /\ up' =>
            \A k \in Keys \ tainted' :
                svc'[k] = IF HasEnabled(callbacks', k) THEN "on"
                          ELSE IF callbacks'[k] # {} THEN "off" ELSE "none"]_vars
    BY NextStatus DEF Restored, StatusOf
<1> QED
    BY <1>1, <1>2, <1>3, PTL DEF Spec, RecoveryRestoresStatus

-----------------------------------------------------------------------------
(* No missed change *)

\* A notification is about one key; Emit holds it until the observers are
\* collected, and calls to make only after that.
EmitShape ==
    /\ \A i \in 1 .. Len(inbox) : \E k \in Keys : inbox[i].keys = {k}
    /\ disp.pc = "idle" => disp.keys = {} /\ disp.todo = {}
    /\ disp.pc = "collect" => disp.todo = {} /\ \E k \in Keys : disp.keys = {k}

\* A replay is read and handed out one at a time.
ReplayShape ==
    \A t \in Threads :
        /\ op[t].pc = "enableEmit" => op[t].cur = {}
        /\ op[t].pc \in {"enableCheck", "enableNotify"} => \E x : op[t].cur = {x}

RdbDeliveryInv == DeliveryInv /\ EmitShape /\ ReplayShape

LEMMA EmitStoreDelivery ==
    ASSUME RdbDeliveryInv, EmitStore
    PROVE  RdbDeliveryInv'
<1> DEFINE c == Head(inbox)
<1>1. TypeInv /\ TypeInv'
    BY EmitStoreType DEF RdbDeliveryInv, DeliveryInv
<1>2. /\ UNCHANGED <<callbacks, nextObserver, op, changes, seen>>
      /\ inbox' = Tail(inbox) /\ inbox # <<>> /\ disp.pc = "idle"
    BY DEF EmitStore
<1>3. /\ c.keys \in SUBSET Keys /\ c.version \in Nat /\ c.version <= changes
      /\ \A k \in Keys : lastChangeNodeMap[k] <= c.version
    BY <1>2, TakenFromInbox DEF RdbDeliveryInv, Change
<1>4. /\ disp'.pc = "collect" /\ disp'.keys = c.keys /\ disp'.version = c.version
      /\ disp'.todo = {}
    BY DEF EmitStore, IdleDisp
<1>5. \A k \in Keys :
          lastChangeNodeMap'[k] = IF k \in c.keys THEN c.version ELSE lastChangeNodeMap[k]
    BY DEF EmitStore
<1>6. \A o \in Observers : \A k \in Keys :
          owed'[o][k] = IF k \in c.keys /\ \E n \in callbacks[k] : n.observer = o
                        THEN c.version ELSE owed[o][k]
    BY DEF EmitStore
<1> HIDE DEF c
<1>7. \A k \in Keys : lastChangeNodeMap[k] \in Nat /\ changes \in Nat
    BY <1>1, ChangeNumbers
<1>8. \A o \in Observers : o \in Nat /\ \A k \in Keys : owed[o][k] \in Nat
    BY <1>1, BoundsAssumption DEF TypeInv, TypeOK, Versions, Observers
<1>9. Ordered'
    <2>1. \A k \in Keys : lastChangeNodeMap'[k] <= changes /\ lastChangeNodeMap'[k] <= c.version
        BY <1>3, <1>5, <1>7 DEF RdbDeliveryInv, DeliveryInv, Ordered
    <2>2. ASSUME NEW k \in Keys, NEW o \in Observers
          PROVE  owed'[o][k] <= lastChangeNodeMap'[k] /\ (o >= nextObserver => owed'[o][k] = 0)
        <3>1. owed[o][k] <= lastChangeNodeMap[k] /\ (o >= nextObserver => owed[o][k] = 0)
            BY DEF RdbDeliveryInv, DeliveryInv, Ordered
        <3>2. lastChangeNodeMap[k] <= c.version
            BY <1>3
        <3>3. \A n \in callbacks[k] : n.observer < nextObserver /\ n.observer \in Nat
            BY <1>1 DEF TypeInv, TypeOK, ObserverBound, Registry, ObserverNode
        <3>4. nextObserver \in Nat
            BY <1>1 DEF TypeInv, TypeOK
        <3> QED
            BY <1>3, <1>5, <1>6, <1>7, <1>8, <3>1, <3>2, <3>3, <3>4
    <2> QED
        BY <1>2, <1>3, <1>4, <2>1, <2>2 DEF Ordered
<1>10. InboxOrdered'
    <2> SUFFICES ASSUME NEW i \in 1 .. Len(Tail(inbox))
                 PROVE  /\ Tail(inbox)[i].version <= changes
                        /\ c.version <= Tail(inbox)[i].version
                        /\ \A k \in Keys : lastChangeNodeMap'[k] <= Tail(inbox)[i].version
                        /\ \A j \in i .. Len(Tail(inbox)) :
                              Tail(inbox)[i].version <= Tail(inbox)[j].version
        BY <1>2, <1>4 DEF InboxOrdered
    <2> QED
        BY <1>2, <1>5, TakenFromInbox DEF RdbDeliveryInv, c
<1>11. ASSUME NEW k \in Keys PROVE DebtsOf(k)'
    <2>1. CASE k \in c.keys
        BY <1>4, <2>1 DEF DebtsOf, Pending
    <2>2. ASSUME k \notin c.keys, NEW n \in callbacks[k], Behind(n.observer, k)'
          PROVE  Pending(k, n)'
        <3>1. n.observer \in Observers
            BY <1>1, NodeFields
        <3>2. owed'[n.observer][k] = owed[n.observer][k]
            BY <1>6, <2>2, <3>1
        <3>3. Pending(k, n)
            BY <1>2, <2>2, <3>2 DEF RdbDeliveryInv, DeliveryInv, DebtsOf, Behind
        <3>4. disp.keys = {} /\ disp.todo = {}
            BY <1>2 DEF RdbDeliveryInv, EmitShape
        <3> QED
            BY <1>2, <3>2, <3>3, <3>4 DEF Pending
    <2> QED
        BY <1>2, <2>1, <2>2 DEF DebtsOf
<1>12. EmitShape'
    <2>1. inbox \in Seq(Change)
        BY <1>1 DEF TypeInv, TypeOK
    <2>2. /\ Len(inbox) \in Nat \ {0} /\ c = inbox[1]
          /\ Len(Tail(inbox)) = Len(inbox) - 1
          /\ \A i \in 1 .. Len(Tail(inbox)) : Tail(inbox)[i] = inbox[i + 1]
        BY <1>2, <2>1, HeadTailProperties DEF c
    <2>3. \E k \in Keys : c.keys = {k}
        BY <2>2 DEF RdbDeliveryInv, EmitShape
    <2>4. \A i \in 1 .. Len(Tail(inbox)) : \E k \in Keys : Tail(inbox)[i].keys = {k}
        BY <2>2 DEF RdbDeliveryInv, EmitShape
    <2> QED
        BY <1>2, <1>4, <2>3, <2>4 DEF EmitShape
<1> QED
    BY <1>1, <1>2, <1>9, <1>10, <1>11, <1>12
    DEF RdbDeliveryInv, DeliveryInv, NothingReadBefore, ReplayShape

\* A node that Emit's lock section leaves behind.
LEMMA NotifiedNode ==
    ASSUME NEW cbs \in Registry, NEW k \in Keys, NEW n \in SetNotifiedOn(cbs, k)[k]
    PROVE  \E m \in cbs[k] : /\ n.observer = m.observer /\ n.enabled = m.enabled
                             /\ n.isNotifyOnEnabled = ~m.enabled
<1>1. SetNotifiedOn(cbs, k)[k] = {[m EXCEPT !.isNotifyOnEnabled = ~m.enabled] : m \in cbs[k]}
    BY DEF SetNotifiedOn, Registry
<1>2. PICK m \in cbs[k] : n = [m EXCEPT !.isNotifyOnEnabled = ~m.enabled]
    BY <1>1
<1>3. m \in ObserverNode
    BY DEF Registry
<1> QED
    BY <1>2, <1>3 DEF ObserverNode

LEMMA EmitCollectDelivery ==
    ASSUME RdbDeliveryInv, NEW k \in disp.keys, EmitCollect(k)
    PROVE  RdbDeliveryInv'
<1>1. TypeInv /\ TypeInv'
    BY EmitCollectType DEF RdbDeliveryInv, DeliveryInv
<1>2. /\ UNCHANGED <<lastChangeNodeMap, nextObserver, op, inbox, changes, seen, owed>>
      /\ callbacks' = SetNotifiedOn(callbacks, k) /\ disp.pc = "collect"
    BY DEF EmitCollect, serviceVars, historyVars
<1>3. disp.keys = {k} /\ disp.todo = {} /\ k \in Keys
    BY <1>2 DEF RdbDeliveryInv, EmitShape
<1> DEFINE todo == [key : {k}, version : {disp.version},
                    observer : GetEnabledObservers(callbacks, k)]
<1>4. \/ ~HasEnabled(callbacks, k) /\ disp' = IdleDisp
      \/ disp'.pc = "notify" /\ disp'.version = disp.version /\ disp'.todo = todo
    BY <1>1 DEF EmitCollect, TypeInv, TypeOK, Disp
<1>5. \A o \in GetEnabledObservers(callbacks, k) : o < nextObserver
    BY <1>1, <1>3 DEF GetEnabledObservers, TypeInv, ObserverBound
<1>6. \A x \in todo : x.key = k /\ x.version = disp.version /\ x.observer < nextObserver
    BY <1>5
<1>7. \A o \in GetEnabledObservers(callbacks, k) : \E x \in todo : x.key = k /\ x.observer = o
    <2> SUFFICES ASSUME NEW o \in GetEnabledObservers(callbacks, k)
                 PROVE  \E x \in todo : x.key = k /\ x.observer = o
        OBVIOUS
    <2> WITNESS [key |-> k, version |-> disp.version, observer |-> o] \in todo
    <2> QED
        OBVIOUS
<1> HIDE DEF todo
<1>8. IdleDisp.pc = "idle" /\ IdleDisp.version = 0 /\ IdleDisp.todo = {} /\ IdleDisp.keys = {}
    BY DEF IdleDisp
<1>9. changes \in Nat
    BY <1>1, ChangeNumbers
<1>10. Ordered'
    <2>1. CASE disp' = IdleDisp
        BY <1>2, <1>8, <1>9, <2>1 DEF RdbDeliveryInv, DeliveryInv, Ordered
    <2>2. CASE disp'.pc = "notify" /\ disp'.version = disp.version /\ disp'.todo = todo
        BY <1>2, <1>6, <2>2 DEF RdbDeliveryInv, DeliveryInv, Ordered
    <2> QED
        BY <1>4, <2>1, <2>2
<1>11. InboxOrdered'
    <2>1. disp'.version = disp.version \/ disp'.version = 0
        BY <1>4, <1>8
    <2>2. \A i \in 1 .. Len(inbox) : inbox[i].version \in Nat
        BY <1>1, ChangeNumbers
    <2> QED
        BY <1>2, <2>1, <2>2 DEF RdbDeliveryInv, DeliveryInv, InboxOrdered
<1>12. ASSUME NEW j \in Keys, NEW n \in callbacks'[j], Behind(n.observer, j)'
       PROVE  Pending(j, n)'
    <2>1. CASE j # k
        <3>1. n \in callbacks[j]
            BY <1>1, <1>2, <1>12, <2>1 DEF SetNotifiedOn, TypeInv, TypeOK, Registry
        <3>2. Pending(j, n)
            BY <1>2, <1>12, <3>1 DEF RdbDeliveryInv, DeliveryInv, DebtsOf, Behind
        <3> QED
            BY <1>2, <1>3, <2>1, <3>2 DEF Pending
    <2>2. CASE j = k
        <3>1. PICK m \in callbacks[k] : /\ n.observer = m.observer /\ n.enabled = m.enabled
                                       /\ n.isNotifyOnEnabled = ~m.enabled
            BY <1>1, <1>2, <1>3, <1>12, <2>2, NotifiedNode DEF TypeInv, TypeOK
        <3>2. CASE m.enabled
            <4>1. HasEnabled(callbacks, k) /\ m.observer \in GetEnabledObservers(callbacks, k)
                BY <3>2 DEF HasEnabled, GetEnabledObservers
            <4>2. \E x \in disp'.todo : x.key = k /\ x.observer = m.observer
                BY <1>4, <1>7, <4>1
            <4> QED
                BY <2>2, <3>1, <4>2 DEF Pending
        <3>3. CASE ~m.enabled
            BY <2>2, <3>1, <3>3 DEF Pending
        <3> QED
            BY <3>2, <3>3
    <2> QED
        BY <2>1, <2>2
<1>13. EmitShape'
    BY <1>2, <1>4, <1>8 DEF RdbDeliveryInv, EmitShape
<1>14. \A j \in Keys : DebtsOf(j)'
    BY <1>12 DEF DebtsOf
<1> QED
    BY <1>1, <1>2, <1>10, <1>11, <1>13, <1>14
    DEF RdbDeliveryInv, DeliveryInv, NothingReadBefore, ReplayShape

LEMMA EmitNotifyDelivery ==
    ASSUME RdbDeliveryInv, NEW x \in disp.todo, EmitNotify(x)
    PROVE  RdbDeliveryInv'
<1>1. TypeInv /\ TypeInv'
    BY EmitNotifyType DEF RdbDeliveryInv, DeliveryInv
<1>2. /\ UNCHANGED <<callbacks, lastChangeNodeMap, nextObserver, op, inbox, changes, owed>>
      /\ disp.pc = "notify" /\ OnChange({x})
    BY DEF EmitNotify, serviceVars
<1>3. {x} \in SUBSET Notice /\ disp.version \in Nat /\ changes \in Nat
    BY <1>1, ChangeNumbers DEF TypeInv, TypeOK, Disp
<1>4. /\ disp'.todo = disp.todo \ {x}
      /\ disp' = IdleDisp \/ (disp'.pc = "notify" /\ disp'.version = disp.version)
    <2>1. IdleDisp.todo = {}
        BY DEF IdleDisp
    <2>2. CASE disp.todo = {x}
        <3>1. disp' = IdleDisp /\ disp.todo \ {x} = {}
            BY <2>2 DEF EmitNotify
        <3>2. disp'.todo = disp.todo \ {x}
            BY <2>1, <3>1
        <3> QED
            BY <3>1, <3>2, Zenon
    <2>3. CASE disp.todo # {x}
        BY <1>1, <1>2, <2>3 DEF EmitNotify, TypeInv, TypeOK, Disp
    <2> QED
        BY <2>2, <2>3
<1>5. IdleDisp.pc = "idle" /\ IdleDisp.version = 0 /\ IdleDisp.todo = {} /\ IdleDisp.keys = {}
    BY DEF IdleDisp
<1>6. Ordered'
    <2>1. CASE disp' = IdleDisp
        BY <1>2, <1>3, <1>5, <2>1 DEF RdbDeliveryInv, DeliveryInv, Ordered
    <2>2. CASE disp'.pc = "notify" /\ disp'.version = disp.version
        BY <1>2, <1>4, <2>2 DEF RdbDeliveryInv, DeliveryInv, Ordered
    <2> QED
        BY <1>4, <2>1, <2>2
<1>7. InboxOrdered'
    <2>1. disp'.version = disp.version \/ disp'.version = 0
        BY <1>4, <1>5
    <2>2. \A i \in 1 .. Len(inbox) : inbox[i].version \in Nat
        BY <1>1, ChangeNumbers
    <2> QED
        BY <1>2, <2>1, <2>2 DEF RdbDeliveryInv, DeliveryInv, InboxOrdered
<1>8. ASSUME NEW k \in Keys, NEW n \in callbacks[k], Behind(n.observer, k)'
      PROVE  Pending(k, n)'
    <2> DEFINE o == n.observer
    <2>1. /\ o \in Observers /\ seen[o][k] \in Nat /\ seen'[o][k] \in Nat
          /\ owed[o][k] \in Versions /\ owed[o][k] \in Nat
        BY <1>1, <1>2, NodeFields, NextNodeFields, BoundsAssumption DEF Versions
    <2>2. seen'[o][k] >= seen[o][k] /\ seen'[o][k] < owed[o][k]
        BY <1>1, <1>2, <1>3, <1>8, <2>1, OnChangeRaises DEF Behind
    <2>3. Pending(k, n)
        BY <2>1, <2>2 DEF RdbDeliveryInv, DeliveryInv, DebtsOf, Behind
    <2>4. ASSUME NEW y \in disp.todo, y.key = k, y.observer = o PROVE y # x
        <3>1. owed[o][k] <= lastChangeNodeMap[k] /\ lastChangeNodeMap[k] <= disp.version
              /\ y.version = disp.version
            BY <1>2, <2>1 DEF RdbDeliveryInv, DeliveryInv, Ordered
        <3>2. lastChangeNodeMap[k] \in Nat
            BY <1>1, ChangeNumbers
        <3>3. y.version >= owed[o][k]
            BY <1>3, <2>1, <3>1, <3>2
        <3>4. y = x => seen'[o][k] >= owed[o][k]
            BY <1>1, <1>2, <1>3, <2>1, <2>4, <3>3, OnChangeRaises
        <3> QED
            BY <2>1, <2>2, <3>4
    <2> QED
        BY <1>2, <1>4, <2>3, <2>4 DEF Pending
<1>9. \A k \in Keys : DebtsOf(k)'
    BY <1>2, <1>8 DEF DebtsOf
<1>10. EmitShape'
    BY <1>2, <1>4, <1>5 DEF RdbDeliveryInv, EmitShape
<1> QED
    BY <1>1, <1>2, <1>6, <1>7, <1>9, <1>10
    DEF RdbDeliveryInv, DeliveryInv, NothingReadBefore, ReplayShape

\* The steps of AddObservers that call the new observer.
LEMMA AddReplayDelivery ==
    ASSUME RdbDeliveryInv, NEW t \in Threads,
           (\E r \in op[t].todo : AddEmitRead(t, r)) \/ AddEmitNotify(t)
    PROVE  RdbDeliveryInv'
<1>1. TypeInv /\ TypeInv'
    BY ContinueEmitType DEF RdbDeliveryInv, DeliveryInv
<1>2. op[t].pc \notin EnablePc
    BY DEF AddEmitRead, AddEmitNotify, EnablePc
<1>3. /\ UNCHANGED <<callbacks, lastChangeNodeMap, nextObserver, disp, inbox, changes, owed>>
      /\ seen' = seen \/ OnChange(op[t].cur)
    BY DEF AddEmitRead, AddEmitNotify, serviceVars, historyVars
<1>4. ASSUME NEW todo PROVE AddEmitOrSubscribe(t, todo).pc \in {"idle", "addEmit", "subscribe"}
    BY <1>1, IdlePc, OpFields DEF AddEmitOrSubscribe, Op
<1>5. ASSUME NEW r PROVE ReadLastChange(t, r, "addNotify").pc = "addNotify"
    BY <1>1, OpFields DEF ReadLastChange, Op
<1>6. PICK q : op' = [op EXCEPT ![t] = q] /\ q.pc \in {"idle", "addEmit", "subscribe", "addNotify"}
    BY <1>4, <1>5 DEF AddEmitRead, AddEmitNotify
<1>7. DeliveryInv'
    BY <1>1, <1>2, <1>3, <1>6, AddEmitDelivery DEF RdbDeliveryInv
<1>8. (\A u \in Threads \ {t} : op'[u] = op[u]) /\ op'[t] = q
    BY <1>1, <1>6 DEF TypeInv, TypeOK
<1>9. ReplayShape' /\ EmitShape'
    BY <1>3, <1>6, <1>8 DEF RdbDeliveryInv, ReplayShape, EmitShape
<1> QED
    BY <1>7, <1>9 DEF RdbDeliveryInv

LEMMA EnableEmitReadDelivery ==
    ASSUME RdbDeliveryInv, NEW t \in Threads, NEW r \in op[t].todo, EnableEmitRead(t, r)
    PROVE  RdbDeliveryInv'
<1>1. TypeInv /\ TypeInv'
    BY ContinueEmitType DEF RdbDeliveryInv, DeliveryInv
<1>2. /\ UNCHANGED <<callbacks, lastChangeNodeMap, nextObserver, disp, inbox, changes, owed, seen>>
      /\ op[t].pc = "enableEmit" /\ op[t].cur = {}
    BY DEF EnableEmitRead, serviceVars, historyVars, RdbDeliveryInv, ReplayShape
<1> DEFINE x == [key |-> r.key, observer |-> r.observer, version |-> lastChangeNodeMap[r.key]]
           left == op[t].todo \ {r}
           read == ReadLastChange(t, r, "enableCheck")
<1>3. /\ \A u \in Threads \ {t} : op'[u] = op[u]
      /\ op'[t] = IF lastChangeNodeMap[r.key] = 0 THEN EmitOrReturn(t, left) ELSE read
    BY <1>1 DEF EnableEmitRead, TypeInv, TypeOK
<1>4. /\ read.pc = "enableCheck" /\ read.keys = op[t].keys
      /\ read.todo = left /\ read.cur = {x}
    BY <1>1, OpFields DEF ReadLastChange, Op
<1>5. x.key = r.key /\ x.observer = r.observer /\ x.version = lastChangeNodeMap[r.key]
    OBVIOUS
<1> HIDE DEF x, read
<1>6. ASSUME NEW k \in Keys, NEW n \in callbacks[k],
             Replaying(op[t], k, n.observer, owed[n.observer][k]),
             seen[n.observer][k] < owed[n.observer][k]
      PROVE  Replaying(op'[t], k, n.observer, owed[n.observer][k])
    <2> DEFINE o == n.observer
    <2>1. k \in op[t].keys /\ Queued(op[t], k, o)
        BY <1>2, <1>6 DEF Replaying, Taken
    <2>2. PICK p \in op[t].todo : /\ p.key = k /\ p.observer = o /\ p.isNotifyOnEnabled
                                 /\ \A p1 \in op[t].todo : p1.key = k => p1 = p
        BY <2>1 DEF Queued
    <2>3. CASE r.key = k
        <3>1. r = p
            BY <2>2, <2>3
        <3>2. o \in Observers /\ owed[o][k] \in Nat /\ seen[o][k] \in Nat
            BY <1>1, NodeFields, BoundsAssumption DEF Versions
        <3>3. owed[o][k] <= lastChangeNodeMap[k] /\ lastChangeNodeMap[k] \in Nat
            BY <1>1, <3>2, ChangeNumbers DEF RdbDeliveryInv, DeliveryInv, Ordered
        <3>4. lastChangeNodeMap[r.key] # 0
            BY <1>6, <2>3, <3>2, <3>3
        <3>5. x.key = k /\ x.observer = o /\ x.version >= owed[o][k]
            BY <1>5, <2>2, <2>3, <3>1, <3>2, <3>3
        <3>6. Taken(read, k, o, owed[o][k])
            BY <1>4, <3>5 DEF Taken
        <3>7. op'[t] = read
            BY <1>3, <3>4
        <3> QED
            BY <1>4, <2>1, <3>6, <3>7 DEF Replaying, EnablePc
    <2>4. CASE r.key # k
        <3>1. p \in left /\ \A p1 \in left : p1.key = k => p1 = p
            BY <2>2, <2>4
        <3>2. op'[t].pc \in EnablePc /\ op'[t].keys = op[t].keys /\ op'[t].todo = left
            BY <1>1, <1>3, <1>4, <3>1, EmitOrReturnLeaves DEF EnablePc
        <3>3. \A y \in op'[t].cur : y.key # k
            BY <1>1, <1>3, <1>4, <1>5, <2>4, EmitOrReturnLeaves
        <3>4. Queued(op'[t], k, o)
            BY <2>2, <3>1, <3>2, <3>3 DEF Queued
        <3> QED
            BY <2>1, <3>2, <3>4 DEF Replaying
    <2> QED
        BY <2>3, <2>4
<1>7. \A k \in Keys : \A o \in Observers : seen'[o][k] >= seen[o][k]
    BY <1>1, <1>2, BoundsAssumption DEF TypeInv, TypeOK, Versions
<1>8. \/ op'[t].pc \in {"idle", "enableEmit"} /\ op'[t].cur = {}
      \/ op'[t].pc = "enableCheck" /\ op'[t].cur = {x}
    BY <1>1, <1>3, <1>4, EmitOrReturnLeaves
<1>9. DeliveryInv'
    BY <1>1, <1>2, <1>3, <1>6, <1>7, <1>8, ReplayDelivery DEF RdbDeliveryInv
<1>10. ReplayShape' /\ EmitShape'
    BY <1>2, <1>3, <1>8 DEF RdbDeliveryInv, ReplayShape, EmitShape
<1> QED
    BY <1>9, <1>10 DEF RdbDeliveryInv

\* The flag is looked at only now.  While a debt is written down in the replay the
\* flag is set, so the replay is not dropped.
LEMMA EnableEmitCheckDelivery ==
    ASSUME RdbDeliveryInv, NEW t \in Threads, EnableEmitCheck(t)
    PROVE  RdbDeliveryInv'
<1>1. TypeInv /\ TypeInv'
    BY ContinueEmitType DEF RdbDeliveryInv, DeliveryInv
<1>2. /\ UNCHANGED <<callbacks, lastChangeNodeMap, nextObserver, disp, inbox, changes, owed, seen>>
      /\ op[t].pc = "enableCheck" /\ \E x : op[t].cur = {x}
    BY DEF EnableEmitCheck, serviceVars, historyVars, RdbDeliveryInv, ReplayShape
<1> DEFINE next == [op[t] EXCEPT !.pc = "enableNotify"]
           told == \A n \in op[t].cur :
                       IsObserversNotifiedOnEnabled(callbacks, n.key, n.observer)
<1>3. /\ \A u \in Threads \ {t} : op'[u] = op[u]
      /\ op'[t] = IF told THEN next ELSE EmitOrReturn(t, op[t].todo)
    BY <1>1 DEF EnableEmitCheck, TypeInv, TypeOK
<1>4. /\ next.pc = "enableNotify" /\ next.keys = op[t].keys
      /\ next.todo = op[t].todo /\ next.cur = op[t].cur
    BY <1>1, OpFields DEF Op
<1> HIDE DEF next
<1>5. ASSUME NEW k \in Keys, NEW n \in callbacks[k], n.isNotifyOnEnabled,
             Replaying(op[t], k, n.observer, owed[n.observer][k])
      PROVE  Replaying(op'[t], k, n.observer, owed[n.observer][k])
    <2> DEFINE o == n.observer
    <2>1. CASE told
        <3>1. op'[t] = next
            BY <1>3, <2>1
        <3> QED
            BY <1>4, <1>5, <3>1 DEF Replaying, Queued, Taken, EnablePc
    <2>2. CASE ~told
        <3>1. ~Taken(op[t], k, o, owed[o][k])
            <4> SUFFICES ASSUME Taken(op[t], k, o, owed[o][k]) PROVE FALSE
                OBVIOUS
            <4>1. PICK y \in op[t].cur : y.key = k /\ y.observer = o
                BY DEF Taken
            <4>2. op[t].cur = {y}
                BY <1>2
            <4>3. IsObserversNotifiedOnEnabled(callbacks, y.key, y.observer)
                BY <1>5, <4>1 DEF IsObserversNotifiedOnEnabled
            <4> QED
                BY <2>2, <4>2, <4>3
        <3>2. k \in op[t].keys /\ Queued(op[t], k, o)
            BY <1>5, <3>1 DEF Replaying
        <3>3. op[t].todo # {}
            BY <3>2 DEF Queued
        <3>4. /\ op'[t].pc = "enableEmit" /\ op'[t].keys = op[t].keys
              /\ op'[t].todo = op[t].todo /\ op'[t].cur = {}
            BY <1>1, <1>3, <2>2, <3>3, EmitOrReturnLeaves
        <3> QED
            BY <3>2, <3>4 DEF Replaying, Queued, EnablePc
    <2> QED
        BY <2>1, <2>2
<1>6. \A k \in Keys : \A o \in Observers : seen'[o][k] >= seen[o][k]
    BY <1>1, <1>2, BoundsAssumption DEF TypeInv, TypeOK, Versions
<1>7. \/ op'[t].pc \in {"idle", "enableEmit"} /\ op'[t].cur = {}
      \/ op'[t].pc = "enableNotify" /\ op'[t].cur = op[t].cur
    BY <1>1, <1>3, <1>4, EmitOrReturnLeaves
<1>8. DeliveryInv'
    BY <1>1, <1>2, <1>3, <1>5, <1>6, <1>7, ReplayDelivery DEF RdbDeliveryInv
<1>9. ReplayShape' /\ EmitShape'
    BY <1>2, <1>3, <1>7 DEF RdbDeliveryInv, ReplayShape, EmitShape
<1> QED
    BY <1>8, <1>9 DEF RdbDeliveryInv

LEMMA EnableEmitNotifyDelivery ==
    ASSUME RdbDeliveryInv, NEW t \in Threads, EnableEmitNotify(t)
    PROVE  RdbDeliveryInv'
<1>1. TypeInv /\ TypeInv'
    BY ContinueEmitType DEF RdbDeliveryInv, DeliveryInv
<1>2. /\ UNCHANGED <<callbacks, lastChangeNodeMap, nextObserver, disp, inbox, changes, owed>>
      /\ op[t].pc = "enableNotify" /\ OnChange(op[t].cur)
    BY DEF EnableEmitNotify, serviceVars, historyVars
<1>3. (\A u \in Threads \ {t} : op'[u] = op[u]) /\ op'[t] = EmitOrReturn(t, op[t].todo)
    BY <1>1 DEF EnableEmitNotify, TypeInv, TypeOK
<1>4. op[t].cur \in SUBSET Notice
    BY <1>1, OpFields
<1>5. ASSUME NEW k \in Keys, NEW n \in callbacks[k],
             Replaying(op[t], k, n.observer, owed[n.observer][k]),
             seen'[n.observer][k] < owed[n.observer][k]
      PROVE  Replaying(op'[t], k, n.observer, owed[n.observer][k])
    <2> DEFINE o == n.observer
    <2>1. /\ o \in Observers /\ owed[o][k] \in Versions
          /\ owed[o][k] \in Nat /\ seen'[o][k] \in Nat
        BY <1>1, <1>2, NodeFields, NextNodeFields, BoundsAssumption DEF Versions
    <2>2. ~Taken(op[t], k, o, owed[o][k])
        BY <1>1, <1>2, <1>4, <1>5, <2>1, OnChangeRaises DEF Taken
    <2>3. k \in op[t].keys /\ Queued(op[t], k, o)
        BY <1>5, <2>2 DEF Replaying
    <2>4. op[t].todo # {}
        BY <2>3 DEF Queued
    <2>5. /\ op'[t].pc = "enableEmit" /\ op'[t].keys = op[t].keys
          /\ op'[t].todo = op[t].todo /\ op'[t].cur = {}
        BY <1>1, <1>3, <2>4, EmitOrReturnLeaves
    <2> QED
        BY <2>3, <2>5 DEF Replaying, Queued, EnablePc
<1>6. \A k \in Keys : \A o \in Observers : seen'[o][k] >= seen[o][k]
    BY <1>1, <1>2, <1>4, OnChangeRaises
<1>7. op'[t].pc \in {"idle", "enableEmit"} /\ op'[t].cur = {}
    BY <1>1, <1>3, EmitOrReturnLeaves
<1>8. DeliveryInv'
    BY <1>1, <1>2, <1>3, <1>5, <1>6, <1>7, ReplayDelivery DEF RdbDeliveryInv
<1>9. ReplayShape' /\ EmitShape'
    BY <1>2, <1>3, <1>7 DEF RdbDeliveryInv, ReplayShape, EmitShape
<1> QED
    BY <1>8, <1>9 DEF RdbDeliveryInv

\* The steps that the two managers share.
LEMMA SharedStepRdb ==
    ASSUME RdbDeliveryInv, NEW t \in Threads, SharedStep(t)
    PROVE  RdbDeliveryInv'
<1>1. MovesOn(t) /\ UNCHANGED <<disp, inbox>>
    BY SharedStepShape DEF RdbDeliveryInv, DeliveryInv
<1>2. DeliveryInv'
    BY SharedStepDelivery DEF RdbDeliveryInv
<1>3. EmitShape'
    BY <1>1 DEF RdbDeliveryInv, EmitShape
<1>4. ReplayShape'
    BY <1>1 DEF RdbDeliveryInv, ReplayShape, MovesOn
<1> QED
    BY <1>2, <1>3, <1>4 DEF RdbDeliveryInv

\* Steps that touch neither the registry nor what is delivered.
LEMMA ElsewhereRdb ==
    ASSUME RdbDeliveryInv, TypeInv',
           UNCHANGED <<callbacks, lastChangeNodeMap, nextObserver, op, disp, inbox, changes,
                       seen, owed>>
    PROVE  RdbDeliveryInv'
BY ElsewhereDelivery DEF RdbDeliveryInv, EmitShape, ReplayShape

\* The service announces a change of one key.
LEMMA AnnounceRdb ==
    ASSUME RdbDeliveryInv, NEW k \in Keys, Announce({k})
    PROVE  RdbDeliveryInv'
<1>1. DeliveryInv'
    BY AnnounceDelivery DEF RdbDeliveryInv
<1>2. UNCHANGED <<op, disp>> /\ inbox' = Append(inbox, [keys |-> {k}, version |-> changes + 1])
    BY DEF Announce
<1>3. inbox \in Seq(Change)
    BY DEF RdbDeliveryInv, DeliveryInv, TypeInv, TypeOK
<1>4. /\ Len(inbox) \in Nat /\ Len(inbox') = Len(inbox) + 1
      /\ \A i \in 1 .. Len(inbox) : inbox'[i] = inbox[i]
      /\ inbox'[Len(inbox) + 1].keys = {k}
    BY <1>2, <1>3
<1>5. \A i \in 1 .. Len(inbox') : i \in 1 .. Len(inbox) \/ i = Len(inbox) + 1
    BY <1>4
<1>6. \A i \in 1 .. Len(inbox') : \E x \in Keys : inbox'[i].keys = {x}
    BY <1>4, <1>5 DEF RdbDeliveryInv, EmitShape
<1> QED
    BY <1>1, <1>2, <1>6 DEF RdbDeliveryInv, EmitShape, ReplayShape

LEMMA InitRdbDelivery == Init => RdbDeliveryInv
<1> SUFFICES ASSUME Init PROVE RdbDeliveryInv
    OBVIOUS
<1>1. EmitShape
    BY DEF Init, EmitShape, IdleDisp
<1>2. ReplayShape
    BY IdlePc DEF Init, ReplayShape
<1> QED
    BY <1>1, <1>2, InitDelivery DEF RdbDeliveryInv

\* Calls are shared steps, and so are most of their later steps.
LEMMA CallIsShared ==
    ASSUME NEW t \in Threads, Call(t)
    PROVE  SharedStep(t)
<1>1. PICK s \in Subscribers :
          \/ \E ks \in SUBSET Keys \ {{}} :
                \/ AddObservers(t, s, ks)
                \/ DelKeys(t, s, ks)
                \/ EnableObservers(t, s, ks)
                \/ DisableObservers(t, s, ks)
          \/ DelAll(t, s)
    BY DEF Call
<1>2. CASE DelAll(t, s)
    <2>1. DelObservers(t, s, GetKeys(callbacks), TRUE)
        BY <1>2 DEF DelAll
    <2>2. GetKeys(callbacks) \in SUBSET Keys
        BY DEF GetKeys
    <2> QED
        BY <2>1, <2>2 DEF SharedStep
<1>3. ASSUME NEW ks \in SUBSET Keys, DelKeys(t, s, ks) PROVE SharedStep(t)
    BY <1>3 DEF DelKeys, SharedStep
<1> QED
    BY <1>1, <1>2, <1>3 DEF SharedStep

LEMMA NextRdbDelivery == RdbDeliveryInv /\ [Next]_vars => RdbDeliveryInv'
<1> SUFFICES ASSUME RdbDeliveryInv, [Next]_vars PROVE RdbDeliveryInv'
    OBVIOUS
<1>1. TypeInv'
    BY NextType DEF RdbDeliveryInv, DeliveryInv
<1>2. ASSUME NEW t \in Threads, Call(t) PROVE RdbDeliveryInv'
    BY <1>2, CallIsShared, SharedStepRdb
<1>3. ASSUME NEW t \in Threads, Continue(t) PROVE RdbDeliveryInv'
    <2>1. \/ (\E r \in op[t].todo : AddEmitRead(t, r)) \/ AddEmitNotify(t)
          \/ \E r \in op[t].todo : EnableEmitRead(t, r)
          \/ EnableEmitCheck(t)
          \/ EnableEmitNotify(t)
          \/ SharedStep(t)
        BY <1>3 DEF Continue, SharedStep
    <2> QED
        BY <2>1, AddReplayDelivery, EnableEmitReadDelivery, EnableEmitCheckDelivery,
           EnableEmitNotifyDelivery, SharedStepRdb
<1>4. CASE Emit
    BY <1>4, EmitStoreDelivery, EmitCollectDelivery, EmitNotifyDelivery DEF Emit
<1>5. CASE RecoverObservers
    BY <1>1, <1>5, ElsewhereRdb
    DEF RecoverObservers, RecoverNoProxy, RecoverKeys, RecoverStatus, RecoverKey,
        RecoverSubscribe, serviceVars, historyVars
<1>6. CASE Service
    <2>1. CASE ServiceDied \/ ServiceAdded
        BY <1>1, <2>1, ElsewhereRdb DEF ServiceDied, ServiceAdded, historyVars
    <2> QED
        BY <1>6, <2>1, AnnounceRdb DEF Service
<1>7. CASE UNCHANGED vars
    BY <1>1, <1>7, ElsewhereRdb DEF vars
<1> QED
    BY <1>2, <1>3, <1>4, <1>5, <1>6, <1>7 DEF Next

\* An enabled observer that was registered when a change arrived is called with
\* that change or a later one before Emit and the calls on its key are done: no
\* interleaving of Emit's lock sections with EnableObservers, DisableObservers
\* and their roll-backs loses it.
THEOREM RdbNoMissedChange == Spec => []NoMissedChange
<1>1. Spec => []RdbDeliveryInv
    BY InitRdbDelivery, NextRdbDelivery, PTL DEF Spec
<1>2. RdbDeliveryInv => NoMissedChange
    BY DeliveryInvImplies DEF RdbDeliveryInv
<1> QED
    BY <1>1, <1>2, PTL

=============================================================================
