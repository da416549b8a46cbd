-------------------- MODULE PublishedDataSubscriberManager --------------------
(***************************************************************************)
(* PublishedDataSubscriberManager (frameworks/native/proxy/src/            *)
(* published_data_subscriber_manager.cpp): observers of published data.    *)
(* Its calls are those of SubscriberManager.  Unlike RdbSubscriberManager, *)
(* it marks, lists and stores in three separate sections, hands an         *)
(* observer everything in one call, decides a replay by the flag as it was *)
(* when the observer was enabled, and restores every key as enabled.       *)
(***************************************************************************)
EXTENDS SubscriberManager

-----------------------------------------------------------------------------
(* Emit(changeNode), under the stub's mutex_.  A change carries several     *)
(* data; each goes through mark, list and store in turn.                    *)

EmitTake ==
    /\ disp.pc = "idle"
    /\ inbox # <<>>
    /\ disp' = [IdleDisp EXCEPT !.pc = "mark", !.keys = Head(inbox).keys,
                                !.version = Head(inbox).version]
    /\ inbox' = Tail(inbox)
    /\ UNCHANGED <<callbacks, lastChangeNodeMap, nextObserver, op, rec, svc, up,
                   epoch, changes, historyVars, tainted>>

\* SetObserversNotifiedOnEnabled(key).  The other keys of the change wait.
EmitMark(k) ==
    /\ disp.pc = "mark"
    /\ k \in disp.keys
    /\ callbacks' = SetObserversNotifiedOnEnabled(callbacks, k)
    /\ disp' = [disp EXCEPT !.pc = "list", !.now = {k}]
    /\ UNCHANGED <<lastChangeNodeMap, nextObserver, op, rec, serviceVars,
                   historyVars, tainted>>

\* GetEnabledObservers(key), another lock section.
EmitList(k) ==
    /\ disp.pc = "list"
    /\ k \in disp.now
    /\ disp' = [disp EXCEPT !.pc = "store",
                            !.todo = @ \cup [key : {k}, version : {disp.version},
                                             observer : GetEnabledObservers(callbacks, k)]]
    /\ UNCHANGED <<callbacks, lastChangeNodeMap, nextObserver, op, rec,
                   serviceVars, historyVars, tainted>>

\* Mutant: the list of calls to make is started anew for every datum.
EmitStoreMutant(k) ==
    /\ disp.pc = "store"
    /\ k \in disp.now
    /\ lastChangeNodeMap' = [lastChangeNodeMap EXCEPT ![k] = disp.version]
    /\ owed' = [o \in Observers |->
                    IF \E n \in disp.todo : n.key = k /\ n.observer = o
                    THEN [owed[o] EXCEPT ![k] = disp.version]
                    ELSE owed[o]]
    /\ disp' = IF disp.keys # {k}
               THEN [disp EXCEPT !.pc = "mark", !.keys = @ \ {k}, !.now = {}, !.todo = {}]
               ELSE IF disp.todo # {}
                    THEN [disp EXCEPT !.pc = "notify", !.keys = {}, !.now = {}]
                    ELSE IdleDisp
    /\ UNCHANGED <<callbacks, nextObserver, op, rec, serviceVars, seen, tainted>>

\* lastChangeNodeMap_.Compute.  The observers that were listed, and those that
\* are disabled and marked, now have a claim to the change.
EmitStore(k) ==
    /\ disp.pc = "store"
    /\ k \in disp.now
    /\ lastChangeNodeMap' = [lastChangeNodeMap EXCEPT ![k] = disp.version]
    /\ owed' = [o \in Observers |->
                    IF \/ \E n \in disp.todo : n.key = k /\ n.observer = o
                       \/ \E n \in callbacks[k] : /\ n.observer = o /\ ~n.enabled
                                                  /\ n.isNotifyOnEnabled
                    THEN [owed[o] EXCEPT ![k] = disp.version]
                    ELSE owed[o]]
    /\ disp' = IF disp.keys # {k}
               THEN [disp EXCEPT !.pc = "mark", !.keys = @ \ {k}, !.now = {}]
               ELSE IF disp.todo # {}
                    THEN [disp EXCEPT !.pc = "notify", !.keys = {}, !.now = {}]
                    ELSE IdleDisp
    /\ UNCHANGED <<callbacks, nextObserver, op, rec, serviceVars, seen, tainted>>

\* callback->OnChange(node): one call per observer, with all its data.
EmitNotify(o) ==
    LET notices == {n \in disp.todo : n.observer = o}
    IN  /\ disp.pc = "notify"
        /\ notices # {}
        /\ OnChange(notices)
        /\ disp' = IF notices = disp.todo THEN IdleDisp
                   ELSE [disp EXCEPT !.todo = @ \ notices]
        /\ UNCHANGED <<callbacks, lastChangeNodeMap, nextObserver, op, rec,
                       serviceVars, owed, tainted>>

-----------------------------------------------------------------------------
(* Replay.  Both forms first read the last change of every key and then     *)
(* call the observers.                                                      *)

\* Mutant: hands out the entry after the one that was read.
ReadLastChangeMutant(t, r, wanted, pc) ==
    [op[t] EXCEPT
        !.todo = @ \ {r},
        !.pc = IF op[t].todo = {r} THEN pc ELSE @,
        !.cur = @ \cup {[key |-> r.key, observer |-> r.observer,
                         version |-> lastChangeNodeMap[r.key] + 1]}]

\* Reads r's key for thread t; when it was the last one, go on at pc.
ReadLastChange(t, r, wanted, pc) ==
    [op[t] EXCEPT
        !.todo = @ \ {r},
        !.pc = IF op[t].todo = {r} THEN pc ELSE @,
        !.cur = IF lastChangeNodeMap[r.key] # 0 /\ wanted
                THEN @ \cup {[key |-> r.key, observer |-> r.observer,
                              version |-> lastChangeNodeMap[r.key]]}
                ELSE @]

\* Emit(keys, observer): ComputeIfPresent for each locally registered key.
AddEmitRead(t, r) ==
    /\ op[t].pc = "addEmit"
    /\ r \in op[t].todo
    /\ op' = [op EXCEPT ![t] = ReadLastChange(t, r, TRUE, "addNotify")]
    /\ UNCHANGED <<callbacks, lastChangeNodeMap, nextObserver, disp, rec,
                   serviceVars, historyVars, tainted>>

\* The observer is called even when nothing was read.
AddEmitNotify(t) ==
    /\ op[t].pc = "addNotify"
    /\ OnChange(op[t].cur)
    /\ op' = [op EXCEPT ![t] = IF op[t].ipc # {}
                               THEN [op[t] EXCEPT !.pc = "subscribe", !.cur = {}]
                               ELSE IdleOp]
    /\ UNCHANGED <<callbacks, lastChangeNodeMap, nextObserver, disp, rec,
                   serviceVars, owed, tainted>>

\* EmitOnEnable: the flag is the one RefreshObservers saw.
EnableEmitRead(t, r) ==
    /\ op[t].pc = "enableEmit"
    /\ r \in op[t].todo
    /\ op' = [op EXCEPT ![t] =
                LET next == ReadLastChange(t, r, r.isNotifyOnEnabled, "enableNotify")
                IN  IF next.todo = {} /\ next.cur = {} THEN IdleOp ELSE next]
    /\ UNCHANGED <<callbacks, lastChangeNodeMap, nextObserver, disp, rec,
                   serviceVars, historyVars, tainted>>

EnableEmitNotify(t, o) ==
    LET notices == {n \in op[t].cur : n.observer = o}
    IN  /\ op[t].pc = "enableNotify"
        /\ notices # {}
        /\ OnChange(notices)
        /\ op' = [op EXCEPT ![t] = IF notices = op[t].cur THEN IdleOp
                                   ELSE [op[t] EXCEPT !.cur = @ \ notices]]
        /\ UNCHANGED <<callbacks, lastChangeNodeMap, nextObserver, disp, rec,
                       serviceVars, owed, tainted>>

-----------------------------------------------------------------------------
(* RecoverObservers: every key of the registry is subscribed, as enabled.   *)

RecoverKeys ==
    /\ rec.pc = "start"
    /\ rec' = IF GetKeys(callbacks) = {} THEN IdleRec
              ELSE [rec EXCEPT !.pc = "subscribe", !.keys = GetKeys(callbacks)]
    /\ UNCHANGED <<callbacks, lastChangeNodeMap, nextObserver, op, disp,
                   serviceVars, historyVars, tainted>>

\* Mutant: the keys are restored as disabled.
RecoverKeyMutant(k) == RecoverSubscribe(k, "off")

RecoverKey(k) == RecoverSubscribe(k, "on")

-----------------------------------------------------------------------------

\* DelObservers(subscriber, proxy): all keys are dropped from the last-change map
\* first; those of one subscriber id (the model's keys) go in one request.
DelAll(t, s) == DelObservers(t, s, GetKeys(callbacks), FALSE)

\* The calls clients make.
Call(t) ==
    \E s \in Subscribers :
        \/ \E ks \in SUBSET Keys \ {{}} :
              \/ AddObservers(t, s, ks)
              \/ DelKeys(t, s, ks)
              \/ EnableObservers(t, s, ks)
              \/ DisableObservers(t, s, ks)
        \/ DelAll(t, s)

\* The steps of a call in progress.
Continue(t) ==
    \/ \E r \in op[t].todo : AddEmitRead(t, r) \/ EnableEmitRead(t, r)
    \/ AddEmitNotify(t)
    \/ \E o \in Observers : EnableEmitNotify(t, o)
    \/ SubscribeData(t)
    \/ RollbackAdd(t)
    \/ \E k \in op[t].erase : EraseLastChange(t, k)
    \/ UnSubscribeData(t)
    \/ EnableSubscribeData(t)
    \/ RollbackEnable(t)
    \/ DisableSubscribeData(t)
    \/ RollbackDisable(t)

\* The binder thread that delivers a change.
Emit ==
    \/ EmitTake
    \/ \E k \in disp.keys : EmitMark(k)
    \/ \E k \in disp.now : EmitList(k) \/ EmitStore(k)
    \/ \E o \in Observers : EmitNotify(o)

RecoverObservers ==
    \/ RecoverNoProxy
    \/ RecoverKeys
    \/ \E k \in rec.keys : RecoverKey(k)

Service ==
    \/ \E ks \in SUBSET Keys \ {{}} : Announce(ks)
    \/ ServiceDied
    \/ ServiceAdded

Next ==
    \/ \E t \in Threads : Call(t) \/ Continue(t)
    \/ Emit
    \/ RecoverObservers
    \/ Service

Spec == Init /\ [][Next]_vars

-----------------------------------------------------------------------------
(* Properties, besides those of SubscriberManager *)

\* The comment in Emit: the flag of every observer is set when there is no
\* enabled observer to hand the change to.
MarkedWhenNobodyEnabled ==
    [][\A k \in disp.now :
        disp.pc = "list" /\ disp'.pc = "store" /\ ~HasEnabled(callbacks, k) =>
            \A n \in callbacks[k] : n.isNotifyOnEnabled]_vars

=============================================================================
