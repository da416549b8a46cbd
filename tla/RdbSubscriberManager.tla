------------------------ MODULE RdbSubscriberManager ------------------------
(***************************************************************************)
(* RdbSubscriberManager (frameworks/native/proxy/src/                      *)
(* rdb_subscriber_manager.cpp): observers of the result of a query         *)
(* template.  Delivery of a change, replay of the last change to observers *)
(* that are registered or enabled late, and recovery.                      *)
(***************************************************************************)
EXTENDS SubscriberManager

-----------------------------------------------------------------------------
(* Emit(changeNode), called by RdbObserverStub::OnChangeFromRdb under the   *)
(* stub's mutex_.                                                           *)

\* lastChangeNodeMap_.InsertOrAssign comes first.  From here on every observer
\* registered for the key has a claim to this change.
EmitStore ==
    /\ disp.pc = "idle"
    /\ inbox # <<>>
    /\ LET c == Head(inbox)
       IN  /\ lastChangeNodeMap' = [k \in Keys |->
                    IF k \in c.keys THEN c.version ELSE lastChangeNodeMap[k]]
           /\ owed' = [o \in Observers |-> [k \in Keys |->
                    IF k \in c.keys /\ \E n \in callbacks[k] : n.observer = o
                    THEN c.version ELSE owed[o][k]]]
           /\ disp' = [IdleDisp EXCEPT !.pc = "collect", !.keys = c.keys,
                                       !.version = c.version]
    /\ inbox' = Tail(inbox)
    /\ UNCHANGED <<callbacks, nextObserver, op, rec, svc, up, epoch, changes,
                   seen, tainted>>

\* GetObserversAndSetNotifiedOn, one lock section.
EmitCollect(k) ==
    /\ disp.pc = "collect"
    /\ k \in disp.keys
    /\ callbacks' = SetNotifiedOn(callbacks, k)
    /\ disp' = IF HasEnabled(callbacks, k)
               THEN [disp EXCEPT !.pc = "notify", !.keys = {},
                                 !.todo = [key : {k}, version : {disp.version},
                                           observer : GetEnabledObservers(callbacks, k)]]
               ELSE IdleDisp
    /\ UNCHANGED <<lastChangeNodeMap, nextObserver, op, rec, serviceVars,
                   historyVars, tainted>>

\* obs->OnChange(changeNode), outside the registry's lock.
EmitNotify(n) ==
    /\ disp.pc = "notify"
    /\ n \in disp.todo
    /\ OnChange({n})
    /\ disp' = IF disp.todo = {n} THEN IdleDisp ELSE [disp EXCEPT !.todo = @ \ {n}]
    /\ UNCHANGED <<callbacks, lastChangeNodeMap, nextObserver, op, rec,
                   serviceVars, owed, tainted>>

-----------------------------------------------------------------------------
(* Emit(keys, observer): an observer added to keys that others listen to    *)
(* already is given the last change of each, if there is one.               *)


\* Where AddObservers goes when the callbacks in todo are left.
AddEmitOrSubscribe(t, todo) ==
    LET next == [op[t] EXCEPT !.todo = todo, !.cur = {}]
    IN  IF todo # {} THEN [next EXCEPT !.pc = "addEmit"]
        ELSE IF op[t].ipc # {} THEN [next EXCEPT !.pc = "subscribe"]
        ELSE IdleOp

\* Mutant: hands out the entry after the one that was read.
ReadLastChangeMutant(t, r, pc) ==
    [op[t] EXCEPT !.pc = pc, !.todo = @ \ {r},
                  !.cur = {[key |-> r.key, observer |-> r.observer,
                            version |-> lastChangeNodeMap[r.key] + 1]}]

\* Thread t takes the last change of r's key out of the map, to go on at pc.
ReadLastChange(t, r, pc) ==
    [op[t] EXCEPT !.pc = pc, !.todo = @ \ {r},
                  !.cur = {[key |-> r.key, observer |-> r.observer,
                            version |-> lastChangeNodeMap[r.key]]}]

\* lastChangeNodeMap_.ComputeIfPresent.
AddEmitRead(t, r) ==
    /\ op[t].pc = "addEmit"
    /\ r \in op[t].todo
    /\ op' = [op EXCEPT ![t] =
                IF lastChangeNodeMap[r.key] = 0
                THEN AddEmitOrSubscribe(t, op[t].todo \ {r})
                ELSE ReadLastChange(t, r, "addNotify")]
    /\ UNCHANGED <<callbacks, lastChangeNodeMap, nextObserver, disp, rec,
                   serviceVars, historyVars, tainted>>

\* observer->OnChange(node).
AddEmitNotify(t) ==
    /\ op[t].pc = "addNotify"
    /\ OnChange(op[t].cur)
    /\ op' = [op EXCEPT ![t] = AddEmitOrSubscribe(t, op[t].todo)]
    /\ UNCHANGED <<callbacks, lastChangeNodeMap, nextObserver, disp, rec,
                   serviceVars, owed, tainted>>

-----------------------------------------------------------------------------
(* EmitOnEnable: an observer that was just enabled is given the last change *)
(* if its flag says that it missed one.                                     *)

EnableEmitRead(t, r) ==
    /\ op[t].pc = "enableEmit"
    /\ r \in op[t].todo
    /\ op' = [op EXCEPT ![t] =
                IF lastChangeNodeMap[r.key] = 0
                THEN EmitOrReturn(t, op[t].todo \ {r})
                ELSE ReadLastChange(t, r, "enableCheck")]
    /\ UNCHANGED <<callbacks, lastChangeNodeMap, nextObserver, disp, rec,
                   serviceVars, historyVars, tainted>>

\* IsObserversNotifiedOnEnabled reads the flag as it is by now, not as it was
\* when the observer was enabled: Emit may have cleared it in between.
EnableEmitCheck(t) ==
    /\ op[t].pc = "enableCheck"
    /\ op' = [op EXCEPT ![t] =
                IF \A n \in op[t].cur :
                       IsObserversNotifiedOnEnabled(callbacks, n.key, n.observer)
                THEN [op[t] EXCEPT !.pc = "enableNotify"]
                ELSE EmitOrReturn(t, op[t].todo)]
    /\ UNCHANGED <<callbacks, lastChangeNodeMap, nextObserver, disp, rec,
                   serviceVars, historyVars, tainted>>

EnableEmitNotify(t) ==
    /\ op[t].pc = "enableNotify"
    /\ OnChange(op[t].cur)
    /\ op' = [op EXCEPT ![t] = EmitOrReturn(t, op[t].todo)]
    /\ UNCHANGED <<callbacks, lastChangeNodeMap, nextObserver, disp, rec,
                   serviceVars, owed, tainted>>

-----------------------------------------------------------------------------
(* RecoverObservers, called by DataShareManagerImpl::OnAddSystemAbility.    *)

\* GetKeys.
RecoverKeys ==
    /\ rec.pc = "start"
    /\ rec' = IF GetKeys(callbacks) = {} THEN IdleRec
              ELSE [rec EXCEPT !.pc = "status", !.keys = GetKeys(callbacks),
                               !.unread = GetKeys(callbacks)]
    /\ UNCHANGED <<callbacks, lastChangeNodeMap, nextObserver, op, disp,
                   serviceVars, historyVars, tainted>>

\* GetEnabledObservers of each key, one lock section after the other, fills
\* SubscribeOption::subscribeStatus.
RecoverStatus(k) ==
    /\ rec.pc = "status"
    /\ k \in rec.unread
    /\ rec' = [rec EXCEPT !.pc = IF rec.unread = {k} THEN "subscribe" ELSE "status",
                          !.unread = @ \ {k},
                          !.enabled = IF HasEnabled(callbacks, k) THEN @ \cup {k} ELSE @]
    /\ UNCHANGED <<callbacks, lastChangeNodeMap, nextObserver, op, disp,
                   serviceVars, historyVars, tainted>>

\* Mutant: the option's default, enabled, for every key.
RecoverKeyMutant(k) == RecoverSubscribe(k, "on")

\* SubscribeRdbData with the option: the key is restored enabled or disabled.
RecoverKey(k) == RecoverSubscribe(k, IF k \in rec.enabled THEN "on" ELSE "off")

-----------------------------------------------------------------------------

\* DelObservers(subscriber, proxy): key by key.
DelAll(t, s) == DelObservers(t, s, GetKeys(callbacks), TRUE)

\* The calls clients make.
Call(t) ==
    \E s \in Subscribers :
        \/ \E ks \in SUBSET Keys \ {{}} :
              \/ AddObservers(t, s, ks)
              \/ DelKeys(t, s, ks)
              \/ EnableObservers(t, s, ks)
              \/ DisableObservers(t, s, ks)
        \/ DelAll(t, s)

\* The steps of a call in progress.
Continue(t) ==
    \/ \E r \in op[t].todo : AddEmitRead(t, r) \/ EnableEmitRead(t, r)
    \/ AddEmitNotify(t)
    \/ EnableEmitCheck(t)
    \/ EnableEmitNotify(t)
    \/ SubscribeData(t)
    \/ RollbackAdd(t)
    \/ \E k \in op[t].erase : EraseLastChange(t, k)
    \/ UnSubscribeData(t)
    \/ EnableSubscribeData(t)
    \/ RollbackEnable(t)
    \/ DisableSubscribeData(t)
    \/ RollbackDisable(t)

\* The binder thread that delivers a change.
Emit ==
    \/ EmitStore
    \/ \E k \in disp.keys : EmitCollect(k)
    \/ \E n \in disp.todo : EmitNotify(n)

\* The thread that restores the observers at a restarted service.
RecoverObservers ==
    \/ RecoverNoProxy
    \/ RecoverKeys
    \/ \E k \in rec.unread : RecoverStatus(k)
    \/ \E k \in rec.keys : RecoverKey(k)

\* The DataShare service: a notification of rdb data is about one key.
Service ==
    \/ \E k \in Keys : Announce({k})
    \/ ServiceDied
    \/ ServiceAdded

Next ==
    \/ \E t \in Threads : Call(t) \/ Continue(t)
    \/ Emit
    \/ RecoverObservers
    \/ Service

Spec == Init /\ [][Next]_vars

-----------------------------------------------------------------------------
(* Properties, besides those of SubscriberManager *)

\* When RecoverObservers ends, the restarted service holds exactly what the
\* registry holds: a key with an enabled observer is enabled, a key with only
\* disabled ones is subscribed but disabled, and no other key is subscribed;
\* except for keys a call touched meanwhile or whose request failed.
RecoveryRestoresStatus ==
    [][rec.pc # "idle" /\ rec'.pc = "idle" /\ up' =>
        \A k \in Keys \ tainted' :
            svc'[k] = IF HasEnabled(callbacks', k) THEN "on"
                      ELSE IF callbacks'[k] # {} THEN "off" ELSE "none"]_vars

\* What the documentation of EnableRdbSubs says: the call enables the observers
\* the helper has for the given uris and template.
EnableEnablesObservers ==
    [][\A t \in Threads :
        op[t].pc = "idle" /\ op'[t].pc \in {"enable", "enableEmit"} =>
            \A k \in op'[t].keys :
                \A n \in NodesOf(callbacks', k, op'[t].sub) : n.enabled]_vars

=============================================================================
