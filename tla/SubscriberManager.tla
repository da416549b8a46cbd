-------------------------- MODULE SubscriberManager --------------------------
(***************************************************************************)
(* What RdbSubscriberManager and PublishedDataSubscriberManager have in    *)
(* common: the state, the operations that client threads call, the         *)
(* DataShare service they talk to and its death.  The two managers extend  *)
(* this module and add how a change is delivered (Emit), how it is         *)
(* replayed to a late observer, and how a restarted service is told of the *)
(* observers (RecoverObservers).                                           *)
(*                                                                         *)
(* A client operation is a lock section on the registry followed, outside  *)
(* the lock, by a request to the service, a second lock section that rolls *)
(* back what the service refused, and callbacks.  Each is a step of its    *)
(* own: other threads, the thread that delivers changes and the thread     *)
(* that runs the recovery get in between.                                  *)
(***************************************************************************)
EXTENDS CallbacksManager, Sequences, FiniteSets

CONSTANTS Threads,        \* client threads; the managers are singletons
          NoSubscriber,   \* the subscriber of a thread that is in no call
          MaxObservers,   \* bound: AddObservers calls
          MaxChanges,     \* bound: changes the service announces
          MaxRestarts     \* bound: restarts of the service

ASSUME NoSubscriberAssumption == NoSubscriber \notin Subscribers

ASSUME BoundsAssumption ==
    /\ MaxObservers \in Nat
    /\ MaxChanges \in Nat
    /\ MaxRestarts \in Nat

VARIABLES
    callbacks,          \* the registry, callbacks_
    lastChangeNodeMap,  \* lastChangeNodeMap_: last change of a key, 0 if none
    nextObserver,       \* number the next Observer object gets
    op,                 \* what each client thread is doing
    disp,               \* the Emit in progress; the stub's mutex_ admits one
    rec,                \* the recovery in progress (OnAddSystemAbility)
    svc,                \* the service's subscription of this process, per key
    up, epoch,          \* is the service alive, and which incarnation is it
    inbox,              \* changes the service has sent and Emit has not taken
    changes,            \* changes announced so far; a change is its number
    seen,               \* latest change each observer was called with, per key
    owed,               \* history: latest change an observer has a claim to
    tainted             \* history: keys the service may disagree about

vars == <<callbacks, lastChangeNodeMap, nextObserver, op, disp, rec, svc, up,
          epoch, inbox, changes, seen, owed, tainted>>

serviceVars == <<svc, up, epoch, inbox, changes>>
historyVars == <<seen, owed>>

Observers == 0 .. MaxObservers - 1
Versions == 0 .. MaxChanges

\* Who may be called back about which key, as RefreshObservers collects it.
Refresh == [key : Keys, observer : Observers, isNotifyOnEnabled : BOOLEAN]

\* What an observer is called with: a change (by number) of a key.
Notice == [key : Keys, observer : Observers, version : Versions]

-----------------------------------------------------------------------------
(* Client threads. *)

\* pc: the step the thread takes next.  sub, keys: the call's arguments.
\* todo: observers to call back.  cur: what was read for them.  ipc, erase,
\* failed: keys to ask the service for, to drop from the last-change map, to
\* roll back.  each: every key is dropped and unsubscribed before the next one.
\* proxy: the incarnation the call's proxy reaches.
IdleOp ==
    [pc |-> "idle", sub |-> NoSubscriber, keys |-> {}, todo |-> {}, cur |-> {},
     ipc |-> {}, erase |-> {}, failed |-> {}, each |-> FALSE, proxy |-> 0]

ThreadPc == {"idle", "addEmit", "addNotify", "subscribe", "rollbackAdd",
             "erase", "unsubscribe",
             "enable", "rollbackEnable", "enableEmit", "enableCheck", "enableNotify",
             "disable", "rollbackDisable"}

Op == [pc : ThreadPc, sub : Subscribers \cup {NoSubscriber}, keys : SUBSET Keys,
       todo : SUBSET Refresh, cur : SUBSET Notice, ipc : SUBSET Keys,
       erase : SUBSET Keys, failed : SUBSET Keys, each : BOOLEAN, proxy : Nat]

\* A thread's call is over.
Return(t) == op' = [op EXCEPT ![t] = IdleOp]

\* Some call that names key k is in progress.
InCall(k) == \E t \in Threads : k \in op[t].keys

\* The service is down, or its observers are still being restored.
Recovering == ~up \/ rec.pc # "idle"

\* A call that starts on a key another call or the recovery is working on:
\* nothing orders their requests to the service.
Overlap(ks) == tainted' = tainted \cup {k \in ks : InCall(k) \/ Recovering}

\* OnChange: observers are called with the changes in notices.
OnChange(notices) ==
    seen' = [o \in Observers |-> [k \in Keys |->
                LET newer == {n \in notices : /\ n.observer = o /\ n.key = k
                                              /\ n.version > seen[o][k]}
                IN  IF newer = {} THEN seen[o][k] ELSE (CHOOSE n \in newer : TRUE).version]]

-----------------------------------------------------------------------------
(* AddObservers *)

\* processOnLocalAdd comes before processOnFirstAdd.
AddObservers(t, s, ks) ==
    LET first == FirstRegisterKeys(callbacks, ks)
        local == ks \ first
    IN  /\ op[t].pc = "idle"
        /\ nextObserver < MaxObservers
        /\ callbacks' = AddNodes(callbacks, ks, s, nextObserver)
        /\ nextObserver' = nextObserver + 1
        /\ op' = [op EXCEPT ![t] =
                    [IdleOp EXCEPT !.sub = s,
                        !.pc = IF local # {} THEN "addEmit" ELSE "subscribe",
                        !.keys = ks,
                        !.todo = [key : local, observer : {nextObserver},
                                  isNotifyOnEnabled : {FALSE}],
                        !.ipc = first,
                        !.proxy = epoch]]
        /\ Overlap(ks)
        /\ UNCHANGED <<lastChangeNodeMap, disp, rec, serviceVars, historyVars>>

\* SendRequest fails, or reaches a service that has died since the call
\* fetched its proxy: the result vector comes back empty.
Unanswered ==
    UNCHANGED svc

\* The service answers for every key; it refuses the keys in failed.
Answered(t, failed, status) ==
    /\ up
    /\ op[t].proxy = epoch
    /\ svc' = [k \in Keys |-> IF k \in op[t].ipc \ failed THEN status ELSE svc[k]]

\* SubscribeRdbData / SubscribePublishedData.  Refused keys are rolled back;
\* without an answer nothing is, and the observer stays registered.
SubscribeData(t) ==
    /\ op[t].pc = "subscribe"
    /\ \/ /\ Unanswered
          /\ Return(t)
          /\ tainted' = tainted \cup op[t].ipc
       \/ \E failed \in SUBSET op[t].ipc :
          /\ Answered(t, failed, "on")
          /\ IF failed = {}
             THEN Return(t)
             ELSE op' = [op EXCEPT ![t].pc = "rollbackAdd", ![t].failed = failed]
          /\ UNCHANGED tainted
    /\ UNCHANGED <<callbacks, lastChangeNodeMap, nextObserver, disp, rec,
                   up, epoch, inbox, changes, historyVars>>

\* Mutant: the refused keys are reported but stay registered.
RollbackAddMutant(t) ==
    /\ op[t].pc = "rollbackAdd"
    /\ Return(t)
    /\ UNCHANGED <<callbacks, lastChangeNodeMap, nextObserver, disp, rec, serviceVars,
                   historyVars, tainted>>

\* BaseCallbacks::DelObservers(failedKeys, subscriber) with the default
\* process: all of the subscriber's nodes go, older ones too.
RollbackAdd(t) ==
    /\ op[t].pc = "rollbackAdd"
    /\ callbacks' = DelNodes(callbacks, op[t].failed, op[t].sub)
    /\ Return(t)
    /\ UNCHANGED <<lastChangeNodeMap, nextObserver, disp, rec, serviceVars,
                   historyVars, tainted>>

-----------------------------------------------------------------------------
(* DelObservers, for given keys or (no uris given) for all keys *)

DelObservers(t, s, ks, each) ==
    LET last == LastDelKeys(callbacks, ks, s)
    IN  /\ op[t].pc = "idle"
        /\ callbacks' = DelNodes(callbacks, ks, s)
        /\ op' = IF last = {} THEN op
                 ELSE [op EXCEPT ![t] =
                        [IdleOp EXCEPT !.sub = s, !.pc = "erase", !.keys = ks, !.erase = last,
                                          !.each = each, !.proxy = epoch]]
        /\ Overlap(ks)
        /\ UNCHANGED <<lastChangeNodeMap, nextObserver, disp, rec, serviceVars,
                       historyVars>>

DelKeys(t, s, ks) == DelObservers(t, s, ks, FALSE)

\* lastChangeNodeMap_.Erase(key).  When another thread has registered the key
\* again meanwhile, the change its observers may be owed is lost with it.
EraseLastChange(t, k) ==
    /\ op[t].pc = "erase"
    /\ k \in op[t].erase
    /\ lastChangeNodeMap' = [lastChangeNodeMap EXCEPT ![k] = 0]
    /\ owed' = [o \in Observers |-> [owed[o] EXCEPT ![k] = 0]]
    /\ op' = [op EXCEPT ![t].erase = @ \ {k}, ![t].ipc = @ \cup {k},
                        ![t].pc = IF op[t].each \/ op[t].erase = {k}
                                  THEN "unsubscribe" ELSE "erase"]
    /\ UNCHANGED <<callbacks, nextObserver, disp, rec, serviceVars, seen, tainted>>

\* UnSubscribeRdbData / UnSubscribePublishedData: the answer is only reported.
UnSubscribeData(t) ==
    /\ op[t].pc = "unsubscribe"
    /\ \/ Unanswered
       \/ \E failed \in SUBSET op[t].ipc : Answered(t, failed, "none")
    /\ IF op[t].erase = {}
       THEN Return(t)
       ELSE op' = [op EXCEPT ![t].pc = "erase", ![t].ipc = {}]
    /\ UNCHANGED <<callbacks, lastChangeNodeMap, nextObserver, disp, rec,
                   up, epoch, inbox, changes, historyVars, tainted>>

-----------------------------------------------------------------------------
(* EnableObservers *)

\* Where the thread goes once the service has been dealt with.
EmitOrReturn(t, todo) ==
    IF todo = {} THEN IdleOp
    ELSE [op[t] EXCEPT !.pc = "enableEmit", !.todo = todo, !.cur = {},
                        !.ipc = {}, !.failed = {}]

EnableObservers(t, s, ks) ==
    LET send == SendServiceKeys(callbacks, ks, s)
        refresh == RefreshObservers(callbacks, ks, s)
    IN  /\ op[t].pc = "idle"
        /\ refresh # {}     \* otherwise the call has no effect
        /\ callbacks' = EnableNodes(callbacks, ks, s)
        /\ op' = [op EXCEPT ![t] =
                    [IdleOp EXCEPT !.sub = s,
                        !.pc = IF send # {} THEN "enable" ELSE "enableEmit",
                        !.keys = ks, !.todo = refresh, !.ipc = send, !.proxy = epoch]]
        /\ Overlap(ks)
        /\ UNCHANGED <<lastChangeNodeMap, nextObserver, disp, rec, serviceVars,
                       historyVars>>

\* EnableSubscribeRdbData / EnableSubscribePublishedData.  The service knows
\* only keys that are subscribed.
EnableSubscribeData(t) ==
    /\ op[t].pc = "enable"
    /\ \/ /\ Unanswered
          /\ op' = [op EXCEPT ![t] = EmitOrReturn(t, op[t].todo)]
          /\ tainted' = tainted \cup op[t].ipc
       \/ \E failed \in SUBSET op[t].ipc :
          /\ \A k \in op[t].ipc : svc[k] = "none" => k \in failed
          /\ Answered(t, failed, "on")
          /\ op' = [op EXCEPT ![t] =
                        IF failed = {} THEN EmitOrReturn(t, op[t].todo)
                        ELSE [op[t] EXCEPT !.pc = "rollbackEnable", !.failed = failed]]
          /\ UNCHANGED tainted
    /\ UNCHANGED <<callbacks, lastChangeNodeMap, nextObserver, disp, rec,
                   up, epoch, inbox, changes, historyVars>>

\* The pairs of an observer and a key that a step of a call stops owing.
Forgive(pairs) ==
    owed' = [o \in Observers |-> [k \in Keys |->
                IF <<o, k>> \in pairs THEN 0 ELSE owed[o][k]]]

\* Disabling an enabled node clears its flag: a change it was going to be told
\* of is forgotten.
DisableForgets(ks, s) ==
    {p \in Observers \X Keys :
        /\ p[2] \in DisableKeys(callbacks, ks, s)
        /\ \E n \in NodesOf(callbacks, p[2], s) :
              n.observer = p[1] /\ n.enabled /\ n.isNotifyOnEnabled}

\* BaseCallbacks::DisableObservers(failedKeys, subscriber).
RollbackEnable(t) ==
    /\ op[t].pc = "rollbackEnable"
    /\ callbacks' = DisableNodes(callbacks, op[t].failed, op[t].sub)
    /\ Forgive(DisableForgets(op[t].failed, op[t].sub))
    /\ op' = [op EXCEPT ![t] = EmitOrReturn(t, op[t].todo)]
    /\ UNCHANGED <<lastChangeNodeMap, nextObserver, disp, rec, serviceVars, seen, tainted>>

-----------------------------------------------------------------------------
(* DisableObservers *)

DisableObservers(t, s, ks) ==
    LET last == LastDisabledKeys(callbacks, ks, s)
    IN  /\ op[t].pc = "idle"
        /\ DisableKeys(callbacks, ks, s) # {}     \* otherwise no effect
        /\ callbacks' = DisableNodes(callbacks, ks, s)
        /\ Forgive(DisableForgets(ks, s))
        /\ op' = IF last = {} THEN op
                 ELSE [op EXCEPT ![t] = [IdleOp EXCEPT !.sub = s,
                            !.pc = "disable", !.keys = ks, !.ipc = last, !.proxy = epoch]]
        /\ Overlap(ks)
        /\ UNCHANGED <<lastChangeNodeMap, nextObserver, disp, rec, serviceVars, seen>>

\* DisableSubscribeRdbData / DisableSubscribePublishedData.
DisableSubscribeData(t) ==
    /\ op[t].pc = "disable"
    /\ \/ Unanswered /\ Return(t)
       \/ \E failed \in SUBSET op[t].ipc :
          /\ \A k \in op[t].ipc : svc[k] = "none" => k \in failed
          /\ Answered(t, failed, "off")
          /\ IF failed = {}
             THEN Return(t)
             ELSE op' = [op EXCEPT ![t].pc = "rollbackDisable", ![t].failed = failed]
    /\ UNCHANGED <<callbacks, lastChangeNodeMap, nextObserver, disp, rec,
                   up, epoch, inbox, changes, historyVars, tainted>>

\* BaseCallbacks::EnableObservers(failedKeys, subscriber) with the default
\* processes: the first node is enabled again and nobody is called, so a change
\* that arrived while it was disabled is forgotten.
RollbackDisable(t) ==
    /\ op[t].pc = "rollbackDisable"
    /\ callbacks' = EnableNodes(callbacks, op[t].failed, op[t].sub)
    /\ Forgive({<<r.observer, r.key>> :
                   r \in {x \in RefreshObservers(callbacks, op[t].failed, op[t].sub) :
                             x.isNotifyOnEnabled}})
    /\ Return(t)
    /\ UNCHANGED <<lastChangeNodeMap, nextObserver, disp, rec, serviceVars, seen,
                   tainted>>

-----------------------------------------------------------------------------
(* The service (external): it announces changes of keys that are subscribed *)
(* and enabled, in order; it may die, losing every subscription, and come   *)
(* back.  samgr then calls OnAddSystemAbility, one call at a time.          *)

\* unread: keys whose status has not been read; enabled: keys read as enabled;
\* keys: keys still to be subscribed.
IdleRec == [pc |-> "idle", keys |-> {}, unread |-> {}, enabled |-> {}, proxy |-> 0]

Rec == [pc : {"idle", "start", "status", "subscribe"}, keys : SUBSET Keys,
        unread : SUBSET Keys, enabled : SUBSET Keys, proxy : Nat]

\* One notification may carry changes of several keys.
Announce(ks) ==
    /\ up
    /\ changes < MaxChanges
    /\ \A k \in ks : svc[k] = "on"
    /\ changes' = changes + 1
    /\ inbox' = Append(inbox, [keys |-> ks, version |-> changes + 1])
    /\ UNCHANGED <<callbacks, lastChangeNodeMap, nextObserver, op, disp, rec,
                   svc, up, epoch, historyVars, tainted>>

\* All subscriptions are lost.  What the service and the registry disagreed
\* about no longer matters, except under a call that is still in progress.
ServiceDied ==
    /\ up
    /\ epoch < MaxRestarts
    /\ up' = FALSE
    /\ svc' = [k \in Keys |-> "none"]
    /\ tainted' = {k \in Keys : InCall(k)}
    /\ UNCHANGED <<callbacks, lastChangeNodeMap, nextObserver, op, disp, rec,
                   epoch, inbox, changes, historyVars>>

ServiceAdded ==
    /\ ~up
    /\ rec.pc = "idle"
    /\ up' = TRUE
    /\ epoch' = epoch + 1
    /\ rec' = [IdleRec EXCEPT !.pc = "start", !.proxy = epoch + 1]
    /\ UNCHANGED <<callbacks, lastChangeNodeMap, nextObserver, op, disp, svc,
                   inbox, changes, historyVars, tainted>>

\* GetServiceProxy returned nullptr: deathCallback_ is not called at all.
RecoverNoProxy ==
    /\ rec.pc = "start"
    /\ rec' = IdleRec
    /\ tainted' = tainted \cup GetKeys(callbacks)
    /\ UNCHANGED <<callbacks, lastChangeNodeMap, nextObserver, op, disp,
                   serviceVars, historyVars>>

\* One SubscribeRdbData / SubscribePublishedData of the recovery.  The code
\* sends the keys of one template (subscriber id) together; a key at a time is
\* the general case.  A failure is logged and nothing else.
RecoverSubscribe(k, status) ==
    /\ rec.pc = "subscribe"
    /\ k \in rec.keys
    /\ rec' = IF rec.keys = {k} THEN IdleRec ELSE [rec EXCEPT !.keys = @ \ {k}]
    /\ \/ UNCHANGED svc /\ tainted' = tainted \cup {k}
       \/ /\ up /\ rec.proxy = epoch
          /\ svc' = [svc EXCEPT ![k] = status]
          /\ UNCHANGED tainted
    /\ UNCHANGED <<callbacks, lastChangeNodeMap, nextObserver, op, disp,
                   up, epoch, inbox, changes, historyVars>>

-----------------------------------------------------------------------------
(* The initial state, and the part of the type invariant the managers share *)

IdleDisp == [pc |-> "idle", keys |-> {}, now |-> {}, version |-> 0, todo |-> {}]

\* keys: keys of the change still to be handled; now: the one in hand.
\* todo: the calls to make.
Disp == [pc : {"idle", "mark", "list", "collect", "store", "notify"},
         keys : SUBSET Keys, now : SUBSET Keys, version : Versions, todo : SUBSET Notice]

Change == [keys : SUBSET Keys, version : Versions]

Init ==
    /\ callbacks = [k \in Keys |-> {}]
    /\ lastChangeNodeMap = [k \in Keys |-> 0]
    /\ nextObserver = 0
    /\ op = [t \in Threads |-> IdleOp]
    /\ disp = IdleDisp
    /\ rec = IdleRec
    /\ svc = [k \in Keys |-> "none"]
    /\ up = TRUE
    /\ epoch = 0
    /\ inbox = <<>>
    /\ changes = 0
    /\ seen = [o \in Observers |-> [k \in Keys |-> 0]]
    /\ owed = [o \in Observers |-> [k \in Keys |-> 0]]
    /\ tainted = {}

Status == {"none", "on", "off"}

\* The types of all variables.
TypeOK ==
    /\ callbacks \in Registry
    /\ lastChangeNodeMap \in [Keys -> Versions]
    /\ nextObserver \in 0 .. MaxObservers
    /\ op \in [Threads -> Op]
    /\ disp \in Disp
    /\ rec \in Rec
    /\ svc \in [Keys -> Status]
    /\ up \in BOOLEAN
    /\ epoch \in 0 .. MaxRestarts
    /\ inbox \in Seq(Change)
    /\ changes \in Versions
    /\ seen \in [Observers -> [Keys -> Versions]]
    /\ owed \in [Observers -> [Keys -> Versions]]
    /\ tainted \in SUBSET Keys

-----------------------------------------------------------------------------
(* Properties *)

\* An enabled observer's key is subscribed and enabled at the service whenever
\* no call on that key is in progress and no recovery is: a request the
\* service refused has been rolled back, a restarted service has been told.
\* Excepted are the keys on which, since the service last died, two calls
\* overlapped, a request was not answered or the recovery's request failed.
ServiceCarriesEnabled ==
    ~Recovering =>
        \A k \in Keys \ tainted :
            ~InCall(k) /\ HasEnabled(callbacks, k) => svc[k] = "on"

\* No change of key k is being delivered, and nobody is in a call on it.
Settled(k) ==
    /\ k \notin disp.keys
    /\ \A n \in disp.todo : n.key # k
    /\ ~InCall(k)

\* An observer that was registered when a change arrived and is enabled now has
\* been called with that change or a later one, however delivery, enabling and
\* disabling interleaved: a change missed while disabled is replayed.  A change
\* is discarded only when an enabled observer whose replay is pending is
\* disabled (by a call or to roll back), when a disable the service refused is
\* undone, or when the key is removed under the observer.
NoMissedChange ==
    \A k \in Keys :
        Settled(k) =>
            \A n \in callbacks[k] :
                n.enabled => seen[n.observer][k] >= owed[n.observer][k]

=============================================================================
