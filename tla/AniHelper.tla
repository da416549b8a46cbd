------------------------------ MODULE AniHelper ------------------------------
(***************************************************************************)
(* A DataShareHelper of the ArkTS binding: the native functions of         *)
(* frameworks/ets/ani/src/datashare.rs, which ArkTS runs on threads of its *)
(* task pool, over a holder whose helper close() takes away; and the list  *)
(* of callbacks of every uri, which is one for all helpers.                *)
(***************************************************************************)
EXTENDS Integers, Sequences

CONSTANTS
    AniHelpers,      \* helper objects of the application
    AniUris,
    Callbacks,       \* functions of the application, compared by reference
    Workers,         \* threads of the task pool
    MaxObservers,    \* bound: observers made
    MaxAniCalls      \* bound: calls other than on and off

VARIABLES
    holder,          \* the native object: "none", "open", "closed", "cleaned"
    list,            \* observerMap_: the observers listed under a uri, whose order is never seen
    reg,             \* where an observer is registered: <<>> or <<helper, uri>>
    worker,          \* the call a worker has checked the holder for
    outcome,         \* what the last call gave the application
    calls,
    crashed          \* the process has ended

helperVars == <<holder, list, reg, worker, outcome, calls, crashed>>

CallbackFlavor == {"DataChange", "DataChangeInfo"}
\* The codes a native function can return besides HELPER_CLOSED.
ErrorsOf(op) ==
    CASE op \in {"query", "insert", "update", "delete", "batch_insert", "batch_update"} -> {15700000}
      [] op \in {"publish", "get_published_data"} -> {15700012}
      [] op \in {"add_template", "del_template"} -> {15700011}
      [] op \in {"notify_change", "notify_change_info"} -> {401}
      [] OTHER -> {}

\* convert_to_business_error keeps the code.
ConvertToBusinessError(code) == [ok |-> FALSE, code |-> code]
Told(code) == IF code # 0 THEN ConvertToBusinessError(code) ELSE [ok |-> TRUE, code |-> 0]
HELPER_CLOSED == 15700013
Free == [at |-> "free", h |-> "", op |-> ""]

AniHelperInit ==
    /\ holder = [h \in AniHelpers |-> "none"] /\ list = [u \in AniUris |-> {}] /\ reg = <<>>
    /\ worker = [w \in Workers |-> Free] /\ outcome = Told(0) /\ calls = 0 /\ crashed = FALSE

----------------------------------------------------------------------------
\* native_create: not a system application, no context, no helper.
NativeCreate(h) ==
    /\ holder[h] = "none"
    /\ \/ holder' = [holder EXCEPT ![h] = "open"] /\ outcome' = Told(0)
       \/ outcome' \in {Told(202), Told(401), Told(15700010)} /\ UNCHANGED holder
    /\ UNCHANGED <<list, reg, worker, calls, crashed>>

\* native_clean: the finalizer, when the application can reach the object no more.
NativeClean(h) ==
    /\ holder[h] \in {"open", "closed"} /\ \A w \in Workers : worker[w].h # h
    /\ holder' = [holder EXCEPT ![h] = "cleaned"]
    /\ UNCHANGED <<list, reg, worker, outcome, calls, crashed>>

\* native_close: Release may fail, and the helper stays; what it had registered
\* may or may not be forgotten by the provider.  A closed one is closed again.
NativeClose(h) ==
    /\ holder[h] \in {"open", "closed"}
    /\ \/ /\ holder' = [holder EXCEPT ![h] = "closed"] /\ outcome' = Told(0)
          /\ reg' \in {reg, [o \in DOMAIN reg |-> IF reg[o] # <<>> /\ reg[o][1] = h THEN <<>> ELSE reg[o]]}
       \/ holder[h] = "open" /\ outcome' = Told(15700000) /\ UNCHANGED <<holder, reg>>
    /\ UNCHANGED <<list, worker, calls, crashed>>

\* Every other native function: the holder is checked - by all but batch_update -,
\* then its helper is used.
NativeCheck(w, h, op) ==
    /\ worker[w] = Free /\ holder[h] \in {"open", "closed"} /\ calls < MaxAniCalls /\ calls' = calls + 1
    /\ IF holder[h] = "closed" /\ op # "batch_update"
       THEN outcome' = Told(HELPER_CLOSED) /\ UNCHANGED worker
       ELSE worker' = [worker EXCEPT ![w] = [at |-> "use", h |-> h, op |-> op]] /\ UNCHANGED outcome
    /\ UNCHANGED <<holder, list, reg, crashed>>

Native(h, ops) == \E w \in Workers, op \in ops : NativeCheck(w, h, op)
NativeQuery(h) == Native(h, {"query", "update"})
NativePublish(h) == Native(h, {"publish", "get_published_data", "add_template", "del_template"})
NativeInsert(h) == Native(h, {"insert", "batch_insert", "batch_update"})
NativeNormalizeUri(h) == Native(h, {"normalize_uri", "denormalize_uri"})
NativeNotifyChange(h) == Native(h, {"notify_change", "notify_change_info"})
NativeDelete(h) == Native(h, {"delete"})

NativeUse(w) ==
    /\ worker[w].at = "use" /\ worker' = [worker EXCEPT ![w] = Free]
    /\ IF holder[worker[w].h] = "closed" THEN crashed' = TRUE /\ UNCHANGED outcome
       ELSE /\ \E code \in {0} \cup ErrorsOf(worker[w].op) : outcome' = Told(code)
            /\ UNCHANGED crashed
    /\ UNCHANGED <<holder, list, reg, calls>>

----------------------------------------------------------------------------
\* callback_is_equal: the same flavor and the same function.
CallbackIsEqual(e, cb, flavor) == e.cb = cb /\ e.flavor = flavor

\* What is listed for a callback: the observer made for it and the helper it registers.
Listing(h, cb, flavor) == [cb |-> cb, flavor |-> flavor, o |-> Len(reg) + 1, by |-> h]

\* Mutant: a callback whose registration failed is listed.
RegisterMutant(h, u, cb, flavor) ==
    IF \E e \in list[u] : CallbackIsEqual(e, cb, flavor) THEN UNCHANGED <<list, reg>>
    ELSE /\ Len(reg) < MaxObservers /\ reg' \in {Append(reg, <<h, u>>), Append(reg, <<>>)}
         /\ list' = [list EXCEPT ![u] = @ \cup {Listing(h, cb, flavor)}]

\* ANIRegisterObserver: a callback that is listed is not registered again; one
\* whose registration fails is not listed, and the application is told success.
Register(h, u, cb, flavor) ==
    IF \E e \in list[u] : CallbackIsEqual(e, cb, flavor) THEN UNCHANGED <<list, reg>>
    ELSE \/ /\ Len(reg) < MaxObservers /\ reg' = Append(reg, <<h, u>>)
            /\ list' = [list EXCEPT ![u] = @ \cup {Listing(h, cb, flavor)}]
         \/ UNCHANGED <<list, reg>>

OnOff(h, action) ==
    /\ holder[h] \in {"open", "closed"}
    /\ IF holder[h] = "closed" THEN outcome' = Told(HELPER_CLOSED) /\ UNCHANGED <<list, reg>>
       ELSE outcome' = Told(0) /\ action
    /\ UNCHANGED <<holder, worker, calls, crashed>>

NativeOn(h, u, cb) == OnOff(h, Register(h, u, cb, "DataChange"))
NativeOnChangeinfo(h, u, cb) == OnOff(h, Register(h, u, cb, "DataChangeInfo"))

\* The helper unregisters what it registered itself, under the same flavor.
Unregister(h, u, gone, flavor) ==
    [o \in DOMAIN reg |-> IF reg[o] = <<h, u>> /\ \E e \in gone : e.o = o /\ e.flavor = flavor
                          THEN <<>> ELSE reg[o]]

\* ANIUnRegisterObserver: the listed observers that match leave the list, whatever
\* the helper could do with them.
Forget(h, u, gone, flavor) ==
    /\ list' = [list EXCEPT ![u] = @ \ gone]
    /\ reg' = Unregister(h, u, gone, flavor)

\* off ends with the first that matches, of which there is one at most.
Same(u, cb, flavor) == {e \in list[u] : CallbackIsEqual(e, cb, flavor)}

NativeOff(h, u, cb) == OnOff(h, Forget(h, u, Same(u, cb, "DataChange"), "DataChange"))
NativeOffChangeinfo(h, u, cb) == OnOff(h, Forget(h, u, Same(u, cb, "DataChangeInfo"), "DataChangeInfo"))
\* off without a callback: all of them.
NativeOffNone(h, u) == \E flavor \in CallbackFlavor : OnOff(h, Forget(h, u, list[u], flavor))

AniHelperNext ==
    /\ ~crashed
    /\ \/ \E h \in AniHelpers : NativeCreate(h) \/ NativeClean(h) \/ NativeClose(h)
       \/ \E h \in AniHelpers :
            \/ NativeQuery(h) \/ NativePublish(h) \/ NativeInsert(h)
            \/ NativeNormalizeUri(h) \/ NativeNotifyChange(h) \/ NativeDelete(h)
       \/ \E w \in Workers : NativeUse(w)
       \/ \E h \in AniHelpers, u \in AniUris, cb \in Callbacks :
            \/ NativeOn(h, u, cb) \/ NativeOnChangeinfo(h, u, cb)
            \/ NativeOff(h, u, cb) \/ NativeOffChangeinfo(h, u, cb)
       \/ \E h \in AniHelpers, u \in AniUris : NativeOffNone(h, u)

AniHelperSpec == AniHelperInit /\ [][AniHelperNext]_helperVars

----------------------------------------------------------------------------
\* A callback that is listed - which keeps on() from registering it again - is
\* registered with the provider as long as the helper that listed it is open:
\* after a registration that failed, whose failure the application is not told,
\* the next on() tries again, and an off() through another helper or of the other
\* kind leaves no entry behind.  No callback is listed twice.
ListedIsRegistered ==
    \A u \in AniUris : \A e \in list[u] :
        /\ holder[e.by] = "open" => reg[e.o] = <<e.by, u>>
        /\ \A f \in list[u] : CallbackIsEqual(f, e.cb, e.flavor) => f = e
=============================================================================
