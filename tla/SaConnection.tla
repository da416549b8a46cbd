----------------------------- MODULE SaConnection -----------------------------
(***************************************************************************)
(* DataShareSAConnection (datashare_sa_connection.rs, sa_connection_ffi.rs):*)
(* a provider hosted by a system ability.  The interface code is fetched   *)
(* once, the provider asked for its proxy, a death recipient added and the *)
(* proxy kept, each without a lock over the whole; a recipient stays       *)
(* registered while its handle is kept.  Either the Rust object does all   *)
(* of it, or the C++ caller does it with the Rust steps and keeps the      *)
(* proxy itself; the provider's lives are epochs.                          *)
(***************************************************************************)
EXTENDS Integers, FiniteSets

CONSTANTS
    SaThreads,      \* threads that ask for the proxy
    MaxLives        \* bound: lives of the provider

VARIABLES
    route,          \* "own": write_proxy_remote; "ffi": the separate steps
    life, running,  \* the life of the provider, and whether it runs
    interface_info, \* FALSE while the code is INVALID_INTERFACE_CODE
    proxy,          \* the life of the proxy that is kept, 0 for None
    death_handle,   \* the life of the remote whose recipient is kept, 0 for None
    notice,         \* deaths not yet told
    at, got,        \* thread -> its step, and the life of the remote it holds
    crossed         \* a death came while a thread was connecting to the provider

saVars == <<route, life, running, interface_info, proxy, death_handle, notice, at, got, crossed>>

threadVars == <<at, got>>
lifeVars == <<life, running, notice, crossed>>
keptVars == <<interface_info, proxy, death_handle>>
Alive(n) == n = life /\ running
Step(t, from, to) == at[t] = from /\ at' = [at EXCEPT ![t] = to]

SaInit ==
    /\ route \in {"own", "ffi"} /\ life = 1 /\ running = TRUE
    /\ interface_info = FALSE /\ proxy = 0 /\ death_handle = 0 /\ notice = {}
    /\ at = [t \in SaThreads |-> "idle"] /\ got = [t \in SaThreads |-> 0] /\ crossed = FALSE

----------------------------------------------------------------------------
\* get_or_connect: a proxy that is kept is returned as it is.
GetOrConnect(t) ==
    /\ at[t] = "idle" /\ proxy = 0
    /\ at' = [at EXCEPT ![t] = "info"]
    /\ UNCHANGED got /\ UNCHANGED <<route, lifeVars, keptVars>>

\* ensure_interface_info: fetched from the data service, unless it is known; a
\* missing proxy, a failed request, an error or the invalid code end the call.
EnsureInterfaceInfo(t) ==
    /\ route = "own"
    /\ \/ Step(t, "info", "load") /\ interface_info' = TRUE
       \/ Step(t, "info", "idle") /\ ~interface_info /\ UNCHANGED interface_info
    /\ UNCHANGED <<route, lifeVars, proxy, death_handle, got>>

\* DataShareSAConnectionFetchInterfaceInfo: asked for each time; a descriptor
\* longer than the caller's buffer is an error.
FetchInterfaceInfo(t) ==
    /\ route = "ffi"
    /\ Step(t, "info", "load") \/ Step(t, "info", "idle")
    /\ UNCHANGED <<route, lifeVars, keptVars, got>>

\* check_system_ability, else load_system_ability: the provider's process is
\* started, or the wait ends without it.
CheckAndLoadSA(t) ==
    /\ \/ Step(t, "load", "ask") /\ running /\ UNCHANGED <<life, running>>
       \/ Step(t, "load", "ask") /\ ~running /\ life < MaxLives /\ life' = life + 1 /\ running' = TRUE
       \/ Step(t, "load", "idle") /\ ~running /\ UNCHANGED <<life, running>>
    /\ UNCHANGED <<route, keptVars, notice, crossed, got>>

\* The request with the uri: the provider answers with its proxy or an error.
ConnectToProvider(t) ==
    /\ \/ Step(t, "ask", "link") /\ running /\ got' = [got EXCEPT ![t] = life]
       \/ Step(t, "ask", "idle") /\ UNCHANGED got
    /\ UNCHANGED <<route, lifeVars, keptVars>>

\* add_death_recipient, whose handle replaces the one that was kept (and with it
\* the recipient); a remote that is dead already gives none.
LinkToDeath(t) ==
    /\ Step(t, "link", "store")
    /\ death_handle' = IF Alive(got[t]) THEN got[t] ELSE 0
    /\ UNCHANGED <<route, lifeVars, interface_info, proxy, got>>

StoreProxy(t) ==
    /\ Step(t, "store", "idle")
    /\ proxy' = got[t] /\ got' = [got EXCEPT ![t] = 0]
    /\ UNCHANGED <<route, lifeVars, interface_info, death_handle>>

----------------------------------------------------------------------------
ProviderDies ==
    /\ running /\ running' = FALSE
    /\ notice' = notice \cup ({death_handle} \cap {life})
    /\ crossed' = (crossed \/ \E t \in SaThreads : got[t] = life)
    /\ UNCHANGED <<route, life, keptVars, threadVars>>

\* The recipient clears the proxy; on_remote_died, which the C++ callback calls,
\* the handle as well, even when it is the one of a provider linked since.
OnRemoteDied ==
    \E n \in notice :
        /\ notice' = notice \ {n} /\ proxy' = 0
        /\ death_handle' = IF route = "ffi" THEN 0 ELSE death_handle
        /\ crossed' = (crossed \/ (route = "ffi" /\ death_handle \notin {0, n}))
        /\ UNCHANGED <<route, life, running, interface_info, threadVars>>

SaNext ==
    \/ \E t \in SaThreads : GetOrConnect(t) \/ EnsureInterfaceInfo(t) \/ FetchInterfaceInfo(t) \/ CheckAndLoadSA(t)
                           \/ ConnectToProvider(t) \/ LinkToDeath(t) \/ StoreProxy(t)
    \/ ProviderDies \/ OnRemoteDied

----------------------------------------------------------------------------
\* The proxy of a provider that died is forgotten, so that the next call connects
\* again: its recipient was registered before the proxy was kept and is kept with
\* it, whatever other threads connect at the same time.  Excused is a provider
\* that died between its answer and the store (no recipient can tell that), and
\* one whose recipient was dropped by the late callback for its predecessor.
DeadProviderIsForgotten ==
    proxy # 0 /\ ~Alive(proxy) /\ ~crossed => proxy \in notice
=============================================================================
