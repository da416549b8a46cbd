----------------------------- MODULE ExtConnection -----------------------------
(***************************************************************************)
(* DataShareConnection of the Rust consumer (datashare_connection.rs) and  *)
(* its C interface (connection_ffi.rs).  Every ConnectExt opens a session  *)
(* of its own with the ability manager, whose callbacks come from other    *)
(* threads; the handle that closes it is stored only after ConnectExt has  *)
(* returned.  A lost session is opened again, at once the first time and   *)
(* then by a sleeping task.                                                *)
(***************************************************************************)
EXTENDS Integers, Sequences, FiniteSets

CONSTANTS
    Callers,         \* threads in get_data_share_proxy
    ExtObservers,    \* what is kept in observer_exts_provider: observer and uri
    MAX_RECONNECT,   \* 6 in the code
    MaxSessions,     \* bound: sessions opened
    MaxUpdates       \* bound: changes of the observer map by the application

VARIABLES
    proxy, proxy_remote_raw, connection_handle,   \* a session, 0 for none
    is_invalid, is_reconnect, callback_active,
    reconnects,      \* ConnectionInfo::count
    observer_exts_provider,
    session,         \* the ability manager's view: session -> state
    work,            \* what a thread still has to do: [do, s, todo]
    caller,          \* thread -> "idle", "connect" or "wait"
    tasks,           \* sleeping tasks of delay_connect_ext_ability
    wanted,          \* observers registered, not unregistered, never refused
    overlap,         \* a session was opened beside another, or after the drop
    retries,         \* reconnections begun since the release and the last reset of the counter
    updates

connVars == <<proxy, proxy_remote_raw, connection_handle, is_invalid, is_reconnect, callback_active,
              reconnects, observer_exts_provider, session, work, caller, tasks, wanted, overlap,
              retries, updates>>

None == 0
Sessions == 1 .. MaxSessions
Work(do, s, todo) == [do |-> do, s |-> s, todo |-> todo]

ConnInit ==
    /\ proxy = None /\ proxy_remote_raw = None /\ connection_handle = None
    /\ is_invalid = FALSE /\ is_reconnect = FALSE /\ callback_active = TRUE
    /\ reconnects = 0 /\ observer_exts_provider = {} /\ session = <<>>
    /\ work = {} /\ caller = [t \in Callers |-> "idle"] /\ tasks = 0
    /\ wanted = {} /\ overlap = FALSE /\ retries = 0 /\ updates = 0

Open == {s \in DOMAIN session : session[s] \in {"connecting", "connected"}}
ToStore == {w.s : w \in {v \in work : v.do = "store"}}

\* DataShareConnectionConnectExt: a new session, whose handle is still to be
\* stored by the thread that called it.
ConnectExt(done) ==
    LET s == Len(session) + 1
    IN  /\ s <= MaxSessions
        /\ session' = Append(session, "connecting")
        /\ work' = (work \ done) \cup {Work("store", s, {})}
        /\ overlap' = (overlap \/ Open # {} \/ ToStore # {})

\* The handle is stored, over whatever was there; a task does so only while the
\* callbacks are active.
StoreHandle(w) ==
    /\ w \in work /\ w.do = "store"
    /\ connection_handle' = w.s
    /\ work' = work \ {w}
    /\ UNCHANGED <<proxy, proxy_remote_raw, is_invalid, is_reconnect, callback_active, reconnects,
                   observer_exts_provider, session, caller, tasks, wanted, overlap, retries, updates>>

----------------------------------------------------------------------------
\* get_data_share_proxy and connect_data_share_ext_ability: without a proxy a
\* session is opened, then the thread waits once, for the notification or the
\* timeout, and returns what is there.
GetDataShareProxy(t) ==
    /\ callback_active /\ caller[t] = "idle" /\ proxy = None
    /\ caller' = [caller EXCEPT ![t] = "connect"]
    /\ UNCHANGED <<proxy, proxy_remote_raw, connection_handle, is_invalid, is_reconnect, callback_active,
                   reconnects, observer_exts_provider, session, work, tasks, wanted, overlap, retries, updates>>

CallerConnects(t) ==
    /\ caller[t] = "connect"
    /\ ConnectExt({})
    /\ caller' = [caller EXCEPT ![t] = "wait"]
    /\ UNCHANGED <<proxy, proxy_remote_raw, connection_handle, is_invalid, is_reconnect, callback_active,
                   reconnects, observer_exts_provider, tasks, wanted, retries, updates>>

CallerReturns(t) ==
    /\ caller[t] = "wait" /\ ~ \E w \in work : w.do = "store"
    /\ caller' = [caller EXCEPT ![t] = "idle"]
    /\ UNCHANGED <<proxy, proxy_remote_raw, connection_handle, is_invalid, is_reconnect, callback_active,
                   reconnects, observer_exts_provider, session, work, tasks, wanted, overlap, retries, updates>>

\* The ability manager: a session is connected, or the extension dies, or a
\* session that was to be closed is closed; each is told by a callback, those of
\* one session in order.
AmsConnects(s) ==
    /\ session[s] = "connecting"
    /\ session' = [session EXCEPT ![s] = "connected"]
    /\ work' = work \cup {Work("on_connect", s, {})}
    /\ UNCHANGED <<proxy, proxy_remote_raw, connection_handle, is_invalid, is_reconnect, callback_active,
                   reconnects, observer_exts_provider, caller, tasks, wanted, overlap, retries, updates>>

AmsDisconnects(s) ==
    /\ session[s] \in {"connected", "closing"}
    /\ session' = [session EXCEPT ![s] = "closed"]
    /\ work' = work \cup {Work("on_disconnect", s, {})}
    /\ UNCHANGED <<proxy, proxy_remote_raw, connection_handle, is_invalid, is_reconnect, callback_active,
                   reconnects, observer_exts_provider, caller, tasks, wanted, overlap, retries, updates>>

----------------------------------------------------------------------------
\* Mutant: the handle is forgotten, its session not closed.
CloseHandleMutant == connection_handle' = None /\ UNCHANGED session

\* disconnect: without a proxy nothing; else the session of the stored handle is
\* closed.  The proxy itself stays until the callback.
CloseHandle ==
    /\ connection_handle' = None
    /\ session' = IF connection_handle # None /\ session[connection_handle] \in {"connecting", "connected"}
                  THEN [session EXCEPT ![connection_handle] = "closing"] ELSE session

Disconnect ==
    IF proxy = None THEN UNCHANGED <<proxy_remote_raw, connection_handle, session>>
    ELSE proxy_remote_raw' = None /\ CloseHandle

\* on_connect_ffi and the first half of on_ability_connect_done: the remote and
\* the proxy are stored and the waiting threads woken.
OnConnectFfi(w) ==
    /\ w \in work /\ w.do = "on_connect"
    /\ IF callback_active
       THEN /\ proxy_remote_raw' = w.s /\ proxy' = w.s
            /\ work' = (work \ {w}) \cup {Work("connected", w.s, {})}
       ELSE work' = work \ {w} /\ UNCHANGED <<proxy_remote_raw, proxy>>
    /\ UNCHANGED <<connection_handle, is_invalid, is_reconnect, callback_active, reconnects,
                   observer_exts_provider, session, caller, tasks, wanted, overlap, retries, updates>>

\* The second half: a released connection is closed again, a reconnected one
\* takes its observers out of the map to register them again.
OnAbilityConnectDone(w) ==
    /\ w \in work /\ w.do = "connected"
    /\ \/ /\ is_invalid /\ Disconnect
          /\ work' = work \ {w} /\ UNCHANGED observer_exts_provider
       \/ /\ ~is_invalid /\ is_reconnect
          /\ work' = (work \ {w}) \cup {Work("register", w.s, observer_exts_provider)}
          /\ observer_exts_provider' = {}
          /\ UNCHANGED <<proxy_remote_raw, connection_handle, session>>
       \/ /\ ~is_invalid /\ ~is_reconnect
          /\ work' = work \ {w}
          /\ UNCHANGED <<proxy_remote_raw, connection_handle, session, observer_exts_provider>>
    /\ UNCHANGED <<proxy, is_invalid, is_reconnect, callback_active, reconnects, caller, tasks, wanted,
                   overlap, retries, updates>>

\* re_register_observer_ext_provider: one observer; it is kept if that succeeds.
ReRegisterObserver(w) ==
    /\ w \in work /\ w.do = "register"
    /\ \E o \in w.todo :
         /\ work' = (work \ {w}) \cup {[w EXCEPT !.todo = @ \ {o}]}
         /\ \/ observer_exts_provider' = observer_exts_provider \cup {o} /\ UNCHANGED wanted
            \/ wanted' = wanted \ {o} /\ UNCHANGED observer_exts_provider
    /\ UNCHANGED <<proxy, proxy_remote_raw, connection_handle, is_invalid, is_reconnect, callback_active,
                   reconnects, session, caller, tasks, overlap, retries, updates>>

Reconnected(w) ==
    /\ w \in work /\ w.do = "register" /\ w.todo = {}
    /\ is_reconnect' = FALSE /\ reconnects' = 0 /\ retries' = 0
    /\ work' = work \ {w}
    /\ UNCHANGED <<proxy, proxy_remote_raw, connection_handle, is_invalid, callback_active,
                   observer_exts_provider, session, caller, tasks, wanted, overlap, updates>>

\* on_disconnect_ffi, on_ability_disconnect_done, reconnect_ext_ability and
\* delay_connect_ext_ability: the proxy is dropped and a session opened, at once
\* or by a task, whether or not the connection was released.
CountRetry == retries' = IF is_invalid THEN retries + 1 ELSE retries

OnDisconnectFfi(w) ==
    /\ w \in work /\ w.do = "on_disconnect" /\ Work("on_connect", w.s, {}) \notin work
    /\ IF callback_active THEN proxy' = None /\ proxy_remote_raw' = None
                          ELSE UNCHANGED <<proxy, proxy_remote_raw>>
    /\ \/ /\ callback_active /\ reconnects = 0
          /\ reconnects' = 1 /\ is_reconnect' = TRUE
          /\ ConnectExt({w}) /\ CountRetry /\ UNCHANGED tasks
       \/ /\ callback_active /\ reconnects > 0 /\ reconnects < MAX_RECONNECT
          /\ reconnects' = reconnects + 1 /\ is_reconnect' = TRUE
          /\ tasks' = tasks + 1 /\ work' = work \ {w} /\ CountRetry
          /\ UNCHANGED <<session, overlap>>
       \/ /\ ~callback_active \/ reconnects >= MAX_RECONNECT
          /\ work' = work \ {w}
          /\ UNCHANGED <<reconnects, is_reconnect, session, overlap, retries, tasks>>
    /\ UNCHANGED <<connection_handle, is_invalid, callback_active, observer_exts_provider, caller,
                   wanted, updates>>

\* A task wakes after RECONNECT_TIME_INTERVAL_MS.  It holds the raw address of
\* the connection: when that was dropped meanwhile, the session is opened on freed
\* memory and nothing stores its handle.
TaskWakes ==
    /\ tasks > 0 /\ tasks' = tasks - 1
    /\ IF callback_active THEN ConnectExt({})
       ELSE /\ Len(session) < MaxSessions
            /\ session' = Append(session, "connecting") /\ overlap' = TRUE
            /\ UNCHANGED work
    /\ UNCHANGED <<proxy, proxy_remote_raw, connection_handle, is_invalid, is_reconnect, callback_active,
                   reconnects, observer_exts_provider, caller, wanted, retries, updates>>

----------------------------------------------------------------------------
\* set_connect_invalid and then disconnect, two calls of the owner.
SetConnectInvalid ==
    /\ ~is_invalid /\ is_invalid' = TRUE
    /\ UNCHANGED <<proxy, proxy_remote_raw, connection_handle, is_reconnect, callback_active, reconnects,
                   observer_exts_provider, session, work, caller, tasks, wanted, overlap, retries, updates>>

OwnerDisconnects ==
    /\ is_invalid /\ callback_active /\ connection_handle # None
    /\ Disconnect
    /\ UNCHANGED <<proxy, is_invalid, is_reconnect, callback_active, reconnects, observer_exts_provider,
                   work, caller, tasks, wanted, overlap, retries, updates>>

\* Drop, when no thread is inside the connection: no callback acts any more, the
\* session of the stored handle is closed.  A sleeping task does not keep it alive.
DropConnection ==
    /\ is_invalid /\ callback_active
    /\ \A t \in Callers : caller[t] = "idle"
    /\ {w \in work : w.do \notin {"on_connect", "on_disconnect"}} = {}
    /\ callback_active' = FALSE
    /\ CloseHandle
    /\ UNCHANGED <<proxy, proxy_remote_raw, is_invalid, is_reconnect, reconnects, observer_exts_provider,
                   work, caller, tasks, wanted, overlap, retries, updates>>

\* update_ and delete_observer_exts_provider_map.
UpdateObserverMap(o) ==
    /\ callback_active /\ updates < MaxUpdates /\ updates' = updates + 1
    /\ observer_exts_provider' = observer_exts_provider \cup {o} /\ wanted' = wanted \cup {o}
    /\ UNCHANGED <<proxy, proxy_remote_raw, connection_handle, is_invalid, is_reconnect, callback_active,
                   reconnects, session, work, caller, tasks, overlap, retries>>

DeleteObserverMap(o) ==
    /\ callback_active /\ updates < MaxUpdates /\ updates' = updates + 1
    /\ observer_exts_provider' = observer_exts_provider \ {o} /\ wanted' = wanted \ {o}
    /\ UNCHANGED <<proxy, proxy_remote_raw, connection_handle, is_invalid, is_reconnect, callback_active,
                   reconnects, session, work, caller, tasks, overlap, retries>>

ConnNext ==
    \/ \E t \in Callers : GetDataShareProxy(t) \/ CallerConnects(t) \/ CallerReturns(t)
    \/ \E s \in DOMAIN session : AmsConnects(s) \/ AmsDisconnects(s)
    \/ \E w \in work :
         \/ StoreHandle(w) \/ OnConnectFfi(w) \/ OnAbilityConnectDone(w)
         \/ ReRegisterObserver(w) \/ Reconnected(w) \/ OnDisconnectFfi(w)
    \/ TaskWakes \/ SetConnectInvalid \/ OwnerDisconnects \/ DropConnection
    \/ \E o \in ExtObservers : UpdateObserverMap(o) \/ DeleteObserverMap(o)

----------------------------------------------------------------------------
\* A session that is open can still be closed: its handle is stored or about to
\* be, unless a session was opened while another was open or its handle not yet
\* stored (a caller connects while a reconnection does; then one handle is
\* stored over the other) or by a task that slept through the drop.
OpenSessionIsHeld == overlap \/ Open \subseteq ToStore \cup {connection_handle}

\* An observer the application registered, did not unregister and whose
\* registration the extension did not refuse outlives every reconnection: it is
\* in the map, or a thread is about to register it again.
ReconnectKeepsObservers ==
    wanted \subseteq observer_exts_provider \cup UNION {w.todo : w \in work}

\* Closing a released connection calls back, and the callback opens it again;
\* but a session of a released connection never resets the counter, so that at
\* most MAX_RECONNECT reconnections follow the release (or the reset by a thread
\* that had looked at is_invalid before it).
ReleasedGivesUp == retries <= MAX_RECONNECT
=============================================================================
