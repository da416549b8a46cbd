----------------------------- MODULE PeerRecovery -----------------------------
(***************************************************************************)
(* How the Rust consumer gets over the death of what it talks to: the data *)
(* service (ServiceRecovery), an extension (ExtConnection) and a provider  *)
(* hosted by a system ability (SaConnection).  The three run side by side  *)
(* and share no state.                                                     *)
(***************************************************************************)
EXTENDS Integers, Sequences, FiniteSets

CONSTANTS
    RecoveryThreads, Controllers, ObserverUris, Observers, MaxEpoch, MaxRecoveryCalls,
    Callers, ExtObservers, MAX_RECONNECT, MaxSessions, MaxUpdates,
    SaThreads, MaxLives

ASSUME PeerRecoveryAssumption == MAX_RECONNECT \in Nat \ {0}

VARIABLES
    epoch, up, watched, notices, added, service_proxy, kv_service, pc, mine, alive,
    recoveryCallbacks, recovery, observers, observersWanted, raced, recoveryCalls,
    extProxy, proxy_remote_raw, connection_handle, is_invalid, is_reconnect, callback_active,
    reconnects, observer_exts_provider, session, work, caller, tasks, extWanted, overlap,
    retries, updates,
    route, life, running, interface_info, saProxy, death_handle, notice, at, saGot, crossed

Rec == INSTANCE ServiceRecovery WITH
    callbacks <- recoveryCallbacks, wanted <- observersWanted, calls <- recoveryCalls,
    Threads <- RecoveryThreads, Uris <- ObserverUris, MaxCalls <- MaxRecoveryCalls
Conn == INSTANCE ExtConnection WITH proxy <- extProxy, wanted <- extWanted
Sa == INSTANCE SaConnection WITH proxy <- saProxy, got <- saGot

recoveryVars ==
    <<epoch, up, watched, notices, added, service_proxy, kv_service, pc, mine, alive,
      recoveryCallbacks, recovery, observers, observersWanted, raced, recoveryCalls>>
connectionVars ==
    <<extProxy, proxy_remote_raw, connection_handle, is_invalid, is_reconnect, callback_active,
      reconnects, observer_exts_provider, session, work, caller, tasks, extWanted, overlap,
      retries, updates>>
saVars ==
    <<route, life, running, interface_info, saProxy, death_handle, notice, at, saGot, crossed>>
peerVars == <<recoveryVars, connectionVars, saVars>>

PeerInit == Rec!RecoveryInit /\ Conn!ConnInit /\ Sa!SaInit

RecoveryStep == Rec!RecoveryNext /\ UNCHANGED <<connectionVars, saVars>>
ConnectionStep == Conn!ConnNext /\ UNCHANGED <<recoveryVars, saVars>>
SaStep == Sa!SaNext /\ UNCHANGED <<recoveryVars, connectionVars>>

PeerNext == RecoveryStep \/ ConnectionStep \/ SaStep

PeerSpec == PeerInit /\ [][PeerNext]_peerVars

----------------------------------------------------------------------------
\* The proxy of a service or of a system ability that died is dropped as soon as
\* its death is told, whatever threads were obtaining or storing one meanwhile; the
\* two parts name the deaths that nothing tells.
DeadPeerIsForgotten == Rec!DeadProxyIsDropped /\ Sa!DeadProviderIsForgotten

\* The recovery of the data service never runs the callback of a controller that
\* was dropped, whose address the callback keeps.
CallbackUsesLiveController == Rec!CallbackUsesLiveController

\* No observer that is registered is lost by a recovery after the restart of the
\* service, nor by the reconnection of an extension, whatever is registered and
\* unregistered meanwhile.
RecoveryKeepsObservers == Rec!RecoveryKeepsObservers /\ Conn!ReconnectKeepsObservers

\* An open session of an extension connection can still be closed, and a released
\* connection gives up after MAX_RECONNECT reconnections.
SessionsEnd == Conn!OpenSessionIsHeld /\ Conn!ReleasedGivesUp
=============================================================================
