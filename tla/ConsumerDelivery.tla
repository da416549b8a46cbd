--------------------------- MODULE ConsumerDelivery ---------------------------
(***************************************************************************)
(* How a change reaches the observers of the Rust consumer: the three      *)
(* subscriber managers (RdbManager, PublishedManager, ProxyDataManager),   *)
(* the stubs the service calls (ObserverStub) and the items that carry a   *)
(* change through shared memory (PublishedItem).  They run side by side    *)
(* and share no state.                                                     *)
(***************************************************************************)
EXTENDS Integers, Sequences, FiniteSets

CONSTANTS
    Threads, Subs, MaxChange, RdbKeys, MaxRdbOps, PublishedKeys, MaxPublishedOps,
    ProxyUris, Reentrant, MaxProxyOps,
    Slots, Blobs, Texts, MaxHandles,
    StubKinds, Messages(_), MAX_VEC_SIZE, MaxRequests

\* Names that stand for "nothing" and for the holder that is no item are not
\* those of uris, keys and items.  A message has a list of items, a number of them
\* that it announces and, in a shared region, a number of reads that succeed.
ASSUME DeliveryAssumption ==
    /\ "none" \notin ProxyUris /\ "none" \notin PublishedKeys /\ <<>> \notin RdbKeys
    /\ "moved" \notin Slots
    /\ MAX_VEC_SIZE \in Nat
    /\ \A k \in StubKinds : \A m \in Messages(k) :
           /\ m.items \in Seq({m.items[i] : i \in DOMAIN m.items})
           /\ m.length \in Int /\ m.reads \in Nat

VARIABLES
    rdbCallbacks, rdbLastChange, rdbJob, emitting, rdbService, rdbLost, rdbChange, rdbSeen,
    rdbOwed, rdbExcused, missed, rdbOps,
    pubCallbacks, pubLastChange, pubJob, pubService, pubLost, pubChange, pubSeen, pubOwed,
    pubExcused, pubOps,
    pdCallbacks, locked, pending, stuck, asking, pdService, pdLost, failed, removed, pdChange,
    pdOps,
    value, handle, movedOut, inFlight, wants, itemGot,
    stub, callback, holder, clearing, binder, regions, requests

Rdb == INSTANCE RdbManager WITH
    callbacks <- rdbCallbacks, last_change_node_map <- rdbLastChange, job <- rdbJob,
    service <- rdbService, lost <- rdbLost, change <- rdbChange, seen <- rdbSeen,
    owed <- rdbOwed, excused <- rdbExcused, ops <- rdbOps, Keys <- RdbKeys, MaxOps <- MaxRdbOps
Pub == INSTANCE PublishedManager WITH
    callbacks <- pubCallbacks, last_change_node_map <- pubLastChange, job <- pubJob,
    service <- pubService, lost <- pubLost, change <- pubChange, seen <- pubSeen,
    owed <- pubOwed, excused <- pubExcused, ops <- pubOps, Keys <- PublishedKeys,
    MaxOps <- MaxPublishedOps
Pd == INSTANCE ProxyDataManager WITH
    callbacks <- pdCallbacks, service <- pdService, lost <- pdLost, change <- pdChange,
    ops <- pdOps, Uris <- ProxyUris, MaxOps <- MaxProxyOps
Item == INSTANCE PublishedItem WITH got <- itemGot
Stub == INSTANCE ObserverStub

rdbVars ==
    <<rdbCallbacks, rdbLastChange, rdbJob, emitting, rdbService, rdbLost, rdbChange, rdbSeen,
      rdbOwed, rdbExcused, missed, rdbOps>>
publishedVars ==
    <<pubCallbacks, pubLastChange, pubJob, pubService, pubLost, pubChange, pubSeen, pubOwed,
      pubExcused, pubOps>>
proxydataVars ==
    <<pdCallbacks, locked, pending, stuck, asking, pdService, pdLost, failed, removed, pdChange,
      pdOps>>
itemVars == <<value, handle, movedOut, inFlight, wants, itemGot>>
stubVars == <<stub, callback, holder, clearing, binder, regions, requests>>
deliveryVars == <<rdbVars, publishedVars, proxydataVars, itemVars, stubVars>>

DeliveryInit ==
    Rdb!RdbInit /\ Pub!PublishedInit /\ Pd!ProxyDataInit /\ Item!PublishedItemInit /\ Stub!StubInit

RdbStep == Rdb!RdbNext /\ UNCHANGED <<publishedVars, proxydataVars, itemVars, stubVars>>
PublishedStep == Pub!PublishedNext /\ UNCHANGED <<rdbVars, proxydataVars, itemVars, stubVars>>
ProxydataStep == Pd!ProxyDataNext /\ UNCHANGED <<rdbVars, publishedVars, itemVars, stubVars>>
ItemStep == Item!PublishedItemNext /\ UNCHANGED <<rdbVars, publishedVars, proxydataVars, stubVars>>
StubStep == Stub!StubNext /\ UNCHANGED <<rdbVars, publishedVars, proxydataVars, itemVars>>

DeliveryNext == RdbStep \/ PublishedStep \/ ProxydataStep \/ ItemStep \/ StubStep

DeliverySpec == DeliveryInit /\ [][DeliveryNext]_deliveryVars

----------------------------------------------------------------------------
\* An observer of the rdb or the published manager that is enabled has seen every
\* change that came while it was registered, once no call on its key is under way.
EnabledIsUpToDate == Rdb!EnabledIsUpToDate /\ Pub!EnabledIsUpToDate

\* Whatever has an observer that is enabled is subscribed at the service, in each
\* of the three managers, through refusals, rollbacks and restarts; each part names
\* the calls after which its manager does not notice that it is not.
ObservedIsSubscribed == Rdb!EnabledIsSubscribed /\ Pub!EnabledIsSubscribed /\ Pd!ObservedIsSubscribed

\* Once the callback of a stub is cleared, or an observer of proxy data removed,
\* it is not called again, not even by a delivery that was under way.
RemovedIsSilent == Stub!ClearedIsSilent /\ Pd!RemovedIsNotCalled

\* A shared region is open as long as exactly one item or node holds it, and the
\* one of a message is closed once before the callback runs.
RegionsHaveOneHolder == Item!RegionHasOneHolder /\ Stub!RegionIsReleased

\* What arrives through shared memory is what was put there: get_data gives what
\* the item was given, and a callback gets the items before the first damage of its
\* message as they were sent.
SharedDataArrives == Item!GetDataGivesSet /\ Stub!OnlySentIsDelivered
=============================================================================
