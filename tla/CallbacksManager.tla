--------------------------- MODULE CallbacksManager ---------------------------
(***************************************************************************)
(* The registry of observers shared by the three subscriber managers       *)
(* (frameworks/native/common/include/callbacks_manager.h).                 *)
(*                                                                         *)
(* callbacks_ maps a key (uri plus template or subscriber id) to a vector  *)
(* of ObserverNode.  Here a registry is a function from Keys to sets of    *)
(* nodes.  Two facts of the code make that exact:                          *)
(*   - an entry with an empty vector never outlives a lock section         *)
(*     (DelObservers erases the keys whose vectors became empty before it  *)
(*     unlocks), so "key not in the map" is the empty set;                 *)
(*   - every AddObservers call makes one new Observer and appends it, so   *)
(*     numbering observers in the order of the calls makes the vector's    *)
(*     order the order of the numbers ("the first node" is the least one). *)
(*                                                                         *)
(* Every operator below is the body of one lock section: a function of the *)
(* registry before to the registry after, or to what the section collects. *)
(***************************************************************************)
EXTENDS Naturals

CONSTANTS Keys,         \* what can be observed
          Subscribers   \* the helpers (void *subscriber) that own observers

\* ObserverNode; an observer is named by its registration number.
ObserverNode ==
    [observer : Nat, subscriber : Subscribers,
     enabled : BOOLEAN, isNotifyOnEnabled : BOOLEAN]

\* The type of callbacks_.
Registry == [Keys -> SUBSET ObserverNode]

\* The node AddObservers appends: enabled, nothing to catch up on.
NewNode(s, o) ==
    [observer |-> o, subscriber |-> s,
     enabled |-> TRUE, isNotifyOnEnabled |-> FALSE]

-----------------------------------------------------------------------------
(* Queries. *)

\* GetKeys
GetKeys(cbs) == {k \in Keys : cbs[k] # {}}

\* GetEnabledObservers
GetEnabledObservers(cbs, k) ==
    {n.observer : n \in {m \in cbs[k] : m.enabled}}

\* "GetEnabledObservers(key) is not empty", the test every operation makes.
HasEnabled(cbs, k) == \E n \in cbs[k] : n.enabled

\* The nodes subscriber s has under key k.
NodesOf(cbs, k, s) == {n \in cbs[k] : n.subscriber = s}

\* The node std::find_if returns: the first of the subscriber's nodes.
FirstNode(cbs, k, s) ==
    CHOOSE n \in NodesOf(cbs, k, s) :
        \A m \in NodesOf(cbs, k, s) : n.observer <= m.observer

\* IsObserversNotifiedOnEnabled: the flag of the observer's node, now.
IsObserversNotifiedOnEnabled(cbs, k, o) ==
    \E n \in cbs[k] : n.observer = o /\ n.isNotifyOnEnabled

-----------------------------------------------------------------------------
(* Registration. *)

\* Mutant: asks whether anybody is registered, not whether anybody is enabled.
FirstRegisterKeysMutant(cbs, ks) == {k \in ks : cbs[k] = {}}

\* AddObservers: the keys nobody listens to yet, for which the service must be
\* asked; the other keys are registered locally only.
FirstRegisterKeys(cbs, ks) == {k \in ks : ~HasEnabled(cbs, k)}

AddNodes(cbs, ks, s, o) ==
    [k \in Keys |-> IF k \in ks THEN cbs[k] \cup {NewNode(s, o)} ELSE cbs[k]]

\* DelObservers: every node of the subscriber goes; the keys left without a
\* node (lastDelKeys) leave the map.
LastDelKeys(cbs, ks, s) ==
    {k \in ks : cbs[k] # {} /\ NodesOf(cbs, k, s) = cbs[k]}

DelNodes(cbs, ks, s) ==
    [k \in Keys |-> IF k \in ks THEN cbs[k] \ NodesOf(cbs, k, s) ELSE cbs[k]]

-----------------------------------------------------------------------------
(* Enabling and disabling. *)

\* EnableObservers: the keys where the subscriber's first node is disabled.
EnableKeys(cbs, ks, s) ==
    {k \in ks : NodesOf(cbs, k, s) # {} /\ ~FirstNode(cbs, k, s).enabled}

\* Only that first node is switched on; its flag is left as it is.
EnableNodes(cbs, ks, s) ==
    [k \in Keys |->
        IF k \in EnableKeys(cbs, ks, s)
        THEN {IF n = FirstNode(cbs, k, s) THEN [n EXCEPT !.enabled = TRUE] ELSE n :
                n \in cbs[k]}
        ELSE cbs[k]]

\* sendServiceKeys: of those, the keys that had no enabled observer.
SendServiceKeys(cbs, ks, s) ==
    {k \in EnableKeys(cbs, ks, s) : ~HasEnabled(cbs, k)}

\* Mutant: the flag is cleared before it is copied.
RefreshObserversMutant(cbs, ks, s) ==
    {[key |-> k, observer |-> FirstNode(cbs, k, s).observer,
      isNotifyOnEnabled |-> FALSE] : k \in EnableKeys(cbs, ks, s)}

\* refreshObservers: who may have to be told of a change it missed, with the
\* flag as it was in this lock section.
RefreshObservers(cbs, ks, s) ==
    {[key |-> k, observer |-> FirstNode(cbs, k, s).observer,
      isNotifyOnEnabled |-> FirstNode(cbs, k, s).isNotifyOnEnabled] :
        k \in EnableKeys(cbs, ks, s)}

\* DisableObservers acts on a key with an enabled observer and a node of s.
DisableKeys(cbs, ks, s) ==
    {k \in ks : HasEnabled(cbs, k) /\ NodesOf(cbs, k, s) # {}}

\* Every enabled node of the subscriber is switched off and its flag cleared.
DisableNode(n, s) ==
    IF n.subscriber = s /\ n.enabled
    THEN [n EXCEPT !.enabled = FALSE, !.isNotifyOnEnabled = FALSE]
    ELSE n

DisableNodes(cbs, ks, s) ==
    [k \in Keys |-> IF k \in DisableKeys(cbs, ks, s)
                    THEN {DisableNode(n, s) : n \in cbs[k]}
                    ELSE cbs[k]]

\* Mutant: does not look whether another observer is still enabled.
LastDisabledKeysMutant(cbs, ks, s) == DisableKeys(cbs, ks, s)

\* lastDisabledKeys: the keys left without an enabled observer.
LastDisabledKeys(cbs, ks, s) ==
    {k \in DisableKeys(cbs, ks, s) : ~HasEnabled(DisableNodes(cbs, ks, s), k)}

-----------------------------------------------------------------------------
(* The marks a change leaves behind. *)

\* Mutant: a disabled observer is not marked.
SetNotifiedOnMutant(cbs, k) ==
    [cbs EXCEPT ![k] = {[n EXCEPT !.isNotifyOnEnabled = FALSE] : n \in cbs[k]}]

\* GetObserversAndSetNotifiedOn: an enabled node will be notified, so its flag
\* is cleared; a disabled one has something to catch up on.
SetNotifiedOn(cbs, k) ==
    [cbs EXCEPT ![k] = {[n EXCEPT !.isNotifyOnEnabled = ~n.enabled] : n \in cbs[k]}]

\* SetObserversNotifiedOnEnabled: only the disabled nodes are marked.
SetObserversNotifiedOnEnabled(cbs, k) ==
    [cbs EXCEPT ![k] =
        {IF n.enabled THEN n ELSE [n EXCEPT !.isNotifyOnEnabled = TRUE] : n \in cbs[k]}]

=============================================================================
