------------------------------ MODULE AniValues ------------------------------
(***************************************************************************)
(* The conversions of the ArkTS binding (frameworks/ets/ani/src): values   *)
(* cross the cxx bridge one call per key, batches as flat vectors with the *)
(* length of every group, maps of proxy data by index.  One step is one    *)
(* leg, in Rust or in C++; what arrives is compared with what was sent.    *)
(***************************************************************************)
EXTENDS Integers, Sequences, FiniteSets, Functions, SequencesExt, FiniteSetsExt

CONSTANTS
    AniUris,         \* uris of a batch
    AniOps,          \* operations of a batch: [predicates, values], values a bucket
    AniCodes,        \* codes of the results of a batch
    MaxPerUri,       \* bound: operations per uri
    AniBuckets,      \* values buckets: functions from keys to <<type, value>>
    MaxBuckets,      \* bound: buckets of a request
    AniChanges,      \* changes of proxy data: [type, uri, value, values], values <<>> or <<a sequence>>
    MaxChanges,      \* bound: changes of a notification
    AniMaps          \* maps of proxy data: functions from integers to <<type, value>>

VARIABLES leg, sent, flat, got
aniVars == <<leg, sent, flat, got>>

SeqUpTo(S, n) == UNION {[1 .. k -> S] : k \in 0 .. n}
Batches(S) == UNION {[U -> SeqUpTo(S, MaxPerUri)] : U \in SUBSET AniUris}
NoFlat == [keys |-> <<>>, steps |-> <<>>, items |-> <<>>]
Nothing == <<>>

----------------------------------------------------------------------------
\* data_share_batch_update_param_in_get_value and
\* extension_batch_update_param_in_get_value: a HashMap is walked in any order,
\* the groups are laid end to end and their lengths kept.
GetValue(groups, order) ==
    [keys  |-> order,
     steps |-> [i \in DOMAIN order |-> Len(groups[order[i]])],
     items |-> FlattenSeq([i \in DOMAIN order |-> groups[order[i]]])]

Orders(S) == {s \in [1 .. Cardinality(S) -> S] : Range(s) = S}

\* Mutant: every uri begins at the first operation.
StepsBeforeMutant(f, i) == 0

\* The loops that read such vectors, in Rust (param_out_set_value) and in C++: the
\* i-th key has the items behind those of the keys before it.
StepsBefore(f, i) == FoldFunctionOnSet(+, 0, f.steps, 1 .. i - 1)
SetValue(f) ==
    [u \in Range(f.keys) |->
        LET i == CHOOSE j \in DOMAIN f.keys : f.keys[j] = u
        IN  SubSeq(f.items, StepsBefore(f, i) + 1, StepsBefore(f, i) + f.steps[i])]

\* DataShareNativeBatchUpdateGetOperations: operation j of a uri keeps of its values
\* one pair, the j-th of its own bucket, which was a HashMap and may come in any
\* order; what is read behind the end of a bucket is undefined.
NoKey == -1
KeysAt(bucket, j) == IF j > Cardinality(DOMAIN bucket) THEN {NoKey} ELSE DOMAIN bucket
OnePair(bucket, k) == k :> (IF k = NoKey THEN <<"undefined", "">> ELSE bucket[k])
GetOperations(groups) ==
    LET places == UNION {{u} \X DOMAIN groups[u] : u \in DOMAIN groups}
        bucket(p) == groups[p[1]][p[2]].values
        keys == {NoKey} \cup UNION {DOMAIN bucket(p) : p \in places}
    IN  {[u \in DOMAIN groups |->
             [j \in DOMAIN groups[u] |->
                 [groups[u][j] EXCEPT !.values = OnePair(@, at[<<u, j>>])]]] :
            at \in {a \in [places -> keys] : \A p \in places : a[p] \in KeysAt(bucket(p), p[2])}}

\* values_bucket_array_push_kv: a new map when asked for, or when there is none.
PushKv(maps, k, v, new_hashmap) ==
    IF new_hashmap \/ maps = <<>> THEN Append(maps, (k :> v))
    ELSE [maps EXCEPT ![Len(maps)] = (k :> v) @@ @]

\* PushBucketsArray asks for a new map with the first key of a bucket.
Pairs(b) ==
    LET keys == SetToSortSeq(DOMAIN b, LAMBDA x, y : x < y)
    IN  [i \in DOMAIN keys |-> [k |-> keys[i], v |-> b[keys[i]], first |-> i = 1]]
PushBuckets(buckets) ==
    FoldLeft(LAMBDA maps, p : PushKv(maps, p.k, p.v, p.first), <<>>,
             FlattenSeq([i \in DOMAIN buckets |-> Pairs(buckets[i])]))

\* PushBucket of a change: only a boolean asks for a new map, and an integer
\* becomes a number.
ChangeInfoPushKv(maps, p) ==
    PushKv(maps, p.k, IF p.v[1] = "i64" THEN <<"f64", p.v[2]>> ELSE p.v, p.v[1] = "bool")
ConvertChangeInfo(buckets) ==
    FoldLeft(ChangeInfoPushKv, <<>>, FlattenSeq([i \in DOMAIN buckets |-> Pairs(buckets[i])]))

\* ChangeType::from_i32, and a change pushed with its value; a multi-valued one
\* then gets an empty list, to which its values are pushed.
ChangeTypeFrom(i) == IF i \in 0 .. 3 THEN i ELSE 3
DataProxyChangeInfoPush(node, c) ==
    Append(node, [type |-> ChangeTypeFrom(c.type), uri |-> c.uri, value |-> c.value, values |-> <<>>])
SetValuesEmpty(node) == IF node = <<>> THEN node ELSE [node EXCEPT ![Len(node)].values = << <<>> >>]
PushValue(node, v) ==
    IF node = <<>> \/ Last(node).values = <<>> THEN node
    ELSE [node EXCEPT ![Len(node)].values = << Append(@[1], v) >>]
ConvertProxyChanges(changes) ==
    LET one(node, c) ==
            LET pushed == DataProxyChangeInfoPush(node, c) IN
            IF c.values = <<>> THEN pushed ELSE FoldLeft(PushValue, SetValuesEmpty(pushed), c.values[1])
    IN  FoldLeft(one, <<>>, changes)

\* ani_proxy_data_get_values_*_at: the keys are sorted by every call.
SortedKeys(m) == SetToSortSeq(DOMAIN m, LAMBDA x, y : x < y)
ValuesKeyAt(m, i) == SortedKeys(m)[i]
ValuesTypeAt(m, i) == m[SortedKeys(m)[i]][1]
ValuesAt(m, i, type) ==
    LET v == m[SortedKeys(m)[i]] IN IF v[1] = type THEN v ELSE <<type, "default">>

\* ConvertMultiValues: key, type and value of every index.
ConvertMultiValues(m) ==
    LET n == Cardinality(DOMAIN m)
        index(k) == CHOOSE i \in 1 .. n : ValuesKeyAt(m, i) = k
    IN  [k \in {ValuesKeyAt(m, i) : i \in 1 .. n} |->
            ValuesAt(m, index(k), ValuesTypeAt(m, index(k)))]

----------------------------------------------------------------------------
AniInit == leg = "start" /\ sent = Nothing /\ flat = NoFlat /\ got = Nothing

\* A batch update: from the ArkTS caller into C++, ...
SendBatch ==
    /\ leg = "start" /\ leg' = "batch"
    /\ \E b \in Batches(AniOps) :
         sent' = b /\ \E order \in Orders(DOMAIN b) : flat' = GetValue(b, order)
    /\ UNCHANGED got

\* ... where it is made into operations again, ...
NativeBatchUpdate ==
    /\ leg = "batch" /\ leg' = "operations"
    /\ got' \in GetOperations(SetValue(flat))
    /\ UNCHANGED <<sent, flat>>

\* ... and from the C++ of the extension to its ArkTS handler.
ReceiveBatch ==
    /\ leg = "operations" /\ leg' = "received"
    /\ \E order \in Orders(DOMAIN got) :
         flat' = GetValue(got, order) /\ got' = SetValue(flat')
    /\ UNCHANGED sent

\* The codes of its results on their way back.
SendCodes ==
    /\ leg = "start" /\ leg' = "codes"
    /\ \E c \in Batches(AniCodes) :
         sent' = c /\ \E order \in Orders(DOMAIN c) : flat' = GetValue(c, order)
    /\ UNCHANGED got

ReceiveCodes ==
    /\ leg = "codes" /\ leg' = "answered"
    /\ got' = SetValue(flat)
    /\ UNCHANGED <<sent, flat>>

\* A batch insert.
BatchInsert ==
    /\ leg = "start" /\ leg' = "buckets"
    /\ \E buckets \in SeqUpTo(AniBuckets, MaxBuckets) :
         sent' = buckets /\ got' = PushBuckets(buckets)
    /\ UNCHANGED flat

PublishMap ==
    /\ leg = "start" /\ leg' = "map"
    /\ \E m \in AniMaps : sent' = m /\ got' = ConvertMultiValues(m)
    /\ UNCHANGED flat

\* A change of a provider, and changes of proxy data, on their way to a callback.
NotifyChangeInfo ==
    /\ leg = "start" /\ leg' = "changeinfo"
    /\ \E buckets \in SeqUpTo(AniBuckets, MaxBuckets) :
         sent' = buckets /\ got' = ConvertChangeInfo(buckets)
    /\ UNCHANGED flat

NotifyProxyData ==
    /\ leg = "start" /\ leg' = "changes"
    /\ \E changes \in SeqUpTo(AniChanges, MaxChanges) :
         sent' = changes /\ got' = ConvertProxyChanges(changes)
    /\ UNCHANGED flat

AniAgain ==
    /\ leg \in {"received", "answered", "buckets", "map", "changeinfo", "changes"} /\ leg' = "start"
    /\ sent' = Nothing /\ flat' = NoFlat /\ got' = Nothing

AniNext ==
    \/ SendBatch \/ NativeBatchUpdate \/ ReceiveBatch \/ SendCodes \/ ReceiveCodes
    \/ BatchInsert \/ PublishMap \/ NotifyChangeInfo \/ NotifyProxyData \/ AniAgain

----------------------------------------------------------------------------
\* Every uri of a batch arrives with the predicates of its own operations and comes
\* back with its own codes, in their order, whatever order the map was walked in
\* and though some uris may have none.  Of the values of an operation only this much
\* is kept: one of its own pairs, if it has as many as its place in the group.
BatchKeepsGroups ==
    /\ leg = "answered" => got = sent
    /\ leg \in {"operations", "received"} =>
         /\ DOMAIN got = DOMAIN sent
         /\ \A u \in DOMAIN sent :
              /\ DOMAIN got[u] = DOMAIN sent[u]
              /\ \A j \in DOMAIN sent[u] :
                   /\ got[u][j].predicates = sent[u][j].predicates
                   /\ \E k \in KeysAt(sent[u][j].values, j) :
                         got[u][j].values = OnePair(sent[u][j].values, k)

\* A batch of buckets arrives bucket by bucket - an empty one is lost -, a map of
\* proxy data with the type and the value of every key, and every change of proxy
\* data with its own values.  Of the change of a provider, whose buckets are run
\* together, only this much is kept: no value is made up and no key is lost.
ValuesArrive ==
    /\ leg = "buckets" => got = SelectSeq(sent, LAMBDA b : DOMAIN b # {})
    /\ leg = "map" => got = sent
    /\ leg = "changes" =>
         got = [i \in DOMAIN sent |-> [sent[i] EXCEPT !.type = ChangeTypeFrom(@)]]
    /\ leg = "changeinfo" =>
         /\ \A i \in DOMAIN got : \A k \in DOMAIN got[i] :
               \E j \in DOMAIN sent : k \in DOMAIN sent[j] /\ sent[j][k][2] = got[i][k][2]
         /\ \A j \in DOMAIN sent : \A k \in DOMAIN sent[j] :
               \E i \in DOMAIN got : k \in DOMAIN got[i]
=============================================================================
