------------------------------ MODULE MCConsumer ------------------------------
(***************************************************************************)
(* The components of the Rust consumer and of the values and messages it   *)
(* exchanges, for TLC: the C interfaces, the call reporter, the recovery   *)
(* from the death of a peer (PeerRecovery), the way of a change to its     *)
(* observers (ConsumerDelivery), messages and the values of the ArkTS      *)
(* binding.  Each keeps its own state: a behaviour is one of one of them,  *)
(* which Init chooses, and the others stay as they begin.                  *)
(***************************************************************************)
EXTENDS PeerRecovery, ConsumerDelivery, CallReporter, TLC

CONSTANTS
    Parts,           \* the components of the run
    MaxPredicateOps, MaxIpcSize, Fields,
    AniUris, AniCodes, MaxPerUri, MaxBuckets, MaxChanges

VARIABLES
    part,
    helper, system, last,
    pred, msg, wire, received,
    leg, sent, flat, arrived

----------------------------------------------------------------------------
\* Two templates on one uri.
TwoTemplates == {<<"u", "a">>, <<"u", "b">>}

\* Messages to a stub: of two items, each whole or damaged, which announce their
\* number, a negative one, one too small or too large; without the token, of another
\* code, cut short; and for rdb, in a shared region that ends after any read.
Items == {<<[text |-> "x", ok |-> a], [text |-> "y", ok |-> b]>> : a, b \in BOOLEAN}
Message(token, code, whole, items, shared, length, reads) ==
    [token |-> token, code |-> code, whole |-> whole, items |-> items, shared |-> shared,
     length |-> length, reads |-> reads]
StubMessages(kind) ==
    {Message(FALSE, 0, TRUE, i, FALSE, 2, 0) : i \in Items}
    \cup {Message(TRUE, c, w, i, FALSE, l, 0) :
             c \in 0 .. 1, w \in BOOLEAN, i \in Items, l \in -1 .. 3}
    \cup {Message(TRUE, 0, TRUE, i, TRUE, l, r) :
             i \in {j \in Items : kind = "rdb"}, l \in -1 .. 4, r \in 0 .. 7}

\* Texts of predicates: a column, a qualified one, one of too many parts, a path
\* into a JSON column, one that is no name and one of empty brackets.
Shape == [
    col |-> [parts |-> <<"word">>], bad |-> [parts |-> <<"bad">>], brackets |-> [parts |-> <<>>],
    deep |-> [parts |-> <<"word", "word", "word", "word">>], json |-> [parts |-> <<"$", "word">>],
    text |-> [parts |-> <<"bad">>]]
W == INSTANCE ParcelCodec
SampleSingles == {W!Val("Int", 7), W!Val("String", "text"), W!Val("Blob", 1)}
SampleLists == {
    <<>>, <<W!Val("String", "col"), W!Val("String", "bad")>>,
    <<W!Val("Int", 1), W!Val("Long", 2), W!Val("Int", 3)>>, <<W!Val("Bool", TRUE)>>}
Bucket == << <<"k", <<1, 5>>>>, <<"b", <<5, <<1, 2>>>>>>, <<"n", <<0, <<>>>>>> >>
OnePredicate == W!Fieldwise(W!Compare(W!NewPredicates, "EqualTo", "col", W!Val("Int", 1)))
\* For every other layout, values with every optional field present and absent.
Samples == [
    UpdateOperations |->
        {<<>>, << <<"u", << <<Bucket, OnePredicate>>, << <<>>, OnePredicate>> >>>>, <<"v", <<>>>> >>},
    BatchUpdateResult |-> {<<"u", <<1, -1>>>>},
    ExecResultSet |-> {<<2, << <<0, 1, "m">>, <<2, 0, "">> >>>>},
    ChangeInfo |-> {<<4, <<"u", "v">>, <<>>, <<Bucket, <<>>>>>>, <<0, <<>>, <<3>>, <<>>>>},
    PublishedData |-> {
        << << <<"k", 1, <<0, "mem">>>>, <<"l", 2, <<1, "s">>>> >>, 3>>,
        << << <<"k", 1, <<0, W!NoAshmem>>>> >>, 3>>},
    OperationResult |-> {<<"k", 0>>},
    DataProxyConfig |-> {<<0, 4096>>, <<0, 102400>>},
    DataShareProxyData |-> {<<"u", <<2, "v">>, FALSE, <<"a", "b">>, TRUE>>},
    DataProxyResult |-> {<<3, "u">>},
    DataProxyGetResult |-> {<<0, "u", <<3, TRUE>>, <<"a">>>>},
    DataProxyChangeInfo |-> {<<2, "u", <<0, 9>>>>},
    RdbChangeNode |-> {
        <<"u", <<1, "b">>, <<"d">>, <<TRUE, "mem">>, 1>>,
        <<"u", <<1, "b">>, <<>>, <<FALSE, W!NoAshmem>>, 0>>,
        <<"u", <<1, "b">>, <<>>, <<TRUE, W!NoAshmem>>, 0>>},
    Template |-> {<<"UPDATE", << <<"k", "s">> >>, "sch">>},
    ProxyDataBlob |-> {
        <<>>,
        << <<"u", << <<FALSE, <<2, "v">>>>, <<TRUE, <<>>>> >>>>,
           <<"v", << <<TRUE, <<>>>>, <<FALSE, <<"a", "b">>>> >>>> >>},
    ProxyGetResultBlob |-> {<< <<"u", 0, <<3, TRUE>>, <<"a">>>>, <<"v", 3, <<0, 1>>, <<>>>> >>}]

\* Empty buckets, one key and two, and a boolean, which begins a bucket anew.
AniBuckets == {
    <<>>, 1 :> <<"i64", "1">>, 1 :> <<"i64", "1">> @@ 2 :> <<"bool", "true">>, 2 :> <<"str", "x">>}
\* An operation with two values and one with a single one.
AniOps == {
    [predicates |-> "p", values |-> 1 :> <<"str", "Tom">> @@ 2 :> <<"i64", "30">>],
    [predicates |-> "q", values |-> 1 :> <<"i64", "1">>]}
AniMaps == {
    <<>>, 3 :> <<"i64", "1">>, 3 :> <<"str", "a">> @@ 1 :> <<"i64", "7">>,
    0 :> <<"str", "a">> @@ 5 :> <<"bool", "true">> @@ 2 :> <<"i64", "7">>}
Change(t, u, v, vs) == [type |-> t, uri |-> u, value |-> v, values |-> vs]
AniChanges == {
    Change(0, "u", <<"i64", "1">>, <<>>),
    Change(7, "v", <<"str", "a">>, << << <<"i64", "1">>, <<"str", "b">> >> >>),
    Change(1, "u", <<"bool", "true">>, << <<>> >>)}

----------------------------------------------------------------------------
C == INSTANCE ControllerFfi
Wire == INSTANCE WireTransfer WITH got <- received, MaxOps <- MaxPredicateOps
Ani == INSTANCE AniValues WITH got <- arrived

callVars == <<helper, system, last>>
wireVars == <<pred, msg, wire, received>>
aniVars == <<leg, sent, flat, arrived>>
vars ==
    <<part, callVars, reporterVars, peerVars, deliveryVars, wireVars, aniVars>>

Init ==
    /\ part \in Parts
    /\ C!HelperInit
    /\ ReporterInit
    /\ PeerInit /\ (part # "sa" => route = "own")
    /\ DeliveryInit /\ (part # "stub" => stub = [kind |-> "rdb", ffi |-> FALSE])
    /\ Wire!WireInit
    /\ Ani!AniInit

CallStep ==
    /\ part = "call" /\ C!CInterfaceNext
    /\ UNCHANGED <<part, reporterVars, peerVars, deliveryVars, wireVars, aniVars>>
ReporterStep ==
    /\ part = "reporter" /\ ReporterNext
    /\ UNCHANGED <<part, callVars, peerVars, deliveryVars, wireVars, aniVars>>
PeerStep ==
    /\ \/ part = "recovery" /\ RecoveryStep
       \/ part = "connection" /\ ConnectionStep
       \/ part = "sa" /\ SaStep
    /\ UNCHANGED <<part, callVars, reporterVars, deliveryVars, wireVars, aniVars>>
DeliveryStep ==
    /\ \/ part = "rdb" /\ RdbStep
       \/ part = "published" /\ PublishedStep
       \/ part = "proxydata" /\ ProxydataStep
       \/ part = "item" /\ ItemStep
       \/ part = "stub" /\ StubStep
    /\ UNCHANGED <<part, callVars, reporterVars, peerVars, wireVars, aniVars>>
WireStep ==
    /\ part = "wire" /\ Wire!WireNext
    /\ UNCHANGED <<part, callVars, reporterVars, peerVars, deliveryVars, aniVars>>
AniStep ==
    /\ part = "ani" /\ Ani!AniNext
    /\ UNCHANGED <<part, callVars, reporterVars, peerVars, deliveryVars, wireVars>>

Next == CallStep \/ ReporterStep \/ PeerStep \/ DeliveryStep \/ WireStep \/ AniStep

Spec == Init /\ [][Next]_vars

----------------------------------------------------------------------------
\* A call of the C interfaces that looks like a success reached its own handler,
\* which said that it was done; and a list of arguments that could not be read at
\* all does not end in one, but for the functions that DamagedInputFails names.
SuccessIsReal == part = "call" => C!SuccessIsAnswered /\ C!DamagedInputFails

\* Every message is read back as it was written and nothing is left of the stream
\* (the write and read functions of parcel_impl.rs and serializable.rs).
SurvivesWire == part = "wire" => Wire!SurvivesWire

\* A stream that ends early is refused, at whatever token it ends; and predicates
\* that verification refuses are refused after the transfer as well.
DamageIsRefused == part = "wire" => Wire!CutIsRefused /\ Wire!RefusedStaysRefused

\* The parcel and the buffer for large predicates give the reader the same
\* operations, whatever was built, except that only the buffer keeps an empty list.
PathsAgree == part = "wire" => Wire!PathsAgree

\* The values of a call of the ArkTS binding arrive in the groups, under the keys
\* and in the order in which they were given, flattened and rebuilt on the way, but
\* for the values of the operations of a batch update.
ValuesKeepPlace == part = "ani" => Ani!BatchKeepsGroups /\ Ani!ValuesArrive
=============================================================================
