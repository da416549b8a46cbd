----------------------------- MODULE ParcelCodec -----------------------------
(***************************************************************************)
(* How the values of the IPC interfaces are written and read: as typed     *)
(* fields of a MsgParcel (parcel_impl.rs) and as a byte buffer             *)
(* (itypes_utils.rs).  A stream is a sequence of tokens <<type, value>>, a *)
(* layout says how a value is made of tokens.  A token of another type     *)
(* than the one that is read ends the reading, where the code would take   *)
(* the bytes for what they are not.                                        *)
(***************************************************************************)
EXTENDS Predicates, TLC

----------------------------------------------------------------------------
\* Layouts.
Prim(t) == [kind |-> "prim", type |-> t]
ListOf(f) == [kind |-> "list", of |-> f]
Struct(fs) == [kind |-> "struct", of |-> fs]
Variant(fs) == [kind |-> "variant", of |-> fs]     \* the value is <<tag, contents>>
OpenVariant(fs) == [kind |-> "open", of |-> fs]    \* an unknown tag is taken for the last
Via(name, f) == [kind |-> "via", name |-> name, of |-> f]
Flagged(f) == [kind |-> "flagged", of |-> f]       \* a bool, and f if it is TRUE
Undefinable(fs) == [kind |-> "undef", of |-> fs]   \* which are undefined, and the others

I32 == Prim("i32")
I64 == Prim("i64")
F64 == Prim("f64")
Bool == Prim("bool")
Str == Prim("str")
Buffer == ListOf(Prim("byte"))
Ashmem == Prim("ashmem")
Empty == Struct(<<>>)

NoAshmem == "no ashmem"
Nothing == <<>>

----------------------------------------------------------------------------
\* DataShareValuesBucket and DataShareValue.
Value == Variant(<<Empty, I64, F64, Str, Bool, Buffer>>)
ValuesBucket == ListOf(Struct(<<Str, Value>>))

\* A single value: a blob is written as Null, the reader knows six variants.
SingleValue == Via("single", Variant(<<Empty, I32, F64, Str, Bool, I64>>))

\* A list of values has the type of its first one; the others are dropped, and
\* so is a list that begins with Null, Bool or a blob.
MultiValue == Via("multi", Variant(<<Empty, ListOf(I32), ListOf(I64), ListOf(F64), ListOf(Str)>>))

\* An operation: its number, the parameters - the field first - and the lists.
RawItem == Struct(<<I32, ListOf(SingleValue), ListOf(MultiValue)>>)
PredicatesLayout(item) == Struct(<<ListOf(Via(item, RawItem)), Str, ListOf(Str), Str, Prim("i16")>>)
DataSharePredicates == PredicatesLayout("item")
PredicatesBuffer == PredicatesLayout("bufferItem")
\* The predicates as the tuple their layout writes.
Fieldwise(p) == <<p.ops, p.clause, p.args, p.order, p.mode>>

UpdateOperation == Struct(<<ValuesBucket, DataSharePredicates>>)
UpdateOperations == ListOf(Struct(<<Str, ListOf(UpdateOperation)>>))
BatchUpdateResult == Struct(<<Str, ListOf(I32)>>)
ExecResult == Struct(<<Via("operation", I32), I32, Str>>)
ExecResultSet == Struct(<<Via("execErrorCode", I32), ListOf(ExecResult)>>)
ChangeInfo == Struct(<<Via("changeType", Prim("u32")), ListOf(Str), Buffer,
                       ListOf(ValuesBucket)>>)
PublishedDataValue == OpenVariant(<<Ashmem, Str>>)
PublishedDataItem == Struct(<<Str, I64, PublishedDataValue>>)

\* The statement in the parcel has no back reference; the one in the buffer has.
OperationStatement == Via("statement", Struct(<<I32, Str, ValuesBucket, DataSharePredicates>>))
BackReference == Struct(<<Str, I32>>)
StatementBuffer == ListOf(Via("bufferStatement",
                              Struct(<<I32, Str, PredicatesBuffer, ValuesBucket, BackReference>>)))

OperationResult == Struct(<<Str, I32>>)
DataProxyValue == Variant(<<I64, F64, Str, Bool>>)
DataProxyConfig == Via("config", Struct(<<I32, I32>>))
DataShareProxyData == Struct(<<Str, DataProxyValue, Bool, ListOf(Str), Bool>>)
DataProxyResult == Struct(<<Via("proxyError", I32), Str>>)
DataProxyGetResult == Struct(<<Via("proxyError", I32), Str, DataProxyValue, ListOf(Str)>>)
\* The proxy data of a request and the results of a reply, as byte buffers.
ProxyDataBlob == ListOf(Struct(<<Str, Undefinable(<<DataProxyValue, ListOf(Str)>>)>>))
ProxyGetResultBlob == ListOf(Struct(<<Str, Via("proxyError", I32), DataProxyValue, ListOf(Str)>>))
DataProxyChangeInfo == Struct(<<Via("changeType", I32), Str, DataProxyValue>>)
TemplateId == Struct(<<I64, Str>>)
RdbChangeNode == Struct(<<Str, TemplateId, ListOf(Str), Flagged(Ashmem), I32>>)
PublishedData == Struct(<<ListOf(PublishedDataItem), I32>>)
Template == Struct(<<Str, ListOf(Struct(<<Str, Str>>)), Str>>)

----------------------------------------------------------------------------
\* What a value is turned into before it is written, and back.
SingleTags == <<"Null", "Int", "Double", "String", "Bool", "Long">>
MultiTags == <<"Null", "Int", "Long", "Double", "String">>
TagOf(tags, type) == IF \E i \in DOMAIN tags : tags[i] = type
                     THEN (CHOOSE i \in DOMAIN tags : tags[i] = type) - 1 ELSE 0

WriteSingleValue(v) == LET t == TagOf(SingleTags, Type(v)) IN <<t, IF t = 0 THEN Nothing ELSE v[2]>>
ReadSingleValue(raw) == Val(SingleTags[raw[1] + 1], IF raw[1] = 0 THEN 0 ELSE raw[2])

WriteMultiValue(values) ==
    LET t == IF values = <<>> THEN 0 ELSE TagOf(MultiTags, Type(values[1]))
        same == SelectSeq(values, LAMBDA v : Type(v) = Type(values[1]))
    IN  <<t, IF t = 0 THEN Nothing ELSE [i \in DOMAIN same |-> same[i][2]]>>
ReadMultiValue(raw) ==
    IF raw[1] = 0 THEN <<>>
    ELSE [i \in DOMAIN raw[2] |-> Val(MultiTags[raw[1] + 1], raw[2][i])]

\* Mutant: only the first two parameters are written.
WriteItemMutant(item) ==
    <<ToI32(item.op),
      (IF item.field = "" THEN <<>> ELSE <<Val("String", item.field)>>)
        \o (IF item.value = None THEN <<>> ELSE <<item.value>>),
      item.multi>>

WriteItem(item) ==
    <<ToI32(item.op),
      (IF item.field = "" THEN <<>> ELSE <<Val("String", item.field)>>)
        \o (IF item.value = None THEN <<>> ELSE <<item.value>>) \o item.extra,
      item.multi>>

\* The parameters carry no mark of which is the field: the first is the field
\* when it is a string, unless - in the parcel, when it is the only one - the
\* operation is Limit or Offset.
ReadItem(raw) ==
    LET op == FromI32(raw[1])
        ps == raw[2]
        multi == IF raw[3] = <<>> \/ Head(raw[3]) = <<>> THEN <<>> ELSE <<Head(raw[3])>>
        isField == /\ ps # <<>> /\ Type(ps[1]) = "String"
                   /\ ~(Len(ps) = 1 /\ op \in {"Limit", "Offset"})
        rest == IF isField THEN Tail(ps) ELSE ps
    IN  Item(op, IF isField THEN ps[1][2] ELSE "",
             IF rest = <<>> THEN None ELSE Head(rest), multi,
             IF rest = <<>> THEN <<>> ELSE Tail(rest))

\* Mutant: a third parameter is left out.
ReadBufferItemMutant(raw) ==
    LET op == IF FromI32(raw[1]) = "unknown" THEN "EqualTo" ELSE FromI32(raw[1])
        ps == raw[2]
        isField == ps # <<>> /\ Type(ps[1]) = "String" /\ op \notin {"Limit", "Offset"}
        rest == IF isField THEN Tail(ps) ELSE ps
    IN  Item(op, IF isField THEN ps[1][2] ELSE "",
             IF rest = <<>> THEN None ELSE Head(rest),
             IF raw[3] = <<>> THEN <<>> ELSE <<Head(raw[3])>>, <<>>)

\* In the buffer an operation nobody knows is EqualTo, Limit and Offset never
\* have a field, and an empty list stays one.
ReadBufferItem(raw) ==
    LET op == IF FromI32(raw[1]) = "unknown" THEN "EqualTo" ELSE FromI32(raw[1])
        ps == raw[2]
        isField == ps # <<>> /\ Type(ps[1]) = "String" /\ op \notin {"Limit", "Offset"}
        rest == IF isField THEN Tail(ps) ELSE ps
    IN  Item(op, IF isField THEN ps[1][2] ELSE "",
             IF rest = <<>> THEN None ELSE Head(rest),
             IF raw[3] = <<>> THEN <<>> ELSE <<Head(raw[3])>>,
             IF rest = <<>> THEN <<>> ELSE Tail(rest))

\* The enumerations, with what an unknown number is read as.
OperationOr(n, other) == IF n \in 0 .. 2 THEN n ELSE other
INSERT == 0
ExecFailed == 1
ChangeInvalid == 4
InnerError == 4
MaxLength4K == 4096
SharedConfig == 0

NoBackReference == <<"", -1>>

ToWire(name, v) ==
    CASE name = "single" -> WriteSingleValue(v)
      [] name = "multi" -> WriteMultiValue(v)
      [] name \in {"item", "bufferItem"} -> WriteItem(v)
      [] name = "statement" -> <<v[1], v[2], v[4], v[3]>>
      [] OTHER -> v

\* The numbers that end the reading instead.
Unreadable(name, raw) ==
    \/ name = "item" /\ FromI32(raw[1]) = "unknown"
    \/ name = "operation" /\ OperationOr(raw, -1) = -1

FromWire(name, raw) ==
    CASE name = "single" -> ReadSingleValue(raw)
      [] name = "multi" -> ReadMultiValue(raw)
      [] name = "item" -> ReadItem(raw)
      [] name = "bufferItem" -> ReadBufferItem(raw)
      [] name = "operation" -> raw
      [] name = "execErrorCode" -> IF raw \in {0, 1, 2} THEN raw ELSE ExecFailed
      [] name = "changeType" -> IF raw \in 0 .. ChangeInvalid THEN raw ELSE ChangeInvalid
      [] name = "statement" -> <<OperationOr(raw[1], INSERT), raw[2], raw[4], raw[3], NoBackReference>>
      [] name = "bufferStatement" -> [raw EXCEPT ![1] = OperationOr(@, INSERT)]
      [] name = "config" -> <<SharedConfig, IF raw[2] \in {4096, 102400} THEN raw[2] ELSE MaxLength4K>>
      [] name = "proxyError" -> IF raw \in 0 .. InnerError THEN raw ELSE InnerError

----------------------------------------------------------------------------
\* Serialize: the tokens of a value; one of type FAIL where an ashmem is missing.
FAIL == "fail"

RECURSIVE Write(_, _)
Write(f, v) ==
    CASE f.kind = "prim" ->
             <<<<IF f.type = "ashmem" /\ v = NoAshmem THEN FAIL ELSE f.type, v>>>>
      [] f.kind = "list" ->
             <<<<"i32", Len(v)>>>> \o FlattenSeq([i \in DOMAIN v |-> Write(f.of, v[i])])
      [] f.kind = "struct" -> FlattenSeq([i \in DOMAIN f.of |-> Write(f.of[i], v[i])])
      [] f.kind \in {"variant", "open"} -> <<<<"tag", v[1]>>>> \o Write(f.of[v[1] + 1], v[2])
      [] f.kind = "via" -> Write(f.of, ToWire(f.name, v))
      [] f.kind = "flagged" -> <<<<"bool", v[1]>>>> \o (IF v[1] THEN Write(f.of, v[2]) ELSE <<>>)
      [] f.kind = "undef" ->
             [i \in DOMAIN v |-> <<"bool", v[i][1]>>]
               \o FlattenSeq([i \in DOMAIN v |-> IF v[i][1] THEN <<>> ELSE Write(f.of[i], v[i][2])])

Written(ts) == \A i \in DOMAIN ts : ts[i][1] # FAIL

\* Deserialize: [ok, val, rest].
Got(v, rest) == [ok |-> TRUE, val |-> v, rest |-> rest]
Refused == [ok |-> FALSE, val |-> 0, rest |-> <<>>]

\* Mutant: the end of the stream reads as zero.
ReadPrimMutant(t, ts) ==
    IF ts = <<>> THEN Got(0, <<>>)
    ELSE IF Head(ts)[1] # t THEN Refused ELSE Got(Head(ts)[2], Tail(ts))

ReadPrim(t, ts) == IF ts = <<>> \/ Head(ts)[1] # t THEN Refused ELSE Got(Head(ts)[2], Tail(ts))

RECURSIVE Read(_, _)
RECURSIVE ReadAll(_, _)
\* The values of several layouts, one behind the other.
ReadAll(fs, ts) ==
    IF fs = <<>> THEN Got(<<>>, ts)
    ELSE LET r == Read(Head(fs), ts) IN
         IF ~r.ok THEN Refused
         ELSE LET q == ReadAll(Tail(fs), r.rest) IN
              IF q.ok THEN Got(<<r.val>> \o q.val, q.rest) ELSE Refused

Read(f, ts) ==
    CASE f.kind = "prim" -> ReadPrim(f.type, ts)
      [] f.kind = "list" ->
             LET n == ReadPrim("i32", ts) IN
             IF n.ok THEN ReadAll([i \in 1 .. n.val |-> f.of], n.rest) ELSE Refused
      [] f.kind = "struct" -> ReadAll(f.of, ts)
      [] f.kind \in {"variant", "open"} ->
             LET t == ReadPrim("tag", ts)
                 n == IF t.val < Len(f.of) \/ f.kind = "variant" THEN t.val ELSE Len(f.of) - 1
             IN  IF ~t.ok \/ n >= Len(f.of) THEN Refused
                 ELSE LET r == Read(f.of[n + 1], t.rest) IN
                      IF r.ok THEN Got(<<n, r.val>>, r.rest) ELSE Refused
      [] f.kind = "via" ->
             LET r == Read(f.of, ts) IN
             IF ~r.ok \/ Unreadable(f.name, r.val) THEN Refused
             ELSE Got(FromWire(f.name, r.val), r.rest)
      [] f.kind = "flagged" ->
             LET b == ReadPrim("bool", ts) IN
             IF ~b.ok THEN Refused
             ELSE IF ~b.val THEN Got(<<FALSE, NoAshmem>>, b.rest)
             ELSE LET r == Read(f.of, b.rest) IN
                  IF r.ok THEN Got(<<TRUE, r.val>>, r.rest) ELSE Refused
      [] f.kind = "undef" ->
             LET b == ReadAll([i \in DOMAIN f.of |-> Bool], ts) IN
             IF ~b.ok THEN Refused
             ELSE LET r == ReadAll([i \in DOMAIN f.of |-> IF b.val[i] THEN Empty ELSE f.of[i]], b.rest) IN
                  IF r.ok THEN Got([i \in DOMAIN f.of |-> <<b.val[i], r.val[i]>>], r.rest) ELSE Refused
=============================================================================
