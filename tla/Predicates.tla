----------------------------- MODULE Predicates -----------------------------
(***************************************************************************)
(* DataSharePredicates: the list of operations a query is built of         *)
(* (predicates.rs, operations.rs, and the ArkTS calls of ani/predicates.rs *)
(* that fill the same list) and its verification (verify.rs).              *)
(***************************************************************************)
EXTENDS Integers, Sequences, SequencesExt

CONSTANT Shape       \* the texts in use: [wrapped, parts], the parts between the dots

\* A SingleValue is <<type, value>>; an absent Option.
Val(type, val) == <<type, val>>
Type(v) == v[1]
None == Val("none", 0)

OperationType ==
    <<"EqualTo", "NotEqualTo", "GreaterThan", "LessThan", "GreaterThanOrEqualTo",
      "LessThanOrEqualTo", "And", "Or", "IsNull", "IsNotNull", "In", "NotIn", "Like",
      "Unlike", "OrderByAsc", "OrderByDesc", "Limit", "Offset", "BeginWarp", "EndWarp",
      "BeginWith", "EndWith", "InKey", "Distinct", "GroupBy", "IndexedBy", "Contains",
      "Glob", "Between", "NotBetween", "KeyPrefix", "CrossJoin", "InnerJoin",
      "LeftOuterJoin", "Using", "On">>

\* from_i32, the number of an operation being its place in the enumeration.
FromI32(n) == IF n \in 1 .. Len(OperationType) THEN OperationType[n]
              ELSE IF n = 0 THEN "InvalidOperation" ELSE "unknown"
ToI32(op) == IF op = "InvalidOperation" THEN 0
             ELSE CHOOSE n \in 1 .. Len(OperationType) : OperationType[n] = op

\* OperationItem: multi is <<>> for None and <<values>> for (values).
Item(op, field, value, multi, extra) ==
    [op |-> op, field |-> field, value |-> value, multi |-> multi, extra |-> extra]

INVALID_MODE == -1

NewPredicates == [ops |-> <<>>, clause |-> "", args |-> <<>>, order |-> "", mode |-> INVALID_MODE]

\* equal_to, not_equal_to, greater_than, less_than: one value.
Compare(p, op, field, v) == [p EXCEPT !.ops = Append(@, Item(op, field, v, <<>>, <<>>))]

\* in_set.
InSet(p, field, values) == [p EXCEPT !.ops = Append(@, Item("In", field, None, <<values>>, <<>>))]

\* order_by_asc, order_by_desc.
OrderBy(p, op, field) == [p EXCEPT !.ops = Append(@, Item(op, field, None, <<>>, <<>>))]

\* limit, offset: a value without a field.
LimitOrOffset(p, op, n) ==
    [p EXCEPT !.ops = Append(@, Item(op, "", Val("Long", n), <<>>, <<>>))]

\* The ArkTS calls: comparisons; joints and brackets without parameters; texts;
\* null tests; ranges; ordering; limit with its offset behind it; lists of
\* fields; and the calls on keys.
AniCompare(p, op, field, v) == Compare(p, op, field, v)
AniJoint(p, op) == [p EXCEPT !.ops = Append(@, Item(op, "", None, <<>>, <<>>))]
AniText(p, op, field, v) == Compare(p, op, field, Val("String", v))
AniBetween(p, op, field, low, high) ==
    [p EXCEPT !.ops = Append(@, Item(op, field, low, <<>>, <<high>>))]
AniOrder(p, op, field, v) ==
    IF op \in {"OrderByAsc", "OrderByDesc"} THEN OrderBy(p, op, field) ELSE Compare(p, op, field, v)
AniLimit(p, total, offset) ==
    [p EXCEPT !.ops = Append(@, Item("Limit", "", Val("Int", total), <<>>, <<Val("Int", offset)>>))]
AniFields(p, op, field, values) ==
    [p EXCEPT !.ops = Append(@, Item(op, field, None, <<values>>, <<>>))]

\* clear.
ClearOperations(p) == [p EXCEPT !.ops = <<>>]

\* get_limit, get_offset: the first operation that carries a Long, else 0.
FirstLong(p, op) ==
    LET hits == SelectSeq(p.ops, LAMBDA i : i.op = op /\ Type(i.value) = "Long")
    IN  IF hits = <<>> THEN 0 ELSE Head(hits).value[2]

----------------------------------------------------------------------------
\* is_word, is_valid_identifier: $.word, or one to three words.
IsWord(part) == part = "word"
IsValidIdentifier(parts) ==
    /\ parts # <<>>
    /\ IF Head(parts) = "$" /\ Len(parts) > 1
       THEN Len(parts) = 2 /\ IsWord(parts[2])
       ELSE Len(parts) <= 3 /\ \A i \in DOMAIN parts : IsWord(parts[i])

\* verify_field: the empty text is valid, but not a pair of brackets around it.
VerifyField(field) == field = "" \/ IsValidIdentifier(Shape[field].parts)

VerifyFields(values) ==
    \A i \in DOMAIN values : Type(values[i]) = "String" => VerifyField(values[i][2])

GetVerifyType(op) ==
    CASE op \in {"OrderByAsc", "OrderByDesc"} -> "Single2ParamsPublic"
      [] op = "EqualTo" -> "Single3ParamsPublic"
      [] op \in {"IsNull", "IsNotNull", "IndexedBy", "KeyPrefix"} -> "Single2ParamsSys"
      [] op \in {"NotEqualTo", "GreaterThan", "LessThan", "GreaterThanOrEqualTo",
                 "LessThanOrEqualTo", "NotIn", "Like", "Unlike", "BeginWith", "EndWith",
                 "Contains", "Glob", "Between", "NotBetween"} -> "Single3ParamsSys"
      [] op \in {"InKey", "GroupBy"} -> "Multi2ParamsSys"
      [] OTHER -> "Default"

CheckParamNum(type, item) ==
    CASE type = "Default" -> TRUE
      [] type = "Multi2ParamsSys" -> item.multi # <<>>
      [] OTHER -> item.field # "" \/ item.value # None

VerifyByType(type, item) ==
    IF type = "Default" \/ ~CheckParamNum(type, item) THEN "Ok"
    ELSE CASE type \in {"Single2ParamsPublic", "Single3ParamsPublic"} ->
                 IF VerifyField(item.field) THEN "Ok" ELSE "FieldInvalid"
           [] type \in {"Single2ParamsSys", "Single3ParamsSys"} ->
                 IF VerifyField(item.field) THEN "Ok" ELSE "FieldIllegal"
           [] OTHER -> IF VerifyFields(item.multi[1]) THEN "Ok" ELSE "FieldIllegal"

\* verify_predicates: the first operation that fails, and how.
VerifyPredicates(p) ==
    LET verdict(i) == VerifyByType(GetVerifyType(i.op), i)
        bad == SelectSeq(p.ops, LAMBDA i : verdict(i) # "Ok")
    IN  IF bad = <<>> THEN <<"", "Ok">> ELSE <<Head(bad).op, verdict(Head(bad))>>
=============================================================================
