---------------------------- MODULE WireTransfer ----------------------------
(***************************************************************************)
(* A client builds predicates, writes them - or another value of the       *)
(* interfaces - and the other side reads them: through a parcel, or through *)
(* a buffer of at most MAX_IPC_SIZE (marshal_predicates_raw and its kin).  *)
(* The reader may also see a stream that ends early.                       *)
(***************************************************************************)
EXTENDS ParcelCodec

CONSTANTS
    MaxOps,          \* operations in the predicates
    MaxIpcSize,      \* tokens of a buffer
    Fields,          \* field names, "" among them
    SampleSingles,   \* SingleValues
    SampleLists,     \* lists of SingleValues
    Samples          \* values of the other layouts: name -> set of values

VARIABLES
    pred,            \* the predicates under construction
    msg,             \* [layout, val] of the last message, or NoMsg
    wire,            \* its tokens
    got              \* what the reader made of it

wireVars == <<pred, msg, wire, got>>

NoMsg == [layout |-> "none", val |-> 0]
NotRead == [state |-> "none", res |-> Refused]

WireInit == pred = NewPredicates /\ msg = NoMsg /\ wire = <<>> /\ got = NotRead

Building == msg.layout = "none" /\ Len(pred.ops) < MaxOps

BuildCompare ==
    /\ Building
    /\ \E op \in {"EqualTo", "Like"}, f \in Fields, v \in SampleSingles : pred' = Compare(pred, op, f, v)
    /\ UNCHANGED <<msg, wire, got>>

BuildList ==
    /\ Building
    /\ \E f \in Fields, l \in SampleLists :
          pred' \in {InSet(pred, f, l), AniFields(pred, "GroupBy", "", l)}
    /\ UNCHANGED <<msg, wire, got>>

BuildOrder ==
    /\ Building
    /\ \E f \in Fields : pred' \in {OrderBy(pred, "OrderByAsc", f), AniOrder(pred, "IsNull", f, None)}
    /\ UNCHANGED <<msg, wire, got>>

BuildLimit ==
    /\ Building
    /\ pred' \in {LimitOrOffset(pred, "Limit", 1), LimitOrOffset(pred, "Offset", 2),
                  AniLimit(pred, 1, 2), AniJoint(pred, "And")}
    /\ UNCHANGED <<msg, wire, got>>

BuildBetween ==
    /\ Building
    /\ \E f \in Fields, v \in SampleSingles : pred' = AniBetween(pred, "Between", f, v, Val("Int", 3))
    /\ UNCHANGED <<msg, wire, got>>

BuildClause ==
    /\ Building /\ pred.clause = ""
    /\ pred' = [pred EXCEPT !.clause = "c", !.args = <<"a">>, !.mode = 1]
    /\ UNCHANGED <<msg, wire, got>>

----------------------------------------------------------------------------
\* The layout of a message, and whether it goes through a buffer.
LayoutOf(name) ==
    CASE name = "Predicates" -> DataSharePredicates
      [] name = "PredicatesBuffer" -> PredicatesBuffer
      [] name = "Statement" -> OperationStatement
      [] name = "StatementBuffer" -> StatementBuffer
      [] name = "UpdateOperations" -> UpdateOperations
      [] name = "BatchUpdateResult" -> BatchUpdateResult
      [] name = "ExecResultSet" -> ExecResultSet
      [] name = "ChangeInfo" -> ChangeInfo
      [] name = "PublishedData" -> PublishedData
      [] name = "OperationResult" -> OperationResult
      [] name = "DataProxyConfig" -> DataProxyConfig
      [] name = "DataShareProxyData" -> DataShareProxyData
      [] name = "DataProxyResult" -> DataProxyResult
      [] name = "DataProxyGetResult" -> DataProxyGetResult
      [] name = "DataProxyChangeInfo" -> DataProxyChangeInfo
      [] name = "RdbChangeNode" -> RdbChangeNode
      [] name = "Template" -> Template
      [] name = "ProxyDataBlob" -> ProxyDataBlob
      [] name = "ProxyGetResultBlob" -> ProxyGetResultBlob

Buffered == {"PredicatesBuffer", "StatementBuffer"}

Statement(p) == <<1, "uri", Fieldwise(p), <<>>, <<"col", 0>>>>

\* Write the message; a value that cannot be written, or a buffer that is too
\* large, is not sent.
Send(name, v) ==
    LET ts == Write(LayoutOf(name), v)
        sent == Written(ts) /\ (name \in Buffered => Len(ts) <= MaxIpcSize)
    IN  /\ msg.layout = "none"
        /\ msg' = [layout |-> name, val |-> v]
        /\ wire' = IF sent THEN ts ELSE <<>>
        /\ got' = [state |-> IF sent THEN "sent" ELSE "refused", res |-> Refused]
        /\ UNCHANGED pred

SendPredicates == Send("Predicates", Fieldwise(pred)) \/ Send("PredicatesBuffer", Fieldwise(pred))

SendStatement == Send("Statement", Statement(pred)) \/ Send("StatementBuffer", <<Statement(pred)>>)

SendSample == pred = NewPredicates /\ \E k \in DOMAIN Samples : \E v \in Samples[k] : Send(k, v)

\* A buffer that is empty or too large is not read.
ReadMessage(name, ts) ==
    IF name \in Buffered /\ (ts = <<>> \/ Len(ts) > MaxIpcSize) THEN Refused
    ELSE Read(LayoutOf(name), ts)

Receive ==
    /\ got.state = "sent"
    /\ got' = [state |-> "read", res |-> ReadMessage(msg.layout, wire)]
    /\ UNCHANGED <<pred, msg, wire>>

ReceiveCut ==
    /\ got.state = "sent"
    /\ \E n \in 0 .. Len(wire) - 1 :
          got' = [state |-> "cut", res |-> ReadMessage(msg.layout, SubSeq(wire, 1, n))]
    /\ UNCHANGED <<pred, msg, wire>>

WireNext ==
    \/ BuildCompare \/ BuildList \/ BuildOrder \/ BuildLimit \/ BuildBetween \/ BuildClause
    \/ SendPredicates \/ SendStatement \/ SendSample \/ Receive \/ ReceiveCut

----------------------------------------------------------------------------
\* An operation whose parameters the layout can tell apart: it has a field, or
\* it is one that never has one; its value is not a blob; its list is not empty
\* and of one type.
PlainList(l) ==
    /\ l # <<>> /\ Type(l[1]) \in {"Int", "Long", "Double", "String"}
    /\ \A i \in DOMAIN l : Type(l[i]) = Type(l[1])

PlainItem(i) ==
    /\ i.field # "" \/ Type(i.value) # "String"
    /\ Type(i.value) # "Blob"
    /\ i.multi # <<>> => PlainList(i.multi[1])

Plain(ops) == \A i \in DOMAIN ops : PlainItem(ops[i])

OpsOf(m) == IF m.layout \in {"Predicates", "PredicatesBuffer"} THEN m.val[1]
            ELSE IF m.layout = "Statement" THEN m.val[3][1]
            ELSE IF m.layout = "StatementBuffer" THEN m.val[1][3][1] ELSE <<>>

\* What is expected of the reader: the message itself, except that the parcel has
\* no place for the back reference of a statement.
Expected(m) == IF m.layout = "Statement" THEN [m.val EXCEPT ![5] = NoBackReference] ELSE m.val

\* Every message that is sent is read back as it was written and nothing is left
\* of the stream, so that whatever is written behind it is read in its place.
SurvivesWire ==
    got.state = "read" /\ Plain(OpsOf(msg)) =>
        got.res.ok /\ got.res.val = Expected(msg) /\ got.res.rest = <<>>

\* A stream that ends early is refused, at whatever token it ends.
CutIsRefused == got.state = "cut" => ~got.res.ok

AsPredicates(v) == [ops |-> v[1], clause |-> v[2], args |-> v[3], order |-> v[4], mode |-> v[5]]
NoEmptyLists(ops) == [i \in DOMAIN ops |-> [ops[i] EXCEPT !.multi = IF @ = <<<<>>>> THEN <<>> ELSE @]]

\* Whatever was built, the parcel and the buffer give the reader the same
\* operations, except that only the buffer keeps an empty list.
PathsAgree ==
    LET a == Read(DataSharePredicates, Write(DataSharePredicates, Fieldwise(pred)))
        b == Read(PredicatesBuffer, Write(PredicatesBuffer, Fieldwise(pred)))
    IN  /\ a.ok /\ b.ok
        /\ a.val[1] = NoEmptyLists(b.val[1])
        /\ Tail(a.val) = Tail(b.val)

\* Predicates that verification refuses before they are sent are refused after
\* they were read as well: no field slips out of the check on its way.
RefusedStaysRefused ==
    got.state = "read" /\ msg.layout \in {"Predicates", "PredicatesBuffer"} =>
        (VerifyPredicates(AsPredicates(msg.val))[2] # "Ok" =>
            VerifyPredicates(AsPredicates(got.res.val))[2] # "Ok")
=============================================================================
