------------------------------- MODULE IpcCall -------------------------------
(***************************************************************************)
(* One synchronous IPC request as the proxies make it.  What happens to it *)
(* is an outcome o:                                                        *)
(*   o.writes   the number of writes into the request that succeed, the    *)
(*              interface token being the first;                           *)
(*   o.sent     the transport returns a reply;                             *)
(*   o.reply    the fields of the reply, a sequence of <<kind, value>>;    *)
(*   o.system   the flag IS_SYSTEM when the code is chosen.                *)
(* A method yields [code, ret]: the code it sent and what it returns.      *)
(***************************************************************************)
EXTENDS Integers, Sequences, SequencesExt

INVALID_VALUE == -1
DATA_SHARE_ERROR == -1
NotSent == -1
None == <<>>

\* Mutant: a request that was not answered is read like one that was.
RequestMutant(o, n, code, unwritten, unsent, answered) ==
    [code |-> IF o.writes < n THEN NotSent ELSE code,
     ret |-> IF o.writes < n THEN unwritten ELSE answered]

\* A request of n writes.  A write that fails ends the method before anything is
\* sent; the three results are those of a failed write, a failed request and an
\* answered one.
Request(o, n, code, unwritten, unsent, answered) ==
    [code |-> IF o.writes < n THEN NotSent ELSE code,
     ret |-> IF o.writes < n THEN unwritten ELSE IF o.sent THEN answered ELSE unsent]

\* The k-th field of the reply, if it is of that kind.
Has(o, k, kind) == k \in DOMAIN o.reply /\ o.reply[k][1] = kind
ReadField(o, k, kind, default) == IF Has(o, k, kind) THEN o.reply[k][2] ELSE default
ReadI32(o, k, default) == ReadField(o, k, "i32", default)
ReadStr(o, k) == ReadField(o, k, "str", "")

\* A count and as many items from the k-th field on; an item that cannot be read
\* is left out.
ReadItems(o, k) ==
    LET n == ReadI32(o, k, 0)
        read == SelectSeq(SubSeq(o.reply, k + 1, IF k + n < Len(o.reply) THEN k + n ELSE Len(o.reply)),
                          LAMBDA f : f[1] = "item")
    IN  [i \in DOMAIN read |-> read[i][2]]
=============================================================================
