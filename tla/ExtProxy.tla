------------------------------ MODULE ExtProxy ------------------------------
(***************************************************************************)
(* DataShareProxy: the requests to a data share extension, and how the     *)
(* stub of the provider finds the handler of a request.                    *)
(***************************************************************************)
EXTENDS IpcCall

\* IDataShareCmd.
ExtCmd ==
    [GetFileTypes |-> 1, OpenFile |-> 2, OpenRawFile |-> 3, Insert |-> 4, Update |-> 5,
     Delete |-> 6, Query |-> 7, GetType |-> 8, BatchInsert |-> 9, RegisterObserver |-> 10,
     UnregisterObserver |-> 11, NotifyChange |-> 12, NormalizeUri |-> 13, DenormalizeUri |-> 14,
     ExecuteBatch |-> 15, InsertExt |-> 16, BatchUpdate |-> 17, InsertEx |-> 18, UpdateEx |-> 19,
     DeleteEx |-> 20, UserDefineFunc |-> 21, RegisterObserverExtProvider |-> 22,
     UnregisterObserverExtProvider |-> 23, NotifyChangeExtProvider |-> 24,
     OpenFileWithErrCode |-> 25]

\* IDataShareInterfaceCode::from_u32, the provider's side of the same codes.
InterfaceCode ==
    <<"GetFileTypes", "OpenFile", "OpenRawFile", "Insert", "Update", "Delete", "Query", "GetType",
      "BatchInsert", "RegisterObserver", "UnregisterObserver", "NotifyChange", "NormalizeUri",
      "DenormalizeUri", "ExecuteBatch", "InsertExt", "BatchUpdate", "InsertEx", "UpdateEx",
      "DeleteEx", "UserDefineFunc", "RegisterObserverExtProvider",
      "UnregisterObserverExtProvider", "NotifyChangeExtProvider", "OpenFileWithErrCode">>

\* The map of the stub has a handler for every code but UserDefineFunc, which
\* on_remote_request treats by itself.
stub_func_map == [c \in DOMAIN InterfaceCode \ {ExtCmd.UserDefineFunc} |-> InterfaceCode[c]]

\* The handler that runs for a code; Nobody for a code without one.
Nobody == "nobody"
on_remote_request(code) ==
    IF code \in DOMAIN stub_func_map THEN stub_func_map[code]
    ELSE IF code = ExtCmd.UserDefineFunc THEN "UserDefineFunc" ELSE Nobody

----------------------------------------------------------------------------
\* A request starts with the capacity and the token; a uri is two fields.
create_request == 2
write_uri == 2
read_uri(o) == IF ReadI32(o, 1, 0) = 0 THEN "" ELSE ReadStr(o, 2)

UriRequest == create_request + write_uri

CodeCall(o, n, cmd) ==
    Request(o, n, ExtCmd[cmd], INVALID_VALUE, INVALID_VALUE, ReadI32(o, 1, INVALID_VALUE))

get_file_types(o) ==
    Request(o, UriRequest + 1, ExtCmd.GetFileTypes, <<>>, <<>>, ReadItems(o, 1))

\* The descriptor and the error of the transport.
open_file_inner(o, cmd) ==
    Request(o, UriRequest + 1, ExtCmd[cmd], <<INVALID_VALUE, 0>>, <<INVALID_VALUE, o.error>>,
            <<ReadField(o, 1, "fd", INVALID_VALUE), 0>>)
open_file(o) == LET r == open_file_inner(o, "OpenFile") IN [r EXCEPT !.ret = @[1]]
open_file_with_err_code(o) == open_file_inner(o, "OpenFileWithErrCode")
open_raw_file(o) == CodeCall(o, UriRequest + 1, "OpenRawFile")

insert(o) == CodeCall(o, UriRequest + 1, "Insert")
insert_ext(o) ==
    Request(o, UriRequest + 1, ExtCmd.InsertExt, <<INVALID_VALUE, "">>, <<INVALID_VALUE, "">>,
            <<ReadI32(o, 1, INVALID_VALUE), ReadStr(o, 2)>>)
update(o) == CodeCall(o, UriRequest + 2, "Update")
delete(o) == CodeCall(o, UriRequest + 1, "Delete")

\* MAX_SIZE operations at most; the result is 0 whenever there is a reply.
MAX_SIZE == 4000
batch_update(o, total) ==
    IF total > MAX_SIZE THEN [code |-> NotSent, ret |-> <<INVALID_VALUE, <<>>>>]
    ELSE Request(o, create_request + 1, ExtCmd.BatchUpdate, <<INVALID_VALUE, <<>>>>,
                 <<INVALID_VALUE, <<>>>>, <<0, ReadItems(o, 1)>>)

\* <<there is a reply, business error>>: a failed write of the columns or of the
\* predicates leaves the error as it was.  fits: the predicates fit a buffer.
query(o, columns, fits, before) ==
    IF o.writes >= UriRequest + 1 + columns /\ ~fits
    THEN [code |-> NotSent, ret |-> <<FALSE, -1>>]
    ELSE Request(o, UriRequest + 4 + columns, ExtCmd.Query,
                 <<FALSE, IF o.writes < UriRequest THEN -1 ELSE before>>,
                 <<FALSE, -1>>, <<TRUE, before>>)

get_type(o) == Request(o, UriRequest, ExtCmd.GetType, "", "", ReadStr(o, 1))
batch_insert(o, fits) ==
    IF ~fits THEN [code |-> NotSent, ret |-> INVALID_VALUE]
    ELSE CodeCall(o, UriRequest + 3, "BatchInsert")

\* An operation set that cannot be read is an error.
ExecCall(o, n) ==
    Request(o, n, ExtCmd.ExecuteBatch, INVALID_VALUE, INVALID_VALUE,
            IF Has(o, 1, "item") THEN 0 ELSE INVALID_VALUE)
execute_batch(o, statements) == ExecCall(o, create_request + 1 + statements)
execute_batch_blob(o) == ExecCall(o, create_request + 3)

----------------------------------------------------------------------------
BoolCall(o, cmd) ==
    Request(o, UriRequest + 1, ExtCmd[cmd], FALSE, FALSE, ReadI32(o, 1, 0) # 0)
register_observer(o) == BoolCall(o, "RegisterObserver")
unregister_observer(o) == BoolCall(o, "UnregisterObserver")

\* The answer is not read.
notify_change(o) == Request(o, UriRequest, ExtCmd.NotifyChange, FALSE, FALSE, TRUE)

register_observer_ext_provider(o) == CodeCall(o, UriRequest + 3, "RegisterObserverExtProvider")
unregister_observer_ext_provider(o) == CodeCall(o, UriRequest + 1, "UnregisterObserverExtProvider")
notify_change_ext_provider(o) == CodeCall(o, create_request + 1, "NotifyChangeExtProvider")

normalize_uri(o) == Request(o, UriRequest, ExtCmd.NormalizeUri, "", "", read_uri(o))
denormalize_uri(o) == Request(o, UriRequest, ExtCmd.DenormalizeUri, "", "", read_uri(o))

CrudEx(o, n, cmd) ==
    Request(o, n, ExtCmd[cmd], <<INVALID_VALUE, 0>>, <<INVALID_VALUE, 0>>,
            <<ReadI32(o, 1, INVALID_VALUE), ReadI32(o, 2, 0)>>)
insert_ex(o) == CrudEx(o, UriRequest + 1, "InsertEx")
update_ex(o) == CrudEx(o, UriRequest + 2, "UpdateEx")
delete_ex(o) == CrudEx(o, UriRequest + 1, "DeleteEx")

\* The request is the caller's.
user_define_func(o) == Request(o, 0, ExtCmd.UserDefineFunc, None, None, o.reply)
=============================================================================
