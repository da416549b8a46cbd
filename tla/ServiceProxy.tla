---------------------------- MODULE ServiceProxy ----------------------------
(***************************************************************************)
(* DataShareServiceProxy: the requests to the data share service.          *)
(***************************************************************************)
EXTENDS IpcCall

\* DataShareServiceCmd.
ServiceCmd ==
    [Query |-> 0, AddTemplate |-> 1, DelTemplate |-> 2, Publish |-> 3, GetData |-> 4,
     SubscribeRdb |-> 5, UnsubscribeRdb |-> 6, EnableSubscribeRdb |-> 7, DisableSubscribeRdb |-> 8,
     SubscribePublished |-> 9, UnsubscribePublished |-> 10, EnableSubscribePublished |-> 11,
     DisableSubscribePublished |-> 12, Notify |-> 13, NotifyObservers |-> 14,
     SetSilentSwitch |-> 15, GetSilentProxyStatus |-> 16, RegisterObserver |-> 17,
     UnregisterObserver |-> 18, InsertEx |-> 19, DeleteEx |-> 20, UpdateEx |-> 21,
     ProxyPublish |-> 22, ProxyDelete |-> 23, ProxyGet |-> 24, SubscribeProxyData |-> 25,
     UnsubscribeProxyData |-> 26, GetConnectionInterfaceInfo |-> 27]
SYSTEM_CODE_OFFSET == 100

cast_ipc_code(o, cmd) == ServiceCmd[cmd] + (IF o.system THEN SYSTEM_CODE_OFFSET ELSE 0)

\* DataProxyErrorCode::InnerError.
InnerError == 4

make_error_results_from_proxy_data(uris) == [i \in DOMAIN uris |-> <<InnerError, uris[i]>>]
make_error_results_from_uris(uris) == [i \in DOMAIN uris |-> <<InnerError, uris[i]>>]
make_error_get_results_from_uris(uris) == [i \in DOMAIN uris |-> <<InnerError, uris[i]>>]

read_operation_results(o) == ReadItems(o, 1)
read_proxy_results(o) == ReadItems(o, 1)

----------------------------------------------------------------------------
\* CRUD: the error code and the value, the second only if there is no error.
ReadPair(o) == <<ReadI32(o, 1, INVALID_VALUE), ReadI32(o, 2, 0)>>
CrudEx(o, n, cmd) ==
    Request(o, n, cast_ipc_code(o, cmd), <<INVALID_VALUE, 0>>, <<DATA_SHARE_ERROR, 0>>, ReadPair(o))

insert_ex(o) == CrudEx(o, 4, "InsertEx")
update_ex(o) == CrudEx(o, 5, "UpdateEx")
delete_ex(o) == CrudEx(o, 4, "DeleteEx")

\* The single result of the old interface: an error is negative in it.
Flatten(p) == IF p[1] = 0 THEN p[2] ELSE IF p[1] < 0 THEN p[1] ELSE DATA_SHARE_ERROR
Single(call) == [call EXCEPT !.ret = Flatten(@)]

insert(o) == Single(insert_ex(o))
update(o) == Single(update_ex(o))
delete(o) == Single(delete_ex(o))

\* The result is <<there is a reply, business error>>; a failed write of the
\* columns leaves the error as it was.
query(o, columns, before) ==
    Request(o, 5 + columns, cast_ipc_code(o, "Query"),
            <<FALSE, IF o.writes < 4 THEN INVALID_VALUE ELSE before>>,
            <<FALSE, DATA_SHARE_ERROR>>, <<TRUE, before>>)

----------------------------------------------------------------------------
\* Templates and published data.
CodeCall(o, n, code) ==
    Request(o, n, code, DATA_SHARE_ERROR, DATA_SHARE_ERROR, ReadI32(o, 1, DATA_SHARE_ERROR))

\* isUpdate: the update statement is empty or begins with UPDATE.
add_query_template(o, isUpdate, predicates) ==
    IF ~isUpdate THEN [code |-> NotSent, ret |-> DATA_SHARE_ERROR]
    ELSE CodeCall(o, 6 + 2 * predicates, cast_ipc_code(o, "AddTemplate"))
del_query_template(o) == CodeCall(o, 3, cast_ipc_code(o, "DelTemplate"))

publish(o, items) ==
    Request(o, 4 + items, cast_ipc_code(o, "Publish"), <<>>, <<>>, read_operation_results(o))

\* The data and, behind its items, the result code.
get_published_data(o) ==
    Request(o, 2, cast_ipc_code(o, "GetData"), <<<<>>, INVALID_VALUE>>, <<<<>>, INVALID_VALUE>>,
            <<ReadItems(o, 1), ReadI32(o, 2 + ReadI32(o, 1, 0), INVALID_VALUE)>>)

----------------------------------------------------------------------------
\* Subscriptions: a request that is not answered yields no results at all.
Subscription(o, n, cmd) == Request(o, n, cast_ipc_code(o, cmd), <<>>, <<>>, read_operation_results(o))

write_subscription_header(uris) == 4 + Len(uris)
subscribe_rdb_data(o, uris) == Subscription(o, write_subscription_header(uris) + 2, "SubscribeRdb")
unsubscribe_rdb_data(o, uris) == Subscription(o, write_subscription_header(uris), "UnsubscribeRdb")
enable_subscribe_rdb_data(o, uris) ==
    Subscription(o, write_subscription_header(uris), "EnableSubscribeRdb")
disable_subscribe_rdb_data(o, uris) ==
    Subscription(o, write_subscription_header(uris), "DisableSubscribeRdb")

write_published_sub_header(uris) == 3 + Len(uris)
subscribe_published_data(o, uris) ==
    Subscription(o, write_published_sub_header(uris) + 1, "SubscribePublished")
unsubscribe_published_data(o, uris) ==
    Subscription(o, write_published_sub_header(uris), "UnsubscribePublished")
enable_subscribe_published_data(o, uris) ==
    Subscription(o, write_published_sub_header(uris), "EnableSubscribePublished")
disable_subscribe_published_data(o, uris) ==
    Subscription(o, write_published_sub_header(uris), "DisableSubscribePublished")

----------------------------------------------------------------------------
\* Observers, the silent switch, the interface of a system ability.
notify(o) == Request(o, 2, cast_ipc_code(o, "NotifyObservers"), None, None, None)
register_observer(o) == CodeCall(o, 3, ServiceCmd.RegisterObserver)
unregister_observer(o) == CodeCall(o, 3, ServiceCmd.UnregisterObserver)
set_silent_switch(o) == CodeCall(o, 3, cast_ipc_code(o, "SetSilentSwitch"))
get_silent_proxy_status(o) == CodeCall(o, 2, cast_ipc_code(o, "GetSilentProxyStatus"))

\* <<error code, interface code, descriptor>>, or None.
get_connection_interface_info(o) ==
    Request(o, 3, ServiceCmd.GetConnectionInterfaceInfo, None, None,
            IF Has(o, 1, "i32") /\ Has(o, 2, "str") /\ Has(o, 3, "i32")
            THEN <<o.reply[1][2], o.reply[3][2], o.reply[2][2]>> ELSE None)

----------------------------------------------------------------------------
\* Proxy data: one error for each uri when the service does not answer.
ProxyCall(o, n, cmd, errors, answered) ==
    Request(o, n, ServiceCmd[cmd], errors, errors, answered)

\* The request holds the proxy data as a blob: its length and its bytes.
publish_proxy_data(o, uris) ==
    ProxyCall(o, 4, "ProxyPublish", make_error_results_from_proxy_data(uris), read_proxy_results(o))
delete_proxy_data(o, uris) ==
    ProxyCall(o, 3 + Len(uris), "ProxyDelete", make_error_results_from_uris(uris), read_proxy_results(o))

\* The blob with the results: two lengths and the bytes; the entries before the
\* first one that cannot be decoded ("bad").  Bytes that travel in an ashmem
\* are not where they are looked for.
read_proxy_get_result_vec_from_parcel(o) ==
    LET entries == ReadField(o, 3, "buf", <<>>)
        bad == {i \in DOMAIN entries : entries[i][1] = "bad"}
        n == IF bad = {} THEN Len(entries) ELSE (CHOOSE i \in bad : \A j \in bad : i <= j) - 1
    IN  IF ReadI32(o, 1, 0) <= 0 \/ ~Has(o, 2, "i32") THEN <<>>
        ELSE [i \in 1 .. n |-> entries[i][2]]

get_proxy_data(o, uris) ==
    ProxyCall(o, 3 + Len(uris), "ProxyGet", make_error_get_results_from_uris(uris),
              read_proxy_get_result_vec_from_parcel(o))
subscribe_proxy_data(o, uris) ==
    ProxyCall(o, 3 + Len(uris), "SubscribeProxyData", make_error_results_from_uris(uris),
              read_proxy_results(o))
unsubscribe_proxy_data(o, uris) ==
    ProxyCall(o, 2 + Len(uris), "UnsubscribeProxyData", make_error_results_from_uris(uris),
              read_proxy_results(o))
=============================================================================
