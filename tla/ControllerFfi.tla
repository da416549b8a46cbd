---------------------------- MODULE ControllerFfi ----------------------------
(***************************************************************************)
(* The C interfaces below the helper: to the controllers (controller_*_ffi *)
(* .rs), to the service proxy (service_proxy_ffi.rs) and to the proxy data *)
(* (dataproxy_handle_ffi.rs).  Their arguments come in parcels of the C++  *)
(* caller.  A handle of a controller is, like that of a helper, on the     *)
(* silent or on the provider path; the service proxy is always there as    *)
(* long as its handle is valid.                                            *)
(***************************************************************************)
EXTENDS HelperFfi

\* An argument that cannot be read ends the call, unless a default replaces it.
Strict(e, invalid, call) == WithArgs(e, invalid, call)
Failed == DATA_SHARE_ERROR
FailedPair == <<DATA_SHARE_ERROR, 0>>
\* The C++ caller reads the result set from the reply it gets.
Raw(e, r) == Strict(e, FailedPair, QueryCode(ReadResultSet(e, r)))
\* The first of two values is returned, the second written.
FirstOf(r) == [r EXCEPT !.ret = @[1]]

----------------------------------------------------------------------------
\* GeneralControllerServiceImpl.  The columns of a query that cannot be read are
\* no columns, which asks for all of them.
CtlServiceInsert(e) == Strict(e, Failed, ServiceCrud(e, "insert"))
CtlServiceUpdate(e) == Strict(e, Failed, ServiceCrud(e, "update"))
CtlServiceDelete(e) == Strict(e, Failed, ServiceCrud(e, "delete"))
CtlServiceInsertEx(e) == Strict(e, FailedPair, ServiceCrudEx(e, "insert_ex"))
CtlServiceUpdateEx(e) == Strict(e, FailedPair, ServiceCrudEx(e, "update_ex"))
CtlServiceDeleteEx(e) == Strict(e, FailedPair, ServiceCrudEx(e, "delete_ex"))
CtlServiceQuery(e) == Raw(e, ServiceQueryRaw(e))
CtlServiceNotifyChange(e) == Void(Strict(e, SP!None, ServiceNotify(e)))

\* GeneralControllerProviderImpl.
CtlProviderInsert(e) == Strict(e, Failed, ProviderCrud(e, "insert"))
CtlProviderUpdate(e) == Strict(e, Failed, ProviderCrud(e, "update"))
CtlProviderDelete(e) == Strict(e, Failed, ProviderCrud(e, "delete"))
CtlProviderInsertEx(e) == Strict(e, FailedPair, ProviderCrudEx(e, "insert_ex"))
CtlProviderUpdateEx(e) == Strict(e, FailedPair, ProviderCrudEx(e, "update_ex"))
CtlProviderDeleteEx(e) == Strict(e, FailedPair, ProviderCrudEx(e, "delete_ex"))
CtlProviderQuery(e) == Raw(e, ProviderQueryRaw(e))
CtlProviderObserver(e, op) == Strict(e, Failed, ProviderObserver(e, op))
CtlProviderNotifyChange(e) == Void(Strict(e, FALSE, ProviderNotify(e)))
CtlProviderExtProvider(e, op) == Strict(e, Failed, ProviderExtProvider(e, op))

\* ExtSpecialController.  A text is handed over as an allocated copy, an empty one
\* as null; user_define_func goes past the controller to the remote object.
rust_string_to_c_alloc(s) == <<s # "", s>>
CtlOpenFile(e) == Strict(e, Failed, ExtFile(e, "open_file"))
CtlOpenFileWithErrCode(e) == Strict(e, Failed, FirstOf(ExtFile(e, "open_file_with_err_code")))
CtlOpenRawFile(e) == Strict(e, Failed, ExtFile(e, "open_raw_file"))
Allocated(r) == [r EXCEPT !.ret = rust_string_to_c_alloc(@)]
CtlGetType(e) == Allocated(Strict(e, "", ExtText(e, "get_type")))
CtlNormalizeUri(e) == Allocated(Strict(e, "", ExtText(e, "normalize_uri")))
CtlDenormalizeUri(e) == Allocated(Strict(e, "", ExtText(e, "denormalize_uri")))
CtlGetFileTypes(e) == LET r == Strict(e, <<>>, ExtFileTypes(e)) IN [r EXCEPT !.ret = <<TRUE, @>>]
CtlBatchInsert(e) == Strict(e, Failed, ExtBatchInsert(e))
CtlBatchUpdate(e) == Strict(e, Failed, ExtBatchUpdate(e))
CtlInsertExt(e) == Strict(e, Failed, FirstOf(ExtInsertExt(e)))
CtlExecuteBatch(e) == Strict(e, Failed, ExtExecuteBatch(e))
CtlUserDefineFunc(e) ==
    LET r == XP!user_define_func(e.o)
    IN  WithProxy(e, Failed, [r EXCEPT !.ret = IF r.code # XP!NotSent /\ e.o.sent THEN 0 ELSE Failed])

\* PersistentDataController and PublishedDataController.
CtlAddQueryTemplate(e) == Strict(e, Failed, PersistentTemplate(e, "add_query_template"))
CtlDelQueryTemplate(e) == Strict(e, Failed, PersistentTemplate(e, "del_query_template"))
\* The results as they are; uris that cannot be read are no uris, which for an
\* unsubscription means all of them, and a template id must be read.
CtlRdbSubscription(e, op) == Strict(e, <<>>, ManagerAsks(e, op))
CtlPublishedSubscription(e, op) == ManagerAsks(e, op)
CtlPublish(e) == Strict(e, <<>>, PublishedPublish(e))
CtlGetPublishedData(e) == Strict(e, <<<<>>, DATA_SHARE_ERROR>>, PublishedGet(e))

----------------------------------------------------------------------------
\* DataProxyHandle: the code, and the results in a parcel.
HandleResults(e, call) == Strict(e, <<>>, WithProxy(e, <<>>, call))
HandlePublishProxyData(e) == HandleResults(e, HandleCall(e, "publish_proxy_data"))
HandleDeleteProxyData(e) == HandleResults(e, HandleCall(e, "delete_proxy_data"))
HandleGetProxyData(e) == HandleResults(e, HandleCall(e, "get_proxy_data"))
HandleSubscribeProxyData(e) == HandleResults(e, SP!subscribe_proxy_data(e.o, <<"u">>))
HandleUnsubscribeProxyData(e) == HandleResults(e, SP!unsubscribe_proxy_data(e.o, <<"u">>))

----------------------------------------------------------------------------
\* The service proxy itself.  Its functions do not check their strings, and most
\* of them go on with a default for what they cannot read.
SvcInsertEx(e) == Strict(e, FailedPair, WithProxy(e, FailedPair, SP!insert_ex(e.o)))
SvcUpdateEx(e) == Strict(e, FailedPair, WithProxy(e, FailedPair, SP!update_ex(e.o)))
SvcDeleteEx(e) == Strict(e, FailedPair, WithProxy(e, FailedPair, SP!delete_ex(e.o)))
SvcQuery(e) == Raw(e, WithProxy(e, <<FALSE, DATA_SHARE_ERROR>>, SP!query(e.o, Columns, 0)))
\* A template that breaks off is registered as far as it goes.
SvcAddQueryTemplate(e) == WithProxy(e, Failed, SP!add_query_template(e.o, TRUE, ColumnsOf(e)))
SvcDelQueryTemplate(e) == WithProxy(e, Failed, SP!del_query_template(e.o))
\* The items that can be read are asked for, whatever was left out.
Read(e) == IF e.args = "none" THEN <<>> ELSE <<"u">>
SvcPublish(e) == WithProxy(e, <<>>, SP!publish(e.o, Len(Read(e))))
SvcGetPublishedData(e) == WithProxy(e, <<<<>>, DATA_SHARE_ERROR>>, SP!get_published_data(e.o))
\* To subscribe takes an observer, which must be read.
SvcSubscribeRdbData(e) == Strict(e, <<>>, WithProxy(e, <<>>, SP!subscribe_rdb_data(e.o, Read(e))))
SvcUnSubscribeRdbData(e) == WithProxy(e, <<>>, SP!unsubscribe_rdb_data(e.o, Read(e)))
SvcEnableSubscribeRdbData(e) == WithProxy(e, <<>>, SP!enable_subscribe_rdb_data(e.o, Read(e)))
SvcDisableSubscribeRdbData(e) == WithProxy(e, <<>>, SP!disable_subscribe_rdb_data(e.o, Read(e)))
SvcSubscribePublishedData(e) == Strict(e, <<>>, WithProxy(e, <<>>, SP!subscribe_published_data(e.o, Read(e))))
SvcUnSubscribePublishedData(e) == WithProxy(e, <<>>, SP!unsubscribe_published_data(e.o, Read(e)))
SvcEnableSubscribePublishedData(e) == WithProxy(e, <<>>, SP!enable_subscribe_published_data(e.o, Read(e)))
SvcDisableSubscribePublishedData(e) == WithProxy(e, <<>>, SP!disable_subscribe_published_data(e.o, Read(e)))
SvcNotify(e) == Void(WithProxy(e, SP!None, SP!notify(e.o)))
SvcSetSilentSwitch(e) == WithProxy(e, Failed, SP!set_silent_switch(e.o))
SvcGetSilentProxyStatus(e) == WithProxy(e, Failed, SP!get_silent_proxy_status(e.o))
SvcRegisterObserver(e) == Strict(e, Failed, WithProxy(e, Failed, SP!register_observer(e.o)))
SvcUnRegisterObserver(e) == Strict(e, Failed, WithProxy(e, Failed, SP!unregister_observer(e.o)))
SvcPublishProxyData(e) == Strict(e, <<>>, WithProxy(e, <<>>, SP!publish_proxy_data(e.o, Read(e))))
SvcDeleteProxyData(e) == Strict(e, <<>>, WithProxy(e, <<>>, SP!delete_proxy_data(e.o, Read(e))))
SvcGetProxyData(e) == Strict(e, <<>>, WithProxy(e, <<>>, SP!get_proxy_data(e.o, Read(e))))
SvcSubscribeProxyData(e) == Strict(e, <<>>, WithProxy(e, <<>>, SP!subscribe_proxy_data(e.o, Read(e))))
SvcUnsubscribeProxyData(e) == WithProxy(e, <<>>, SP!unsubscribe_proxy_data(e.o, Read(e)))
\* The error code of the service is written, not returned.
SvcGetConnectionInterfaceInfo(e) ==
    LET r == SP!get_connection_interface_info(e.o)
    IN  WithProxy(e, Failed, [r EXCEPT !.ret = IF @ = SP!None THEN Failed ELSE @[1]])

----------------------------------------------------------------------------
Ctl(op, Method(_)) == CallVia("ctl", op, Method, op = "query_with_option")
Svc(op, Method(_)) == Silent(helper) /\ CallVia("svc", op, Method, FALSE)

CallCtlService ==
    /\ Silent(helper)
    /\ \/ Ctl("insert", CtlServiceInsert) \/ Ctl("update", CtlServiceUpdate) \/ Ctl("delete", CtlServiceDelete)
       \/ Ctl("insert_ex", CtlServiceInsertEx) \/ Ctl("update_ex", CtlServiceUpdateEx)
       \/ Ctl("delete_ex", CtlServiceDeleteEx) \/ Ctl("query_with_option", CtlServiceQuery)
       \/ Ctl("notify_change", CtlServiceNotifyChange)

CallCtlProvider ==
    /\ ~Silent(helper)
    /\ \/ Ctl("insert", CtlProviderInsert) \/ Ctl("update", CtlProviderUpdate) \/ Ctl("delete", CtlProviderDelete)
       \/ Ctl("insert_ex", CtlProviderInsertEx) \/ Ctl("update_ex", CtlProviderUpdateEx)
       \/ Ctl("delete_ex", CtlProviderDeleteEx) \/ Ctl("query", CtlProviderQuery)
       \/ Ctl("notify_change", CtlProviderNotifyChange)
       \/ \E op \in ObserverOps : Ctl(op, LAMBDA e : CtlProviderObserver(e, op))
       \/ \E op \in ExtProviderOps : Ctl(op, LAMBDA e : CtlProviderExtProvider(e, op))

CallCtlExtSpecial ==
    /\ ~Silent(helper)
    /\ \/ Ctl("open_file", CtlOpenFile) \/ Ctl("open_file_with_err_code", CtlOpenFileWithErrCode)
       \/ Ctl("open_raw_file", CtlOpenRawFile) \/ Ctl("get_type", CtlGetType)
       \/ Ctl("normalize_uri", CtlNormalizeUri) \/ Ctl("denormalize_uri", CtlDenormalizeUri)
       \/ Ctl("get_file_types", CtlGetFileTypes) \/ Ctl("batch_insert", CtlBatchInsert)
       \/ Ctl("batch_update", CtlBatchUpdate) \/ Ctl("insert_ext", CtlInsertExt)
       \/ Ctl("execute_batch", CtlExecuteBatch) \/ Ctl("user_define_func", CtlUserDefineFunc)

CallCtlData ==
    \/ Ctl("add_query_template", CtlAddQueryTemplate) \/ Ctl("del_query_template", CtlDelQueryTemplate)
    \/ \E op \in SubscriptionOps :
         Ctl(op, LAMBDA e : IF op \in {"subscribe_rdb_data", "unsubscribe_rdb_data", "enable_rdb_subs", "disable_rdb_subs"}
                            THEN CtlRdbSubscription(e, op) ELSE CtlPublishedSubscription(e, op))
    \/ Ctl("publish", CtlPublish) \/ Ctl("get_published_data", CtlGetPublishedData)

CallDataProxyHandle ==
    \/ Ctl("publish_proxy_data", HandlePublishProxyData) \/ Ctl("delete_proxy_data", HandleDeleteProxyData)
    \/ Ctl("get_proxy_data", HandleGetProxyData) \/ Ctl("subscribe_proxy_data", HandleSubscribeProxyData)
    \/ Ctl("unsubscribe_proxy_data", HandleUnsubscribeProxyData)

CallSvcProxy ==
    \/ Svc("insert_ex", SvcInsertEx) \/ Svc("update_ex", SvcUpdateEx) \/ Svc("delete_ex", SvcDeleteEx)
    \/ Svc("query", SvcQuery) \/ Svc("notify_change", SvcNotify) \/ Svc("add_query_template", SvcAddQueryTemplate)
    \/ Svc("del_query_template", SvcDelQueryTemplate) \/ Svc("publish", SvcPublish)
    \/ Svc("get_published_data", SvcGetPublishedData) \/ Svc("subscribe_rdb_data", SvcSubscribeRdbData)
    \/ Svc("unsubscribe_rdb_data", SvcUnSubscribeRdbData) \/ Svc("enable_rdb_subs", SvcEnableSubscribeRdbData)
    \/ Svc("disable_rdb_subs", SvcDisableSubscribeRdbData)
    \/ Svc("subscribe_published_data", SvcSubscribePublishedData)
    \/ Svc("unsubscribe_published_data", SvcUnSubscribePublishedData)
    \/ Svc("enable_pub_subs", SvcEnableSubscribePublishedData)
    \/ Svc("disable_pub_subs", SvcDisableSubscribePublishedData)
    \/ Svc("set_silent_switch", SvcSetSilentSwitch) \/ Svc("get_silent_proxy_status", SvcGetSilentProxyStatus)
    \/ Svc("register_observer", SvcRegisterObserver) \/ Svc("unregister_observer", SvcUnRegisterObserver)
    \/ Svc("publish_proxy_data", SvcPublishProxyData) \/ Svc("delete_proxy_data", SvcDeleteProxyData)
    \/ Svc("get_proxy_data", SvcGetProxyData) \/ Svc("subscribe_proxy_data", SvcSubscribeProxyData)
    \/ Svc("unsubscribe_proxy_data", SvcUnsubscribeProxyData)
    \/ Svc("get_connection_interface_info", SvcGetConnectionInterfaceInfo)

CInterfaceNext ==
    \/ HelperNext
    \/ CallCtlService \/ CallCtlProvider \/ CallCtlExtSpecial \/ CallCtlData \/ CallDataProxyHandle \/ CallSvcProxy

----------------------------------------------------------------------------
\* A damaged argument ends the call or goes unnoticed: an item left out of a list
\* and a field replaced behind it are not missed, and with a default in its place a query, a template, a batch of
\* values, a registration and a notification are executed, and the subscriber of
\* published data is removed from all uris instead of those that could not be read.
\* Every other list that could not be read yields no result, whichever code was
\* executed with it.
DamagedInputFails ==
    last.ok => last.args \in {"all", "some"} \/ (last.args = "none" /\
        \/ last.op \in QueryOps
        \/ <<last.via, last.op>> \in {"svc"} \X (ObserverOps \cup {"add_query_template"})
        \/ <<last.via, last.op>> \in {<<"ctl", "batch_insert">>, <<"helper", "notify_change_ext_provider">>}
        \/ <<last.via, last.op>> \in {"ctl", "helper"} \X {"unsubscribe_published_data"})
=============================================================================
