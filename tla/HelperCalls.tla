----------------------------- MODULE HelperCalls -----------------------------
(***************************************************************************)
(* A call of DataShareHelperImpl from the application to the handler that  *)
(* executes it: the routing of the helper, the controllers, the proxies.   *)
(* What the call meets on its way is an environment e:                     *)
(*   e.proxy   there is a proxy (of the service or of the extension);      *)
(*   e.over    the call reporter says that there were too many calls;      *)
(*   e.timed   a query with a timeout; e.late, its answer comes after it;  *)
(*   e.lost    the attempts of a timed query that nobody answers;          *)
(*   e.o       the outcome of the request, see IpcCall.                    *)
(***************************************************************************)
EXTENDS Integers, Sequences

SP == INSTANCE ServiceProxy
XP == INSTANCE ExtProxy

DATA_SHARE_ERROR == -1
E_TIMEOUT_ERROR == 1072
E_PROVIDER_NOT_CONNECTED == 1066
E_REGISTER_ERROR == 1070
E_DATASHARE_INVALID_URI == 1078
E_DATASHARE_TYPE == 1086
MAX_RETRY_COUNT == 3

\* What a method returns without a request.
Local(ret) == [code |-> SP!NotSent, ret |-> ret]
WithProxy(e, missing, call) == IF e.proxy THEN call ELSE Local(missing)
\* set_call_count blocks the call before anything else happens.
Counted(e, blocked, call) == IF e.over THEN Local(blocked) ELSE call

\* The number of columns, of statements and of operations of a call.
Columns == 1
\* Columns that cannot be read are none (e.args, see HelperFfi), which asks for all.
ColumnsOf(e) == IF e.args = "none" THEN 0 ELSE Columns

----------------------------------------------------------------------------
\* GeneralControllerServiceImpl.
ServiceCrud(e, op) ==
    Counted(e, DATA_SHARE_ERROR, WithProxy(e, DATA_SHARE_ERROR,
        [insert |-> SP!insert(e.o), update |-> SP!update(e.o), delete |-> SP!delete(e.o)][op]))

ServiceCrudEx(e, op) ==
    Counted(e, <<DATA_SHARE_ERROR, 0>>, WithProxy(e, <<DATA_SHARE_ERROR, 0>>,
        [insert_ex |-> SP!insert_ex(e.o), update_ex |-> SP!update_ex(e.o),
         delete_ex |-> SP!delete_ex(e.o)][op]))

\* ISharedResultSet::ReadFromParcel: the error stays as it is when it fails.
ReadResultSet(e, r) == [r EXCEPT !.ret[1] = @ /\ SP!Has(e.o, 1, "rs")]

\* The channel holds the answer, or the wait ends first.
RecvTimeout(e, r) == IF e.late THEN [r EXCEPT !.ret = <<FALSE, E_TIMEOUT_ERROR>>] ELSE r

\* Every attempt but the last one is followed by another when it yields no reply;
\* the business error of an earlier attempt is still there in a later one.
TimedQuery(e) ==
    LET before == IF e.lost = 0 THEN 0 ELSE DATA_SHARE_ERROR
    IN  RecvTimeout(e, IF e.lost >= MAX_RETRY_COUNT THEN Local(<<FALSE, DATA_SHARE_ERROR>>)
                       ELSE WithProxy(e, <<FALSE, before>>,
                                      ReadResultSet(e, SP!query(e.o, ColumnsOf(e), before))))
TimedQueryRaw(e) ==
    RecvTimeout(e, WithProxy(e, <<FALSE, DATA_SHARE_ERROR>>, SP!query(e.o, ColumnsOf(e), 0)))

ServiceQuery(e) ==
    Counted(e, <<FALSE, 0>>,
        IF e.timed THEN TimedQuery(e)
        ELSE WithProxy(e, <<FALSE, DATA_SHARE_ERROR>>, ReadResultSet(e, SP!query(e.o, ColumnsOf(e), 0))))
ServiceQueryRaw(e) ==
    Counted(e, <<FALSE, 0>>,
        IF e.timed THEN TimedQueryRaw(e)
        ELSE WithProxy(e, <<FALSE, DATA_SHARE_ERROR>>, SP!query(e.o, ColumnsOf(e), 0)))

ServiceNotify(e) == WithProxy(e, SP!None, SP!notify(e.o))
\* Observers at the provider are not supported on the silent path.
ServiceExtProvider(e) == Local(DATA_SHARE_ERROR)
\* uri: it has the form of an extension uri.
is_ext_uri(uri) == uri = "datashare:///x"
ServiceSetExtUri(uri) == Local(IF is_ext_uri(uri) THEN 0 ELSE E_DATASHARE_INVALID_URI)

----------------------------------------------------------------------------
\* GeneralControllerProviderImpl.
ProviderCrud(e, op) ==
    WithProxy(e, DATA_SHARE_ERROR,
        [insert |-> XP!insert(e.o), update |-> XP!update(e.o), delete |-> XP!delete(e.o)][op])
ProviderCrudEx(e, op) ==
    WithProxy(e, <<DATA_SHARE_ERROR, 0>>,
        [insert_ex |-> XP!insert_ex(e.o), update_ex |-> XP!update_ex(e.o),
         delete_ex |-> XP!delete_ex(e.o)][op])
ProviderQueryRaw(e) ==
    WithProxy(e, <<FALSE, DATA_SHARE_ERROR>>, XP!query(e.o, ColumnsOf(e), TRUE, 0))
ProviderQuery(e) == ReadResultSet(e, ProviderQueryRaw(e))

\* The answer of the provider as an error code.
ObserverCode(r) == [r EXCEPT !.ret = IF @ THEN 0 ELSE E_REGISTER_ERROR]
ProviderObserver(e, op) ==
    WithProxy(e, E_PROVIDER_NOT_CONNECTED,
        ObserverCode([register_observer |-> XP!register_observer(e.o),
                      unregister_observer |-> XP!unregister_observer(e.o)][op]))
ProviderNotify(e) == WithProxy(e, FALSE, XP!notify_change(e.o))
ProviderExtProvider(e, op) ==
    WithProxy(e, E_PROVIDER_NOT_CONNECTED,
        [register_observer_ext_provider |-> XP!register_observer_ext_provider(e.o),
         unregister_observer_ext_provider |-> XP!unregister_observer_ext_provider(e.o),
         notify_change_ext_provider |-> XP!notify_change_ext_provider(e.o)][op])

----------------------------------------------------------------------------
\* ExtSpecialController, which only the provider path has.
ExtFile(e, op) ==
    CASE op = "open_file" -> WithProxy(e, DATA_SHARE_ERROR, XP!open_file(e.o))
      [] op = "open_file_with_err_code" ->
            WithProxy(e, <<DATA_SHARE_ERROR, 0>>, XP!open_file_with_err_code(e.o))
      [] op = "open_raw_file" -> WithProxy(e, DATA_SHARE_ERROR, XP!open_raw_file(e.o))
ExtText(e, op) ==
    WithProxy(e, "", [get_type |-> XP!get_type(e.o), normalize_uri |-> XP!normalize_uri(e.o),
                      denormalize_uri |-> XP!denormalize_uri(e.o)][op])
ExtFileTypes(e) == WithProxy(e, <<>>, XP!get_file_types(e.o))
ExtBatchInsert(e) == WithProxy(e, DATA_SHARE_ERROR, XP!batch_insert(e.o, TRUE))
ExtBatchUpdate(e) ==
    LET r == XP!batch_update(e.o, Columns)
    IN  WithProxy(e, DATA_SHARE_ERROR, [r EXCEPT !.ret = @[1]])
ExtInsertExt(e) == WithProxy(e, <<DATA_SHARE_ERROR, "">>, XP!insert_ext(e.o))
ExtExecuteBatch(e) == WithProxy(e, DATA_SHARE_ERROR, XP!execute_batch(e.o, Columns))
ExtExecuteBatchBlob(e) == WithProxy(e, DATA_SHARE_ERROR, XP!execute_batch_blob(e.o))
ExtUserDefineFunc(e) ==
    LET r == XP!user_define_func(e.o)
    IN  WithProxy(e, FALSE, [r EXCEPT !.ret = r.code # XP!NotSent /\ e.o.sent])

----------------------------------------------------------------------------
\* PersistentDataController, PublishedDataController and DataProxyHandle, as far
\* as they do not go through a subscriber manager.
PersistentTemplate(e, op) ==
    WithProxy(e, DATA_SHARE_ERROR,
        [add_query_template |-> SP!add_query_template(e.o, TRUE, Columns),
         del_query_template |-> SP!del_query_template(e.o)][op])
PublishedPublish(e) == WithProxy(e, <<>>, SP!publish(e.o, Columns))
PublishedGet(e) == WithProxy(e, <<<<>>, DATA_SHARE_ERROR>>, SP!get_published_data(e.o))
HandleCall(e, op) ==
    WithProxy(e, <<>>, [publish_proxy_data |-> SP!publish_proxy_data(e.o, <<"u">>),
                        delete_proxy_data |-> SP!delete_proxy_data(e.o, <<"u">>),
                        get_proxy_data |-> SP!get_proxy_data(e.o, <<"u">>)][op])

----------------------------------------------------------------------------
\* DataShareHelperImpl: a silent helper has no ExtSpecialController.
Silent(h) == h = "silent"
ByPath(h, silent, provider) == IF Silent(h) THEN silent ELSE provider

HelperCrud(h, e, op) == ByPath(h, ServiceCrud(e, op), ProviderCrud(e, op))
HelperCrudEx(h, e, op) == ByPath(h, ServiceCrudEx(e, op), ProviderCrudEx(e, op))
\* query has no timeout, query_with_option has the caller's.
HelperQuery(h, e, op) ==
    LET en == [e EXCEPT !.timed = @ /\ op # "query"]
    IN  ByPath(h, ServiceQuery(en), ProviderQuery(en))
HelperQueryRaw(h, e) == ByPath(h, ServiceQueryRaw(e), ProviderQueryRaw(e))
HelperFile(h, e, op) ==
    ByPath(h, Local(IF op = "open_file_with_err_code" THEN <<DATA_SHARE_ERROR, 0>>
                    ELSE DATA_SHARE_ERROR), ExtFile(e, op))
HelperText(h, e, op) == ByPath(h, Local(""), ExtText(e, op))
HelperFileTypes(h, e) == ByPath(h, Local(<<>>), ExtFileTypes(e))
HelperBatch(h, e, op) ==
    ByPath(h, Local(DATA_SHARE_ERROR),
           [batch_insert |-> ExtBatchInsert(e), batch_update |-> ExtBatchUpdate(e),
            execute_batch |-> ExtExecuteBatch(e), execute_batch_blob |-> ExtExecuteBatchBlob(e)][op])
HelperInsertExt(h, e) == ByPath(h, Local(<<DATA_SHARE_ERROR, "">>), ExtInsertExt(e))
HelperNotify(h, e) == ByPath(h, ServiceNotify(e), ProviderNotify(e))
HelperExtProvider(h, e, op) == ByPath(h, ServiceExtProvider(e), ProviderExtProvider(e, op))
HelperUserDefineFunc(h, e) == ByPath(h, Local(FALSE), ExtUserDefineFunc(e))
HelperSetExtUri(h, uri) == ByPath(h, ServiceSetExtUri(uri), Local(E_DATASHARE_TYPE))
=============================================================================
