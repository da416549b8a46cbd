------------------------------ MODULE HelperFfi ------------------------------
(***************************************************************************)
(* The C interface of the helper, through which the C++ and the JS layers  *)
(* call it, and a whole call: from this interface through HelperCalls to   *)
(* the handler of the provider or of the service, and back.                *)
(* The environment of a call has two more fields: e.fits, its buffer is    *)
(* large enough, and e.args, what can be read of its arguments:            *)
(*   "all"     all of them;                                                *)
(*   "some"    all but an item of a list, which is left out, or a field    *)
(*             behind one, which is taken as zero or empty;                *)
(*   "none"    all but a list or a field that has a default, which is      *)
(*             taken: no uris, no columns, an empty string;                *)
(*   "unread"  not one that the call needs: a string, a parcel, a handle.  *)
(***************************************************************************)
EXTENDS HelperCalls

VARIABLES
    helper,   \* the handle: "none", "silent" or "provider"
    system,   \* IS_SYSTEM of the service proxy, one flag for the process
    last      \* the call that returns: what was called, what ran, what it said

helperVars == <<helper, system, last>>

CrudOps == {"insert", "update", "delete"}
CrudExOps == {"insert_ex", "update_ex", "delete_ex"}
QueryOps == {"query", "query_with_option"}
FileOps == {"open_file", "open_file_with_err_code", "open_raw_file"}
TextOps == {"get_type", "normalize_uri", "denormalize_uri"}
ObserverOps == {"register_observer", "unregister_observer"}
ExtProviderOps == {"register_observer_ext_provider", "unregister_observer_ext_provider",
                   "notify_change_ext_provider"}
SwitchOps == {"set_silent_switch", "get_silent_proxy_status", "get_connection_interface_info"}
TemplateOps == {"add_query_template", "del_query_template"}
HandleOps == {"publish_proxy_data", "delete_proxy_data", "get_proxy_data"}
PublishedSubOps == {"subscribe_published_data", "unsubscribe_published_data", "enable_pub_subs",
                    "disable_pub_subs"}
SubscriptionOps == PublishedSubOps \cup
    {"subscribe_rdb_data", "unsubscribe_rdb_data", "enable_rdb_subs", "disable_rdb_subs"}
ProxySubscriptionOps == {"subscribe_proxy_data", "unsubscribe_proxy_data"}

----------------------------------------------------------------------------
\* How the arguments of a function can be read.  Its lists are read item by item
\* in the helper's functions and in those of the service proxy, and as a whole in
\* those of the controllers; the Rust methods of the helper and the functions with
\* plain numbers and unchecked strings take what they get.
ItemLists ==
    {"helper"} \X (SubscriptionOps \cup {"notify_change_ext_provider"})
    \cup {"svc"} \X (SubscriptionOps \cup ProxySubscriptionOps \cup HandleOps \cup {"publish"})
Defaulted ==
    ItemLists \cup {"helper", "ctl", "svc"} \X QueryOps \cup {"ctl"} \X (SubscriptionOps \cup {"batch_insert"})
    \cup {"svc"} \X (ObserverOps \cup {"add_query_template"})
Unchecked ==
    {"helper"} \X (HandleOps \cup {"execute_batch", "notify_change_ext_provider"})
    \cup {"ctl"} \X (PublishedSubOps \cup {"user_define_func"})
    \cup {"svc"} \X (SubscriptionOps \ {"subscribe_rdb_data", "subscribe_published_data"})
    \cup {"svc"} \X (SwitchOps \cup TemplateOps \cup {"publish", "get_published_data", "unsubscribe_proxy_data",
                                                      "notify_change"})
ArgsOf(via, op) ==
    {"all"} \cup {a \in {"some"} : <<via, op>> \in ItemLists} \cup {a \in {"none"} : <<via, op>> \in Defaulted}
    \cup {a \in {"unread"} : <<via, op>> \notin Unchecked}

\* c_str_to_rust and the checks for null: nothing is called without an argument it needs.
WithArgs(e, invalid, call) == IF e.args = "unread" THEN Local(invalid) ELSE call

FfiCrud(e, op) == WithArgs(e, DATA_SHARE_ERROR, HelperCrud(helper, e, op))
FfiCrudEx(e, op) == WithArgs(e, <<DATA_SHARE_ERROR, 0>>, HelperCrudEx(helper, e, op))

\* The code of the function is 0 exactly if there is a result set.
QueryCode(r) == [r EXCEPT !.ret = <<IF @[1] THEN 0 ELSE DATA_SHARE_ERROR, @[2]>>]
FfiQuery(e) == WithArgs(e, <<DATA_SHARE_ERROR, 0>>, QueryCode(HelperQuery(helper, e, "query")))
FfiQueryWithResultSet(e) ==
    WithArgs(e, <<DATA_SHARE_ERROR, 0>>,
        QueryCode(HelperQuery(helper, e, IF e.timed THEN "query_with_option" ELSE "query")))

FfiFile(e, op) ==
    LET r == HelperFile(helper, e, op)
    IN  WithArgs(e, DATA_SHARE_ERROR,
                 IF op = "open_file_with_err_code" THEN [r EXCEPT !.ret = @[1]] ELSE r)

\* rust_str_to_c: the length always, the bytes if they fit.
rust_str_to_c(e, s) == <<e.fits, IF e.fits THEN s ELSE "">>
FfiText(e, op) ==
    LET r == HelperText(helper, e, op)
    IN  WithArgs(e, <<FALSE, "">>, [r EXCEPT !.ret = rust_str_to_c(e, @)])
FfiGetFileTypes(e) ==
    LET r == HelperFileTypes(helper, e)
    IN  WithArgs(e, <<FALSE, <<>>>>, [r EXCEPT !.ret = <<e.fits, IF e.fits THEN @ ELSE <<>>>>])
FfiTemplate(e, op) == WithArgs(e, DATA_SHARE_ERROR, PersistentTemplate(e, op))

\* The registration of a silent observer is not a request of these proxies.
FfiObserver(e, op) == WithArgs(e, DATA_SHARE_ERROR, ProviderObserver(e, op))
\* Nothing is returned.
Void(r) == [r EXCEPT !.ret = DATA_SHARE_ERROR]
FfiNotifyChange(e) == Void(WithArgs(e, FALSE, HelperNotify(helper, e)))

FfiInsertExtStr(e) ==
    LET r == HelperInsertExt(helper, e)
    IN  WithArgs(e, DATA_SHARE_ERROR, [r EXCEPT !.ret = @[1]])
FfiExtProvider(e, op) == WithArgs(e, DATA_SHARE_ERROR, HelperExtProvider(helper, e, op))
FfiUserDefineFunc(e) ==
    LET r == HelperUserDefineFunc(helper, e)
    IN  WithArgs(e, DATA_SHARE_ERROR, [r EXCEPT !.ret = IF @ THEN 0 ELSE DATA_SHARE_ERROR])
\* Where the subscriber manager asks the service, see RdbManager and
\* PublishedManager.  The code only says whether there are results.
AnyResults(r) == [r EXCEPT !.ret = IF @ = <<>> THEN DATA_SHARE_ERROR ELSE 0]
ManagerAsksWith(o, op) ==
    [subscribe_rdb_data |-> SP!subscribe_rdb_data(o, <<"u">>),
     unsubscribe_rdb_data |-> SP!unsubscribe_rdb_data(o, <<"u">>),
     enable_rdb_subs |-> SP!enable_subscribe_rdb_data(o, <<"u">>),
     disable_rdb_subs |-> SP!disable_subscribe_rdb_data(o, <<"u">>),
     subscribe_published_data |-> SP!subscribe_published_data(o, <<"u">>),
     unsubscribe_published_data |-> SP!unsubscribe_published_data(o, <<"u">>),
     enable_pub_subs |-> SP!enable_subscribe_published_data(o, <<"u">>),
     disable_pub_subs |-> SP!disable_subscribe_published_data(o, <<"u">>)][op]
\* With no uris the manager asks nothing, but to unsubscribe from published data it
\* asks for all uris of the subscriber (del_all_observers; that of the rdb manager
\* does not ask the service).
ManagerAsks(e, op) ==
    WithProxy(e, <<>>, IF e.args # "none" \/ op = "unsubscribe_published_data" THEN ManagerAsksWith(e.o, op)
                       ELSE Local(<<>>))
FfiSubscription(e, op) == WithArgs(e, DATA_SHARE_ERROR, AnyResults(ManagerAsks(e, op)))
FfiPublish(e) == WithArgs(e, DATA_SHARE_ERROR, AnyResults(PublishedPublish(e)))
FfiGetPublishedData(e) == WithArgs(e, <<<<>>, DATA_SHARE_ERROR>>, PublishedGet(e))
FfiBatchInsert(e) == WithArgs(e, DATA_SHARE_ERROR, HelperBatch(helper, e, "batch_insert"))
FfiBatchUpdate(e) == WithArgs(e, DATA_SHARE_ERROR, HelperBatch(helper, e, "batch_update"))
FfiExecuteBatchBlob(e) == WithArgs(e, DATA_SHARE_ERROR, HelperBatch(helper, e, "execute_batch_blob"))

----------------------------------------------------------------------------
\* The operation that a method stands for at the other side.
AsksFor(op) ==
    [insert |-> "Insert", update |-> "Update", delete |-> "Delete",
     insert_ex |-> "InsertEx", update_ex |-> "UpdateEx", delete_ex |-> "DeleteEx",
     query |-> "Query", query_with_option |-> "Query",
     open_file |-> "OpenFile", open_file_with_err_code |-> "OpenFileWithErrCode",
     open_raw_file |-> "OpenRawFile", get_type |-> "GetType", normalize_uri |-> "NormalizeUri",
     denormalize_uri |-> "DenormalizeUri", get_file_types |-> "GetFileTypes",
     batch_insert |-> "BatchInsert", batch_update |-> "BatchUpdate",
     execute_batch |-> "ExecuteBatch", execute_batch_blob |-> "ExecuteBatch",
     insert_ext |-> "InsertExt", register_observer |-> "RegisterObserver",
     unregister_observer |-> "UnregisterObserver",
     register_observer_ext_provider |-> "RegisterObserverExtProvider",
     unregister_observer_ext_provider |-> "UnregisterObserverExtProvider",
     notify_change_ext_provider |-> "NotifyChangeExtProvider", notify_change |-> "NotifyChange",
     user_define_func |-> "UserDefineFunc", add_query_template |-> "AddTemplate",
     del_query_template |-> "DelTemplate", publish |-> "Publish", get_published_data |-> "GetData",
     publish_proxy_data |-> "ProxyPublish", delete_proxy_data |-> "ProxyDelete",
     get_proxy_data |-> "ProxyGet", subscribe_rdb_data |-> "SubscribeRdb",
     unsubscribe_rdb_data |-> "UnsubscribeRdb", enable_rdb_subs |-> "EnableSubscribeRdb",
     disable_rdb_subs |-> "DisableSubscribeRdb", subscribe_published_data |-> "SubscribePublished",
     unsubscribe_published_data |-> "UnsubscribePublished", enable_pub_subs |-> "EnableSubscribePublished",
     disable_pub_subs |-> "DisableSubscribePublished", subscribe_proxy_data |-> "SubscribeProxyData",
     unsubscribe_proxy_data |-> "UnsubscribeProxyData", set_silent_switch |-> "SetSilentSwitch",
     get_silent_proxy_status |-> "GetSilentProxyStatus",
     get_connection_interface_info |-> "GetConnectionInterfaceInfo"][op]
\* The old CRUD interface of the service is built on the new one.
AsksService(op) ==
    IF op = "notify_change" THEN "NotifyObservers"
    ELSE IF op \in CrudOps THEN [insert |-> "InsertEx", update |-> "UpdateEx", delete |-> "DeleteEx"][op]
    ELSE AsksFor(op)

\* The handler of the service for a code, with or without the system offset.
ServiceHandler(code) ==
    CHOOSE h \in DOMAIN SP!ServiceCmd : SP!ServiceCmd[h] \in {code, code - SP!SYSTEM_CODE_OFFSET}

\* What a handler answers: good, it did what it was asked to.  One result for each
\* of the n uris or items it was asked for.
Num(n) == <<"i32", n>>
Text(s) == <<"str", s>>
Results(n, code) == <<Num(n)>> \o [i \in 1 .. n |-> <<"item", <<code, "u">>>>]
Answer(ran, n, good, err) ==
    CASE ran \in {"Insert", "Update", "Delete", "BatchInsert", "OpenRawFile"} ->
            <<Num(IF good THEN 2 ELSE -1)>>
      [] ran \in {"InsertEx", "UpdateEx", "DeleteEx"} -> <<Num(IF good THEN 0 ELSE err), Num(2)>>
      [] ran = "Query" -> IF good THEN <<<<"rs", 1>>>> ELSE <<>>
      [] ran \in {"OpenFile", "OpenFileWithErrCode"} -> IF good THEN <<<<"fd", 7>>>> ELSE <<>>
      [] ran = "GetType" -> <<Text(IF good THEN "t" ELSE "")>>
      [] ran \in {"NormalizeUri", "DenormalizeUri"} ->
            IF good THEN <<Num(1), Text("u")>> ELSE <<Num(0)>>
      [] ran \in {"Publish", "SubscribeRdb", "UnsubscribeRdb", "EnableSubscribeRdb", "DisableSubscribeRdb",
                  "SubscribePublished", "UnsubscribePublished", "EnableSubscribePublished",
                  "DisableSubscribePublished"} -> Results(n, IF good THEN 0 ELSE err)
      [] ran = "GetConnectionInterfaceInfo" -> <<Num(IF good THEN 0 ELSE err), Text("d"), Num(5)>>
      [] ran \in {"GetFileTypes", "BatchUpdate"} ->
            IF good THEN <<Num(1), <<"item", "i">>>> ELSE <<Num(0)>>
      [] ran = "ExecuteBatch" -> <<<<IF good THEN "item" ELSE "bad", "i">>>>
      [] ran = "InsertExt" -> <<Num(IF good THEN 2 ELSE -1), Text("u")>>
      [] ran \in {"RegisterObserver", "UnregisterObserver"} /\ ~Silent(helper) -> <<Num(IF good THEN 1 ELSE 0)>>
      [] ran = "GetData" -> <<Num(1), <<"item", "i">>, Num(IF good THEN 0 ELSE err)>>
      [] ran \in {"ProxyPublish", "ProxyDelete", "SubscribeProxyData", "UnsubscribeProxyData"} ->
            Results(n, IF good THEN 0 ELSE SP!InnerError)
      [] ran = "ProxyGet" ->
            <<Num(9), Num(9), <<"buf", [i \in 1 .. n |-> <<"ok", <<IF good THEN 0 ELSE SP!InnerError, "u">>>>]>>>>
      [] OTHER -> <<Num(IF good THEN 0 ELSE err)>>

----------------------------------------------------------------------------
\* Whether the caller takes the returned value for a success.
Succeeds(via, op, ret) ==
    CASE op \in CrudExOps \cup QueryOps -> ret[1] = 0
      [] op \in TextOps -> ret[1] /\ ret[2] # ""
      [] op = "get_file_types" -> ret[1] /\ ret[2] # <<>>
      [] op \in ObserverOps \cup ExtProviderOps \cup TemplateOps \cup SwitchOps -> ret = 0
      [] op \in SubscriptionOps \cup {"publish"} -> IF via = "helper" THEN ret = 0 ELSE ret # <<>> /\ ret[1][1] = 0
      [] op \in ProxySubscriptionOps -> ret # <<>> /\ ret[1][1] = 0
      [] op = "get_published_data" -> ret[2] = 0
      [] op \in HandleOps -> ret # <<>> /\ ret[1][1] = 0
      [] OTHER -> ret >= 0

Idle == [via |-> "none", op |-> "none", ran |-> "none", args |-> "all", good |-> FALSE, ok |-> FALSE]
ServiceOps == TemplateOps \cup HandleOps \cup SubscriptionOps \cup ProxySubscriptionOps
              \cup SwitchOps \cup {"publish", "get_published_data"}

\* The uris or items of a request.
Asked(via, args) == IF via = "svc" /\ args = "none" THEN 0 ELSE 1

\* One whole call: Method(e) is the function of the C interface via.  The reply is
\* that of the handler which runs for the code; cut, its last field is lost.
CallVia(via, op, Method(_), timedToo) ==
    /\ last = Idle
    /\ helper # "none"
    /\ \E fits, proxy, over, sent, good, cut, timed, late \in BOOLEAN, args \in ArgsOf(via, op),
         writes \in {0, 4, 20}, lost \in {0, 1, MAX_RETRY_COUNT}, err \in {-1, 1} :
        /\ ~timedToo => ~timed
        /\ ~timed => ~late /\ lost = 0
        /\ (op \notin TextOps \cup {"get_file_types"}) => fits
        /\ good => err = -1
        /\ LET e(reply) == [args |-> args, fits |-> fits, proxy |-> proxy, over |-> over,
                            timed |-> timed, late |-> late, lost |-> lost,
                            o |-> [writes |-> writes, sent |-> sent, reply |-> reply,
                                   system |-> system, error |-> err]]
               code == Method(e(<<>>)).code
               toService == Silent(helper) \/ op \in ServiceOps
               reached == code # SP!NotSent /\ sent
               ran == IF ~reached THEN "none"
                      ELSE IF toService THEN ServiceHandler(code) ELSE XP!on_remote_request(code)
               answer == IF reached THEN Answer(ran, Asked(via, args), good, err) ELSE <<>>
               reply == IF cut /\ answer # <<>> THEN SubSeq(answer, 1, Len(answer) - 1) ELSE answer
           IN  last' = [via |-> via, op |-> op, ran |-> ran, args |-> args, good |-> good /\ reached,
                        ok |-> Succeeds(via, op, Method(e(reply)).ret)]
    /\ UNCHANGED <<helper, system>>

Call(op, Method(_), timedToo) == CallVia("helper", op, Method, timedToo)

CallCrud == \E op \in CrudOps : Call(op, LAMBDA e : FfiCrud(e, op), FALSE)
CallCrudEx == \E op \in CrudExOps : Call(op, LAMBDA e : FfiCrudEx(e, op), FALSE)
CallQuery == Call("query", LAMBDA e : FfiQuery(e), FALSE)
CallQueryWithResultSet == Call("query_with_option", LAMBDA e : FfiQueryWithResultSet(e), TRUE)
CallFile == \E op \in FileOps : Call(op, LAMBDA e : FfiFile(e, op), FALSE)
CallText == \E op \in TextOps : Call(op, LAMBDA e : FfiText(e, op), FALSE)
CallFileTypes == Call("get_file_types", LAMBDA e : FfiGetFileTypes(e), FALSE)
CallBatch == Call("batch_insert", FfiBatchInsert, FALSE) \/ Call("batch_update", FfiBatchUpdate, FALSE)
\* The Rust methods, which have no function of their own in the C interface.
CallExecuteBatch == Call("execute_batch", LAMBDA e : HelperBatch(helper, e, "execute_batch"), FALSE)
CallBatchBlob == Call("execute_batch_blob", LAMBDA e : FfiExecuteBatchBlob(e), FALSE)
CallInsertExt == Call("insert_ext", LAMBDA e : FfiInsertExtStr(e), FALSE)
CallObserver ==
    /\ ~Silent(helper)
    /\ \E op \in ObserverOps : Call(op, LAMBDA e : FfiObserver(e, op), FALSE)
CallNotify == Call("notify_change", FfiNotifyChange, FALSE)
CallExtProvider == \E op \in ExtProviderOps : Call(op, LAMBDA e : FfiExtProvider(e, op), FALSE)
CallUserDefineFunc == Call("user_define_func", LAMBDA e : FfiUserDefineFunc(e), FALSE)
CallTemplate == \E op \in TemplateOps : Call(op, LAMBDA e : FfiTemplate(e, op), FALSE)
CallPublish == Call("publish", LAMBDA e : FfiPublish(e), FALSE)
CallGetPublished == Call("get_published_data", LAMBDA e : FfiGetPublishedData(e), FALSE)
CallSubscription == \E op \in SubscriptionOps : Call(op, LAMBDA e : FfiSubscription(e, op), FALSE)
CallHandle == \E op \in HandleOps : Call(op, LAMBDA e : HandleCall(e, op), FALSE)

\* The caller has the result.
Return == last # Idle /\ last' = Idle /\ UNCHANGED <<helper, system>>

----------------------------------------------------------------------------
\* DataShareHelperCreateProvider and DataShareHelperCreateSilent.
CreateProvider == helper = "none" /\ helper' = "provider" /\ UNCHANGED <<system, last>>
CreateSilent == helper = "none" /\ helper' = "silent" /\ UNCHANGED <<system, last>>
\* create_helper: silent exactly if the service answers that the uri may be.
CreateHelper ==
    /\ helper = "none"
    /\ \E proxy \in BOOLEAN, status \in {-1, 0, 1} :
         helper' = IF proxy /\ status = 0 THEN "silent" ELSE "provider"
    /\ UNCHANGED <<system, last>>
Destroy == helper # "none" /\ last = Idle /\ helper' = "none" /\ UNCHANGED <<system, last>>

\* set_silent_switch marks the process and leaves the mark; get_silent_proxy_status
\* removes it, if it came to setting it.
SetSilentSwitch ==
    /\ last = Idle
    /\ \E is_system \in BOOLEAN : system' = is_system
    /\ UNCHANGED <<helper, last>>
GetSilentProxyStatus ==
    /\ last = Idle
    /\ \E proxy \in BOOLEAN : system' = (system /\ ~proxy)
    /\ UNCHANGED <<helper, last>>

\* DataShareServiceProxySetSystem and DataShareServiceProxyCleanSystem.
SetSystem == last = Idle /\ (\E is_system \in BOOLEAN : system' = is_system) /\ UNCHANGED <<helper, last>>
CleanSystem == last = Idle /\ system' = FALSE /\ UNCHANGED <<helper, last>>

HelperInit == helper = "none" /\ system = FALSE /\ last = Idle

HelperNext ==
    \/ CallCrud \/ CallCrudEx \/ CallQuery \/ CallQueryWithResultSet \/ CallFile \/ CallText
    \/ CallFileTypes \/ CallBatch \/ CallExecuteBatch \/ CallBatchBlob \/ CallInsertExt \/ CallObserver
    \/ CallNotify \/ CallExtProvider \/ CallUserDefineFunc \/ CallTemplate \/ CallPublish \/ CallGetPublished
    \/ CallHandle \/ CallSubscription \/ Return
    \/ CreateProvider \/ CreateSilent \/ CreateHelper \/ Destroy
    \/ SetSilentSwitch \/ GetSilentProxyStatus \/ SetSystem \/ CleanSystem

----------------------------------------------------------------------------
\* A request reaches the handler of the operation that was called and no other,
\* and a call that looks like a success to its caller was executed: the request
\* was sent and the handler said that it had done it.  Neither a missing proxy,
\* the call threshold, a write that fails, a lost request, a reply cut short, nor
\* a positive error code comes back as a success.  batch_update, user_define_func,
\* and of the helper publish and the subscriptions, do not look at what the answer
\* says.
SuccessIsAnswered ==
    /\ last.ran # "none" => last.ran = IF Silent(helper) THEN AsksService(last.op) ELSE AsksFor(last.op)
    /\ last.ok =>
        /\ last.ran # "none"
        /\ last.good \/ last.op \in {"batch_update", "user_define_func"}
           \/ (last.via = "helper" /\ last.op \in SubscriptionOps \cup {"publish"})
=============================================================================
