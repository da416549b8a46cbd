---------------------------- MODULE ExtensionCall ----------------------------
(***************************************************************************)
(* How a request reaches the extension of a provider and its answer the    *)
(* IPC thread: DataShareStubImpl takes its mutex and posts a task through  *)
(* DataShareUvQueue; the main thread runs it, which calls the ArkTS        *)
(* handler (datashare_extension.rs); the handler answers later, through a  *)
(* native callback that fills the call's ResultWrap; the IPC thread waits  *)
(* for the task, then polls the ResultWrap a bounded number of times.      *)
(***************************************************************************)
EXTENDS Integers, Sequences, FiniteSets

CONSTANTS
    IpcThreads,      \* threads that serve requests
    CallKinds,       \* "insert", "batch_insert", "update", "delete", "query", "uri", "batch_update"
    TRY_TIMES,       \* polls after the first, 2000 in the code
    MaxCalls         \* bound: requests

ASSUME ExtensionCallAssumption == TRY_TIMES \in Nat /\ MaxCalls \in Nat

VARIABLES
    thread,          \* where a thread is, its call, its polls left, what it read
    stub_mutex,      \* the threads that hold DataShareStubImpl::mutex_
    entry,           \* the TaskEntry of every call
    wrap,            \* the ResultWrap of every call
    kind_of,         \* what every call asks for
    queue,           \* tasks posted to the main thread
    main,            \* what the main thread does, and for which call
    result_,         \* the member of the extension: the call it belongs to, 0 for none
    point,           \* the call whose ResultWrap the handler's answer goes to, 0 for none
    pending,         \* handlers that have not answered
    told,            \* what every call returned
    created          \* whether onCreate was called and has answered

extVars == <<thread, stub_mutex, entry, wrap, kind_of, queue, main, result_, point, pending, told, created>>

Calls == 1 .. MaxCalls
Default == -1                     \* callbackResultNumber_ of a new ResultWrap
NotPosted == 0                    \* ret when the task could not be posted
Torn == -3                        \* a value read while it is assigned
Idle == [at |-> "idle", id |-> 0, tries |-> 0, flag |-> FALSE, ret |-> 0]
Running == -9                     \* a call that has not returned
NewWrap == [value |-> Default, isRecvReply |-> FALSE]
NoEntry == [count |-> 0, done |-> FALSE, frees |-> 0]
TaskEntry == [NoEntry EXCEPT !.count = 1]

ExtensionInit ==
    /\ thread = [t \in IpcThreads |-> Idle] /\ stub_mutex = {}
    /\ entry = [c \in Calls |-> NoEntry] /\ wrap = [c \in Calls |-> NewWrap]
    /\ kind_of = <<>> /\ queue = <<>> /\ main = [at |-> "idle", id |-> 0]
    /\ result_ = 0 /\ point = [c \in Calls |-> 0] /\ pending = {}
    /\ told = <<>> /\ created = "no"

threadVars == <<thread, stub_mutex, told>>
mainVars == <<queue, main, result_, point, pending, created>>

Goto(t, at) == thread' = [thread EXCEPT ![t].at = at]
Drop(id) ==
    [entry EXCEPT ![id].count = @ - 1, ![id].frees = @ + (IF entry[id].count = 1 THEN 1 ELSE 0)]

----------------------------------------------------------------------------
\* A request with the permission it needs makes its ResultWrap and waits for the
\* stub's mutex; without the permission, or with no extension, it is refused and
\* no more happens.  The ability has started, so that onCreate was called.
StubCall(t, kind) ==
    /\ thread[t].at = "idle" /\ Len(kind_of) < MaxCalls /\ created # "no"
    /\ kind_of' = Append(kind_of, kind)
    /\ told' = Append(told, Running)
    /\ thread' = [thread EXCEPT ![t] = [Idle EXCEPT !.at = "lock", !.id = Len(kind_of) + 1]]
    /\ UNCHANGED <<stub_mutex, entry, wrap, mainVars>>

StubLock(t) ==
    /\ thread[t].at = "lock" /\ stub_mutex = {}
    /\ stub_mutex' = {t} /\ Goto(t, "post")
    /\ UNCHANGED <<entry, wrap, kind_of, told, mainVars>>

\* Mutant: the entry is not counted for the main thread.
PostTaskMutant(t) ==
    /\ thread[t].at = "post"
    /\ entry' = [entry EXCEPT ![thread[t].id] = TaskEntry]
    /\ queue' = Append(queue, thread[t].id)
    /\ Goto(t, "wait")
    /\ UNCHANGED <<stub_mutex, wrap, kind_of, told, main, result_, point, pending, created>>

\* SyncCall: the entry is counted for the main thread before it is posted.
PostTask(t) ==
    /\ thread[t].at = "post"
    /\ entry' = [entry EXCEPT ![thread[t].id] = [TaskEntry EXCEPT !.count = @ + 1]]
    /\ queue' = Append(queue, thread[t].id)
    /\ Goto(t, "wait")
    /\ UNCHANGED <<stub_mutex, wrap, kind_of, told, main, result_, point, pending, created>>

\* The task could not be posted: the entry is deleted although the guard that
\* holds its mutex is still in scope.
PostFails(t) ==
    /\ thread[t].at = "post"
    /\ entry' = [entry EXCEPT ![thread[t].id].frees = 1]
    /\ thread' = [thread EXCEPT ![t].at = "unlock", ![t].ret = NotPosted]
    /\ UNCHANGED <<stub_mutex, wrap, kind_of, told, mainVars>>

\* The guard goes out of scope and unlocks the mutex of the deleted entry.
UnlockDeleted(t) ==
    /\ thread[t].at = "unlock" /\ Goto(t, "leave")
    /\ UNCHANGED <<stub_mutex, entry, wrap, kind_of, told, mainVars>>

\* wait_for: the task is done, or WAIT_TIME is over.  Either way the mutex of
\* the entry is taken again, which the main thread holds while it runs the task.
HoldsEntry(id) == main.at \in {"starts", "called"} /\ main.id = id
Waited(t) ==
    /\ thread[t].at = "wait" /\ ~HoldsEntry(thread[t].id)
    /\ thread' = [thread EXCEPT ![t].at = "poll", ![t].tries = TRY_TIMES]
    /\ UNCHANGED <<stub_mutex, entry, wrap, kind_of, told, mainVars>>

\* CheckFuncAndExec: getRetFunc reads isRecvReply_, then the value, and counts
\* as answered by the first of the two reads.
Poll(t) ==
    /\ thread[t].at = "poll"
    /\ thread' = [thread EXCEPT ![t].at = "read", ![t].flag = wrap[thread[t].id].isRecvReply]
    /\ UNCHANGED <<stub_mutex, entry, wrap, kind_of, told, mainVars>>

\* A result set, a string or a list that is read while it is written may be
\* torn: the writers take no lock.
ReadsOf(id) ==
    {wrap[id].value} \cup
    (IF main.at = "writes" /\ point[main.id] = id /\ kind_of[id] \in {"query", "uri", "batch_update"}
     THEN {Torn} ELSE {})

\* Mutant: the polls are not counted.
CheckFuncAndExecMutant(t) ==
    /\ thread[t].at = "read"
    /\ \E v \in ReadsOf(thread[t].id) :
         thread' = [thread EXCEPT ![t].ret = v, ![t].at = IF thread[t].flag THEN "unref" ELSE "poll"]
    /\ UNCHANGED <<stub_mutex, entry, wrap, kind_of, told, mainVars>>

CheckFuncAndExec(t) ==
    /\ thread[t].at = "read"
    /\ \E v \in ReadsOf(thread[t].id) :
         LET over == thread[t].flag \/ thread[t].tries = 0 IN
         thread' = [thread EXCEPT ![t].ret = v, ![t].at = IF over THEN "unref" ELSE "poll",
                                  ![t].tries = IF over THEN @ ELSE @ - 1]
    /\ UNCHANGED <<stub_mutex, entry, wrap, kind_of, told, mainVars>>

Unref(t) ==
    /\ thread[t].at = "unref"
    /\ entry' = Drop(thread[t].id) /\ Goto(t, "leave")
    /\ UNCHANGED <<stub_mutex, wrap, kind_of, told, mainVars>>

StubReturn(t) ==
    /\ thread[t].at = "leave"
    /\ told' = [told EXCEPT ![thread[t].id] = thread[t].ret]
    /\ stub_mutex' = {} /\ thread' = [thread EXCEPT ![t] = Idle]
    /\ UNCHANGED <<entry, wrap, kind_of, mainVars>>

----------------------------------------------------------------------------
\* LambdaForWork on the main thread: the task puts its ResultWrap into the
\* extension, then calls the operation.
MainStarts ==
    /\ main.at = "idle" /\ queue # <<>>
    /\ main' = [at |-> "starts", id |-> Head(queue)] /\ queue' = Tail(queue)
    /\ result_' = Head(queue)
    /\ UNCHANGED <<threadVars, entry, wrap, kind_of, point, pending, created>>

\* The operation moves the member into a point of its own and calls the handler
\* with it.  An extension that is gone calls nothing and leaves the member; a
\* class, method or argument that is not found, or a handler that throws, is
\* logged and never answers.
CallArkts(kinds) ==
    /\ main.at = "starts" /\ kind_of[main.id] \in kinds
    /\ main' = [main EXCEPT !.at = "called"]
    /\ \/ point' = [point EXCEPT ![main.id] = result_] /\ result_' = 0
          /\ pending' \in {pending, pending \cup {main.id}}
       \/ UNCHANGED <<point, result_, pending>>
    /\ UNCHANGED <<threadVars, entry, wrap, kind_of, queue, created>>

call_arkts_insert == CallArkts({"insert", "batch_insert"})
call_arkts_update == CallArkts({"update", "delete"})
call_arkts_query == CallArkts({"query"})
call_arkts_normalize_uri == CallArkts({"uri"})
call_arkts_batch_update == CallArkts({"batch_update"})

MainDone ==
    /\ main.at = "called" /\ main' = [main EXCEPT !.at = "unref"]
    /\ entry' = [entry EXCEPT ![main.id].done = TRUE]
    /\ UNCHANGED <<threadVars, wrap, kind_of, queue, result_, point, pending, created>>

MainUnref ==
    /\ main.at = "unref" /\ main' = [at |-> "idle", id |-> 0]
    /\ entry' = Drop(main.id)
    /\ UNCHANGED <<threadVars, wrap, kind_of, queue, result_, point, pending, created>>

\* native_extension_callback_*: the value is written, then isRecvReply_.
ExtensionCallback(kinds) ==
    /\ main.at = "idle"
    /\ \E c \in pending :
         /\ kind_of[c] \in kinds
         /\ pending' = pending \ {c} /\ main' = [at |-> "writes", id |-> c]
    /\ UNCHANGED <<threadVars, entry, wrap, kind_of, queue, result_, point, created>>

native_extension_callback_int == ExtensionCallback({"insert", "batch_insert", "update", "delete"})
native_extension_callback_object == ExtensionCallback({"query"})
native_extension_callback_string == ExtensionCallback({"uri"})
native_extension_callback_batch_update == ExtensionCallback({"batch_update"})

\* The object is no result set of the relational or the key-value store.
UnknownResultSet ==
    /\ main.at = "idle"
    /\ \E c \in pending : kind_of[c] = "query" /\ pending' = pending \ {c}
    /\ UNCHANGED <<threadVars, entry, wrap, kind_of, queue, main, result_, point, created>>

\* Mutant: the answer goes to the ResultWrap of the latest request.
WriteValueMutant ==
    /\ main.at = "writes" /\ main' = [main EXCEPT !.at = "flags"]
    /\ wrap' = [wrap EXCEPT ![Len(kind_of)].value = main.id]
    /\ UNCHANGED <<threadVars, entry, kind_of, queue, result_, point, pending, created>>

WriteValue ==
    /\ main.at = "writes" /\ main' = [main EXCEPT !.at = "flags"]
    /\ wrap' = [wrap EXCEPT ![point[main.id]].value = main.id]
    /\ UNCHANGED <<threadVars, entry, kind_of, queue, result_, point, pending, created>>

WriteRecvReply ==
    /\ main.at = "flags" /\ main' = [at |-> "idle", id |-> 0]
    /\ wrap' = [wrap EXCEPT ![point[main.id]].isRecvReply = TRUE]
    /\ UNCHANGED <<threadVars, entry, kind_of, queue, result_, point, pending, created>>

\* onCreate is called when the ability starts; its answer tells the data service
\* where the ability was started for that.
call_arkts_on_create ==
    /\ main.at = "idle" /\ created = "no" /\ created' = "called"
    /\ UNCHANGED <<threadVars, entry, wrap, kind_of, queue, main, result_, point, pending>>

native_extension_callback_void ==
    /\ main.at = "idle" /\ created = "called" /\ created' \in {"answered", "notified"}
    /\ UNCHANGED <<threadVars, entry, wrap, kind_of, queue, main, result_, point, pending>>

ThreadStep(t) ==
    \/ StubLock(t) \/ PostTask(t) \/ PostFails(t) \/ UnlockDeleted(t) \/ Waited(t) \/ Poll(t)
    \/ CheckFuncAndExec(t) \/ Unref(t) \/ StubReturn(t)

TaskStep ==
    \/ call_arkts_insert \/ call_arkts_update \/ call_arkts_query
    \/ call_arkts_normalize_uri \/ call_arkts_batch_update \/ MainDone \/ MainUnref

AnswerStep ==
    \/ native_extension_callback_int \/ native_extension_callback_object
    \/ native_extension_callback_string \/ native_extension_callback_batch_update
    \/ UnknownResultSet \/ WriteValue \/ WriteRecvReply
    \/ call_arkts_on_create \/ native_extension_callback_void

ExtensionNext ==
    \/ \E t \in IpcThreads : ThreadStep(t) \/ \E kind \in CallKinds : StubCall(t, kind)
    \/ MainStarts \/ TaskStep \/ AnswerStep

ExtensionSpec == ExtensionInit /\ [][ExtensionNext]_extVars

----------------------------------------------------------------------------
\* What a request returns is the answer of its own handler, or that there was
\* none: an answer that comes after its caller gave up never reaches a later
\* caller, whose task has put its ResultWrap into the same member.  A value read
\* while it is written may be torn.
AnswerIsOwn ==
    \A c \in DOMAIN told : told[c] \in {Running, Default, NotPosted, Torn, c}

\* A task entry is deleted once, after both the main thread and the IPC thread
\* have let it go, whichever is later, a task that runs after its caller gave up
\* included.  The one use that follows a deletion is excepted by name: where the
\* task could not be posted, the guard of the entry's mutex unlocks it afterwards.
UnlocksDeleted(t) == thread[t].at = "unlock"
EntryOutlivesUse ==
    /\ \A c \in Calls : entry[c].frees <= 1
    /\ \A c \in Calls : entry[c].frees = 1 =>
            /\ c \notin {queue[i] : i \in DOMAIN queue}
            /\ ~(main.id = c /\ main.at \in {"starts", "called", "unref"})
            /\ \A t \in IpcThreads : thread[t].id = c => thread[t].at = "leave" \/ UnlocksDeleted(t)

\* Every request returns, though its task may never run and its handler never
\* answer.
EveryCallReturns ==
    \A c \in Calls : c \in DOMAIN told ~> c \in DOMAIN told /\ told[c] # Running
=============================================================================
