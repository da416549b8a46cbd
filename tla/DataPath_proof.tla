----------------------------- MODULE DataPath_proof -----------------------------
(***************************************************************************)
(* Theorems about the components of MCDataPath: ExtensionCall, for every   *)
(* set of IPC threads, every number of requests and every number of polls; *)
(* AniHelper, for every set of helpers, uris, callbacks and workers; and   *)
(* the shared blocks, for every size of block, header, group and cell,     *)
(* every number of rows in a group and every source: what each operation   *)
(* of SharedBlock keeps, then BlockFfi and ResultSet, which are built from *)
(* them, and the cursor that ResultSet implements.                         *)
(***************************************************************************)
EXTENDS ExtensionCall, AniHelper, ResultSet, BlockFfi, SequenceTheorems, TLAPS

-----------------------------------------------------------------------------
(* Type correctness *)

ThreadPc == {"idle", "lock", "post", "wait", "poll", "read", "unref", "unlock", "leave"}

ThreadRecord == [at : ThreadPc, id : 0 .. MaxCalls, tries : Int, flag : BOOLEAN, ret : Int]

EntryRecord == [count : Int, done : BOOLEAN, frees : Int]

WrapRecord == [value : Int, isRecvReply : BOOLEAN]

MainRecord == [at : {"idle", "starts", "called", "unref", "writes", "flags"}, id : 0 .. MaxCalls]

\* The IPC threads and what they have been told.  A thread that serves a request
\* serves one that was made.
ThreadType ==
    /\ thread \in [IpcThreads -> ThreadRecord]
    /\ kind_of \in Seq(CallKinds) /\ Len(kind_of) <= MaxCalls
    /\ told \in Seq(Int) /\ Len(told) = Len(kind_of)
    /\ \A t \in IpcThreads : /\ thread[t].id <= Len(kind_of)
                             /\ thread[t].at = "idle" <=> thread[t].id = 0

\* The main thread; it is at work for a request exactly when it is not idle.
MainType ==
    /\ main \in MainRecord
    /\ main.at # "idle" => main.id \in Calls
    /\ queue \in Seq(Calls)
    /\ result_ \in 0 .. MaxCalls
    /\ point \in [Calls -> 0 .. MaxCalls]
    /\ pending \in SUBSET Calls

MemoryType == entry \in [Calls -> EntryRecord] /\ wrap \in [Calls -> WrapRecord]

\* An answer goes to the ResultWrap of the request it belongs to: the task of a
\* request has put it into the member, and the operation has moved it on from there.
OwnPoint ==
    /\ main.at = "starts" => result_ = main.id
    /\ \A c \in pending : point[c] = c
    /\ main.at \in {"writes", "flags"} => point[main.id] = main.id

\* So what is in a ResultWrap, read from it or returned is the request's own.
OwnValue ==
    /\ \A c \in Calls : wrap[c].value \in {Default, c}
    /\ \A t \in IpcThreads : thread[t].ret \in {Default, NotPosted, Torn, thread[t].id}
    /\ AnswerIsOwn

AnswerInv == ThreadType /\ MainType /\ MemoryType /\ OwnPoint /\ OwnValue

LEMMA CallsAreNumbers ==
    /\ \A c \in Calls : c \in Nat /\ c # 0 /\ c \in Int /\ c \in 0 .. MaxCalls
    /\ 0 \notin Calls
BY ExtensionCallAssumption DEF Calls

\* Updates of a record, whatever its fields hold.
LEMMA ThreadUpdates ==
    ASSUME NEW A, NEW I, NEW N, NEW F, NEW V, NEW a \in A, NEW i \in I, NEW n \in N, NEW v \in V,
           NEW h \in [at : A, id : I, tries : N, flag : F, ret : V]
    PROVE  /\ [h EXCEPT !.at = a, !.id = i] \in [at : A, id : I, tries : N, flag : F, ret : V]
           /\ [h EXCEPT !.at = a, !.ret = v] \in [at : A, id : I, tries : N, flag : F, ret : V]
           /\ [h EXCEPT !.at = a, !.ret = v].at = a /\ [h EXCEPT !.at = a, !.ret = v].ret = v
           /\ [h EXCEPT !.at = a, !.ret = v].id = h.id
           /\ [h EXCEPT !.at = a, !.tries = n] \in [at : A, id : I, tries : N, flag : F, ret : V]
           /\ [h EXCEPT !.at = a, !.tries = n].at = a /\ [h EXCEPT !.at = a, !.tries = n].id = h.id
           /\ [h EXCEPT !.at = a, !.tries = n].ret = h.ret
           /\ [h EXCEPT !.ret = v, !.at = a, !.tries = n]
                  \in [at : A, id : I, tries : N, flag : F, ret : V]
           /\ [h EXCEPT !.ret = v, !.at = a, !.tries = n].at = a
           /\ [h EXCEPT !.ret = v, !.at = a, !.tries = n].id = h.id
           /\ [h EXCEPT !.ret = v, !.at = a, !.tries = n].ret = v
OBVIOUS

LEMMA EntryUpdates ==
    ASSUME NEW C, NEW D, NEW N, NEW c \in C, NEW d \in D, NEW n \in N,
           NEW h \in [count : C, done : D, frees : N]
    PROVE  /\ [h EXCEPT !.count = c] \in [count : C, done : D, frees : N]
           /\ [h EXCEPT !.count = c].count = c /\ [h EXCEPT !.count = c].frees = h.frees
           /\ [h EXCEPT !.done = d] \in [count : C, done : D, frees : N]
           /\ [h EXCEPT !.done = d].count = h.count /\ [h EXCEPT !.done = d].frees = h.frees
           /\ [h EXCEPT !.frees = n] \in [count : C, done : D, frees : N]
           /\ [h EXCEPT !.frees = n].count = h.count /\ [h EXCEPT !.frees = n].frees = n
           /\ [h EXCEPT !.count = c, !.frees = n] \in [count : C, done : D, frees : N]
           /\ [h EXCEPT !.count = c, !.frees = n].count = c
           /\ [h EXCEPT !.count = c, !.frees = n].frees = n
OBVIOUS

\* The entry of a task that is posted is counted twice.
LEMMA PostedEntry ==
    /\ [TaskEntry EXCEPT !.count = @ + 1] \in EntryRecord
    /\ [TaskEntry EXCEPT !.count = @ + 1].count = 2
    /\ [TaskEntry EXCEPT !.count = @ + 1].frees = 0
<1>1. NoEntry \in EntryRecord
    BY DEF NoEntry, EntryRecord
<1>2. NoEntry.count = 0 /\ NoEntry.frees = 0
    BY DEF NoEntry
<1>3. 1 \in Int
    OBVIOUS
<1>4. TaskEntry \in EntryRecord /\ TaskEntry.count = 1 /\ TaskEntry.frees = 0
    BY <1>1, <1>2, <1>3, EntryUpdates DEF TaskEntry, EntryRecord
<1>5. TaskEntry.count + 1 = 2 /\ 2 \in Int
    BY <1>4
<1>6. [TaskEntry EXCEPT !.count = @ + 1] = [TaskEntry EXCEPT !.count = 2]
    BY <1>5
<1> QED
    BY <1>4, <1>5, <1>6, EntryUpdates DEF EntryRecord

LEMMA InitAnswer == ExtensionInit => AnswerInv
<1> SUFFICES ASSUME ExtensionInit PROVE AnswerInv
    OBVIOUS
<1>1. Idle \in ThreadRecord
    BY ExtensionCallAssumption DEF Idle, ThreadRecord, ThreadPc
<1>2. NoEntry \in EntryRecord /\ NewWrap \in WrapRecord
    BY DEF NoEntry, EntryRecord, NewWrap, WrapRecord, Default
<1>3. ThreadType
    BY <1>1, ExtensionCallAssumption DEF ExtensionInit, ThreadType, Idle
<1>4. MainType
    <2>1. 0 \in 0 .. MaxCalls
        BY ExtensionCallAssumption
    <2> QED
        BY <2>1 DEF ExtensionInit, MainType, MainRecord
<1>5. MemoryType
    BY <1>2 DEF ExtensionInit, MemoryType
<1>6. OwnPoint
    BY DEF ExtensionInit, OwnPoint
<1>7. OwnValue
    BY DEF ExtensionInit, OwnValue, AnswerIsOwn, NewWrap, Idle, NotPosted
<1> QED
    BY <1>3, <1>4, <1>5, <1>6, <1>7 DEF AnswerInv

\* The next record of an IPC thread that goes on with its request.
LEMMA ThreadGoesOn ==
    ASSUME ThreadType, NEW t \in IpcThreads, NEW h \in ThreadRecord,
           h.id = thread[t].id, h.at # "idle", thread[t].at # "idle",
           thread' = [thread EXCEPT ![t] = h], UNCHANGED <<kind_of, told>>
    PROVE  ThreadType'
BY DEF ThreadType

LEMMA ThreadFields ==
    ASSUME ThreadType, NEW t \in IpcThreads
    PROVE  /\ thread[t] \in ThreadRecord
           /\ thread[t].at \in ThreadPc /\ thread[t].id \in 0 .. MaxCalls
           /\ thread[t].tries \in Int /\ thread[t].flag \in BOOLEAN /\ thread[t].ret \in Int
           /\ thread[t].at # "idle" => thread[t].id \in Calls /\ thread[t].id \in 1 .. Len(kind_of)
<1>1. thread[t] \in ThreadRecord
    BY DEF ThreadType
<1>2. thread[t].id \in 0 .. MaxCalls /\ (thread[t].at # "idle" => thread[t].id # 0)
      /\ thread[t].id <= Len(kind_of) /\ Len(kind_of) \in Nat
    BY <1>1 DEF ThreadRecord, ThreadType
<1>3. thread[t].at # "idle" => thread[t].id \in Calls /\ thread[t].id \in 1 .. Len(kind_of)
    BY <1>2, ExtensionCallAssumption DEF Calls
<1> QED
    BY <1>1, <1>3 DEF ThreadRecord

\* A step of a thread that leaves the other side alone.
LEMMA OthersAlone ==
    ASSUME MainType, MemoryType, OwnPoint, UNCHANGED mainVars, UNCHANGED <<entry, wrap>>
    PROVE  MainType' /\ MemoryType' /\ OwnPoint'
BY DEF MainType, MemoryType, OwnPoint, mainVars
-----------------------------------------------------------------------------
(* An answer is the request's own *)

LEMMA StubCallAnswer ==
    ASSUME AnswerInv, NEW t \in IpcThreads, NEW kind \in CallKinds, StubCall(t, kind)
    PROVE  AnswerInv'
<1>1. ThreadType /\ MainType /\ MemoryType /\ OwnPoint /\ OwnValue
    BY DEF AnswerInv
<1> DEFINE h == [Idle EXCEPT !.at = "lock", !.id = Len(kind_of) + 1]
<1>2. /\ thread[t].at = "idle" /\ kind_of \in Seq(CallKinds) /\ told \in Seq(Int)
      /\ Len(kind_of) \in Nat /\ Len(kind_of) < MaxCalls
      /\ kind_of' = Append(kind_of, kind) /\ told' = Append(told, Running)
      /\ thread' = [thread EXCEPT ![t] = h]
      /\ Len(told) = Len(kind_of)
    BY <1>1 DEF StubCall, ThreadType
<1>3. /\ h.at = "lock" /\ h.id = Len(kind_of) + 1 /\ h.ret = 0
      /\ Len(kind_of) + 1 \in 0 .. MaxCalls
    BY <1>2, ExtensionCallAssumption DEF Idle
<1>4. h \in ThreadRecord
    <2>1. Idle \in ThreadRecord /\ "lock" \in ThreadPc
        BY ExtensionCallAssumption DEF Idle, ThreadRecord, ThreadPc
    <2> QED
        BY <1>3, <2>1, ThreadUpdates DEF ThreadRecord
<1>5. Running \in Int
    BY DEF Running
<1> HIDE DEF h
<1>6. /\ kind_of' \in Seq(CallKinds) /\ told' \in Seq(Int)
      /\ Len(kind_of') = Len(kind_of) + 1 /\ Len(told') = Len(told) + 1
    BY <1>2, <1>5
<1>7. thread' \in [IpcThreads -> ThreadRecord]
    BY <1>1, <1>2, <1>4 DEF ThreadType
<1>8. ASSUME NEW u \in IpcThreads
      PROVE  /\ thread'[u].id <= Len(kind_of') /\ (thread'[u].at = "idle" <=> thread'[u].id = 0)
             /\ thread'[u].ret \in {Default, NotPosted, Torn, thread'[u].id}
    <2>1. CASE u = t
        <3>1. thread'[u] = h
            BY <1>1, <1>2, <2>1 DEF ThreadType
        <3> QED
            BY <1>2, <1>3, <1>6, <3>1 DEF NotPosted
    <2>2. CASE u # t
        <3>1. thread'[u] = thread[u] /\ thread[u].id \in 0 .. MaxCalls /\ thread[u].id <= Len(kind_of)
            BY <1>1, <1>2, <2>2, ThreadFields DEF ThreadType
        <3>2. thread'[u].id <= Len(kind_of')
            BY <1>2, <1>6, <3>1
        <3> QED
            BY <1>1, <3>1, <3>2 DEF ThreadType, OwnValue
    <2> QED
        BY <2>1, <2>2
<1>9. ThreadType'
    BY <1>2, <1>3, <1>6, <1>7, <1>8 DEF ThreadType
<1>10. MainType' /\ MemoryType' /\ OwnPoint'
    BY <1>1, OthersAlone DEF StubCall
<1>11. ASSUME NEW c \in DOMAIN told' PROVE told'[c] \in {Running, Default, NotPosted, Torn, c}
    <2>1. c \in DOMAIN told \/ told'[c] = Running
        BY <1>2, <1>5
    <2>2. c \in DOMAIN told => told'[c] = told[c]
        BY <1>2, <1>5
    <2> QED
        BY <1>1, <2>1, <2>2 DEF OwnValue, AnswerIsOwn
<1>12. OwnValue'
    BY <1>1, <1>8, <1>11 DEF OwnValue, AnswerIsOwn, StubCall
<1> QED
    BY <1>9, <1>10, <1>12 DEF AnswerInv

\* A thread goes on, and what it has in hand, if anything, is its request's.
LEMMA ThreadAnswer ==
    ASSUME AnswerInv, NEW t \in IpcThreads, thread[t].at # "idle", NEW h \in ThreadRecord,
           h.id = thread[t].id, h.at # "idle",
           h.ret \in {Default, NotPosted, Torn, thread[t].id},
           thread' = [thread EXCEPT ![t] = h], UNCHANGED <<kind_of, told, wrap>>
    PROVE  ThreadType' /\ OwnValue'
<1>1. ThreadType /\ OwnValue
    BY DEF AnswerInv
<1>2. ThreadType'
    BY <1>1, ThreadGoesOn
<1>3. \A u \in IpcThreads : thread'[u] = h \/ thread'[u] = thread[u]
    BY <1>1 DEF ThreadType
<1>4. thread'[t] = h /\ \A u \in IpcThreads : u # t => thread'[u] = thread[u]
    BY <1>1 DEF ThreadType
<1>5. \A u \in IpcThreads : thread'[u].ret \in {Default, NotPosted, Torn, thread'[u].id}
    BY <1>1, <1>4 DEF OwnValue
<1> QED
    BY <1>1, <1>2, <1>5 DEF OwnValue, AnswerIsOwn

LEMMA ThreadStepAnswer ==
    ASSUME AnswerInv, NEW t \in IpcThreads, ThreadStep(t)
    PROVE  AnswerInv'
<1>1. ThreadType /\ MainType /\ MemoryType /\ OwnPoint /\ OwnValue
    BY DEF AnswerInv
<1>2. thread[t] \in ThreadRecord /\ thread[t].ret \in {Default, NotPosted, Torn, thread[t].id}
    BY <1>1, ThreadFields DEF OwnValue
<1>3. thread[t].at # "idle"
    BY DEF ThreadStep, StubLock, PostTask, PostFails, UnlockDeleted, Waited, Poll, CheckFuncAndExec,
           Unref, StubReturn
<1>4. thread[t].id \in Calls
    BY <1>1, <1>3, ThreadFields
<1>5. ASSUME NEW at \in ThreadPc \ {"idle"}, Goto(t, at), UNCHANGED <<kind_of, told, wrap>>
      PROVE  ThreadType' /\ OwnValue'
    <2>1. thread' = [thread EXCEPT ![t] = [thread[t] EXCEPT !.at = at]]
        BY <1>1, <1>5 DEF Goto, ThreadType
    <2>2. [thread[t] EXCEPT !.at = at] \in ThreadRecord
        BY <1>2 DEF ThreadRecord, ThreadPc
    <2>3. /\ [thread[t] EXCEPT !.at = at].at = at
          /\ [thread[t] EXCEPT !.at = at].id = thread[t].id
          /\ [thread[t] EXCEPT !.at = at].ret = thread[t].ret
        BY <1>2 DEF ThreadRecord
    <2> QED
        BY <1>2, <1>3, <1>5, <2>1, <2>2, <2>3, ThreadAnswer
<1>6. CASE StubLock(t)
    BY <1>1, <1>5, <1>6, OthersAlone DEF StubLock, AnswerInv, ThreadPc
<1>7. CASE PostTask(t)
    <2>1. ThreadType' /\ OwnValue'
        BY <1>5, <1>7 DEF PostTask, ThreadPc
    <2>2. [TaskEntry EXCEPT !.count = @ + 1] \in EntryRecord
        BY PostedEntry
    <2>3. MemoryType'
        BY <1>1, <1>7, <2>2 DEF PostTask, MemoryType
    <2>4. queue \in Seq(Calls) /\ queue' = Append(queue, thread[t].id)
        BY <1>1, <1>7 DEF PostTask, MainType
    <2>5. queue' \in Seq(Calls)
        BY <1>4, <2>4
    <2>6. MainType' /\ OwnPoint'
        BY <1>1, <1>7, <2>5 DEF PostTask, MainType, OwnPoint
    <2> QED
        BY <2>1, <2>3, <2>6 DEF AnswerInv
<1>8. CASE PostFails(t)
    <2> DEFINE h == [thread[t] EXCEPT !.at = "unlock", !.ret = NotPosted]
    <2>1. thread' = [thread EXCEPT ![t] = h]
        BY <1>1, <1>8 DEF PostFails, ThreadType
    <2>2. h \in ThreadRecord /\ h.id = thread[t].id /\ h.at = "unlock" /\ h.ret = NotPosted
        <3>1. "unlock" \in ThreadPc /\ NotPosted \in Int
            BY DEF ThreadPc, NotPosted
        <3> QED
            BY <1>2, <3>1, ThreadUpdates DEF ThreadRecord
    <2> HIDE DEF h
    <2>3. ThreadType' /\ OwnValue'
        BY <1>3, <1>8, <2>1, <2>2, ThreadAnswer DEF PostFails
    <2>4. MemoryType'
        BY <1>1, <1>4, <1>8 DEF PostFails, MemoryType, EntryRecord
    <2>5. MainType' /\ OwnPoint'
        BY <1>1, <1>8 DEF PostFails, MainType, OwnPoint, mainVars
    <2> QED
        BY <2>3, <2>4, <2>5 DEF AnswerInv
<1>9. CASE Waited(t)
    <2> DEFINE h == [thread[t] EXCEPT !.at = "poll", !.tries = TRY_TIMES]
    <2>1. thread' = [thread EXCEPT ![t] = h]
        BY <1>1, <1>9 DEF Waited, ThreadType
    <2>2. h \in ThreadRecord /\ h.id = thread[t].id /\ h.at = "poll" /\ h.ret = thread[t].ret
        <3>1. "poll" \in ThreadPc /\ TRY_TIMES \in Int
            BY ExtensionCallAssumption DEF ThreadPc
        <3> QED
            BY <1>2, <3>1, ThreadUpdates DEF ThreadRecord
    <2> HIDE DEF h
    <2>3. ThreadType' /\ OwnValue'
        BY <1>2, <1>3, <1>9, <2>1, <2>2, ThreadAnswer DEF Waited
    <2> QED
        BY <1>1, <1>9, <2>3, OthersAlone DEF Waited, AnswerInv
<1>10. CASE Poll(t)
    <2> DEFINE h == [thread[t] EXCEPT !.at = "read", !.flag = wrap[thread[t].id].isRecvReply]
    <2>1. thread' = [thread EXCEPT ![t] = h]
        BY <1>1, <1>10 DEF Poll, ThreadType
    <2>2. wrap[thread[t].id].isRecvReply \in BOOLEAN
        BY <1>1, <1>4 DEF MemoryType, WrapRecord
    <2>3. h \in ThreadRecord /\ h.id = thread[t].id /\ h.at = "read" /\ h.ret = thread[t].ret
        BY <1>2, <2>2 DEF ThreadRecord, ThreadPc
    <2> HIDE DEF h
    <2>4. ThreadType' /\ OwnValue'
        BY <1>2, <1>3, <1>10, <2>1, <2>3, ThreadAnswer DEF Poll
    <2> QED
        BY <1>1, <1>10, <2>4, OthersAlone DEF Poll, AnswerInv
<1>11. CASE CheckFuncAndExec(t)
    <2>1. PICK v \in ReadsOf(thread[t].id), over \in BOOLEAN :
              thread' = [thread EXCEPT ![t].ret = v, ![t].at = IF over THEN "unref" ELSE "poll",
                                       ![t].tries = IF over THEN @ ELSE @ - 1]
        <3>1. (thread[t].flag \/ thread[t].tries = 0) \in BOOLEAN
            OBVIOUS
        <3> QED
            BY <1>11, <3>1 DEF CheckFuncAndExec
    <2>2. v \in {Default, Torn, thread[t].id} /\ v \in Int
        BY <1>1, <1>4, CallsAreNumbers DEF ReadsOf, OwnValue, Default, Torn
    <2> DEFINE a == IF over THEN "unref" ELSE "poll"
               n == IF over THEN thread[t].tries ELSE thread[t].tries - 1
               h == [thread[t] EXCEPT !.ret = v, !.at = a, !.tries = n]
    <2>3. thread' = [thread EXCEPT ![t] = h]
        BY <1>1, <2>1 DEF ThreadType
    <2>4. /\ h.id = thread[t].id /\ h.at \in {"unref", "poll"} /\ h.ret = v
          /\ h \in ThreadRecord
        <3>1. n \in Int
            BY <1>1, ThreadFields
        <3>2. a \in ThreadPc /\ a \in {"unref", "poll"}
            BY DEF ThreadPc
        <3> HIDE DEF a, n
        <3> QED
            BY <1>2, <2>2, <3>1, <3>2, ThreadUpdates DEF ThreadRecord
    <2> HIDE DEF h
    <2>5. ThreadType' /\ OwnValue'
        BY <1>3, <1>11, <2>2, <2>3, <2>4, ThreadAnswer DEF CheckFuncAndExec
    <2> QED
        BY <1>1, <1>11, <2>5, OthersAlone DEF CheckFuncAndExec, AnswerInv
<1>12. CASE Unref(t)
    <2>1. ThreadType' /\ OwnValue'
        BY <1>5, <1>12 DEF Unref, ThreadPc
    <2>2. MemoryType'
        BY <1>1, <1>4, <1>12 DEF Unref, Drop, MemoryType, EntryRecord
    <2>3. MainType' /\ OwnPoint'
        BY <1>1, <1>12 DEF Unref, MainType, OwnPoint, mainVars
    <2> QED
        BY <2>1, <2>2, <2>3 DEF AnswerInv
<1>13. CASE StubReturn(t)
    <2>1. Idle \in ThreadRecord /\ Idle.at = "idle" /\ Idle.id = 0 /\ Idle.ret = NotPosted
        BY ExtensionCallAssumption DEF Idle, ThreadRecord, ThreadPc, NotPosted
    <2>2. /\ thread' = [thread EXCEPT ![t] = Idle] /\ UNCHANGED <<kind_of, wrap>>
          /\ told' = [told EXCEPT ![thread[t].id] = thread[t].ret]
        BY <1>13 DEF StubReturn
    <2>3. told' \in Seq(Int) /\ Len(told') = Len(told) /\ DOMAIN told' = DOMAIN told
        <3>1. told \in Seq(Int) /\ thread[t].ret \in Int
            BY <1>1, ThreadFields DEF ThreadType
        <3>2. Len(told) \in Nat /\ told \in [1 .. Len(told) -> Int]
            BY <3>1
        <3>3. told' \in [1 .. Len(told) -> Int]
            BY <2>2, <3>1, <3>2
        <3> QED
            BY <3>2, <3>3, SeqDef
    <2>4. thread'[t] = Idle /\ \A u \in IpcThreads : u # t => thread'[u] = thread[u]
        BY <1>1, <2>2 DEF ThreadType
    <2>5. thread' \in [IpcThreads -> ThreadRecord]
        BY <1>1, <2>1, <2>2 DEF ThreadType
    <2>6. 0 <= Len(kind_of)
        BY <1>1 DEF ThreadType
    <2>7. \A u \in IpcThreads : /\ thread'[u].id <= Len(kind_of)
                                /\ thread'[u].at = "idle" <=> thread'[u].id = 0
        BY <1>1, <2>1, <2>4, <2>6 DEF ThreadType
    <2>8. ThreadType'
        BY <1>1, <2>2, <2>3, <2>5, <2>7 DEF ThreadType
    <2>9. \A u \in IpcThreads : thread'[u].ret \in {Default, NotPosted, Torn, thread'[u].id}
        BY <1>1, <2>1, <2>4 DEF OwnValue
    <2>10. ASSUME NEW c \in DOMAIN told' PROVE told'[c] \in {Running, Default, NotPosted, Torn, c}
        <3>1. c \in DOMAIN told /\ told'[c] = IF c = thread[t].id THEN thread[t].ret ELSE told[c]
            BY <2>2, <2>3
        <3> QED
            BY <1>1, <1>2, <3>1 DEF OwnValue, AnswerIsOwn
    <2>11. OwnValue'
        BY <1>1, <2>2, <2>9, <2>10 DEF OwnValue, AnswerIsOwn
    <2>12. MainType' /\ MemoryType' /\ OwnPoint'
        BY <1>1, <1>13, OthersAlone DEF StubReturn
    <2> QED
        BY <2>8, <2>11, <2>12 DEF AnswerInv
<1>14. CASE UnlockDeleted(t)
    BY <1>1, <1>5, <1>14, OthersAlone DEF UnlockDeleted, AnswerInv, ThreadPc
<1> QED
    BY <1>6, <1>7, <1>8, <1>9, <1>10, <1>11, <1>12, <1>13, <1>14 DEF ThreadStep

\* A step of the main thread that touches no ResultWrap.
LEMMA MainAnswer ==
    ASSUME AnswerInv, UNCHANGED threadVars, UNCHANGED <<kind_of, wrap>>, MainType', OwnPoint',
           entry' \in [Calls -> EntryRecord]
    PROVE  AnswerInv'
BY DEF AnswerInv, ThreadType, MemoryType, OwnValue, AnswerIsOwn, threadVars

LEMMA MainFields ==
    ASSUME MainType
    PROVE  /\ main \in MainRecord /\ main.id \in 0 .. MaxCalls
           /\ \A at \in {"called", "unref", "flags"} :
                  /\ [main EXCEPT !.at = at] \in MainRecord
                  /\ [main EXCEPT !.at = at].at = at /\ [main EXCEPT !.at = at].id = main.id
           /\ [at |-> "idle", id |-> 0] \in MainRecord
           /\ \A c \in Calls : /\ [at |-> "starts", id |-> c] \in MainRecord
                               /\ [at |-> "writes", id |-> c] \in MainRecord
BY CallsAreNumbers, ExtensionCallAssumption DEF MainType, MainRecord

LEMMA MainStartsAnswer ==
    ASSUME AnswerInv, MainStarts
    PROVE  AnswerInv'
<1>1. MainType /\ MemoryType /\ OwnPoint
    BY DEF AnswerInv
<1>2. queue \in Seq(Calls) /\ queue # <<>> /\ queue' = Tail(queue)
    BY <1>1 DEF MainType, MainStarts
<1>3. Head(queue) \in Calls /\ Tail(queue) \in Seq(Calls)
    BY <1>2
<1>4. MainType'
    BY <1>1, <1>2, <1>3, MainFields, CallsAreNumbers DEF MainStarts, MainType
<1>5. OwnPoint'
    BY <1>1 DEF MainStarts, OwnPoint
<1> QED
    BY <1>1, <1>4, <1>5, MainAnswer DEF MainStarts, MemoryType

LEMMA CallArktsAnswer ==
    ASSUME AnswerInv, NEW kinds, CallArkts(kinds)
    PROVE  AnswerInv'
<1>1. MainType /\ MemoryType /\ OwnPoint
    BY DEF AnswerInv
<1>2. main.at = "starts" /\ main.id \in Calls /\ result_ = main.id
    BY <1>1 DEF CallArkts, MainType, OwnPoint
<1>3. main' = [main EXCEPT !.at = "called"] /\ UNCHANGED queue
    BY DEF CallArkts
<1>4. main' \in MainRecord /\ main'.at = "called" /\ main'.id = main.id
    BY <1>1, <1>3, MainFields
<1>5. 0 \in 0 .. MaxCalls
    BY ExtensionCallAssumption
<1>6. MainType'
    BY <1>1, <1>2, <1>3, <1>4, <1>5 DEF CallArkts, MainType
<1>7. \A c \in pending' : point'[c] = c
    BY <1>1, <1>2 DEF CallArkts, MainType, OwnPoint
<1>8. OwnPoint'
    BY <1>4, <1>7 DEF OwnPoint
<1> QED
    BY <1>1, <1>6, <1>8, MainAnswer DEF CallArkts, MemoryType

LEMMA MainEndsAnswer ==
    ASSUME AnswerInv, MainDone \/ MainUnref
    PROVE  AnswerInv'
<1>1. MainType /\ MemoryType /\ OwnPoint
    BY DEF AnswerInv
<1>2. main.id \in Calls
    BY <1>1 DEF MainDone, MainUnref, MainType
<1>3. entry[main.id] \in EntryRecord /\ entry[main.id].count \in Int /\ entry[main.id].frees \in Int
    BY <1>1, <1>2 DEF MemoryType, EntryRecord
<1>4. CASE MainDone
    <2>1. main' = [main EXCEPT !.at = "unref"]
        BY <1>4 DEF MainDone
    <2>2. main' \in MainRecord /\ main'.at = "unref" /\ main'.id = main.id
        BY <1>1, <2>1, MainFields
    <2>3. MainType' /\ OwnPoint'
        BY <1>1, <1>2, <1>4, <2>2 DEF MainDone, MainType, OwnPoint
    <2>4. TRUE \in BOOLEAN
        OBVIOUS
    <2>5. [entry[main.id] EXCEPT !.done = TRUE] \in EntryRecord
        BY <1>3, <2>4, EntryUpdates DEF EntryRecord
    <2>6. entry' \in [Calls -> EntryRecord]
        BY <1>1, <1>4, <2>5 DEF MainDone, MemoryType
    <2> QED
        BY <1>4, <2>3, <2>6, MainAnswer DEF MainDone
<1>5. CASE MainUnref
    <2>1. main' \in MainRecord /\ main'.at = "idle"
        BY <1>1, <1>5, MainFields DEF MainUnref
    <2>2. MainType' /\ OwnPoint'
        BY <1>1, <1>5, <2>1 DEF MainUnref, MainType, OwnPoint
    <2>3. entry' \in [Calls -> EntryRecord]
        BY <1>1, <1>2, <1>5 DEF MainUnref, Drop, MemoryType, EntryRecord
    <2> QED
        BY <1>5, <2>2, <2>3, MainAnswer DEF MainUnref
<1> QED
    BY <1>4, <1>5

LEMMA ExtensionCallbackAnswer ==
    ASSUME AnswerInv,
           UnknownResultSet \/ \E kinds : ExtensionCallback(kinds)
    PROVE  AnswerInv'
<1>1. MainType /\ MemoryType /\ OwnPoint
    BY DEF AnswerInv
<1>2. CASE UnknownResultSet
    <2>1. MainType' /\ OwnPoint'
        BY <1>1, <1>2 DEF UnknownResultSet, MainType, OwnPoint
    <2> QED
        BY <1>1, <1>2, <2>1, MainAnswer DEF UnknownResultSet, MemoryType
<1>3. ASSUME NEW kinds, ExtensionCallback(kinds) PROVE AnswerInv'
    <2>1. PICK c \in pending : pending' = pending \ {c} /\ main' = [at |-> "writes", id |-> c]
        BY <1>3 DEF ExtensionCallback
    <2>2. c \in Calls
        BY <1>1 DEF MainType
    <2>3. MainType' /\ OwnPoint'
        BY <1>1, <1>3, <2>1, <2>2, MainFields DEF ExtensionCallback, MainType, OwnPoint
    <2> QED
        BY <1>1, <1>3, <2>3, MainAnswer DEF ExtensionCallback, MemoryType
<1> QED
    BY <1>2, <1>3

LEMMA WriteAnswer ==
    ASSUME AnswerInv, WriteValue \/ WriteRecvReply
    PROVE  AnswerInv'
<1>1. ThreadType /\ MainType /\ MemoryType /\ OwnPoint /\ OwnValue
    BY DEF AnswerInv
<1>2. main.id \in Calls /\ point[main.id] = main.id
    BY <1>1 DEF WriteValue, WriteRecvReply, MainType, OwnPoint
<1>3. ThreadType'
    BY <1>1 DEF WriteValue, WriteRecvReply, ThreadType, threadVars
<1>4. wrap \in [Calls -> WrapRecord] /\ main.id \in Int
    BY <1>1, <1>2, CallsAreNumbers DEF MemoryType
<1>5. CASE WriteValue
    <2>1. main' = [main EXCEPT !.at = "flags"]
        BY <1>5 DEF WriteValue
    <2>2. main' \in MainRecord /\ main'.at = "flags" /\ main'.id = main.id
        BY <1>1, <2>1, MainFields
    <2>3. MainType' /\ OwnPoint'
        BY <1>1, <1>2, <1>5, <2>2 DEF WriteValue, MainType, OwnPoint
    <2>4. wrap' = [wrap EXCEPT ![main.id].value = main.id]
        BY <1>2, <1>5 DEF WriteValue
    <2>5. wrap' \in [Calls -> WrapRecord]
        BY <1>2, <1>4, <2>4 DEF WrapRecord
    <2>6. \A c \in Calls : wrap'[c].value \in {Default, c}
        BY <1>1, <1>2, <1>4, <2>4 DEF OwnValue, WrapRecord
    <2>7. MemoryType' /\ OwnValue'
        BY <1>1, <1>5, <2>5, <2>6 DEF WriteValue, MemoryType, OwnValue, AnswerIsOwn, threadVars
    <2> QED
        BY <1>3, <2>3, <2>7 DEF AnswerInv
<1>6. CASE WriteRecvReply
    <2>1. main' \in MainRecord /\ main'.at = "idle"
        BY <1>1, <1>6, MainFields DEF WriteRecvReply
    <2>2. MainType' /\ OwnPoint'
        BY <1>1, <1>6, <2>1 DEF WriteRecvReply, MainType, OwnPoint
    <2>3. wrap' = [wrap EXCEPT ![main.id].isRecvReply = TRUE]
        BY <1>2, <1>6 DEF WriteRecvReply
    <2>4. wrap' \in [Calls -> WrapRecord]
        BY <1>2, <1>4, <2>3 DEF WrapRecord
    <2>5. \A c \in Calls : wrap'[c].value = wrap[c].value
        BY <1>2, <1>4, <2>3 DEF WrapRecord
    <2>6. MemoryType' /\ OwnValue'
        BY <1>1, <1>6, <2>4, <2>5 DEF WriteRecvReply, MemoryType, OwnValue, AnswerIsOwn, threadVars
    <2> QED
        BY <1>3, <2>2, <2>6 DEF AnswerInv
<1> QED
    BY <1>5, <1>6

LEMMA NextAnswer == AnswerInv /\ [ExtensionNext]_extVars => AnswerInv'
<1> SUFFICES ASSUME AnswerInv, [ExtensionNext]_extVars PROVE AnswerInv'
    OBVIOUS
<1>1. CASE TaskStep
    BY <1>1, CallArktsAnswer, MainEndsAnswer
    DEF TaskStep, call_arkts_insert, call_arkts_update, call_arkts_query, call_arkts_normalize_uri,
        call_arkts_batch_update
<1>2. CASE call_arkts_on_create \/ native_extension_callback_void \/ UNCHANGED extVars
    BY <1>2 DEF call_arkts_on_create, native_extension_callback_void, extVars, threadVars, AnswerInv,
                ThreadType, MainType, MemoryType, OwnPoint, OwnValue, AnswerIsOwn
<1>3. CASE AnswerStep
    BY <1>2, <1>3, ExtensionCallbackAnswer, WriteAnswer
    DEF AnswerStep, native_extension_callback_int, native_extension_callback_object,
        native_extension_callback_string, native_extension_callback_batch_update
<1> QED
    BY <1>1, <1>2, <1>3, StubCallAnswer, ThreadStepAnswer, MainStartsAnswer DEF ExtensionNext

\* What a request returns is the answer of its own handler or says that there was
\* none, however late other answers come and whatever the other IPC threads do.
THEOREM ExtensionAnswers == ExtensionSpec => []AnswerIsOwn
<1>1. ExtensionSpec => []AnswerInv
    BY InitAnswer, NextAnswer, PTL DEF ExtensionSpec
<1>2. AnswerInv => AnswerIsOwn
    BY DEF AnswerInv, OwnValue
<1> QED
    BY <1>1, <1>2, PTL

-----------------------------------------------------------------------------
(* A task entry is deleted once, after its last use *)

\* The IPC thread, or the main thread, still refers to the entry of request c.
IpcRefers(c) ==
    \E t \in IpcThreads : thread[t].id = c /\ thread[t].at \in {"wait", "poll", "read", "unref"}
Queued(c) == \E i \in DOMAIN queue : queue[i] = c
AtWork(c) == main.id = c /\ main.at \in {"starts", "called", "unref"}
MainRefers(c) == Queued(c) \/ AtWork(c)

\* The request's task has not been posted: it was not made, or its thread is not there yet.
NotYet(c) ==
    \/ c > Len(kind_of)
    \/ \E t \in IpcThreads : thread[t].id = c /\ thread[t].at \in {"lock", "post"}

Ref(b) == IF b THEN 1 ELSE 0

\* A request is served by one thread, and its task is posted once.
OnceInv ==
    /\ \A t, u \in IpcThreads : thread[t].id = thread[u].id /\ thread[t].at # "idle" => t = u
    /\ \A i, j \in DOMAIN queue : queue[i] = queue[j] => i = j
    /\ \A c \in Calls : ~(Queued(c) /\ AtWork(c))

\* An entry counts who refers to it, and is there as long as somebody does.
CountInv ==
    \A c \in Calls :
        /\ entry[c].count = Ref(IpcRefers(c)) + Ref(MainRefers(c))
        /\ entry[c].frees \in {0, 1}
        /\ IpcRefers(c) \/ MainRefers(c) => entry[c].frees = 0
        /\ NotYet(c) => entry[c].frees = 0 /\ ~MainRefers(c)

EntryInv == AnswerInv /\ OnceInv /\ CountInv

Referring == {"wait", "poll", "read", "unref"}

\* The references to the entry of the request a thread serves are that thread's.
LEMMA OwnReferences ==
    ASSUME ThreadType, OnceInv, NEW t \in IpcThreads, thread[t].at # "idle"
    PROVE  \A c \in Calls : c = thread[t].id => /\ IpcRefers(c) <=> thread[t].at \in Referring
                                                /\ NotYet(c) <=> thread[t].at \in {"lock", "post"}
<1>1. thread[t].id \in 1 .. Len(kind_of) /\ Len(kind_of) \in Nat
    BY ThreadFields DEF ThreadType
<1>2. ~(thread[t].id > Len(kind_of))
    BY <1>1
<1>3. \A u \in IpcThreads : thread[u].id = thread[t].id => u = t
    BY DEF OnceInv
<1> QED
    BY <1>2, <1>3 DEF IpcRefers, NotYet, Referring

\* A thread goes on with its request.
LEMMA ThreadReferences ==
    ASSUME ThreadType, ThreadType', OnceInv, NEW t \in IpcThreads, thread[t].at # "idle", NEW h,
           h.id = thread[t].id, h.at # "idle", thread' = [thread EXCEPT ![t] = h], UNCHANGED kind_of
    PROVE  /\ \A u, v \in IpcThreads : thread'[u].id = thread'[v].id /\ thread'[u].at # "idle" => u = v
           /\ \A c \in Calls : c # thread[t].id => /\ IpcRefers(c)' <=> IpcRefers(c)
                                                   /\ NotYet(c)' <=> NotYet(c)
           /\ \A c \in Calls : c = thread[t].id => /\ IpcRefers(c)' <=> h.at \in Referring
                                                   /\ NotYet(c)' <=> h.at \in {"lock", "post"}
<1>1. thread'[t] = h /\ \A u \in IpcThreads : u # t => thread'[u] = thread[u]
    BY DEF ThreadType
<1>2. \A u \in IpcThreads : thread'[u].id = thread[u].id /\ (thread'[u].at = "idle" <=> thread[u].at = "idle")
    BY <1>1
<1>3. \A u, v \in IpcThreads : thread'[u].id = thread'[v].id /\ thread'[u].at # "idle" => u = v
    BY <1>2 DEF OnceInv
<1>4. ASSUME NEW c \in Calls, c # thread[t].id
      PROVE  (IpcRefers(c)' <=> IpcRefers(c)) /\ (NotYet(c)' <=> NotYet(c))
    BY <1>1, <1>2, <1>4 DEF IpcRefers, NotYet
<1>5. thread[t].id \in 1 .. Len(kind_of) /\ Len(kind_of) \in Nat
    BY ThreadFields DEF ThreadType
<1>6. ~(h.id > Len(kind_of'))
    BY <1>5
<1>7. \A u \in IpcThreads : thread'[u].id = h.id => u = t
    BY <1>1, <1>3
<1>8. ASSUME NEW c \in Calls, c = thread[t].id
      PROVE  (IpcRefers(c)' <=> h.at \in Referring) /\ (NotYet(c)' <=> h.at \in {"lock", "post"})
    BY <1>1, <1>6, <1>7, <1>8 DEF IpcRefers, NotYet, Referring
<1> QED
    BY <1>3, <1>4, <1>8

\* Nobody takes up a reference or lets one go.
SameReferences ==
    \A c \in Calls : /\ IpcRefers(c)' <=> IpcRefers(c)
                     /\ MainRefers(c)' <=> MainRefers(c)
                     /\ NotYet(c)' => NotYet(c)
                     /\ entry'[c].count = entry[c].count /\ entry'[c].frees = entry[c].frees

LEMMA CountKept ==
    ASSUME CountInv, SameReferences
    PROVE  CountInv'
BY DEF CountInv, SameReferences, Ref

LEMMA MainAlone ==
    ASSUME OnceInv, UNCHANGED <<queue, main>>
    PROVE  /\ \A c : (Queued(c)' <=> Queued(c)) /\ (AtWork(c)' <=> AtWork(c))
           /\ \A c : MainRefers(c)' <=> MainRefers(c)
           /\ \A i, j \in DOMAIN queue' : queue'[i] = queue'[j] => i = j
           /\ \A c \in Calls : ~(Queued(c) /\ AtWork(c))'
<1>1. \A c : (Queued(c)' <=> Queued(c)) /\ (AtWork(c)' <=> AtWork(c))
    BY DEF Queued, AtWork
<1> QED
    BY <1>1 DEF MainRefers, OnceInv

\* A thread goes on without posting the task or letting the entry go.
LEMMA ThreadKeepsCount ==
    ASSUME ThreadType, ThreadType', OnceInv, CountInv, NEW t \in IpcThreads, thread[t].at # "idle",
           NEW h, h.id = thread[t].id, h.at # "idle", thread' = [thread EXCEPT ![t] = h],
           h.at \in Referring <=> thread[t].at \in Referring,
           h.at \in {"lock", "post"} <=> thread[t].at \in {"lock", "post"},
           UNCHANGED <<kind_of, entry, queue, main>>
    PROVE  OnceInv' /\ CountInv'
<1>1. SameReferences
    BY ThreadReferences, OwnReferences, MainAlone DEF SameReferences
<1>2. OnceInv'
    BY ThreadReferences, MainAlone DEF OnceInv
<1> QED
    BY <1>1, <1>2, CountKept

LEMMA StubCallEntry ==
    ASSUME EntryInv, AnswerInv', NEW t \in IpcThreads, NEW kind \in CallKinds, StubCall(t, kind)
    PROVE  OnceInv' /\ CountInv'
<1>1. ThreadType /\ OnceInv /\ CountInv /\ ThreadType'
    BY DEF EntryInv, AnswerInv
<1> DEFINE n == Len(kind_of)
           h == [Idle EXCEPT !.at = "lock", !.id = n + 1]
<1>2. /\ thread[t].at = "idle" /\ kind_of \in Seq(CallKinds) /\ n \in Nat
      /\ kind_of' = Append(kind_of, kind) /\ thread' = [thread EXCEPT ![t] = h]
      /\ UNCHANGED <<entry, queue, main>>
    BY <1>1 DEF StubCall, ThreadType, mainVars
<1>3. Len(kind_of') = n + 1
    BY <1>2
<1>4. h.at = "lock" /\ h.id = n + 1
    BY DEF Idle
<1>5. thread'[t] = h /\ \A u \in IpcThreads : u # t => thread'[u] = thread[u]
    BY <1>1, <1>2 DEF ThreadType
<1>6. thread[t].id = 0
    BY <1>1, <1>2 DEF ThreadType
<1>7. \A u \in IpcThreads : thread[u].id \in Int /\ thread[u].id <= n
    BY <1>1, ThreadFields DEF ThreadType
<1>8. \A u \in IpcThreads : thread[u].id # n + 1
    BY <1>2, <1>7
<1> HIDE DEF h, n
<1>9. \A u, v \in IpcThreads : thread'[u].id = thread'[v].id /\ thread'[u].at # "idle" => u = v
    BY <1>1, <1>4, <1>5, <1>8 DEF OnceInv
<1>10. ASSUME NEW c \in Calls
       PROVE  (IpcRefers(c)' <=> IpcRefers(c)) /\ (NotYet(c)' => NotYet(c))
    <2>1. IpcRefers(c)' <=> IpcRefers(c)
        BY <1>2, <1>4, <1>5 DEF IpcRefers
    <2>2. c \in Int /\ (c > n + 1 => c > n) /\ (c = n + 1 => c > n)
        BY <1>2, CallsAreNumbers
    <2>3. NotYet(c)' => NotYet(c)
        BY <1>3, <1>4, <1>5, <2>2 DEF NotYet, n
    <2> QED
        BY <2>1, <2>3
<1>11. SameReferences
    BY <1>1, <1>2, <1>10, MainAlone DEF SameReferences
<1> QED
    BY <1>1, <1>2, <1>9, <1>11, CountKept, MainAlone DEF OnceInv

\* What a thread does to the references of its request is all that changes.
LEMMA ThreadCount ==
    ASSUME ThreadType, ThreadType', OnceInv, CountInv, NEW t \in IpcThreads, thread[t].at # "idle",
           NEW h, h.id = thread[t].id, h.at # "idle", thread' = [thread EXCEPT ![t] = h],
           UNCHANGED kind_of, NEW id \in Calls, id = thread[t].id,
           \A c \in Calls : c # id => /\ entry'[c] = entry[c]
                                      /\ MainRefers(c)' <=> MainRefers(c),
           entry'[id].count = Ref(h.at \in Referring) + Ref(MainRefers(id)'),
           entry'[id].frees \in {0, 1},
           h.at \in Referring \/ MainRefers(id)' => entry'[id].frees = 0,
           h.at \notin {"lock", "post"}
    PROVE  CountInv'
<1>1. ASSUME NEW c \in Calls, c # id
      PROVE  /\ IpcRefers(c)' <=> IpcRefers(c)
             /\ NotYet(c)' <=> NotYet(c)
    BY <1>1, ThreadReferences
<1>2. (IpcRefers(id)' <=> h.at \in Referring) /\ ~NotYet(id)'
    BY ThreadReferences
<1>3. ASSUME NEW c \in Calls
      PROVE  /\ entry'[c].count = Ref(IpcRefers(c)') + Ref(MainRefers(c)')
             /\ entry'[c].frees \in {0, 1}
             /\ IpcRefers(c)' \/ MainRefers(c)' => entry'[c].frees = 0
             /\ NotYet(c)' => entry'[c].frees = 0 /\ ~MainRefers(c)'
    <2>1. CASE c = id
        BY <1>2, <2>1 DEF Ref
    <2>2. CASE c # id
        BY <1>1, <2>2 DEF CountInv, Ref
    <2> QED
        BY <2>1, <2>2
<1> QED
    BY <1>3 DEF CountInv

LEMMA PostTaskEntry ==
    ASSUME EntryInv, AnswerInv', NEW t \in IpcThreads, PostTask(t)
    PROVE  OnceInv' /\ CountInv'
<1>1. ThreadType /\ MainType /\ MemoryType /\ OnceInv /\ CountInv /\ ThreadType'
    BY DEF EntryInv, AnswerInv
<1>2. thread[t].at = "post" /\ thread[t] \in ThreadRecord /\ thread[t].id \in Calls
    BY <1>1, ThreadFields DEF PostTask
<1>3. PICK id \in Calls : id = thread[t].id
    BY <1>2
<1>4. PICK h : h = [thread[t] EXCEPT !.at = "wait"]
    OBVIOUS
<1>5. thread' = [thread EXCEPT ![t] = h] /\ h.id = thread[t].id /\ h.at = "wait"
    BY <1>1, <1>2, <1>4 DEF PostTask, Goto, ThreadType, ThreadRecord
<1>6. ~IpcRefers(id) /\ NotYet(id)
    BY <1>1, <1>2, <1>3, OwnReferences DEF Referring
<1>7. ~MainRefers(id)
    BY <1>1, <1>6 DEF CountInv
<1>8. /\ queue \in Seq(Calls) /\ queue' = Append(queue, id)
      /\ UNCHANGED <<main, kind_of>>
    BY <1>1, <1>3 DEF PostTask, MainType
<1>9. entry'[id].count = 2 /\ entry'[id].frees = 0
    BY <1>1, <1>3, PostedEntry DEF PostTask, MemoryType
<1>10. \A c \in Calls : c # id => entry'[c] = entry[c]
    BY <1>1, <1>3 DEF PostTask, MemoryType
<1>11. /\ Len(queue) \in Nat /\ DOMAIN queue = 1 .. Len(queue) /\ DOMAIN queue' = 1 .. Len(queue) + 1
       /\ queue'[Len(queue) + 1] = id /\ \A i \in DOMAIN queue : queue'[i] = queue[i]
    BY <1>8
<1>12. \A i \in DOMAIN queue' : i \in DOMAIN queue \/ i = Len(queue) + 1
    BY <1>11
<1>13. Len(queue) + 1 \in DOMAIN queue' /\ \A i \in DOMAIN queue : i \in DOMAIN queue'
    BY <1>11
<1>14. ASSUME NEW c \in Calls
       PROVE  (Queued(c)' <=> Queued(c) \/ c = id) /\ (AtWork(c)' <=> AtWork(c))
    BY <1>8, <1>11, <1>12, <1>13 DEF Queued, AtWork
<1>15. MainRefers(id)' /\ \A c \in Calls : c # id => (MainRefers(c)' <=> MainRefers(c))
    BY <1>14 DEF MainRefers
<1>16. \A i \in DOMAIN queue : queue[i] # id
    BY <1>7 DEF MainRefers, Queued
<1>17. \A i, j \in DOMAIN queue' : queue'[i] = queue'[j] => i = j
    BY <1>1, <1>11, <1>12, <1>16 DEF OnceInv
<1>18. \A c \in Calls : ~(Queued(c)' /\ AtWork(c)')
    BY <1>1, <1>7, <1>14 DEF OnceInv, MainRefers
<1>19. OnceInv'
    BY <1>1, <1>2, <1>5, <1>8, <1>17, <1>18, ThreadReferences DEF OnceInv
<1>20. h.at \in Referring /\ h.at \notin {"lock", "post"}
    BY <1>5 DEF Referring
<1>21. entry'[id].count = Ref(h.at \in Referring) + Ref(MainRefers(id)')
    BY <1>9, <1>15, <1>20 DEF Ref
<1>22. CountInv'
    BY <1>1, <1>2, <1>3, <1>5, <1>8, <1>9, <1>10, <1>15, <1>20, <1>21, ThreadCount
<1> QED
    BY <1>19, <1>22

LEMMA PostFailsEntry ==
    ASSUME EntryInv, AnswerInv', NEW t \in IpcThreads, PostFails(t)
    PROVE  OnceInv' /\ CountInv'
<1>1. ThreadType /\ MemoryType /\ OnceInv /\ CountInv /\ ThreadType'
    BY DEF EntryInv, AnswerInv
<1>2. thread[t].at = "post" /\ thread[t] \in ThreadRecord /\ thread[t].id \in Calls
    BY <1>1, ThreadFields DEF PostFails
<1>3. PICK id \in Calls : id = thread[t].id
    BY <1>2
<1>4. PICK h : h = [thread[t] EXCEPT !.at = "unlock", !.ret = NotPosted]
    OBVIOUS
<1>5. thread' = [thread EXCEPT ![t] = h] /\ h.id = thread[t].id /\ h.at = "unlock"
    BY <1>1, <1>2, <1>4 DEF PostFails, ThreadType, ThreadRecord
<1>6. ~IpcRefers(id) /\ NotYet(id)
    BY <1>1, <1>2, <1>3, OwnReferences DEF Referring
<1>7. ~MainRefers(id) /\ entry[id].count = 0
    BY <1>1, <1>6 DEF CountInv, Ref
<1>8. UNCHANGED <<queue, main, kind_of>>
    BY DEF PostFails, mainVars
<1>9. entry'[id].count = 0 /\ entry'[id].frees = 1
    BY <1>1, <1>3, <1>7 DEF PostFails, MemoryType, EntryRecord
<1>10. \A c \in Calls : c # id => entry'[c] = entry[c]
    BY <1>1, <1>3 DEF PostFails, MemoryType
<1>11. \A c \in Calls : MainRefers(c)' <=> MainRefers(c)
    BY <1>1, <1>8, MainAlone
<1>12. OnceInv'
    BY <1>1, <1>2, <1>5, <1>8, MainAlone, ThreadReferences DEF OnceInv
<1>13. h.at \notin Referring /\ h.at \notin {"lock", "post"}
    BY <1>5 DEF Referring
<1>14. entry'[id].count = Ref(h.at \in Referring) + Ref(MainRefers(id)')
    BY <1>7, <1>9, <1>11, <1>13 DEF Ref
<1>15. CountInv'
    BY <1>1, <1>2, <1>3, <1>5, <1>7, <1>8, <1>9, <1>10, <1>11, <1>13, <1>14, ThreadCount
<1> QED
    BY <1>12, <1>15

\* Letting a reference go: the last one deletes the entry.
LEMMA DropEntry ==
    ASSUME MemoryType, NEW id \in Calls, entry' = Drop(id)
    PROVE  /\ entry'[id].count = entry[id].count - 1
           /\ entry'[id].frees = entry[id].frees + Ref(entry[id].count = 1)
           /\ \A c \in Calls : c # id => entry'[c] = entry[c]
<1>1. entry[id] \in EntryRecord /\ entry[id].count \in Int /\ entry[id].frees \in Int
    BY DEF MemoryType, EntryRecord
<1>2. entry'[id] = [entry[id] EXCEPT !.count = entry[id].count - 1,
                                     !.frees = entry[id].frees + Ref(entry[id].count = 1)]
    BY DEF Drop, MemoryType, Ref
<1>3. entry[id].count - 1 \in Int /\ entry[id].frees + Ref(entry[id].count = 1) \in Int
    BY <1>1 DEF Ref
<1>4. /\ entry'[id].count = entry[id].count - 1
      /\ entry'[id].frees = entry[id].frees + Ref(entry[id].count = 1)
    BY <1>1, <1>2, <1>3, EntryUpdates DEF EntryRecord
<1> QED
    BY <1>4 DEF Drop, MemoryType

LEMMA UnrefEntry ==
    ASSUME EntryInv, AnswerInv', NEW t \in IpcThreads, Unref(t)
    PROVE  OnceInv' /\ CountInv'
<1>1. ThreadType /\ MemoryType /\ OnceInv /\ CountInv /\ ThreadType'
    BY DEF EntryInv, AnswerInv
<1>2. thread[t].at = "unref" /\ thread[t] \in ThreadRecord /\ thread[t].id \in Calls
    BY <1>1, ThreadFields DEF Unref
<1>3. PICK id \in Calls : id = thread[t].id
    BY <1>2
<1>4. PICK h : h = [thread[t] EXCEPT !.at = "leave"]
    OBVIOUS
<1>5. thread' = [thread EXCEPT ![t] = h] /\ h.id = thread[t].id /\ h.at = "leave"
    BY <1>1, <1>2, <1>4 DEF Unref, Goto, ThreadType, ThreadRecord
<1>6. IpcRefers(id)
    BY <1>1, <1>2, <1>3, OwnReferences DEF Referring
<1>7. entry[id].count = 1 + Ref(MainRefers(id)) /\ entry[id].frees = 0
    BY <1>1, <1>6 DEF CountInv, Ref
<1>8. UNCHANGED <<queue, main, kind_of>> /\ entry' = Drop(id)
    BY <1>3 DEF Unref, mainVars
<1>9. \A c \in Calls : MainRefers(c)' <=> MainRefers(c)
    BY <1>1, <1>8, MainAlone
<1>10. /\ entry'[id].count = entry[id].count - 1
       /\ entry'[id].frees = entry[id].frees + Ref(entry[id].count = 1)
       /\ \A c \in Calls : c # id => entry'[c] = entry[c]
    BY <1>1, <1>8, DropEntry
<1>11. entry'[id].count = Ref(MainRefers(id)) /\ entry'[id].frees = Ref(~MainRefers(id))
    BY <1>7, <1>10 DEF Ref
<1>12. OnceInv'
    BY <1>1, <1>2, <1>5, <1>8, MainAlone, ThreadReferences DEF OnceInv
<1>13. h.at \notin Referring /\ h.at \notin {"lock", "post"}
    BY <1>5 DEF Referring
<1>14. entry'[id].count = Ref(h.at \in Referring) + Ref(MainRefers(id)')
    BY <1>9, <1>11, <1>13 DEF Ref
<1>15. entry'[id].frees \in {0, 1} /\ (MainRefers(id)' => entry'[id].frees = 0)
    BY <1>9, <1>11 DEF Ref
<1>16. CountInv'
    BY <1>1, <1>2, <1>3, <1>5, <1>8, <1>9, <1>10, <1>13, <1>14, <1>15, ThreadCount
<1> QED
    BY <1>12, <1>16

\* The guard of an entry that was deleted goes out of scope.
LEMMA UnlockDeletedEntry ==
    ASSUME EntryInv, AnswerInv', NEW t \in IpcThreads, UnlockDeleted(t)
    PROVE  OnceInv' /\ CountInv'
<1>1. ThreadType /\ OnceInv /\ CountInv /\ ThreadType'
    BY DEF EntryInv, AnswerInv
<1>2. thread[t].at = "unlock" /\ thread[t] \in ThreadRecord
    BY <1>1, ThreadFields DEF UnlockDeleted
<1>3. PICK h : h = [thread[t] EXCEPT !.at = "leave"]
    OBVIOUS
<1>4. thread' = [thread EXCEPT ![t] = h] /\ h.id = thread[t].id /\ h.at = "leave"
    BY <1>1, <1>2, <1>3 DEF UnlockDeleted, Goto, ThreadType, ThreadRecord
<1>5. UNCHANGED <<kind_of, entry, queue, main>>
    BY DEF UnlockDeleted, mainVars
<1>6. /\ thread[t].at # "idle" /\ h.at # "idle"
      /\ h.at \in Referring <=> thread[t].at \in Referring
      /\ h.at \in {"lock", "post"} <=> thread[t].at \in {"lock", "post"}
    BY <1>2, <1>4 DEF Referring
<1> QED
    BY <1>1, <1>4, <1>5, <1>6, ThreadKeepsCount

\* The steps of a thread between its request and its answer that leave the entry alone.
LEMMA ThreadWaitsEntry ==
    ASSUME EntryInv, AnswerInv', NEW t \in IpcThreads,
           StubLock(t) \/ Waited(t) \/ Poll(t) \/ CheckFuncAndExec(t)
    PROVE  OnceInv' /\ CountInv'
<1>1. ThreadType /\ OnceInv /\ CountInv /\ ThreadType'
    BY DEF EntryInv, AnswerInv
<1>2. thread \in [IpcThreads -> ThreadRecord] /\ thread[t] \in ThreadRecord
    BY <1>1, ThreadFields DEF ThreadType
<1>3. thread' \in [IpcThreads -> ThreadRecord] /\ UNCHANGED <<kind_of, entry, queue, main>>
    BY <1>1 DEF StubLock, Waited, Poll, CheckFuncAndExec, ThreadType, mainVars
<1>4. \E h : /\ thread' = [thread EXCEPT ![t] = h] /\ h.id = thread[t].id
             /\ \/ thread[t].at = "lock" /\ h.at = "post"
                \/ thread[t].at \in Referring /\ h.at \in Referring
    <2>1. CASE StubLock(t)
        <3>1. thread' = [thread EXCEPT ![t] = [thread[t] EXCEPT !.at = "post"]]
            BY <1>2, <2>1 DEF StubLock, Goto
        <3>2. [thread[t] EXCEPT !.at = "post"].id = thread[t].id
              /\ [thread[t] EXCEPT !.at = "post"].at = "post" /\ thread[t].at = "lock"
            BY <1>2, <2>1 DEF StubLock, ThreadRecord
        <3> QED
            BY <3>1, <3>2
    <2>2. CASE Waited(t)
        <3> DEFINE h == [thread[t] EXCEPT !.at = "poll", !.tries = TRY_TIMES]
        <3>1. thread' = [thread EXCEPT ![t] = h] /\ thread[t].at = "wait"
            BY <1>2, <2>2 DEF Waited
        <3>2. h.id = thread[t].id /\ h.at = "poll"
            BY <1>2 DEF ThreadRecord
        <3> QED
            BY <3>1, <3>2 DEF Referring
    <2>3. CASE Poll(t)
        <3> DEFINE h == [thread[t] EXCEPT !.at = "read", !.flag = wrap[thread[t].id].isRecvReply]
        <3>1. thread' = [thread EXCEPT ![t] = h] /\ thread[t].at = "poll"
            BY <1>2, <2>3 DEF Poll
        <3>2. h.id = thread[t].id /\ h.at = "read"
            BY <1>2 DEF ThreadRecord
        <3> QED
            BY <3>1, <3>2 DEF Referring
    <2>4. CASE CheckFuncAndExec(t)
        <3> DEFINE over == thread[t].flag \/ thread[t].tries = 0
                   h(v) == [thread[t] EXCEPT !.ret = v, !.at = IF over THEN "unref" ELSE "poll",
                                             !.tries = IF over THEN @ ELSE @ - 1]
        <3>1. thread[t].at = "read" /\ \E v : thread' = [thread EXCEPT ![t] = h(v)]
            BY <1>2, <2>4 DEF CheckFuncAndExec
        <3>2. PICK v : thread' = [thread EXCEPT ![t] = h(v)]
            BY <3>1
        <3>3. h(v).id = thread[t].id /\ h(v).at = IF over THEN "unref" ELSE "poll"
            BY <1>2 DEF ThreadRecord
        <3>4. h(v).at \in {"unref", "poll"}
            BY <3>3
        <3> HIDE DEF h
        <3> QED
            BY <3>1, <3>2, <3>3, <3>4 DEF Referring
    <2> QED
        BY <2>1, <2>2, <2>3, <2>4
<1>5. PICK h : /\ thread' = [thread EXCEPT ![t] = h] /\ h.id = thread[t].id
               /\ \/ thread[t].at = "lock" /\ h.at = "post"
                  \/ thread[t].at \in Referring /\ h.at \in Referring
    BY <1>4
<1>6. /\ thread[t].at # "idle" /\ h.at # "idle"
      /\ h.at \in Referring <=> thread[t].at \in Referring
      /\ h.at \in {"lock", "post"} <=> thread[t].at \in {"lock", "post"}
    BY <1>5 DEF Referring
<1> QED
    BY <1>1, <1>3, <1>5, <1>6, ThreadKeepsCount

LEMMA StubReturnEntry ==
    ASSUME EntryInv, AnswerInv', NEW t \in IpcThreads, StubReturn(t)
    PROVE  OnceInv' /\ CountInv'
<1>1. ThreadType /\ OnceInv /\ CountInv
    BY DEF EntryInv, AnswerInv
<1>2. thread[t].at = "leave" /\ thread' = [thread EXCEPT ![t] = Idle]
      /\ UNCHANGED <<entry, queue, main, kind_of>>
    BY DEF StubReturn, mainVars
<1>3. thread'[t] = Idle /\ \A u \in IpcThreads : u # t => thread'[u] = thread[u]
    BY <1>1, <1>2 DEF ThreadType
<1>4. Idle.at = "idle" /\ Idle.id = 0
    BY DEF Idle
<1>5. \A u \in IpcThreads : thread[u].at # "idle" => thread[u].id # 0
    BY <1>1 DEF ThreadType
<1>6. \A u, v \in IpcThreads : thread'[u].id = thread'[v].id /\ thread'[u].at # "idle" => u = v
    BY <1>1, <1>3, <1>4, <1>5 DEF OnceInv
<1>7. \A c \in Calls : (IpcRefers(c)' <=> IpcRefers(c)) /\ (NotYet(c)' <=> NotYet(c))
    BY <1>2, <1>3, <1>4 DEF IpcRefers, NotYet
<1>8. SameReferences
    BY <1>1, <1>2, <1>7, MainAlone DEF SameReferences
<1> QED
    BY <1>1, <1>2, <1>6, <1>8, MainAlone, CountKept DEF OnceInv

\* A step of the main thread leaves the references of the IPC threads alone.
LEMMA ThreadsAlone ==
    ASSUME OnceInv, UNCHANGED <<thread, kind_of>>
    PROVE  /\ \A c \in Calls : (IpcRefers(c)' <=> IpcRefers(c)) /\ (NotYet(c)' <=> NotYet(c))
           /\ \A u, v \in IpcThreads : thread'[u].id = thread'[v].id /\ thread'[u].at # "idle" => u = v
BY DEF OnceInv, IpcRefers, NotYet

LEMMA MainStartsEntry ==
    ASSUME EntryInv, MainStarts
    PROVE  OnceInv' /\ CountInv'
<1>1. MainType /\ OnceInv /\ CountInv
    BY DEF EntryInv, AnswerInv
<1>2. /\ main.at = "idle" /\ queue \in Seq(Calls) /\ queue # <<>> /\ queue' = Tail(queue)
      /\ main' = [at |-> "starts", id |-> Head(queue)] /\ UNCHANGED <<thread, kind_of, entry>>
    BY <1>1 DEF MainType, MainStarts, threadVars
<1>3. /\ Len(queue) \in Nat /\ Len(queue) # 0 /\ DOMAIN queue = 1 .. Len(queue)
      /\ DOMAIN queue' = 1 .. Len(queue) - 1 /\ \A i \in DOMAIN queue' : queue'[i] = queue[i + 1]
      /\ Head(queue) = queue[1]
    BY <1>2
<1>4. 1 \in DOMAIN queue
    BY <1>3
<1>5. \A i \in DOMAIN queue' : i + 1 \in DOMAIN queue /\ i + 1 # 1
    BY <1>3
<1>6. \A i \in DOMAIN queue : i = 1 \/ (i - 1 \in DOMAIN queue' /\ queue'[i - 1] = queue[i])
    BY <1>3
<1>7. \A i, j \in DOMAIN queue' : queue'[i] = queue'[j] => i = j
    <2>1. \A i, j \in DOMAIN queue' : i + 1 = j + 1 => i = j
        BY <1>3
    <2> QED
        BY <1>1, <1>3, <1>5, <2>1 DEF OnceInv
<1>8. PICK id \in Calls : id = queue[1]
    BY <1>2, <1>3, <1>4
<1>9. \A c \in Calls : AtWork(c)' <=> c = id
    BY <1>2, <1>3, <1>8 DEF AtWork
<1>10. \A c \in Calls : ~AtWork(c)
    BY <1>2 DEF AtWork
<1>11. \A c \in Calls : Queued(c) => Queued(c)' \/ c = id
    BY <1>6, <1>8 DEF Queued
<1>12. \A c \in Calls : Queued(c)' => Queued(c) /\ c # id
    BY <1>1, <1>3, <1>4, <1>5, <1>8 DEF Queued, OnceInv
<1>13. Queued(id)
    BY <1>4, <1>8 DEF Queued
<1>14. \A c \in Calls : MainRefers(c)' <=> MainRefers(c)
    BY <1>9, <1>10, <1>11, <1>12, <1>13 DEF MainRefers
<1>15. OnceInv'
    BY <1>1, <1>2, <1>7, <1>9, <1>12, ThreadsAlone DEF OnceInv
<1>16. SameReferences
    BY <1>1, <1>2, <1>14, ThreadsAlone DEF SameReferences
<1> QED
    BY <1>1, <1>15, <1>16, CountKept

\* The main thread goes on with its task, or with something else than a task.
LEMMA MainKeepsCount ==
    ASSUME OnceInv, CountInv, UNCHANGED <<thread, kind_of, queue>>,
           \A c \in Calls : AtWork(c)' <=> AtWork(c),
           \A c \in Calls : entry'[c].count = entry[c].count /\ entry'[c].frees = entry[c].frees
    PROVE  OnceInv' /\ CountInv'
<1>1. \A c \in Calls : Queued(c)' <=> Queued(c)
    BY DEF Queued
<1>2. OnceInv'
    BY <1>1, ThreadsAlone DEF OnceInv
<1>3. SameReferences
    BY <1>1, ThreadsAlone DEF SameReferences, MainRefers
<1> QED
    BY <1>2, <1>3, CountKept

LEMMA CallArktsEntry ==
    ASSUME EntryInv, NEW kinds, CallArkts(kinds)
    PROVE  OnceInv' /\ CountInv'
<1>1. MainType /\ OnceInv /\ CountInv
    BY DEF EntryInv, AnswerInv
<1>2. main.at = "starts" /\ main' = [main EXCEPT !.at = "called"] /\ UNCHANGED <<thread, kind_of, queue, entry>>
    BY DEF CallArkts, threadVars
<1>3. main'.at = "called" /\ main'.id = main.id
    BY <1>1, <1>2, MainFields
<1>4. \A c \in Calls : AtWork(c)' <=> AtWork(c)
    BY <1>2, <1>3 DEF AtWork
<1> QED
    BY <1>1, <1>2, <1>4, MainKeepsCount

LEMMA MainDoneEntry ==
    ASSUME EntryInv, MainDone
    PROVE  OnceInv' /\ CountInv'
<1>1. MainType /\ MemoryType /\ OnceInv /\ CountInv
    BY DEF EntryInv, AnswerInv
<1>2. /\ main.at = "called" /\ main' = [main EXCEPT !.at = "unref"] /\ main.id \in Calls
      /\ UNCHANGED <<thread, kind_of, queue>>
    BY <1>1 DEF MainDone, threadVars, MainType
<1>3. main'.at = "unref" /\ main'.id = main.id
    BY <1>1, <1>2, MainFields
<1>4. \A c \in Calls : AtWork(c)' <=> AtWork(c)
    BY <1>2, <1>3 DEF AtWork
<1>5. TRUE \in BOOLEAN /\ entry[main.id] \in EntryRecord
    BY <1>1, <1>2 DEF MemoryType
<1>6. /\ [entry[main.id] EXCEPT !.done = TRUE].count = entry[main.id].count
      /\ [entry[main.id] EXCEPT !.done = TRUE].frees = entry[main.id].frees
    BY <1>5, EntryUpdates DEF EntryRecord
<1>7. entry' = [entry EXCEPT ![main.id] = [entry[main.id] EXCEPT !.done = TRUE]]
    BY <1>1 DEF MainDone, MemoryType
<1>8. \A c \in Calls : entry'[c].count = entry[c].count /\ entry'[c].frees = entry[c].frees
    BY <1>1, <1>2, <1>6, <1>7 DEF MemoryType
<1> QED
    BY <1>1, <1>2, <1>4, <1>8, MainKeepsCount

\* The main thread lets go of the entry of its task, which is no longer queued.
LEMMA MainUnrefEntry ==
    ASSUME EntryInv, MainUnref
    PROVE  OnceInv' /\ CountInv'
<1>1. MainType /\ MemoryType /\ OnceInv /\ CountInv
    BY DEF EntryInv, AnswerInv
<1>2. /\ main.at = "unref" /\ main' = [at |-> "idle", id |-> 0] /\ main.id \in Calls
      /\ UNCHANGED <<thread, kind_of, queue>>
    BY <1>1 DEF MainUnref, threadVars, MainType
<1>3. PICK id \in Calls : id = main.id
    BY <1>2
<1>4. entry' = Drop(id)
    BY <1>3 DEF MainUnref
<1>5. \A c \in Calls : (AtWork(c) <=> c = id) /\ ~AtWork(c)' /\ (Queued(c)' <=> Queued(c))
    BY <1>2, <1>3 DEF AtWork, Queued
<1>6. ~Queued(id) /\ AtWork(id)
    BY <1>1, <1>5 DEF OnceInv
<1>7. MainRefers(id) /\ ~MainRefers(id)' /\ \A c \in Calls : c # id => (MainRefers(c)' <=> MainRefers(c))
    BY <1>5, <1>6 DEF MainRefers
<1>8. \A c \in Calls : (IpcRefers(c)' <=> IpcRefers(c)) /\ (NotYet(c)' <=> NotYet(c))
    BY <1>1, <1>2, ThreadsAlone
<1>9. OnceInv'
    BY <1>1, <1>2, <1>5, ThreadsAlone DEF OnceInv
<1>10. entry[id].count = 1 + Ref(IpcRefers(id)) /\ entry[id].frees = 0 /\ ~NotYet(id)
    BY <1>1, <1>7 DEF CountInv, Ref
<1>11. /\ entry'[id].count = entry[id].count - 1
       /\ entry'[id].frees = entry[id].frees + Ref(entry[id].count = 1)
       /\ \A c \in Calls : c # id => entry'[c] = entry[c]
    BY <1>1, <1>4, DropEntry
<1>12. entry'[id].count = Ref(IpcRefers(id)) /\ entry'[id].frees = Ref(~IpcRefers(id))
    BY <1>10, <1>11 DEF Ref
<1>13. ASSUME NEW c \in Calls
       PROVE  /\ entry'[c].count = Ref(IpcRefers(c)') + Ref(MainRefers(c)')
              /\ entry'[c].frees \in {0, 1}
              /\ IpcRefers(c)' \/ MainRefers(c)' => entry'[c].frees = 0
              /\ NotYet(c)' => entry'[c].frees = 0 /\ ~MainRefers(c)'
    <2>1. CASE c = id
        BY <1>7, <1>8, <1>10, <1>12, <2>1 DEF Ref
    <2>2. CASE c # id
        BY <1>1, <1>7, <1>8, <1>11, <2>2 DEF CountInv, Ref
    <2> QED
        BY <2>1, <2>2
<1>14. CountInv'
    BY <1>13 DEF CountInv
<1> QED
    BY <1>9, <1>14

\* Answers and the start of the ability are no tasks.
LEMMA AnswerStepEntry ==
    ASSUME EntryInv, AnswerStep \/ UNCHANGED extVars
    PROVE  OnceInv' /\ CountInv'
<1>1. MainType /\ OnceInv /\ CountInv
    BY DEF EntryInv, AnswerInv
<1>2. UNCHANGED <<thread, kind_of, queue, entry>>
    BY DEF AnswerStep, native_extension_callback_int, native_extension_callback_object,
           native_extension_callback_string, native_extension_callback_batch_update, ExtensionCallback,
           UnknownResultSet, WriteValue, WriteRecvReply, call_arkts_on_create,
           native_extension_callback_void, extVars, threadVars
<1>3. CASE \E kinds : ExtensionCallback(kinds)
    <2>1. main.at = "idle" /\ \E c \in pending : main' = [at |-> "writes", id |-> c]
        BY <1>3 DEF ExtensionCallback
    <2>2. \A c \in Calls : ~AtWork(c) /\ ~AtWork(c)'
        BY <2>1 DEF AtWork
    <2> QED
        BY <1>1, <1>2, <2>2, MainKeepsCount
<1>4. CASE WriteValue
    <2>1. main.at = "writes" /\ main' = [main EXCEPT !.at = "flags"]
        BY <1>4 DEF WriteValue
    <2>2. main'.at = "flags"
        BY <1>1, <2>1, MainFields
    <2>3. \A c \in Calls : ~AtWork(c) /\ ~AtWork(c)'
        BY <2>1, <2>2 DEF AtWork
    <2> QED
        BY <1>1, <1>2, <2>3, MainKeepsCount
<1>5. CASE WriteRecvReply
    <2>1. main.at = "flags" /\ main' = [at |-> "idle", id |-> 0]
        BY <1>5 DEF WriteRecvReply
    <2>2. \A c \in Calls : ~AtWork(c) /\ ~AtWork(c)'
        BY <2>1 DEF AtWork
    <2> QED
        BY <1>1, <1>2, <2>2, MainKeepsCount
<1>6. CASE UNCHANGED main
    <2>1. \A c \in Calls : AtWork(c)' <=> AtWork(c)
        BY <1>6 DEF AtWork
    <2> QED
        BY <1>1, <1>2, <2>1, MainKeepsCount
<1> QED
    BY <1>3, <1>4, <1>5, <1>6
    DEF AnswerStep, native_extension_callback_int, native_extension_callback_object,
        native_extension_callback_string, native_extension_callback_batch_update,
        UnknownResultSet, call_arkts_on_create, native_extension_callback_void, extVars

LEMMA InitEntry == ExtensionInit => EntryInv
<1> SUFFICES ASSUME ExtensionInit PROVE EntryInv
    OBVIOUS
<1>1. \A t \in IpcThreads : thread[t].at = "idle" /\ thread[t].id = 0
    BY DEF ExtensionInit, Idle
<1>2. queue = <<>> /\ main.at = "idle" /\ \A c \in Calls : entry[c].count = 0 /\ entry[c].frees = 0
    BY DEF ExtensionInit, NoEntry
<1>3. \A c \in Calls : ~IpcRefers(c) /\ ~Queued(c) /\ ~AtWork(c)
    BY <1>1, <1>2 DEF IpcRefers, Queued, AtWork
<1>4. OnceInv
    BY <1>1, <1>2, <1>3 DEF OnceInv
<1>5. CountInv
    BY <1>2, <1>3 DEF CountInv, MainRefers, Ref
<1> QED
    BY <1>4, <1>5, InitAnswer DEF EntryInv

LEMMA NextEntry == EntryInv /\ [ExtensionNext]_extVars => EntryInv'
<1> SUFFICES ASSUME EntryInv, [ExtensionNext]_extVars PROVE EntryInv'
    OBVIOUS
<1>1. AnswerInv'
    BY NextAnswer DEF EntryInv
<1>2. ASSUME NEW t \in IpcThreads, ThreadStep(t) PROVE OnceInv' /\ CountInv'
    BY <1>1, <1>2, ThreadWaitsEntry, PostTaskEntry, PostFailsEntry, UnlockDeletedEntry, UnrefEntry,
       StubReturnEntry
    DEF ThreadStep
<1>3. ASSUME TaskStep PROVE OnceInv' /\ CountInv'
    BY <1>3, CallArktsEntry, MainDoneEntry, MainUnrefEntry
    DEF TaskStep, call_arkts_insert, call_arkts_update, call_arkts_query, call_arkts_normalize_uri,
        call_arkts_batch_update
<1>4. OnceInv' /\ CountInv'
    BY <1>1, <1>2, <1>3, StubCallEntry, MainStartsEntry, AnswerStepEntry DEF ExtensionNext
<1> QED
    BY <1>1, <1>4 DEF EntryInv

\* The TaskEntry of a request is deleted at most once, and when it is deleted no
\* task in the queue, no running task and no waiting IPC thread uses it any more,
\* whichever of the two threads is the later one; except that an IPC thread whose
\* task could not be posted unlocks the mutex of the entry after it has deleted it.
THEOREM ExtensionEntries == ExtensionSpec => []EntryOutlivesUse
<1>1. ExtensionSpec => []EntryInv
    BY InitEntry, NextEntry, PTL DEF ExtensionSpec
<1>2. ASSUME EntryInv PROVE EntryOutlivesUse
    <2>1. ThreadType /\ OnceInv /\ CountInv
        BY <1>2 DEF EntryInv, AnswerInv
    <2>2. \A c \in Calls : entry[c].frees \in {0, 1}
        BY <2>1 DEF CountInv
    <2>3. \A c \in Calls : entry[c].frees <= 1
        BY <2>2
    <2>4. ASSUME NEW c \in Calls, entry[c].frees = 1
          PROVE  /\ c \notin {queue[i] : i \in DOMAIN queue}
                 /\ ~(main.id = c /\ main.at \in {"starts", "called", "unref"})
                 /\ \A t \in IpcThreads : thread[t].id = c =>
                                              thread[t].at = "leave" \/ UnlocksDeleted(t)
        <3>1. ~IpcRefers(c) /\ ~MainRefers(c) /\ ~NotYet(c)
            BY <2>1, <2>4 DEF CountInv
        <3>2. /\ c \notin {queue[i] : i \in DOMAIN queue}
              /\ ~(main.id = c /\ main.at \in {"starts", "called", "unref"})
            BY <3>1 DEF MainRefers, Queued, AtWork
        <3>3. ASSUME NEW t \in IpcThreads, thread[t].id = c
              PROVE  thread[t].at = "leave" \/ UnlocksDeleted(t)
            <4>1. thread[t].at # "idle" /\ thread[t].at \in ThreadPc
                BY <2>1, <3>3, CallsAreNumbers, ThreadFields DEF ThreadType
            <4> QED
                BY <3>1, <3>3, <4>1 DEF IpcRefers, NotYet, ThreadPc, UnlocksDeleted
        <3> QED
            BY <3>2, <3>3
    <2> QED
        BY <2>3, <2>4 DEF EntryOutlivesUse
<1> QED
    BY <1>1, <1>2, PTL

-----------------------------------------------------------------------------
(* The callbacks of the ArkTS binding *)

Registrations == {<<>>} \cup AniHelpers \X AniUris

\* What the helpers, the lists and the provider keep; a listed callback was
\* registered by a helper that had been made.
HelperType ==
    /\ holder \in [AniHelpers -> {"none", "open", "closed", "cleaned"}]
    /\ DOMAIN list = AniUris
    /\ reg \in Seq(Registrations)
    /\ \A u \in AniUris : \A e \in list[u] :
           e.by \in AniHelpers /\ holder[e.by] # "none" /\ e.o \in 1 .. Len(reg)

\* Every listed callback has an observer of its own, so that taking one off the
\* list never ends the registration of another.
OwnObserver ==
    \A u \in AniUris : \A e, f \in list[u] : e.o = f.o => e = f

ListedInv == HelperType /\ OwnObserver /\ ListedIsRegistered

LEMMA InitListed == AniHelperInit => ListedInv
<1> SUFFICES ASSUME AniHelperInit PROVE ListedInv
    OBVIOUS
<1>1. reg \in Seq(Registrations)
    BY DEF AniHelperInit
<1>2. HelperType
    BY <1>1 DEF AniHelperInit, HelperType
<1> QED
    BY <1>2 DEF AniHelperInit, OwnObserver, ListedIsRegistered, ListedInv

\* A step that leaves the list alone opens no helper but a new one.
LEMMA HolderListed ==
    ASSUME ListedInv, NEW h \in AniHelpers, NEW s \in {"open", "closed", "cleaned"},
           s = "open" => holder[h] = "none", holder' = [holder EXCEPT ![h] = s], UNCHANGED list,
           reg' \in Seq(Registrations), Len(reg') = Len(reg),
           \A o \in 1 .. Len(reg) : reg'[o] = reg[o] \/ (s # "open" /\ reg[o] # <<>> /\ reg[o][1] = h)
    PROVE  ListedInv'
<1>1. HelperType /\ OwnObserver /\ ListedIsRegistered
    BY DEF ListedInv
<1>2. holder' \in [AniHelpers -> {"none", "open", "closed", "cleaned"}]
      /\ holder'[h] = s /\ \A k \in AniHelpers : k # h => holder'[k] = holder[k]
    BY <1>1 DEF HelperType
<1>3. HelperType'
    BY <1>1, <1>2 DEF HelperType
<1>4. OwnObserver'
    BY <1>1 DEF OwnObserver
<1>5. ASSUME NEW u \in AniUris, NEW e \in list[u], holder'[e.by] = "open" PROVE reg'[e.o] = <<e.by, u>>
    <2>1. e.by # h /\ e.by \in AniHelpers /\ e.o \in 1 .. Len(reg)
        BY <1>1, <1>2, <1>5 DEF HelperType
    <2>2. reg[e.o] = <<e.by, u>>
        BY <1>1, <1>2, <1>5, <2>1 DEF ListedIsRegistered
    <2>3. reg[e.o][1] # h
        BY <2>1, <2>2
    <2> QED
        BY <2>1, <2>2, <2>3
<1>6. ListedIsRegistered'
    BY <1>1, <1>5 DEF ListedIsRegistered
<1> QED
    BY <1>3, <1>4, <1>6 DEF ListedInv

LEMMA NativeCloseListed ==
    ASSUME ListedInv, NEW h \in AniHelpers, NativeClose(h)
    PROVE  ListedInv'
<1>1. HelperType /\ UNCHANGED list
    BY DEF ListedInv, NativeClose
<1>2. CASE UNCHANGED <<holder, reg>>
    BY <1>1, <1>2 DEF ListedInv, HelperType, OwnObserver, ListedIsRegistered, CallbackIsEqual
<1> DEFINE without == [o \in DOMAIN reg |-> IF reg[o] # <<>> /\ reg[o][1] = h THEN <<>> ELSE reg[o]]
<1>3. ASSUME holder' = [holder EXCEPT ![h] = "closed"], reg' \in {reg, without}
      PROVE  ListedInv'
    <2>1. reg \in Seq(Registrations) /\ DOMAIN reg = 1 .. Len(reg) /\ Len(reg) \in Nat
        BY <1>1 DEF HelperType
    <2>2. <<>> \in Registrations
        BY DEF Registrations
    <2>3. without \in [1 .. Len(reg) -> Registrations]
        BY <2>1, <2>2
    <2>4. without \in Seq(Registrations) /\ Len(without) = Len(reg)
        BY <2>1, <2>3, SeqDef, LenProperties
    <2>5. reg' \in Seq(Registrations) /\ Len(reg') = Len(reg)
        BY <1>3, <2>1, <2>4
    <2>6. \A o \in 1 .. Len(reg) : reg'[o] = reg[o] \/ (reg[o] # <<>> /\ reg[o][1] = h)
        BY <1>3, <2>1
    <2> QED
        BY <1>1, <1>3, <2>5, <2>6, HolderListed
<1> QED
    BY <1>2, <1>3 DEF NativeClose

\* A callback that is not listed is registered and listed with an observer that
\* is new.
LEMMA RegisterListed ==
    ASSUME ListedInv, NEW h \in AniHelpers, NEW u \in AniUris, NEW cb, NEW flavor, holder[h] = "open",
           Register(h, u, cb, flavor), UNCHANGED holder
    PROVE  ListedInv'
<1>1. HelperType /\ OwnObserver /\ ListedIsRegistered
    BY DEF ListedInv
<1>2. CASE UNCHANGED <<list, reg>>
    BY <1>1, <1>2 DEF ListedInv, HelperType, OwnObserver, ListedIsRegistered, CallbackIsEqual
<1>3. ASSUME \A e \in list[u] : ~CallbackIsEqual(e, cb, flavor), reg' = Append(reg, <<h, u>>),
             list' = [list EXCEPT ![u] = @ \cup {Listing(h, cb, flavor)}]
      PROVE  ListedInv'
    <2>1. PICK n \in Nat : n = Len(reg)
        BY <1>1 DEF HelperType
    <2>2. PICK new : new = Listing(h, cb, flavor)
        OBVIOUS
    <2>3. new.cb = cb /\ new.flavor = flavor /\ new.o = n + 1 /\ new.by = h
        BY <2>1, <2>2 DEF Listing
    <2>4. reg \in Seq(Registrations) /\ <<h, u>> \in Registrations
        BY <1>1 DEF HelperType, Registrations
    <2>5. /\ reg' \in Seq(Registrations) /\ Len(reg') = n + 1 /\ reg'[n + 1] = <<h, u>>
          /\ \A o \in 1 .. n : reg'[o] = reg[o]
        BY <1>3, <2>1, <2>4
    <2>6. list'[u] = list[u] \cup {new} /\ DOMAIN list' = AniUris
          /\ \A v \in AniUris : v # u => list'[v] = list[v]
        BY <1>1, <1>3, <2>2 DEF HelperType
    <2>7. \A v \in AniUris : \A e \in list'[v] : e \in list[v] \/ (e = new /\ v = u)
        BY <2>6
    <2>8. \A v \in AniUris : \A e \in list[v] : e.o \in 1 .. n /\ e.o # n + 1 /\ e.o \in 1 .. n + 1
        BY <1>1, <2>1 DEF HelperType
    <2>9. HelperType'
        <3>1. n + 1 \in 1 .. n + 1
            BY <2>1
        <3> QED
            BY <1>1, <2>3, <2>5, <2>6, <2>7, <2>8, <3>1 DEF HelperType
    <2>10. OwnObserver'
        BY <1>1, <2>3, <2>7, <2>8 DEF OwnObserver
    <2>11. ASSUME NEW v \in AniUris, NEW e \in list'[v], holder[e.by] = "open" PROVE reg'[e.o] = <<e.by, v>>
        BY <1>1, <2>3, <2>5, <2>7, <2>8, <2>11 DEF ListedIsRegistered
    <2>12. ASSUME NEW v \in AniUris, NEW e \in list'[v], NEW f \in list'[v], CallbackIsEqual(f, e.cb, e.flavor)
           PROVE  f = e
        BY <1>1, <1>3, <2>3, <2>7, <2>12 DEF ListedIsRegistered, CallbackIsEqual
    <2>13. ListedIsRegistered'
        BY <2>11, <2>12 DEF ListedIsRegistered, CallbackIsEqual
    <2> QED
        BY <2>9, <2>10, <2>13 DEF ListedInv
<1> QED
    BY <1>2, <1>3 DEF Register

\* What leaves the list takes no registration with it but its own.
LEMMA ForgetListed ==
    ASSUME ListedInv, NEW h \in AniHelpers, NEW u \in AniUris, NEW gone \in SUBSET list[u], NEW flavor,
           Forget(h, u, gone, flavor), UNCHANGED holder
    PROVE  ListedInv'
<1>1. HelperType /\ OwnObserver /\ ListedIsRegistered
    BY DEF ListedInv
<1>2. reg \in Seq(Registrations) /\ DOMAIN reg = 1 .. Len(reg) /\ Len(reg) \in Nat
    BY <1>1 DEF HelperType
<1>3. <<>> \in Registrations
    BY DEF Registrations
<1>4. reg' \in [1 .. Len(reg) -> Registrations]
    BY <1>2, <1>3 DEF Forget, Unregister
<1>5. reg' \in Seq(Registrations) /\ Len(reg') = Len(reg)
    BY <1>2, <1>4, SeqDef, LenProperties
<1>6. list'[u] = list[u] \ gone /\ DOMAIN list' = AniUris
      /\ \A v \in AniUris : v # u => list'[v] = list[v]
    BY <1>1 DEF HelperType, Forget
<1>7. \A v \in AniUris : \A e \in list'[v] : e \in list[v] /\ (v = u => e \notin gone)
    BY <1>6
<1>8. \A o \in 1 .. Len(reg) : reg'[o] = reg[o] \/ (reg[o] = <<h, u>> /\ \E e \in gone : e.o = o)
    BY <1>2 DEF Forget, Unregister
<1>9. HelperType'
    BY <1>1, <1>5, <1>6, <1>7 DEF HelperType
<1>10. OwnObserver'
    BY <1>1, <1>7 DEF OwnObserver
<1>11. ASSUME NEW v \in AniUris, NEW e \in list'[v], holder[e.by] = "open" PROVE reg'[e.o] = <<e.by, v>>
    <2>1. e \in list[v] /\ e.o \in 1 .. Len(reg) /\ reg[e.o] = <<e.by, v>>
        BY <1>1, <1>7, <1>11 DEF HelperType, ListedIsRegistered
    <2>2. ASSUME reg[e.o] = <<h, u>> PROVE \A f \in gone : f.o # e.o
        <3>1. v = u
            BY <2>1, <2>2
        <3> QED
            BY <1>1, <1>7, <2>1, <3>1 DEF OwnObserver
    <2> QED
        BY <1>8, <2>1, <2>2
<1>12. ListedIsRegistered'
    BY <1>1, <1>7, <1>11 DEF ListedIsRegistered, CallbackIsEqual
<1> QED
    BY <1>9, <1>10, <1>12 DEF ListedInv

LEMMA NextListed == ListedInv /\ [AniHelperNext]_helperVars => ListedInv'
<1> SUFFICES ASSUME ListedInv, [AniHelperNext]_helperVars PROVE ListedInv'
    OBVIOUS
<1>1. HelperType
    BY DEF ListedInv
<1>2. ASSUME UNCHANGED <<holder, list, reg>> PROVE ListedInv'
    BY <1>2 DEF ListedInv, HelperType, OwnObserver, ListedIsRegistered, CallbackIsEqual
<1>3. ASSUME NEW h \in AniHelpers, NativeCreate(h) PROVE ListedInv'
    BY <1>1, <1>2, <1>3, HolderListed DEF NativeCreate, HelperType
<1>4. ASSUME NEW h \in AniHelpers, NativeClean(h) PROVE ListedInv'
    BY <1>1, <1>4, HolderListed DEF NativeClean, HelperType
<1>5. ASSUME NEW h \in AniHelpers, NEW u \in AniUris, NEW cb, NativeOn(h, u, cb) \/ NativeOnChangeinfo(h, u, cb)
      PROVE  ListedInv'
    BY <1>2, <1>5, RegisterListed DEF NativeOn, NativeOnChangeinfo, OnOff
<1>6. ASSUME NEW h \in AniHelpers, NEW u \in AniUris, NEW cb, NativeOff(h, u, cb) \/ NativeOffChangeinfo(h, u, cb)
      PROVE  ListedInv'
    <2>1. \A flavor : Same(u, cb, flavor) \in SUBSET list[u]
        BY DEF Same
    <2> QED
        BY <1>2, <1>6, <2>1, ForgetListed DEF NativeOff, NativeOffChangeinfo, OnOff
<1>7. ASSUME NEW h \in AniHelpers, NEW u \in AniUris, NativeOffNone(h, u) PROVE ListedInv'
    BY <1>2, <1>7, ForgetListed DEF NativeOffNone, OnOff
<1>8. ASSUME NEW h \in AniHelpers, NEW ops, Native(h, ops) PROVE ListedInv'
    BY <1>2, <1>8 DEF Native, NativeCheck
<1>9. ASSUME NEW w \in Workers, NativeUse(w) PROVE ListedInv'
    BY <1>2, <1>9 DEF NativeUse
<1>10. CASE UNCHANGED helperVars
    BY <1>2, <1>10 DEF helperVars
<1> QED
    BY <1>3, <1>4, <1>5, <1>6, <1>7, <1>8, <1>9, <1>10, NativeCloseListed
    DEF AniHelperNext, NativeQuery, NativePublish, NativeInsert, NativeNormalizeUri, NativeNotifyChange,
        NativeDelete

\* Whatever helpers are made, closed and cleaned and whatever is switched on and
\* off through them, a callback that is listed is registered with the provider as
\* long as its helper is open, so that on() is right not to register it again;
\* and no callback is listed twice.
THEOREM HelperCallbacks == AniHelperSpec => []ListedIsRegistered
<1>1. ListedInv => ListedIsRegistered
    BY DEF ListedInv
<1> QED
    BY <1>1, InitListed, NextListed, PTL DEF AniHelperSpec

-----------------------------------------------------------------------------
(* The block of a result set *)

GroupRecord == [at : Nat, offs : [0 .. RowOffsetsNum - 1 -> Nat]]

IsBlock(b) ==
    /\ DOMAIN b = {"size", "read_only", "unused", "row_nums", "column_nums", "groups", "dirs", "bytes"}
    /\ b.size \in Nat /\ b.unused \in Nat /\ b.row_nums \in Nat /\ b.column_nums \in Nat
    /\ b.read_only \in BOOLEAN
    /\ b.groups \in Seq(GroupRecord)

\* The header and the first group are taken, and the last byte is kept free.
HasRoom(b) == HeaderSize + GroupSize <= b.unused /\ b.unused < b.size

\* The chain has a group for every row.
Chained(b) ==
    /\ 1 <= Len(b.groups)
    /\ \A r \in 0 .. b.row_nums - 1 : (r \div RowOffsetsNum) + 1 <= Len(b.groups)

\* A cell that points to bytes points to some that are stored.
IsCell(b, cell) ==
    cell.type \in {"string", "blob"} =>
        /\ cell.offset \in Nat /\ cell.size \in Nat
        /\ cell.size > 0 => cell.offset \in DOMAIN b.bytes

\* Every row has its directory.
Filed(b) ==
    \A r \in Rows(b) :
        /\ RowOffset(b, r) \in DOMAIN b.dirs
        /\ DOMAIN b.dirs[RowOffset(b, r)] = 0 .. b.column_nums - 1
        /\ \A c \in 0 .. b.column_nums - 1 : IsCell(b, GetCellUnit(b, r, c))

BlockInv(b) == IsBlock(b) /\ HasRoom(b) /\ Chained(b) /\ Filed(b) /\ WellFormed(b)

(* Rows and groups: a row number is its group and its index there. *)

LEMMA RowIsSlot ==
    ASSUME NEW r \in Nat
    PROVE  /\ r % RowOffsetsNum \in 0 .. RowOffsetsNum - 1 /\ r \div RowOffsetsNum \in Nat
           /\ r = (RowOffsetsNum * (r \div RowOffsetsNum)) + (r % RowOffsetsNum)
BY SharedBlockAssumption, SMTT(20)

LEMMA SlotOfRow ==
    ASSUME NEW r \in Nat
    PROVE  r % RowOffsetsNum \in 0 .. RowOffsetsNum - 1 /\ r \div RowOffsetsNum \in Nat
BY RowIsSlot

LEMMA SlotsDiffer ==
    ASSUME NEW r \in Nat, NEW s \in Nat,
           r \div RowOffsetsNum = s \div RowOffsetsNum, r % RowOffsetsNum = s % RowOffsetsNum
    PROVE  r = s
BY SharedBlockAssumption, RowIsSlot, SMTT(20)

LEMMA GroupsInOrder ==
    ASSUME NEW r \in Nat, NEW s \in Nat, r <= s
    PROVE  r \div RowOffsetsNum <= s \div RowOffsetsNum
BY SharedBlockAssumption, RowIsSlot, SMTT(20)

LEMMA NextGroup ==
    ASSUME NEW r \in Nat, r # 0, r % RowOffsetsNum = 0
    PROVE  ((r - 1) \div RowOffsetsNum) + 1 = r \div RowOffsetsNum
BY SharedBlockAssumption, RowIsSlot, SMTT(20)

LEMMA SameGroup ==
    ASSUME NEW r \in Nat, r % RowOffsetsNum # 0
    PROVE  r # 0 /\ (r - 1) \div RowOffsetsNum = r \div RowOffsetsNum
BY SharedBlockAssumption, RowIsSlot, SMTT(20)

LEMMA RowZero == 0 \div RowOffsetsNum = 0 /\ 0 % RowOffsetsNum = 0
BY SharedBlockAssumption, SMTT(20)

LEMMA DirectorySize ==
    ASSUME NEW n \in Nat
    PROVE  n * CellSize \in Nat /\ (n > 0 => n * CellSize >= CellSize) /\ (n = 0 => n * CellSize = 0)
BY SharedBlockAssumption, SMTT(20)

LEMMA AllocAtBehind ==
    ASSUME NEW b, IsBlock(b), NEW aligned \in BOOLEAN
    PROVE  AllocAt(b, aligned) \in Nat /\ b.unused <= AllocAt(b, aligned)
<1> DEFINE u == b.unused
<1>1. u \in Nat
  BY DEF IsBlock
<1>2. (-u) % 4 \in 0 .. 3
  <2> HIDE DEF u
  <2> QED  BY <1>1
<1> QED
  BY <1>1, <1>2 DEF AllocAt

LEMMA RowOffsetType ==
    ASSUME NEW b, IsBlock(b), NEW r \in Nat, (r \div RowOffsetsNum) + 1 <= Len(b.groups)
    PROVE  /\ (r \div RowOffsetsNum) + 1 \in 1 .. Len(b.groups)
           /\ b.groups[(r \div RowOffsetsNum) + 1] \in GroupRecord
           /\ RowOffset(b, r) \in Nat
<1> DEFINE g == r \div RowOffsetsNum
           i == r % RowOffsetsNum
<1>1. g \in Nat /\ i \in 0 .. RowOffsetsNum - 1 /\ RowOffset(b, r) = b.groups[g + 1].offs[i]
  BY SlotOfRow DEF RowOffset
<1>2. g + 1 <= Len(b.groups)
  OBVIOUS
<1> HIDE DEF g, i
<1>3. g + 1 \in 1 .. Len(b.groups) /\ b.groups[g + 1] \in GroupRecord
  BY <1>1, <1>2 DEF IsBlock
<1>4. RowOffset(b, r) \in Nat
  BY <1>1, <1>3 DEF GroupRecord
<1> QED
  BY <1>3, <1>4 DEF g

(* Regions *)

LEMMA RegionIs ==
    ASSUME NEW b, NEW p
    PROVE  p \in Regions(b) <=>
             \/ p = <<0, HeaderSize>>
             \/ \E k \in 1 .. Len(b.groups) : p = <<b.groups[k].at, GroupSize>>
             \/ \E r \in Rows(b) : p = <<RowOffset(b, r), b.column_nums * CellSize>>
             \/ \E r \in Rows(b), c \in 0 .. b.column_nums - 1 :
                    /\ GetCellUnit(b, r, c).type \in {"string", "blob"}
                    /\ p = <<GetCellUnit(b, r, c).offset, GetCellUnit(b, r, c).size>>
BY DEF Regions

LEMMA RowsOf ==
    ASSUME NEW b, IsBlock(b), NEW r \in Rows(b)
    PROVE  r \in Nat /\ r \in 0 .. b.row_nums - 1 /\ b.column_nums > 0
BY DEF Rows, IsBlock

LEMMA RegionType ==
    ASSUME NEW b, IsBlock(b), Chained(b), Filed(b), NEW p \in Regions(b)
    PROVE  p[1] \in Nat /\ p[2] \in Nat
<1>1. CASE p = <<0, HeaderSize>>
  BY <1>1, SharedBlockAssumption
<1>2. CASE \E k \in 1 .. Len(b.groups) : p = <<b.groups[k].at, GroupSize>>
  <2>1. PICK k \in 1 .. Len(b.groups) : p = <<b.groups[k].at, GroupSize>>
    BY <1>2
  <2>2. b.groups[k] \in GroupRecord
    BY DEF IsBlock
  <2> QED
    BY <2>1, <2>2, SharedBlockAssumption DEF GroupRecord
<1>3. CASE \E r \in Rows(b) : p = <<RowOffset(b, r), b.column_nums * CellSize>>
  <2>1. PICK r \in Rows(b) : p = <<RowOffset(b, r), b.column_nums * CellSize>>
    BY <1>3
  <2>2. RowOffset(b, r) \in Nat
    BY RowsOf, RowOffsetType DEF Chained
  <2> QED
    BY <2>1, <2>2, DirectorySize DEF IsBlock
<1>4. CASE \E r \in Rows(b), c \in 0 .. b.column_nums - 1 :
              /\ GetCellUnit(b, r, c).type \in {"string", "blob"}
              /\ p = <<GetCellUnit(b, r, c).offset, GetCellUnit(b, r, c).size>>
  BY <1>4 DEF Filed, IsCell
<1> QED
  BY <1>1, <1>2, <1>3, <1>4, RegionIs

\* A block that refers to no more than another did and one region behind all of
\* them is as well formed.
LEMMA RegionsGrow ==
    ASSUME NEW b, BlockInv(b), NEW c, IsBlock(c),
           NEW at \in Nat, NEW n \in Nat, b.unused <= at, at + n <= c.unused, b.unused <= c.unused,
           Regions(c) \subseteq Regions(b) \cup {<<at, n>>}
    PROVE  /\ \A p \in Regions(c) : p[1] + p[2] <= c.unused
           /\ \A p, q \in Regions(c) : p = q \/ Disjoint(p, q)
<1>1. \A p \in Regions(b) : p[1] \in Nat /\ p[2] \in Nat /\ p[1] + p[2] <= b.unused
  BY RegionType DEF BlockInv, WellFormed
<1>2. \A p, q \in Regions(b) : p = q \/ Disjoint(p, q)
  BY DEF BlockInv, WellFormed
<1>3. b.unused \in Nat /\ c.unused \in Nat
  BY DEF BlockInv, IsBlock
<1>4. \A p \in Regions(b) : Disjoint(p, <<at, n>>) /\ Disjoint(<<at, n>>, p)
  BY <1>1, <1>3 DEF Disjoint
<1> QED
  BY <1>1, <1>2, <1>3, <1>4

(* What the operations do with a block *)

\* A row and a column that a block has, it has a cell for.
LEMMA HasCellIs ==
    ASSUME NEW b, BlockInv(b), NEW row \in Int, NEW col
    PROVE  HasCell(b, row, col) <=> row \in 0 .. b.row_nums - 1 /\ col \in 0 .. b.column_nums - 1
<1>1. ASSUME row \in 0 .. b.row_nums - 1, col \in 0 .. b.column_nums - 1
      PROVE  OffsetToPtr(b, RowOffset(b, row), CellSize)
  <2>1. row \in Rows(b) /\ b.column_nums \in Nat /\ b.column_nums > 0
    BY <1>1 DEF Rows, BlockInv, IsBlock
  <2>2. <<RowOffset(b, row), b.column_nums * CellSize>> \in Regions(b)
    BY <2>1, RegionIs
  <2>3. RowOffset(b, row) + (b.column_nums * CellSize) <= b.unused
    BY <2>2 DEF BlockInv, WellFormed
  <2>4. RowOffset(b, row) \in Nat
    BY <2>1, RowsOf, RowOffsetType DEF BlockInv, Chained
  <2> QED
    BY <2>1, <2>3, <2>4, DirectorySize, SharedBlockAssumption DEF BlockInv, IsBlock, HasRoom, OffsetToPtr
<1> QED
  BY <1>1 DEF HasCell

\* A block that keeps of another the directories, the bytes and the offsets of its
\* rows, and has at most one group more, behind all else, is as well formed and
\* reads the same.
LEMMA RowsKept ==
    ASSUME NEW b, BlockInv(b), NEW c, IsBlock(c), HasRoom(c), Chained(c),
           NEW at \in Nat, NEW n \in Nat, b.unused <= at, at + n <= c.unused, b.unused <= c.unused,
           c.dirs = b.dirs, c.bytes = b.bytes,
           \A r \in Rows(c) : c.column_nums = b.column_nums /\ r \in Rows(b) /\ RowOffset(c, r) = RowOffset(b, r),
           \A k \in 1 .. Len(c.groups) : <<c.groups[k].at, GroupSize>> \in Regions(b) \cup {<<at, n>>}
    PROVE  /\ BlockInv(c)
           /\ \A r \in Rows(c), col \in 0 .. c.column_nums - 1 : CellValue(c, r, col) = CellValue(b, r, col)
<1>1. \A r \in Rows(c) : \A col : GetCellUnit(c, r, col) = GetCellUnit(b, r, col)
  BY DEF GetCellUnit
<1>2. Regions(c) \subseteq Regions(b) \cup {<<at, n>>}
  <2> SUFFICES ASSUME NEW p \in Regions(c) PROVE p \in Regions(b) \cup {<<at, n>>}
    OBVIOUS
  <2>1. CASE p = <<0, HeaderSize>>
    BY <2>1, RegionIs
  <2>2. CASE \E k \in 1 .. Len(c.groups) : p = <<c.groups[k].at, GroupSize>>
    BY <2>2
  <2>3. CASE \E r \in Rows(c) : p = <<RowOffset(c, r), c.column_nums * CellSize>>
    <3>1. PICK r \in Rows(c) : p = <<RowOffset(c, r), c.column_nums * CellSize>>
      BY <2>3
    <3>2. r \in Rows(b) /\ p = <<RowOffset(b, r), b.column_nums * CellSize>>
      BY <3>1
    <3> QED
      BY <3>2, RegionIs
  <2>4. CASE \E r \in Rows(c), k \in 0 .. c.column_nums - 1 :
                /\ GetCellUnit(c, r, k).type \in {"string", "blob"}
                /\ p = <<GetCellUnit(c, r, k).offset, GetCellUnit(c, r, k).size>>
    <3>1. PICK r \in Rows(c), k \in 0 .. c.column_nums - 1 :
                /\ GetCellUnit(c, r, k).type \in {"string", "blob"}
                /\ p = <<GetCellUnit(c, r, k).offset, GetCellUnit(c, r, k).size>>
      BY <2>4
    <3>2. /\ r \in Rows(b) /\ k \in 0 .. b.column_nums - 1
          /\ GetCellUnit(b, r, k).type \in {"string", "blob"}
          /\ p = <<GetCellUnit(b, r, k).offset, GetCellUnit(b, r, k).size>>
      BY <3>1, <1>1
    <3> QED
      BY <3>2, RegionIs
  <2> QED
    BY <2>1, <2>2, <2>3, <2>4, RegionIs
<1>3. Filed(c)
  BY <1>1 DEF BlockInv, Filed, IsCell
<1>4. \A r, s \in Rows(c) : r = s \/ RowOffset(c, r) # RowOffset(c, s)
  BY DEF BlockInv, WellFormed
<1>5. WellFormed(c)
  BY <1>2, <1>4, RegionsGrow DEF WellFormed, HasRoom
<1> QED
  BY <1>1, <1>3, <1>5 DEF BlockInv, CellValue

LEMMA EmptyGroupType ==
    ASSUME NEW at \in Nat
    PROVE  EmptyGroup(at) \in GroupRecord /\ EmptyGroup(at).at = at
BY DEF EmptyGroup, GroupRecord

\* A block of one empty group and no rows.
LEMMA BareBlock ==
    ASSUME NEW b, IsBlock(b), b.row_nums = 0, b.unused = HeaderSize + GroupSize, b.unused < b.size,
           b.groups = <<EmptyGroup(HeaderSize)>>
    PROVE  BlockInv(b)
<1>1. Rows(b) = {}
  BY DEF Rows
<1>2. Len(b.groups) = 1 /\ b.groups[1].at = HeaderSize
  BY EmptyGroupType, SharedBlockAssumption
<1>3. \A p \in Regions(b) : p = <<0, HeaderSize>> \/ p = <<HeaderSize, GroupSize>>
  BY <1>1, <1>2, RegionIs
<1>4. WellFormed(b)
  BY <1>1, <1>3, SharedBlockAssumption DEF WellFormed, Disjoint
<1> QED
  BY <1>1, <1>2, <1>4, SharedBlockAssumption DEF BlockInv, HasRoom, Chained, Filed

LEMMA CreateBlockInv ==
    ASSUME NEW size \in Nat, HeaderSize + GroupSize < size
    PROVE  /\ BlockInv(CreateBlock(size)) /\ ~CreateBlock(size).read_only
           /\ CreateBlock(size).row_nums = 0 /\ CreateBlock(size).column_nums = 0
<1>1. EmptyGroup(HeaderSize) \in GroupRecord
  BY EmptyGroupType, SharedBlockAssumption
<1>2. IsBlock(CreateBlock(size))
  BY <1>1, SharedBlockAssumption DEF CreateBlock, IsBlock
<1> QED
  BY <1>2, BareBlock DEF CreateBlock

LEMMA ClearInv ==
    ASSUME NEW b, BlockInv(b)
    PROVE  /\ BlockInv(Clear(b).b)
           /\ b.read_only => Clear(b).code # OK /\ Clear(b).b = b
           /\ ~b.read_only => /\ Clear(b).code = OK /\ ~Clear(b).b.read_only
                              /\ Clear(b).b.row_nums = 0 /\ Clear(b).b.column_nums = 0
<1>1. CASE b.read_only
  BY <1>1 DEF Clear, Answer, OK, INVALID_OPERATION
<1>2. CASE ~b.read_only
  <2> DEFINE reset == [b EXCEPT !.unused = HeaderSize + GroupSize, !.row_nums = 0, !.column_nums = 0]
             c == [reset EXCEPT !.groups = <<EmptyGroup(HeaderSize)>>, !.dirs = <<>>, !.bytes = <<>>]
  <2>1. OffsetToPtr(b, HeaderSize, GroupSize)
    BY SharedBlockAssumption DEF OffsetToPtr, BlockInv, HasRoom, IsBlock
  <2>2. Clear(b).code = OK /\ Clear(b).b = c
    BY <1>2, <2>1 DEF Clear, Answer
  <2>3. EmptyGroup(HeaderSize) \in GroupRecord
    BY EmptyGroupType, SharedBlockAssumption
  <2>4. /\ IsBlock(c) /\ c.row_nums = 0 /\ c.column_nums = 0 /\ ~c.read_only
        /\ c.unused = HeaderSize + GroupSize /\ c.size = b.size /\ c.groups = <<EmptyGroup(HeaderSize)>>
    BY <1>2, <2>3, SharedBlockAssumption DEF BlockInv, IsBlock
  <2>5. c.unused < c.size
    BY <2>4, SharedBlockAssumption DEF BlockInv, HasRoom, IsBlock
  <2>6. BlockInv(c)
    BY <2>4, <2>5, BareBlock
  <2> QED
    BY <1>2, <2>2, <2>4, <2>6
<1> QED
  BY <1>1, <1>2 DEF BlockInv, IsBlock

\* The rows two blocks have in common read the same.
KeepsCells(b, c) ==
    \A r \in 0 .. c.row_nums - 1, col \in 0 .. c.column_nums - 1 :
        r < b.row_nums => CellValue(c, r, col) = CellValue(b, r, col)

\* A chain that keeps the groups of the rows that are kept.
LEMMA GroupsKept ==
    ASSUME NEW b, BlockInv(b), NEW c, IsBlock(c), HasRoom(c),
           NEW at \in Nat, NEW n \in Nat, b.unused <= at, at + n <= c.unused, b.unused <= c.unused,
           c.dirs = b.dirs, c.bytes = b.bytes,
           c.row_nums <= b.row_nums, c.column_nums = b.column_nums,
           1 <= Len(c.groups),
           \A k \in 1 .. Len(c.groups) :
                \/ k <= Len(b.groups) /\ c.groups[k] = b.groups[k]
                \/ c.groups[k].at = at /\ n = GroupSize,
           \A r \in 0 .. c.row_nums - 1 :
                /\ (r \div RowOffsetsNum) + 1 <= Len(c.groups)
                /\ c.groups[(r \div RowOffsetsNum) + 1] = b.groups[(r \div RowOffsetsNum) + 1]
    PROVE  /\ BlockInv(c) /\ KeepsCells(b, c)
           /\ \A r \in 0 .. c.row_nums - 1 : RowOffset(c, r) = RowOffset(b, r)
<1>1. \A r \in 0 .. c.row_nums - 1 : RowOffset(c, r) = RowOffset(b, r)
  BY DEF RowOffset
<1>2. \A r \in Rows(c) : r \in 0 .. c.row_nums - 1 /\ r \in Rows(b)
  BY DEF Rows, BlockInv, IsBlock
<1>3. Chained(c)
  BY DEF Chained
<1>4. ASSUME NEW k \in 1 .. Len(c.groups)
      PROVE  <<c.groups[k].at, GroupSize>> \in Regions(b) \cup {<<at, n>>}
  <2>1. CASE k <= Len(b.groups) /\ c.groups[k] = b.groups[k]
    <3>1. k \in 1 .. Len(b.groups)
      BY <2>1 DEF BlockInv, IsBlock
    <3> QED
      BY <2>1, <3>1, RegionIs
  <2> QED
    BY <2>1
<1>5. /\ BlockInv(c)
      /\ \A r \in Rows(c), col \in 0 .. c.column_nums - 1 : CellValue(c, r, col) = CellValue(b, r, col)
  BY <1>1, <1>2, <1>3, <1>4, RowsKept
<1>6. ASSUME NEW r \in 0 .. c.row_nums - 1, NEW col \in 0 .. c.column_nums - 1
      PROVE  r \in Rows(c)
  BY DEF Rows, IsBlock
<1> QED
  BY <1>1, <1>5, <1>6 DEF KeepsCells

LEMMA SetReadOnlyInv ==
    ASSUME NEW b, BlockInv(b), NEW x \in BOOLEAN
    PROVE  LET c == [b EXCEPT !.read_only = x] IN
           /\ BlockInv(c) /\ KeepsCells(b, c) /\ c.read_only = x
           /\ c.row_nums = b.row_nums /\ c.column_nums = b.column_nums
<1> DEFINE c == [b EXCEPT !.read_only = x]
<1>1. /\ IsBlock(c) /\ c.read_only = x /\ c.unused = b.unused /\ c.size = b.size
      /\ c.row_nums = b.row_nums /\ c.column_nums = b.column_nums
      /\ c.groups = b.groups /\ c.dirs = b.dirs /\ c.bytes = b.bytes
  BY DEF BlockInv, IsBlock
<1> HIDE DEF c
<1>2. HasRoom(c) /\ b.unused \in Nat /\ 0 \in Nat /\ b.unused + 0 <= c.unused
  BY <1>1 DEF BlockInv, HasRoom, IsBlock
<1>a. /\ b.unused <= b.unused /\ b.unused <= c.unused /\ c.row_nums <= b.row_nums /\ 1 <= Len(c.groups)
      /\ \A k \in 1 .. Len(c.groups) : k <= Len(b.groups) /\ c.groups[k] = b.groups[k]
      /\ \A r \in 0 .. c.row_nums - 1 :
             /\ (r \div RowOffsetsNum) + 1 <= Len(c.groups)
             /\ c.groups[(r \div RowOffsetsNum) + 1] = b.groups[(r \div RowOffsetsNum) + 1]
  BY <1>1 DEF BlockInv, Chained, IsBlock
<1>3. BlockInv(c) /\ KeepsCells(b, c)
  BY <1>1, <1>2, <1>a, GroupsKept
<1> QED
  BY <1>1, <1>3 DEF c

LEMMA FreeLastRowInv ==
    ASSUME NEW b, BlockInv(b)
    PROVE  LET c == FreeLastRow(b).b IN
           /\ BlockInv(c) /\ KeepsCells(b, c) /\ c.column_nums = b.column_nums /\ c.read_only = b.read_only
           /\ b.read_only => FreeLastRow(b).code # OK /\ c = b
           /\ ~b.read_only => /\ FreeLastRow(b).code = OK
                              /\ c.row_nums = IF b.row_nums > 0 THEN b.row_nums - 1 ELSE 0
<1>1. CASE b.read_only
  BY <1>1 DEF FreeLastRow, Answer, OK, INVALID_OPERATION, KeepsCells
<1>2. CASE ~b.read_only
  <2> DEFINE c == [b EXCEPT !.row_nums = IF @ > 0 THEN @ - 1 ELSE 0]
  <2>1. FreeLastRow(b).code = OK /\ FreeLastRow(b).b = c
    BY <1>2 DEF FreeLastRow, Answer
  <2>2. /\ IsBlock(c) /\ c.read_only = b.read_only /\ c.unused = b.unused /\ c.size = b.size
        /\ c.row_nums = (IF b.row_nums > 0 THEN b.row_nums - 1 ELSE 0) /\ c.column_nums = b.column_nums
        /\ c.groups = b.groups /\ c.dirs = b.dirs /\ c.bytes = b.bytes
    BY DEF BlockInv, IsBlock
  <2> HIDE DEF c
  <2>3. HasRoom(c) /\ b.unused \in Nat /\ 0 \in Nat /\ b.unused + 0 <= c.unused
    BY <2>2 DEF BlockInv, HasRoom, IsBlock
  <2>4. c.row_nums <= b.row_nums /\ \A r \in 0 .. c.row_nums - 1 : r \in 0 .. b.row_nums - 1
    BY <2>2 DEF BlockInv, IsBlock
  <2>a. /\ b.unused <= b.unused /\ b.unused <= c.unused /\ 1 <= Len(c.groups)
        /\ \A k \in 1 .. Len(c.groups) : k <= Len(b.groups) /\ c.groups[k] = b.groups[k]
        /\ \A r \in 0 .. c.row_nums - 1 :
               /\ (r \div RowOffsetsNum) + 1 <= Len(c.groups)
               /\ c.groups[(r \div RowOffsetsNum) + 1] = b.groups[(r \div RowOffsetsNum) + 1]
    BY <2>2, <2>4 DEF BlockInv, Chained, IsBlock
  <2>5. BlockInv(c) /\ KeepsCells(b, c)
    BY <2>2, <2>3, <2>4, <2>a, GroupsKept
  <2> QED
    BY <1>2, <2>1, <2>2, <2>5
<1> QED
  BY <1>1, <1>2

LEMMA SetColumnNumInv ==
    ASSUME NEW b, BlockInv(b), NEW n \in Nat
    PROVE  LET c == SetColumnNum(b, n).b IN
           /\ BlockInv(c) /\ KeepsCells(b, c) /\ c.row_nums = b.row_nums /\ c.read_only = b.read_only
           /\ SetColumnNum(b, n).code # OK => c = b
           /\ SetColumnNum(b, n).code = OK =>
                 c.column_nums = n /\ (b.column_nums = n \/ (b.column_nums = 0 /\ b.row_nums = 0))
<1>1. CASE \/ b.read_only
           \/ (b.column_nums > 0 \/ b.row_nums > 0) /\ b.column_nums # n
           \/ n > ColMaxNum
  BY <1>1 DEF SetColumnNum, Answer, OK, INVALID_OPERATION, KeepsCells
<1>2. CASE ~ \/ b.read_only
             \/ (b.column_nums > 0 \/ b.row_nums > 0) /\ b.column_nums # n
             \/ n > ColMaxNum
  <2> DEFINE c == [b EXCEPT !.column_nums = n]
  <2>1. SetColumnNum(b, n).code = OK /\ SetColumnNum(b, n).b = c
    BY <1>2 DEF SetColumnNum, Answer
  <2>2. /\ IsBlock(c) /\ c.read_only = b.read_only /\ c.unused = b.unused /\ c.size = b.size
        /\ c.row_nums = b.row_nums /\ c.column_nums = n
        /\ c.groups = b.groups /\ c.dirs = b.dirs /\ c.bytes = b.bytes
    BY DEF BlockInv, IsBlock
  <2> HIDE DEF c
  <2>3. HasRoom(c) /\ b.unused \in Nat /\ 0 \in Nat /\ b.unused + 0 <= c.unused
    BY <2>2 DEF BlockInv, HasRoom, IsBlock
  <2>4. b.column_nums = n \/ (b.column_nums = 0 /\ b.row_nums = 0)
    BY <1>2 DEF BlockInv, IsBlock
  <2>5. \A r \in Rows(c) : c.column_nums = b.column_nums /\ r \in Rows(b) /\ RowOffset(c, r) = RowOffset(b, r)
    BY <2>2, <2>4 DEF Rows, RowOffset
  <2>6. Chained(c)
    BY <2>2 DEF BlockInv, Chained
  <2>7. \A k \in 1 .. Len(c.groups) : <<c.groups[k].at, GroupSize>> \in Regions(b) \cup {<<b.unused, 0>>}
    BY <2>2, RegionIs
  <2>8. /\ BlockInv(c)
        /\ \A r \in Rows(c), col \in 0 .. c.column_nums - 1 : CellValue(c, r, col) = CellValue(b, r, col)
    BY <2>2, <2>3, <2>5, <2>6, <2>7, RowsKept
  <2>9. KeepsCells(b, c)
    BY <2>2, <2>8 DEF KeepsCells, Rows
  <2> QED
    BY <1>2, <2>1, <2>2, <2>4, <2>8, <2>9
<1> QED
  BY <1>1, <1>2

\* The group a row belongs to, and that it is there, when the rows before it have
\* theirs.
LEMMA AllocRowOffsetInv ==
    ASSUME NEW b, BlockInv(b)
    PROVE  LET c == AllocRowOffset(b).b
               row == b.row_nums
               back == [c EXCEPT !.row_nums = @ - 1]
           IN
           \/ AllocRowOffset(b).slot = NoSlot /\ c = b
           \/ /\ AllocRowOffset(b).slot = <<(row \div RowOffsetsNum) + 1, row % RowOffsetsNum>>
              /\ AllocRowOffset(b).slot # NoSlot
              /\ IsBlock(c) /\ c.row_nums = row + 1 /\ (row \div RowOffsetsNum) + 1 <= Len(c.groups)
              /\ BlockInv(back) /\ KeepsCells(b, back)
              /\ c.column_nums = b.column_nums /\ c.read_only = b.read_only
<1> DEFINE row == b.row_nums
           last == IF row = 0 THEN 1 ELSE ((row - 1) \div RowOffsetsNum) + 1
           full == row > 0 /\ row % RowOffsetsNum = 0
           g == row \div RowOffsetsNum
           i == row % RowOffsetsNum
           new == AllocAt(b, TRUE)
<1>1. /\ row \in Nat /\ g \in Nat /\ i \in 0 .. RowOffsetsNum - 1 /\ b.groups \in Seq(GroupRecord)
      /\ b.unused \in Nat /\ b.size \in Nat /\ Len(b.groups) \in Nat /\ 1 <= Len(b.groups)
  BY SlotOfRow DEF BlockInv, IsBlock, Chained
<1>2. last \in Nat /\ last >= 1 /\ last <= Len(b.groups)
  <2>1. CASE row = 0
    BY <2>1, <1>1
  <2>2. CASE row # 0
    <3>1. row - 1 \in Nat /\ row - 1 \in 0 .. b.row_nums - 1
      BY <2>2, <1>1
    <3>2. (row - 1) \div RowOffsetsNum \in Nat /\ ((row - 1) \div RowOffsetsNum) + 1 <= Len(b.groups)
      BY <3>1, SlotOfRow DEF BlockInv, Chained
    <3> HIDE DEF row
    <3> QED
      BY <2>2, <3>2
  <2> QED
    BY <2>1, <2>2
<1>3. \A r \in 0 .. row - 1 : (r \div RowOffsetsNum) + 1 \in 1 .. last
  <2> SUFFICES ASSUME NEW r \in 0 .. row - 1 PROVE (r \div RowOffsetsNum) + 1 \in 1 .. last
    OBVIOUS
  <2>1. r \in Nat /\ row - 1 \in Nat /\ r <= row - 1 /\ row # 0
    BY <1>1
  <2>2. /\ r \div RowOffsetsNum \in Nat /\ (row - 1) \div RowOffsetsNum \in Nat
        /\ r \div RowOffsetsNum <= (row - 1) \div RowOffsetsNum
    BY <2>1, SlotOfRow, GroupsInOrder
  <2>3. last = ((row - 1) \div RowOffsetsNum) + 1
    BY <2>1
  <2> DEFINE x == r \div RowOffsetsNum
             y == (row - 1) \div RowOffsetsNum
  <2>4. x \in Nat /\ y \in Nat /\ x <= y /\ last = y + 1
    BY <2>2, <2>3
  <2> HIDE DEF x, y, last
  <2>5. x + 1 \in 1 .. last
    BY <2>4
  <2> QED
    BY <2>5 DEF x
<1>4. (~full => last = g + 1) /\ (full => last = g /\ i = 0)
  <2>1. CASE row = 0
    BY <2>1, RowZero
  <2>2. CASE row # 0 /\ i = 0
    BY <2>2, <1>1, NextGroup
  <2>3. CASE i # 0
    BY <2>3, <1>1, SameGroup
  <2> QED
    BY <2>1, <2>2, <2>3
<1>5. <<g + 1, i>> # NoSlot
  BY <1>1 DEF NoSlot
<1>6. AllocRowOffset(b) =
        IF ~full
        THEN [slot |-> <<last, i>>, b |-> [b EXCEPT !.row_nums = @ + 1]]
        ELSE IF last < Len(b.groups)
        THEN [slot |-> <<last + 1, 0>>,
              b |-> [b EXCEPT !.groups = SubSeq(@, 1, last + 1), !.row_nums = @ + 1]]
        ELSE IF ~AllocFits(b, GroupSize, TRUE) THEN [slot |-> NoSlot, b |-> b]
        ELSE [slot |-> <<last + 1, 0>>,
              b |-> [b EXCEPT !.unused = new + GroupSize,
                              !.groups = Append(@, EmptyGroup(new)),
                              !.row_nums = @ + 1]]
  BY DEF AllocRowOffset
<1>7. \A r \in 0 .. row - 1 : (r \div RowOffsetsNum) + 1 <= Len(b.groups)
  BY DEF BlockInv, Chained
<1> DEFINE c == AllocRowOffset(b).b
           back == [c EXCEPT !.row_nums = @ - 1]
<1>8. CASE ~full
  <2>1. c = [b EXCEPT !.row_nums = @ + 1] /\ AllocRowOffset(b).slot = <<g + 1, i>>
    BY <1>8, <1>6, <1>4
  <2>2. /\ IsBlock(c) /\ c.row_nums = row + 1 /\ c.column_nums = b.column_nums /\ c.read_only = b.read_only
        /\ c.groups = b.groups /\ c.dirs = b.dirs /\ c.bytes = b.bytes /\ c.unused = b.unused /\ c.size = b.size
    BY <2>1 DEF BlockInv, IsBlock
  <2> HIDE DEF c
  <2>3. /\ IsBlock(back) /\ back.row_nums = row /\ back.column_nums = b.column_nums
        /\ back.groups = b.groups /\ back.dirs = b.dirs /\ back.bytes = b.bytes
        /\ back.unused = b.unused /\ back.size = b.size
    BY <2>2, <1>1 DEF IsBlock
  <2> HIDE DEF back
  <2>4. HasRoom(back) /\ b.unused + 0 <= back.unused /\ back.row_nums <= b.row_nums /\ 1 <= Len(back.groups)
    BY <2>3, <1>1 DEF BlockInv, HasRoom
  <2>5. /\ \A k \in 1 .. Len(back.groups) : k <= Len(b.groups) /\ back.groups[k] = b.groups[k]
        /\ \A r \in 0 .. back.row_nums - 1 :
               /\ (r \div RowOffsetsNum) + 1 <= Len(back.groups)
               /\ back.groups[(r \div RowOffsetsNum) + 1] = b.groups[(r \div RowOffsetsNum) + 1]
    BY <2>3, <1>1, <1>7
  <2>6. b.unused \in Nat /\ 0 \in Nat /\ b.unused <= b.unused /\ b.unused <= back.unused
    BY <1>1, <2>3
  <2>7. BlockInv(back) /\ KeepsCells(b, back)
    BY <2>3, <2>4, <2>5, <2>6, GroupsKept
  <2>8. g + 1 <= Len(c.groups)
    BY <1>2, <1>4, <1>8, <2>2
  <2> QED
    BY <1>5, <2>1, <2>2, <2>7, <2>8, Zenon DEF c, back
<1>9. CASE full /\ last < Len(b.groups)
  <2> DEFINE chain == SubSeq(b.groups, 1, last + 1)
  <2>1. /\ c = [b EXCEPT !.groups = chain, !.row_nums = @ + 1]
        /\ AllocRowOffset(b).slot = <<g + 1, i>>
    BY <1>9, <1>6, <1>4
  <2>a. /\ chain \in Seq(GroupRecord) /\ Len(chain) = last + 1
        /\ \A k \in 1 .. last + 1 : k <= Len(b.groups) /\ chain[k] = b.groups[k]
    BY <1>1, <1>2, <1>9
  <2> HIDE DEF chain
  <2>2. /\ IsBlock(c) /\ c.row_nums = row + 1 /\ c.column_nums = b.column_nums /\ c.read_only = b.read_only
        /\ c.groups = chain /\ c.dirs = b.dirs /\ c.bytes = b.bytes /\ c.unused = b.unused /\ c.size = b.size
    BY <2>1, <2>a DEF BlockInv, IsBlock
  <2> HIDE DEF c
  <2>3. /\ IsBlock(back) /\ back.row_nums = row /\ back.column_nums = b.column_nums
        /\ back.groups = chain /\ back.dirs = b.dirs /\ back.bytes = b.bytes
        /\ back.unused = b.unused /\ back.size = b.size
    BY <2>2, <1>1 DEF IsBlock
  <2> HIDE DEF back
  <2>4. HasRoom(back) /\ b.unused + 0 <= back.unused /\ back.row_nums <= b.row_nums /\ 1 <= Len(back.groups)
    BY <2>3, <2>a, <1>1, <1>2 DEF BlockInv, HasRoom
  <2>5. /\ \A k \in 1 .. Len(back.groups) : k <= Len(b.groups) /\ back.groups[k] = b.groups[k]
        /\ \A r \in 0 .. back.row_nums - 1 :
               /\ (r \div RowOffsetsNum) + 1 <= Len(back.groups)
               /\ back.groups[(r \div RowOffsetsNum) + 1] = b.groups[(r \div RowOffsetsNum) + 1]
    <3>1. \A k \in 1 .. last : k \in 1 .. last + 1 /\ k <= last + 1
      BY <1>2
    <3> HIDE DEF last, row
    <3> QED
      BY <2>3, <2>a, <1>3, <3>1
  <2>6. b.unused \in Nat /\ 0 \in Nat /\ b.unused <= b.unused /\ b.unused <= back.unused
    BY <1>1, <2>3
  <2>7. BlockInv(back) /\ KeepsCells(b, back)
    BY <2>3, <2>4, <2>5, <2>6, GroupsKept
  <2>8. g + 1 <= Len(c.groups)
    BY <1>2, <1>4, <1>9, <2>2, <2>a
  <2> QED
    BY <1>5, <2>1, <2>2, <2>7, <2>8, Zenon DEF c, back
<1>10. CASE full /\ ~(last < Len(b.groups)) /\ ~AllocFits(b, GroupSize, TRUE)
  BY <1>10, <1>6
<1>11. CASE full /\ ~(last < Len(b.groups)) /\ AllocFits(b, GroupSize, TRUE)
  <2> DEFINE chain == Append(b.groups, EmptyGroup(new))
  <2>1. /\ c = [b EXCEPT !.unused = new + GroupSize, !.groups = chain, !.row_nums = @ + 1]
        /\ AllocRowOffset(b).slot = <<g + 1, i>>
    BY <1>11, <1>6, <1>4
  <2>b. new \in Nat /\ b.unused <= new /\ new + GroupSize < b.size /\ GroupSize \in Nat
    BY <1>11, AllocAtBehind, SharedBlockAssumption DEF AllocFits, BlockInv
  <2> HIDE DEF new
  <2>c. EmptyGroup(new) \in GroupRecord /\ EmptyGroup(new).at = new
    BY <2>b, EmptyGroupType
  <2>d. last = Len(b.groups)
    BY <1>2, <1>11
  <2>a. /\ chain \in Seq(GroupRecord) /\ Len(chain) = last + 1
        /\ \A k \in 1 .. last : chain[k] = b.groups[k]
        /\ chain[last + 1] = EmptyGroup(new)
    BY <1>1, <2>c, <2>d
  <2> HIDE DEF chain
  <2>2. /\ IsBlock(c) /\ c.row_nums = row + 1 /\ c.column_nums = b.column_nums /\ c.read_only = b.read_only
        /\ c.groups = chain /\ c.dirs = b.dirs /\ c.bytes = b.bytes /\ c.unused = new + GroupSize /\ c.size = b.size
    BY <2>1, <2>a, <2>b DEF BlockInv, IsBlock
  <2> HIDE DEF c
  <2>3. /\ IsBlock(back) /\ back.row_nums = row /\ back.column_nums = b.column_nums
        /\ back.groups = chain /\ back.dirs = b.dirs /\ back.bytes = b.bytes
        /\ back.unused = new + GroupSize /\ back.size = b.size
    BY <2>2, <1>1 DEF IsBlock
  <2> HIDE DEF back
  <2>4. HasRoom(back) /\ back.row_nums <= b.row_nums /\ 1 <= Len(back.groups)
    BY <2>3, <2>a, <2>b, <1>1, <1>2, SharedBlockAssumption DEF BlockInv, HasRoom
  <2>5. /\ \A k \in 1 .. Len(back.groups) :
               \/ k <= Len(b.groups) /\ back.groups[k] = b.groups[k]
               \/ back.groups[k].at = new /\ GroupSize = GroupSize
        /\ \A r \in 0 .. back.row_nums - 1 :
               /\ (r \div RowOffsetsNum) + 1 <= Len(back.groups)
               /\ back.groups[(r \div RowOffsetsNum) + 1] = b.groups[(r \div RowOffsetsNum) + 1]
    <3>1. \A k \in 1 .. last + 1 : k \in 1 .. last \/ k = last + 1
      BY <1>2
    <3>2. \A k \in 1 .. last : k <= last + 1 /\ k <= last
      BY <1>2
    <3> HIDE DEF last, row
    <3> QED
      BY <2>3, <2>a, <2>c, <2>d, <1>3, <3>1, <3>2
  <2>6. b.unused <= back.unused /\ new + GroupSize <= back.unused
    BY <1>1, <2>3, <2>b
  <2>7. BlockInv(back) /\ KeepsCells(b, back)
    BY <2>3, <2>4, <2>5, <2>6, <2>b, GroupsKept
  <2>8. g + 1 <= Len(c.groups)
    BY <1>2, <1>4, <1>11, <2>2, <2>a
  <2> QED
    BY <1>5, <2>1, <2>2, <2>7, <2>8, Zenon DEF c, back
<1> QED
  BY <1>5, <1>8, <1>9, <1>10, <1>11

\* What lies behind a block's objects collides with none of them.
LEMMA DirectoryBelow ==
    ASSUME NEW b, BlockInv(b), NEW r \in Rows(b)
    PROVE  RowOffset(b, r) \in Nat /\ RowOffset(b, r) < b.unused
<1>1. <<RowOffset(b, r), b.column_nums * CellSize>> \in Regions(b)
  BY RegionIs
<1>2. RowOffset(b, r) + (b.column_nums * CellSize) <= b.unused
  BY <1>1 DEF BlockInv, WellFormed
<1>3. RowOffset(b, r) \in Nat /\ b.column_nums \in Nat /\ b.column_nums > 0 /\ b.unused \in Nat
  BY RowsOf, RowOffsetType DEF BlockInv, Chained, IsBlock
<1>4. b.column_nums * CellSize \in Nat /\ b.column_nums * CellSize > 0
  BY <1>3, DirectorySize, SharedBlockAssumption
<1> DEFINE x == b.column_nums * CellSize
<1> HIDE DEF x
<1> QED
  BY <1>2, <1>3, <1>4 DEF x

LEMMA BytesBelow ==
    ASSUME NEW b, BlockInv(b), NEW r \in Rows(b), NEW col \in 0 .. b.column_nums - 1,
           GetCellUnit(b, r, col).type \in {"string", "blob"}, GetCellUnit(b, r, col).size # 0
    PROVE  /\ GetCellUnit(b, r, col).offset \in Nat /\ GetCellUnit(b, r, col).offset < b.unused
           /\ GetCellUnit(b, r, col).offset \in DOMAIN b.bytes
<1> DEFINE x == GetCellUnit(b, r, col)
<1>1. x.offset \in Nat /\ x.size \in Nat /\ x.offset \in DOMAIN b.bytes
  BY DEF BlockInv, Filed, IsCell
<1>2. <<x.offset, x.size>> \in Regions(b)
  BY RegionIs
<1>3. x.offset + x.size <= b.unused
  BY <1>2 DEF BlockInv, WellFormed
<1>4. b.unused \in Nat
  BY DEF BlockInv, IsBlock
<1> HIDE DEF x
<1>5. x.offset < b.unused
  BY <1>1, <1>3, <1>4 DEF x
<1> QED
  BY <1>1, <1>5 DEF x

\* A row is added behind the others; its cells are null.
LEMMA RowAdded ==
    ASSUME NEW b, BlockInv(b), NEW e, IsBlock(e), HasRoom(e), Chained(e),
           NEW dir \in Nat, b.unused <= dir, dir + (b.column_nums * CellSize) <= e.unused,
           e.row_nums = b.row_nums + 1, e.column_nums = b.column_nums,
           e.dirs = Stored(b.dirs, dir, NullRow(b.column_nums)), e.bytes = b.bytes,
           Len(e.groups) = Len(b.groups), \A k \in 1 .. Len(e.groups) : e.groups[k].at = b.groups[k].at,
           \A r \in 0 .. b.row_nums - 1 : RowOffset(e, r) = RowOffset(b, r),
           RowOffset(e, b.row_nums) = dir
    PROVE  /\ BlockInv(e) /\ KeepsCells(b, e)
           /\ \A col \in 0 .. b.column_nums - 1 : CellValue(e, b.row_nums, col) = NullCell
<1> DEFINE n == b.column_nums * CellSize
           row == b.row_nums
<1>1. /\ row \in Nat /\ b.column_nums \in Nat /\ n \in Nat /\ b.unused \in Nat /\ e.unused \in Nat
  BY DirectorySize DEF BlockInv, IsBlock
<1>2. \A r \in Rows(e) : r = row \/ (r \in Rows(b) /\ RowOffset(e, r) = RowOffset(b, r))
  BY <1>1 DEF Rows
<1>3. \A r \in Rows(b) : RowOffset(b, r) \in Nat /\ RowOffset(b, r) < dir
  BY <1>1, DirectoryBelow
<1>4. \A r \in Rows(b) : RowOffset(b, r) \in DOMAIN b.dirs /\ RowOffset(b, r) \in DOMAIN e.dirs
                         /\ e.dirs[RowOffset(b, r)] = b.dirs[RowOffset(b, r)]
  <2>1. \A r \in Rows(b) : RowOffset(b, r) \in DOMAIN b.dirs /\ RowOffset(b, r) # dir
    BY <1>3 DEF BlockInv, Filed
  <2> QED
    BY <2>1 DEF Stored
<1>5. dir \in DOMAIN e.dirs /\ e.dirs[dir] = NullRow(b.column_nums)
  BY DEF Stored
<1>6. \A r \in Rows(b) : \A col : r \in Rows(e) /\ RowOffset(e, r) = RowOffset(b, r)
                               /\ GetCellUnit(e, r, col) = GetCellUnit(b, r, col)
  BY <1>1, <1>4 DEF GetCellUnit, Rows
<1>7. \A col \in 0 .. b.column_nums - 1 : GetCellUnit(e, row, col) = NullCell
  BY <1>5 DEF GetCellUnit, NullRow
<1>8. NullCell.type \notin {"string", "blob"}
  BY DEF NullCell
<1>9. Filed(e)
  <2> SUFFICES ASSUME NEW r \in Rows(e)
               PROVE  /\ RowOffset(e, r) \in DOMAIN e.dirs
                      /\ DOMAIN e.dirs[RowOffset(e, r)] = 0 .. e.column_nums - 1
                      /\ \A c \in 0 .. e.column_nums - 1 : IsCell(e, GetCellUnit(e, r, c))
    BY DEF Filed
  <2>1. CASE r = row
    BY <2>1, <1>5, <1>7, <1>8 DEF IsCell, NullRow
  <2>2. CASE r \in Rows(b) /\ RowOffset(e, r) = RowOffset(b, r)
    BY <2>2, <1>4, <1>6 DEF BlockInv, Filed, IsCell
  <2> QED
    BY <1>2, <2>1, <2>2
<1>10. Regions(e) \subseteq Regions(b) \cup {<<dir, n>>}
  <2> SUFFICES ASSUME NEW p \in Regions(e) PROVE p \in Regions(b) \cup {<<dir, n>>}
    OBVIOUS
  <2>1. CASE p = <<0, HeaderSize>>
    BY <2>1, RegionIs
  <2>2. CASE \E k \in 1 .. Len(e.groups) : p = <<e.groups[k].at, GroupSize>>
    BY <2>2, RegionIs
  <2>3. CASE \E r \in Rows(e) : p = <<RowOffset(e, r), e.column_nums * CellSize>>
    <3>1. PICK r \in Rows(e) : p = <<RowOffset(e, r), n>>
      BY <2>3
    <3>2. CASE r = row
      BY <3>1, <3>2
    <3>3. CASE r \in Rows(b) /\ RowOffset(e, r) = RowOffset(b, r)
      BY <3>1, <3>3, RegionIs
    <3> QED
      BY <1>2, <3>2, <3>3
  <2>4. CASE \E r \in Rows(e), k \in 0 .. e.column_nums - 1 :
                /\ GetCellUnit(e, r, k).type \in {"string", "blob"}
                /\ p = <<GetCellUnit(e, r, k).offset, GetCellUnit(e, r, k).size>>
    <3>1. PICK r \in Rows(e), k \in 0 .. b.column_nums - 1 :
                /\ GetCellUnit(e, r, k).type \in {"string", "blob"}
                /\ p = <<GetCellUnit(e, r, k).offset, GetCellUnit(e, r, k).size>>
      BY <2>4
    <3>2. r # row
      BY <3>1, <1>7, <1>8
    <3>3. /\ r \in Rows(b) /\ GetCellUnit(b, r, k).type \in {"string", "blob"}
          /\ p = <<GetCellUnit(b, r, k).offset, GetCellUnit(b, r, k).size>>
      BY <3>1, <3>2, <1>2, <1>6
    <3> QED
      BY <3>3, RegionIs
  <2> QED
    BY <2>1, <2>2, <2>3, <2>4, RegionIs
<1>11. \A r, s \in Rows(e) : r = s \/ RowOffset(e, r) # RowOffset(e, s)
  <2>1. \A r \in Rows(b) : RowOffset(b, r) # dir
    BY <1>3
  <2>2. \A r, s \in Rows(b) : r = s \/ RowOffset(b, r) # RowOffset(b, s)
    BY DEF BlockInv, WellFormed
  <2> QED
    BY <1>2, <2>1, <2>2
<1>12. WellFormed(e)
  <2>1. b.unused <= e.unused /\ dir + n <= e.unused /\ n \in Nat
    BY <1>1
  <2>2. /\ \A p \in Regions(e) : p[1] + p[2] <= e.unused
        /\ \A p, q \in Regions(e) : p = q \/ Disjoint(p, q)
    BY <2>1, <1>10, RegionsGrow
  <2> QED
    BY <2>2, <1>11 DEF WellFormed, HasRoom
<1>13. KeepsCells(b, e)
  <2>1. ASSUME NEW r \in 0 .. e.row_nums - 1, NEW col \in 0 .. e.column_nums - 1, r < b.row_nums
        PROVE  r \in Rows(b)
    BY <1>1, <2>1 DEF Rows
  <2> QED
    BY <2>1, <1>6 DEF KeepsCells, CellValue
<1> QED
  BY <1>7, <1>8, <1>9, <1>12, <1>13 DEF BlockInv, CellValue

\* A block that has counted one row more than it has filed.
Counted(b, c) ==
    /\ IsBlock(c) /\ c.row_nums = b.row_nums + 1
    /\ (b.row_nums \div RowOffsetsNum) + 1 <= Len(c.groups)
    /\ BlockInv([c EXCEPT !.row_nums = @ - 1]) /\ KeepsCells(b, [c EXCEPT !.row_nums = @ - 1])
    /\ c.column_nums = b.column_nums /\ c.read_only = b.read_only

LEMMA CountedBack ==
    ASSUME NEW b, BlockInv(b), NEW c, Counted(b, c)
    PROVE  LET back == [c EXCEPT !.row_nums = @ - 1] IN
           /\ BlockInv(back) /\ KeepsCells(b, back)
           /\ IsBlock(back) /\ back.row_nums = b.row_nums /\ back.column_nums = b.column_nums
           /\ back.read_only = b.read_only /\ back.groups = c.groups /\ back.dirs = c.dirs
           /\ back.bytes = c.bytes /\ back.unused = c.unused /\ back.size = c.size
<1>1. b.row_nums \in Nat
  BY DEF BlockInv, IsBlock
<1> DEFINE back == [c EXCEPT !.row_nums = @ - 1]
<1>2. /\ back.row_nums = b.row_nums /\ back.column_nums = b.column_nums
      /\ back.read_only = b.read_only /\ back.groups = c.groups /\ back.dirs = c.dirs
      /\ back.bytes = c.bytes /\ back.unused = c.unused /\ back.size = c.size
  BY <1>1 DEF Counted, IsBlock
<1>3. BlockInv(back) /\ KeepsCells(b, back)
  BY DEF Counted
<1> HIDE DEF back
<1>4. IsBlock(back)
  BY <1>3 DEF BlockInv
<1> QED
  BY <1>2, <1>3, <1>4 DEF back

LEMMA CountedChain ==
    ASSUME NEW b, BlockInv(b), NEW c, Counted(b, c)
    PROVE  /\ 1 <= Len(c.groups)
           /\ \A r \in 0 .. b.row_nums : (r \div RowOffsetsNum) + 1 <= Len(c.groups)
<1> DEFINE back == [c EXCEPT !.row_nums = @ - 1]
<1>1. BlockInv(back) /\ back.row_nums = b.row_nums /\ back.groups = c.groups
  BY CountedBack
<1> HIDE DEF back
<1>2. \A r \in 0 .. b.row_nums : r \in 0 .. b.row_nums - 1 \/ r = b.row_nums
  BY DEF BlockInv, IsBlock
<1> QED
  BY <1>1, <1>2 DEF Counted, BlockInv, Chained

\* A row of no columns may stay counted although it has no directory.
LEMMA RowUnfiled ==
    ASSUME NEW b, BlockInv(b), NEW c, Counted(b, c), b.column_nums = 0,
           NEW u \in Nat, c.unused <= u, u < c.size
    PROVE  LET d == [c EXCEPT !.unused = u] IN
           /\ BlockInv(d) /\ KeepsCells(b, d) /\ d.row_nums = b.row_nums + 1
           /\ d.column_nums = b.column_nums /\ d.read_only = b.read_only
<1> DEFINE back == [c EXCEPT !.row_nums = @ - 1]
           d == [c EXCEPT !.unused = u]
<1>1. /\ BlockInv(back) /\ IsBlock(back) /\ back.groups = c.groups /\ back.dirs = c.dirs
      /\ back.bytes = c.bytes /\ back.unused = c.unused
  BY CountedBack
<1>2. /\ IsBlock(c) /\ c.row_nums = b.row_nums + 1 /\ c.column_nums = b.column_nums
      /\ c.read_only = b.read_only
  BY DEF Counted
<1>3. /\ IsBlock(d) /\ d.row_nums = c.row_nums /\ d.column_nums = c.column_nums
      /\ d.read_only = c.read_only /\ d.groups = c.groups /\ d.dirs = c.dirs /\ d.bytes = c.bytes
      /\ d.unused = u /\ d.size = c.size
  BY <1>2 DEF IsBlock
<1> HIDE DEF back, d
<1>4. back.unused \in Nat /\ HeaderSize + GroupSize <= back.unused /\ HeaderSize + GroupSize \in Nat
  BY <1>1, SharedBlockAssumption DEF BlockInv, HasRoom, IsBlock
<1>5. HasRoom(d) /\ 0 \in Nat /\ back.unused <= back.unused /\ back.unused + 0 <= d.unused /\ back.unused <= d.unused
  BY <1>1, <1>3, <1>4 DEF HasRoom
<1>6. b.row_nums \in Nat /\ d.row_nums - 1 = b.row_nums
  BY <1>2, <1>3 DEF BlockInv, IsBlock
<1>7. Chained(d)
  BY <1>3, <1>6, CountedChain DEF Chained
<1>8. Rows(d) = {}
  BY <1>2, <1>3 DEF Rows
<1>9. \A k \in 1 .. Len(d.groups) : <<d.groups[k].at, GroupSize>> \in Regions(back) \cup {<<back.unused, 0>>}
  BY <1>1, <1>3, RegionIs
<1>10. BlockInv(d)
  BY <1>1, <1>3, <1>4, <1>5, <1>7, <1>8, <1>9, RowsKept
<1>11. KeepsCells(b, d)
  BY <1>2, <1>3 DEF KeepsCells
<1> QED
  BY <1>2, <1>3, <1>10, <1>11 DEF d

WithOffset(groups, g, i, dir) == [groups EXCEPT ![g].offs[i] = dir]

LEMMA OffsetFiled ==
    ASSUME NEW groups \in Seq(GroupRecord), NEW g \in 1 .. Len(groups),
           NEW i \in 0 .. RowOffsetsNum - 1, NEW dir \in Nat
    PROVE  LET new == WithOffset(groups, g, i, dir) IN
           /\ new \in Seq(GroupRecord) /\ Len(new) = Len(groups)
           /\ \A k \in 1 .. Len(groups) : new[k].at = groups[k].at
           /\ new[g].offs[i] = dir
           /\ \A k \in 1 .. Len(groups), j \in 0 .. RowOffsetsNum - 1 :
                  k # g \/ j # i => new[k].offs[j] = groups[k].offs[j]
<1> DEFINE offs == [groups[g].offs EXCEPT ![i] = dir]
           group == [groups[g] EXCEPT !.offs = offs]
           new == WithOffset(groups, g, i, dir)
<1>0. new = [groups EXCEPT ![g] = group]
  BY DEF WithOffset
<1> HIDE DEF new
<1>1. groups[g] \in GroupRecord
  OBVIOUS
<1>a. groups[g].offs \in [0 .. RowOffsetsNum - 1 -> Nat]
  BY <1>1 DEF GroupRecord
<1>2. /\ offs \in [0 .. RowOffsetsNum - 1 -> Nat] /\ offs[i] = dir
      /\ \A j \in 0 .. RowOffsetsNum - 1 : j # i => offs[j] = groups[g].offs[j]
  BY <1>a
<1> HIDE DEF offs
<1>3. group \in GroupRecord /\ group.at = groups[g].at /\ group.offs = offs
  BY <1>1, <1>2 DEF GroupRecord
<1> HIDE DEF group
<1>4. /\ new \in Seq(GroupRecord) /\ Len(new) = Len(groups) /\ new[g] = group
      /\ \A k \in 1 .. Len(groups) : k # g => new[k] = groups[k]
  BY <1>0, <1>3
<1> QED
  BY <1>2, <1>3, <1>4 DEF new

LEMMA RowFiled ==
    ASSUME NEW b, BlockInv(b), NEW c, Counted(b, c),
           NEW dir \in Nat, c.unused <= dir, dir + (c.column_nums * CellSize) < c.size,
           NEW g, NEW i, g = (b.row_nums \div RowOffsetsNum) + 1, i = b.row_nums % RowOffsetsNum,
           NEW e, DOMAIN e = DOMAIN c, e.row_nums = c.row_nums, e.column_nums = c.column_nums,
           e.read_only = c.read_only, e.size = c.size, e.unused = dir + (c.column_nums * CellSize),
           e.groups = WithOffset(c.groups, g, i, dir), e.bytes = c.bytes,
           e.dirs = Stored(c.dirs, dir, NullRow(c.column_nums))
    PROVE  /\ BlockInv(e) /\ KeepsCells(b, e) /\ e.row_nums = b.row_nums + 1
           /\ e.column_nums = b.column_nums /\ e.read_only = b.read_only
           /\ \A col \in 0 .. b.column_nums - 1 : CellValue(e, b.row_nums, col) = NullCell
<1> DEFINE back == [c EXCEPT !.row_nums = @ - 1]
           n == c.column_nums * CellSize
           row == b.row_nums
<1>1. /\ BlockInv(back) /\ KeepsCells(b, back)
      /\ IsBlock(back) /\ back.row_nums = row /\ back.column_nums = b.column_nums
      /\ back.read_only = b.read_only /\ back.groups = c.groups /\ back.dirs = c.dirs
      /\ back.bytes = c.bytes /\ back.unused = c.unused /\ back.size = c.size
  BY CountedBack
<1>2. /\ IsBlock(c) /\ c.row_nums = row + 1 /\ c.column_nums = b.column_nums
      /\ c.read_only = b.read_only
  BY DEF Counted
<1>3. row \in Nat
  BY DEF BlockInv, IsBlock
<1> HIDE DEF back, row
<1>4. c.column_nums \in Nat /\ c.unused \in Nat /\ c.groups \in Seq(GroupRecord)
  BY <1>2 DEF IsBlock
<1>5. n \in Nat
  BY <1>4, DirectorySize
<1>6. 1 <= Len(c.groups) /\ \A r \in 0 .. row : (r \div RowOffsetsNum) + 1 <= Len(c.groups)
  BY CountedChain DEF row
<1>7. \A r \in 0 .. row : r \in Nat /\ (r \div RowOffsetsNum) + 1 \in 1 .. Len(c.groups)
  <2> SUFFICES ASSUME NEW r \in 0 .. row PROVE r \in Nat /\ (r \div RowOffsetsNum) + 1 \in 1 .. Len(c.groups)
    OBVIOUS
  <2>1. r \in Nat
    BY <1>3
  <2> QED
    BY <1>2, <1>6, <2>1, RowOffsetType
<1>8. g \in 1 .. Len(c.groups) /\ i \in 0 .. RowOffsetsNum - 1
  <2>1. row \in 0 .. row
    BY <1>3
  <2>2. (row \div RowOffsetsNum) + 1 \in 1 .. Len(c.groups) /\ row % RowOffsetsNum \in 0 .. RowOffsetsNum - 1
    BY <1>3, <1>7, <2>1, SlotOfRow, Zenon
  <2> QED
    BY <2>2, Zenon DEF row
<1>9. /\ e.groups \in Seq(GroupRecord) /\ Len(e.groups) = Len(c.groups)
      /\ \A k \in 1 .. Len(c.groups) : e.groups[k].at = c.groups[k].at
      /\ e.groups[g].offs[i] = dir
      /\ \A k \in 1 .. Len(c.groups), j \in 0 .. RowOffsetsNum - 1 :
             k # g \/ j # i => e.groups[k].offs[j] = c.groups[k].offs[j]
  BY <1>4, <1>8, OffsetFiled
<1>10. e.unused = dir + n /\ dir + n \in Nat /\ c.unused <= dir + n /\ dir + n < c.size
  BY <1>4, <1>5
<1>11. IsBlock(e)
  BY <1>2, <1>9, <1>10 DEF IsBlock
<1>12. HasRoom(e)
  <2>1. HeaderSize + GroupSize <= c.unused /\ HeaderSize + GroupSize \in Nat
    BY <1>1, SharedBlockAssumption DEF BlockInv, HasRoom
  <2> HIDE DEF n
  <2> QED
    BY <1>4, <1>10, <2>1 DEF HasRoom
<1>13. \A r \in 0 .. row - 1 : RowOffset(e, r) = RowOffset(back, r)
  <2> SUFFICES ASSUME NEW r \in 0 .. row - 1 PROVE RowOffset(e, r) = RowOffset(back, r)
    OBVIOUS
  <2> DEFINE x == r \div RowOffsetsNum
             y == row \div RowOffsetsNum
             ir == r % RowOffsetsNum
  <2>1. r \in Nat /\ r # row /\ r \in 0 .. row
    BY <1>3
  <2>2. x \in Nat /\ y \in Nat /\ x + 1 \in 1 .. Len(c.groups) /\ g = y + 1 /\ i = row % RowOffsetsNum
    BY <1>3, <1>7, <2>1, SlotOfRow DEF row
  <2>3. x # y \/ ir # i
    BY <1>3, <2>1, <2>2, SlotsDiffer
  <2>4. RowOffset(e, r) = e.groups[x + 1].offs[ir] /\ RowOffset(back, r) = c.groups[x + 1].offs[ir]
    BY <1>1 DEF RowOffset
  <2>6. ir \in 0 .. RowOffsetsNum - 1
    BY <2>1, SlotOfRow
  <2> HIDE DEF x, y, ir
  <2>5. x + 1 # g \/ ir # i
    BY <2>2, <2>3
  <2> QED
    BY <1>9, <2>2, <2>4, <2>5, <2>6
<1>14. RowOffset(e, row) = dir
  BY <1>9 DEF RowOffset, row
<1>15. Chained(e)
  <2>1. e.row_nums - 1 = row
    BY <1>2, <1>3
  <2> QED
    BY <1>6, <1>9, <2>1 DEF Chained
<1>16. /\ e.row_nums = back.row_nums + 1 /\ e.column_nums = back.column_nums
       /\ e.dirs = Stored(back.dirs, dir, NullRow(back.column_nums)) /\ e.bytes = back.bytes
       /\ Len(e.groups) = Len(back.groups)
       /\ \A k \in 1 .. Len(e.groups) : e.groups[k].at = back.groups[k].at
       /\ \A r \in 0 .. back.row_nums - 1 : RowOffset(e, r) = RowOffset(back, r)
       /\ RowOffset(e, back.row_nums) = dir
  BY <1>1, <1>2, <1>9, <1>13, <1>14
<1>b. back.unused <= dir /\ dir + (back.column_nums * CellSize) <= e.unused
  <2>1. back.column_nums * CellSize = n /\ back.unused <= dir
    BY <1>1, <1>2
  <2> HIDE DEF n
  <2>2. dir + n <= e.unused
    BY <1>10
  <2> QED
    BY <2>1, <2>2
<1>17. /\ BlockInv(e) /\ KeepsCells(back, e)
       /\ \A col \in 0 .. back.column_nums - 1 : CellValue(e, back.row_nums, col) = NullCell
  BY <1>1, <1>11, <1>12, <1>15, <1>16, <1>b, RowAdded
<1>18. KeepsCells(b, e)
  BY <1>1, <1>2, <1>3, <1>17 DEF KeepsCells, row
<1> QED
  BY <1>1, <1>2, <1>17, <1>18 DEF row

\* alloc_row changes no cell of the rows there are.  It counts a row it refuses only
\* in a block of no columns.
LEMMA AllocRowInv ==
    ASSUME NEW b, BlockInv(b)
    PROVE  LET e == AllocRow(b).b IN
           /\ BlockInv(e) /\ KeepsCells(b, e)
           /\ e.column_nums = b.column_nums /\ e.read_only = b.read_only
           /\ AllocRow(b).code = OK =>
                 /\ ~b.read_only /\ e.row_nums = b.row_nums + 1
                 /\ \A col \in 0 .. b.column_nums - 1 : CellValue(e, b.row_nums, col) = NullCell
           /\ AllocRow(b).code # OK =>
                 \/ e.row_nums = b.row_nums
                 \/ e.row_nums = b.row_nums + 1 /\ b.column_nums = 0
<1> DEFINE c == AllocRowOffset(b).b
           slot == AllocRowOffset(b).slot
           g == (b.row_nums \div RowOffsetsNum) + 1
           i == b.row_nums % RowOffsetsNum
           back == [c EXCEPT !.row_nums = @ - 1]
           dir == AllocAt(c, TRUE)
           n == c.column_nums * CellSize
           d == [c EXCEPT !.unused = dir + n]
           result == [d EXCEPT !.groups[slot[1]].offs[slot[2]] = dir,
                               !.dirs = Stored(@, dir, NullRow(c.column_nums))]
           e == AllocRow(b).b
<1>1. CASE b.read_only
  BY <1>1 DEF AllocRow, Answer, OK, INVALID_OPERATION, KeepsCells
<1>2. CASE ~b.read_only /\ slot = NoSlot /\ c = b
  BY <1>2 DEF AllocRow, Answer, OK, NO_MEMORY, KeepsCells
<1>3. (slot = NoSlot /\ c = b) \/ (slot = <<g, i>> /\ slot # NoSlot /\ Counted(b, c))
  BY AllocRowOffsetInv, Zenon DEF Counted
<1>4. ~b.read_only /\ slot # NoSlot =>
        AllocRow(b) = IF ~AllocFits(c, n, TRUE) THEN Answer(NO_MEMORY, back)
                      ELSE IF ~OffsetToPtr(d, dir, CellSize) THEN Answer(BAD_VALUE, d)
                      ELSE Answer(OK, result)
  BY DEF AllocRow
<1>5. CASE ~b.read_only /\ slot = <<g, i>> /\ slot # NoSlot /\ Counted(b, c)
  <2> HIDE DEF c, slot, g, i, e
  <2>1. IsBlock(c) /\ c.row_nums = b.row_nums + 1 /\ c.column_nums = b.column_nums /\ c.read_only = b.read_only
    BY <1>5 DEF Counted
  <2>2. dir \in Nat /\ c.unused <= dir
    BY <2>1, AllocAtBehind
  <2>3. AllocFits(c, n, TRUE) => dir + n < c.size
    BY DEF AllocFits
  <2>4. c.column_nums \in Nat /\ c.unused \in Nat /\ c.size \in Nat
    BY <2>1 DEF IsBlock
  <2>5. n \in Nat
    BY <2>4, DirectorySize
  <2> HIDE DEF dir
  <2>6. CASE ~AllocFits(c, n, TRUE)
    <3>1. AllocRow(b).code # OK /\ e = back
      BY <1>4, <1>5, <2>6 DEF Answer, OK, NO_MEMORY, e
    <3> HIDE DEF back
    <3>2. /\ BlockInv(back) /\ KeepsCells(b, back) /\ back.row_nums = b.row_nums
          /\ back.column_nums = b.column_nums /\ back.read_only = b.read_only
      BY <1>5, CountedBack DEF back
    <3> QED
      BY <3>1, <3>2 DEF e
  <2>7. CASE AllocFits(c, n, TRUE) /\ ~OffsetToPtr(d, dir, CellSize)
    <3>1. AllocRow(b).code # OK /\ e = d
      BY <1>4, <1>5, <2>7 DEF Answer, OK, BAD_VALUE, e
    <3>2. d.size = c.size
      BY <2>1 DEF IsBlock
    <3>3. b.column_nums = 0
      <4>1. c.column_nums > 0 => n >= CellSize
        BY <2>4, DirectorySize
      <4> HIDE DEF n, d
      <4>2. CASE c.column_nums > 0
        BY <2>2, <2>3, <2>4, <2>5, <2>7, <3>2, <4>1, <4>2, SharedBlockAssumption DEF OffsetToPtr
      <4> QED
        BY <2>1, <2>4, <4>2
    <3>4. dir + n \in Nat /\ c.unused <= dir + n /\ dir + n < c.size
      BY <2>2, <2>3, <2>4, <2>5, <2>7
    <3> HIDE DEF n
    <3>5. /\ BlockInv(d) /\ KeepsCells(b, d) /\ d.row_nums = b.row_nums + 1
          /\ d.column_nums = b.column_nums /\ d.read_only = b.read_only
      BY <1>5, <3>3, <3>4, RowUnfiled
    <3> HIDE DEF d
    <3> QED
      BY <3>1, <3>3, <3>5 DEF e
  <2>8. CASE AllocFits(c, n, TRUE) /\ OffsetToPtr(d, dir, CellSize)
    <3>1. AllocRow(b).code = OK /\ e = result
      BY <1>4, <1>5, <2>8 DEF Answer, OK, e
    <3> DEFINE groups == WithOffset(c.groups, g, i, dir)
    <3>2. slot[1] = g /\ slot[2] = i
      BY <1>5
    <3>3. e = [d EXCEPT !.groups = groups, !.dirs = Stored(c.dirs, dir, NullRow(c.column_nums))]
      BY <2>1, <3>1, <3>2 DEF IsBlock, WithOffset
    <3> HIDE DEF groups, result
    <3>4. /\ DOMAIN e = DOMAIN c /\ e.row_nums = c.row_nums /\ e.column_nums = c.column_nums
          /\ e.read_only = c.read_only /\ e.size = c.size /\ e.unused = dir + n
          /\ e.groups = groups /\ e.bytes = c.bytes
          /\ e.dirs = Stored(c.dirs, dir, NullRow(c.column_nums))
      BY <2>1, <3>3 DEF IsBlock
    <3>5. /\ BlockInv(e) /\ KeepsCells(b, e) /\ e.row_nums = b.row_nums + 1
          /\ e.column_nums = b.column_nums /\ e.read_only = b.read_only
          /\ \A col \in 0 .. b.column_nums - 1 : CellValue(e, b.row_nums, col) = NullCell
      BY <1>5, <2>2, <2>3, <2>8, <3>4, RowFiled DEF groups, g, i
    <3> QED
      BY <1>5, <3>1, <3>5 DEF e
  <2> QED
    BY <2>6, <2>7, <2>8
<1> QED
  BY <1>1, <1>2, <1>3, <1>5

\* One cell is set, to a value that lies in it or to bytes behind all else.
LEMMA CellSet ==
    ASSUME NEW b, BlockInv(b), NEW row \in Rows(b), NEW col \in 0 .. b.column_nums - 1,
           NEW e, IsBlock(e), HasRoom(e), NEW cell, IsCell(e, cell),
           e.groups = b.groups, e.row_nums = b.row_nums, e.column_nums = b.column_nums,
           e.dirs = [b.dirs EXCEPT ![RowOffset(b, row)][col] = cell],
           NEW at \in Nat, NEW n \in Nat, b.unused <= at, at + n <= e.unused, b.unused <= e.unused,
           \A o \in DOMAIN b.bytes : o \in Nat /\ o < b.unused => o \in DOMAIN e.bytes /\ e.bytes[o] = b.bytes[o],
           cell.type \in {"string", "blob"} => cell.offset = at /\ cell.size = n
    PROVE  /\ BlockInv(e) /\ GetCellUnit(e, row, col) = cell
           /\ \A r \in Rows(b), k \in 0 .. b.column_nums - 1 :
                  r # row \/ k # col => CellValue(e, r, k) = CellValue(b, r, k)
<1>1. Rows(e) = Rows(b) /\ \A r : RowOffset(e, r) = RowOffset(b, r)
  BY DEF Rows, RowOffset
<1>2. \A r \in Rows(b) : /\ RowOffset(b, r) \in DOMAIN b.dirs
                         /\ DOMAIN b.dirs[RowOffset(b, r)] = 0 .. b.column_nums - 1
                         /\ \A c \in 0 .. b.column_nums - 1 : IsCell(b, GetCellUnit(b, r, c))
  BY DEF BlockInv, Filed
<1>3. \A r \in Rows(b) : r = row \/ RowOffset(b, r) # RowOffset(b, row)
  BY DEF BlockInv, WellFormed
<1> DEFINE x == RowOffset(b, row)
           new == [b.dirs[x] EXCEPT ![col] = cell]
<1>a. /\ DOMAIN new = 0 .. b.column_nums - 1 /\ new[col] = cell
      /\ \A k \in 0 .. b.column_nums - 1 : k # col => new[k] = b.dirs[x][k]
  BY <1>2
<1>b. e.dirs = [b.dirs EXCEPT ![x] = new]
  OBVIOUS
<1> HIDE DEF new
<1>c. /\ DOMAIN e.dirs = DOMAIN b.dirs /\ e.dirs[x] = new
      /\ \A o \in DOMAIN b.dirs : o # x => e.dirs[o] = b.dirs[o]
  BY <1>2, <1>b
<1>4. \A r \in Rows(b) : RowOffset(b, r) \in DOMAIN e.dirs
                         /\ DOMAIN e.dirs[RowOffset(b, r)] = 0 .. b.column_nums - 1
  BY <1>2, <1>3, <1>a, <1>c
<1>5. GetCellUnit(e, row, col) = cell
  BY <1>1, <1>a, <1>c DEF GetCellUnit
<1>6. \A r \in Rows(b), k \in 0 .. b.column_nums - 1 :
          r # row \/ k # col => GetCellUnit(e, r, k) = GetCellUnit(b, r, k)
  BY <1>1, <1>2, <1>3, <1>a, <1>c DEF GetCellUnit
<1>7. \A r \in Rows(b), k \in 0 .. b.column_nums - 1 :
          GetCellUnit(b, r, k).type \in {"string", "blob"} /\ GetCellUnit(b, r, k).size # 0 =>
             /\ GetCellUnit(b, r, k).offset \in DOMAIN e.bytes
             /\ e.bytes[GetCellUnit(b, r, k).offset] = b.bytes[GetCellUnit(b, r, k).offset]
  BY BytesBelow
<1>8. ASSUME NEW r \in Rows(b), NEW k \in 0 .. b.column_nums - 1
      PROVE  IsCell(e, GetCellUnit(b, r, k))
  <2>1. IsCell(b, GetCellUnit(b, r, k))
    BY <1>2
  <2> DEFINE y == GetCellUnit(b, r, k)
  <2>2. y.type \in {"string", "blob"} /\ y.size # 0 => y.offset \in DOMAIN e.bytes
    BY <1>7
  <2> HIDE DEF y
  <2>3. IsCell(e, y)
    BY <2>1, <2>2 DEF IsCell, y
  <2> QED
    BY <2>3 DEF y
<1>9. Filed(e)
  <2> SUFFICES ASSUME NEW r \in Rows(b), NEW k \in 0 .. b.column_nums - 1
               PROVE  IsCell(e, GetCellUnit(e, r, k))
    BY <1>1, <1>4 DEF Filed
  <2> QED
    BY <1>5, <1>6, <1>8
<1>10. Regions(e) \subseteq Regions(b) \cup {<<at, n>>}
  <2> SUFFICES ASSUME NEW p \in Regions(e) PROVE p \in Regions(b) \cup {<<at, n>>}
    OBVIOUS
  <2>1. CASE p = <<0, HeaderSize>>
    BY <2>1, RegionIs
  <2>2. CASE \E k \in 1 .. Len(e.groups) : p = <<e.groups[k].at, GroupSize>>
    BY <2>2, RegionIs
  <2>3. CASE \E r \in Rows(e) : p = <<RowOffset(e, r), e.column_nums * CellSize>>
    BY <1>1, <2>3, RegionIs
  <2>4. CASE \E r \in Rows(e), k \in 0 .. e.column_nums - 1 :
                /\ GetCellUnit(e, r, k).type \in {"string", "blob"}
                /\ p = <<GetCellUnit(e, r, k).offset, GetCellUnit(e, r, k).size>>
    <3>1. PICK r \in Rows(b), k \in 0 .. b.column_nums - 1 :
                /\ GetCellUnit(e, r, k).type \in {"string", "blob"}
                /\ p = <<GetCellUnit(e, r, k).offset, GetCellUnit(e, r, k).size>>
      BY <1>1, <2>4
    <3>2. CASE r = row /\ k = col
      BY <1>5, <3>1, <3>2
    <3>3. CASE r # row \/ k # col
      <4>1. /\ GetCellUnit(b, r, k).type \in {"string", "blob"}
            /\ p = <<GetCellUnit(b, r, k).offset, GetCellUnit(b, r, k).size>>
        BY <1>6, <3>1, <3>3
      <4> QED
        BY <4>1, RegionIs
    <3> QED
      BY <3>2, <3>3
  <2> QED
    BY <2>1, <2>2, <2>3, <2>4, RegionIs
<1>11. WellFormed(e)
  <2>1. /\ \A p \in Regions(e) : p[1] + p[2] <= e.unused
        /\ \A p, q \in Regions(e) : p = q \/ Disjoint(p, q)
    BY <1>10, RegionsGrow
  <2>2. \A r, s \in Rows(e) : r = s \/ RowOffset(e, r) # RowOffset(e, s)
    BY <1>1 DEF BlockInv, WellFormed
  <2> QED
    BY <2>1, <2>2 DEF WellFormed, HasRoom
<1>12. BlockInv(e)
  BY <1>9, <1>11 DEF BlockInv, Chained
<1>13. ASSUME NEW r \in Rows(b), NEW k \in 0 .. b.column_nums - 1, r # row \/ k # col
       PROVE  CellValue(e, r, k) = CellValue(b, r, k)
  BY <1>6, <1>7, <1>13 DEF CellValue
<1> QED
  BY <1>5, <1>12, <1>13

\* A put that succeeds changes one cell, one that is refused none.
LEMMA PutInv ==
    ASSUME NEW b, BlockInv(b), NEW row \in Int, NEW col, NEW v, IsValue(v)
    PROVE  LET e == Put(b, row, col, v).b IN
           /\ BlockInv(e)
           /\ e.row_nums = b.row_nums /\ e.column_nums = b.column_nums /\ e.read_only = b.read_only
           /\ Put(b, row, col, v).code # OK => e = b
           /\ Put(b, row, col, v).code = OK =>
                 /\ ~b.read_only /\ row \in 0 .. b.row_nums - 1 /\ col \in 0 .. b.column_nums - 1
                 /\ \A r \in 0 .. b.row_nums - 1, k \in 0 .. b.column_nums - 1 :
                       CellValue(e, r, k) = IF r = row /\ k = col THEN v ELSE CellValue(b, r, k)
<1> DEFINE e == Put(b, row, col, v).b
           code == Put(b, row, col, v).code
           text == v.type \in {"string", "blob"}
           at == AllocAt(b, FALSE)
           cell == [type |-> v.type, offset |-> at, size |-> v.size]
           taken == [b EXCEPT !.unused = at + v.size, !.bytes = Stored(@, at, v.val)]
           refused == b.read_only \/ ~HasCell(b, row, col) \/ (text /\ ~AllocFits(b, v.size, FALSE))
<1>1. CASE refused
  <2>1. e = b /\ code # OK
    BY <1>1 DEF Put, PutInline, PutBlobOrString, Answer, OK, INVALID_OPERATION, BAD_VALUE, NO_MEMORY
  <2> HIDE DEF e, code
  <2> QED
    BY <2>1 DEF e, code
<1>2. ~refused => row \in Rows(b) /\ row \in 0 .. b.row_nums - 1 /\ col \in 0 .. b.column_nums - 1
  <2> SUFFICES ASSUME HasCell(b, row, col)
               PROVE  row \in Rows(b) /\ row \in 0 .. b.row_nums - 1 /\ col \in 0 .. b.column_nums - 1
    OBVIOUS
  <2>1. row \in 0 .. b.row_nums - 1 /\ col \in 0 .. b.column_nums - 1
    BY HasCellIs
  <2> QED
    BY <2>1 DEF Rows, BlockInv, IsBlock
<1>3. \A r \in 0 .. b.row_nums - 1, k \in 0 .. b.column_nums - 1 : r \in Rows(b)
  BY DEF Rows, BlockInv, IsBlock
<1>4. IsBlock(b) /\ b.unused \in Nat /\ b.size \in Nat /\ 0 \in Nat /\ b.unused <= b.unused
  BY DEF BlockInv, IsBlock
<1>5. CASE ~refused /\ ~text
  <2>1. code = OK /\ e = SetCell(b, row, col, v)
    BY <1>5 DEF Put, PutInline, Answer
  <2> HIDE DEF e, code
  <2>2. /\ DOMAIN e = DOMAIN b /\ e.size = b.size /\ e.unused = b.unused /\ e.row_nums = b.row_nums
        /\ e.column_nums = b.column_nums /\ e.read_only = b.read_only /\ e.groups = b.groups
        /\ e.bytes = b.bytes /\ e.dirs = [b.dirs EXCEPT ![RowOffset(b, row)][col] = v]
    BY <1>4, <2>1 DEF SetCell, IsBlock
  <2>3. IsBlock(e) /\ HasRoom(e) /\ IsCell(e, v)
    BY <1>5, <2>2 DEF BlockInv, IsBlock, HasRoom, IsCell
  <2>4. b.unused + 0 <= e.unused /\ b.unused <= e.unused
    BY <1>4, <2>2
  <2>5. /\ BlockInv(e) /\ GetCellUnit(e, row, col) = v
        /\ \A r \in Rows(b), k \in 0 .. b.column_nums - 1 :
               r # row \/ k # col => CellValue(e, r, k) = CellValue(b, r, k)
    BY <1>2, <1>4, <1>5, <2>2, <2>3, <2>4, CellSet
  <2>6. CellValue(e, row, col) = v
    BY <1>5, <2>5 DEF CellValue
  <2> QED
    BY <1>2, <1>3, <1>5, <2>1, <2>2, <2>5, <2>6 DEF e, code
<1>6. CASE ~refused /\ text
  <2>1. code = OK /\ e = SetCell(taken, row, col, cell)
    BY <1>6 DEF Put, PutBlobOrString, Answer
  <2>2. v = [type |-> v.type, val |-> v.val, size |-> v.size] /\ v.size \in Nat /\ (v.size = 0 => v.val = NoBytes)
    <3>1. v # NullCell /\ v.type \notin {"integer", "float"}
      BY <1>6 DEF NullCell
    <3> QED
      BY <3>1 DEF IsValue
  <2>3. at \in Nat /\ b.unused <= at /\ at = b.unused
    BY <1>4 DEF AllocAt
  <2>4. at + v.size < b.size
    BY <1>6 DEF AllocFits
  <2>a. cell.type = v.type /\ cell.offset = at /\ cell.size = v.size
    OBVIOUS
  <2> HIDE DEF e, code, at, cell
  <2>b. /\ DOMAIN taken = DOMAIN b /\ taken.size = b.size /\ taken.unused = at + v.size /\ taken.row_nums = b.row_nums
        /\ taken.column_nums = b.column_nums /\ taken.read_only = b.read_only /\ taken.groups = b.groups
        /\ taken.bytes = Stored(b.bytes, at, v.val) /\ taken.dirs = b.dirs
    BY <1>4 DEF IsBlock
  <2> HIDE DEF taken
  <2>c. RowOffset(taken, row) = RowOffset(b, row)
    BY <2>b DEF RowOffset
  <2>5. /\ DOMAIN e = DOMAIN b /\ e.size = b.size /\ e.unused = at + v.size /\ e.row_nums = b.row_nums
        /\ e.column_nums = b.column_nums /\ e.read_only = b.read_only /\ e.groups = b.groups
        /\ e.bytes = Stored(b.bytes, at, v.val)
        /\ e.dirs = [b.dirs EXCEPT ![RowOffset(b, row)][col] = cell]
    BY <1>4, <2>1, <2>b, <2>c DEF SetCell, IsBlock
  <2>6. IsBlock(e)
    BY <1>4, <2>2, <2>3, <2>5 DEF IsBlock
  <2>7. HasRoom(e)
    BY <1>4, <2>2, <2>3, <2>4, <2>5, SharedBlockAssumption DEF BlockInv, HasRoom
  <2>8. at \in DOMAIN e.bytes /\ e.bytes[at] = v.val
    BY <2>5 DEF Stored
  <2>9. IsCell(e, cell)
    BY <2>2, <2>3, <2>8, <2>a DEF IsCell
  <2>10. \A o \in DOMAIN b.bytes : o \in Nat /\ o < b.unused => o \in DOMAIN e.bytes /\ e.bytes[o] = b.bytes[o]
    BY <1>4, <2>3, <2>5 DEF Stored
  <2>11. at + v.size <= e.unused /\ b.unused <= e.unused
    BY <1>4, <2>2, <2>3, <2>5
  <2>12. /\ BlockInv(e) /\ GetCellUnit(e, row, col) = cell
         /\ \A r \in Rows(b), k \in 0 .. b.column_nums - 1 :
               r # row \/ k # col => CellValue(e, r, k) = CellValue(b, r, k)
    BY <1>2, <1>6, <2>2, <2>3, <2>5, <2>6, <2>7, <2>9, <2>10, <2>11, <2>a, CellSet
  <2>13. CellValue(e, row, col) = v
    BY <1>6, <2>2, <2>8, <2>12, <2>a DEF CellValue
  <2> QED
    BY <1>2, <1>3, <1>6, <2>1, <2>5, <2>12, <2>13 DEF e, code
<1> QED
  BY <1>1, <1>5, <1>6

-----------------------------------------------------------------------------
(* The C interface of shared blocks *)

TableRow == UNION {[0 .. n - 1 -> FfiValues \cup {NullCell}] : n \in Nat}

\* The table says what a block holds.  Only a block of no columns may count rows
\* that nobody was told of.
Tabled(b, t) ==
    /\ BlockInv(b) /\ t \in Seq(TableRow)
    /\ b.column_nums = 0 => Len(t) <= b.row_nums
    /\ b.column_nums > 0 =>
          /\ Len(t) = b.row_nums
          /\ \A r \in 1 .. Len(t) : DOMAIN t[r] = 0 .. b.column_nums - 1
          /\ \A r \in 1 .. Len(t), c \in 0 .. b.column_nums - 1 : CellValue(b, r - 1, c) = t[r][c]

FfiInv ==
    /\ owner \in {"none", "block", "writer"} /\ reader \in {"none", "readonly", "writable"}
    /\ mapping = <<>> => owner = "none" /\ reader = "none"
    /\ mapping # <<>> => Tabled(mapping[1], table)

LEMMA TabledTypes ==
    ASSUME NEW b, NEW t, Tabled(b, t)
    PROVE  /\ BlockInv(b) /\ t \in Seq(TableRow) /\ Len(t) \in Nat /\ DOMAIN t = 1 .. Len(t)
           /\ b.row_nums \in Nat /\ b.column_nums \in Nat /\ Len(t) <= b.row_nums
           /\ b.column_nums = 0 \/ b.column_nums > 0
BY DEF Tabled, BlockInv, IsBlock

\* What keeps the cells and the number of the rows keeps the table.
LEMMA SameTable ==
    ASSUME NEW b, NEW t, Tabled(b, t), NEW c, BlockInv(c), KeepsCells(b, c),
           c.row_nums = b.row_nums, c.column_nums = b.column_nums
    PROVE  Tabled(c, t)
<1>1. \A r \in 1 .. Len(t) : r - 1 \in 0 .. b.row_nums - 1 /\ r - 1 < b.row_nums
  BY TabledTypes
<1> QED
  BY <1>1 DEF Tabled, KeepsCells

LEMMA NoTable ==
    ASSUME NEW b, BlockInv(b), b.row_nums = 0
    PROVE  Tabled(b, <<>>)
BY DEF Tabled

LEMMA NullRowIsRow ==
    ASSUME NEW n \in Nat
    PROVE  /\ NullRow(n) \in TableRow /\ DOMAIN NullRow(n) = 0 .. n - 1
           /\ \A c \in 0 .. n - 1 : NullRow(n)[c] = NullCell
<1>1. NullRow(n) \in [0 .. n - 1 -> FfiValues \cup {NullCell}]
  BY DEF NullRow
<1> QED
  BY <1>1 DEF TableRow, NullRow

LEMMA ReadOnlyTabled ==
    ASSUME NEW b, NEW t, Tabled(b, t), NEW x \in BOOLEAN
    PROVE  Tabled([b EXCEPT !.read_only = x], t)
<1> DEFINE c == [b EXCEPT !.read_only = x]
<1>1. BlockInv(c) /\ KeepsCells(b, c) /\ c.row_nums = b.row_nums /\ c.column_nums = b.column_nums
  BY TabledTypes, SetReadOnlyInv
<1> HIDE DEF c
<1>2. Tabled(c, t)
  BY <1>1, SameTable
<1> QED
  BY <1>2 DEF c

LEMMA ClearTabled ==
    ASSUME NEW b, NEW t, Tabled(b, t)
    PROVE  /\ Clear(b).code = OK => Tabled(Clear(b).b, <<>>)
           /\ Clear(b).code # OK => Tabled(Clear(b).b, t)
<1>1. BlockInv(b) /\ b.read_only \in BOOLEAN
  BY DEF Tabled, BlockInv, IsBlock
<1>2. CASE b.read_only
  BY <1>1, <1>2, ClearInv
<1>3. CASE ~b.read_only
  BY <1>1, <1>3, ClearInv, NoTable
<1> QED
  BY <1>1, <1>2, <1>3

LEMMA SetColumnNumTabled ==
    ASSUME NEW b, NEW t, Tabled(b, t), NEW n \in Nat
    PROVE  Tabled(SetColumnNum(b, n).b, t)
<1> DEFINE c == SetColumnNum(b, n).b
<1>1. /\ BlockInv(c) /\ KeepsCells(b, c) /\ c.row_nums = b.row_nums
      /\ SetColumnNum(b, n).code # OK => c = b
      /\ SetColumnNum(b, n).code = OK =>
            c.column_nums = n /\ (b.column_nums = n \/ (b.column_nums = 0 /\ b.row_nums = 0))
  BY TabledTypes, SetColumnNumInv
<1> HIDE DEF c
<1>2. CASE c.column_nums = b.column_nums
  BY <1>1, <1>2, SameTable DEF c
<1>3. CASE b.column_nums = 0 /\ b.row_nums = 0
  <2>1. t = <<>>
    BY <1>3, TabledTypes, EmptySeq
  <2> QED
    BY <1>1, <1>3, <2>1, NoTable DEF c
<1> QED
  BY <1>1, <1>2, <1>3 DEF c

LEMMA AllocRowTabled ==
    ASSUME NEW b, NEW t, Tabled(b, t)
    PROVE  /\ AllocRow(b).code = OK => Tabled(AllocRow(b).b, Append(t, NullRow(b.column_nums)))
           /\ AllocRow(b).code # OK => Tabled(AllocRow(b).b, t)
<1> DEFINE e == AllocRow(b).b
           code == AllocRow(b).code
           null == NullRow(b.column_nums)
           u == Append(t, null)
<1>1. /\ BlockInv(e) /\ KeepsCells(b, e) /\ e.column_nums = b.column_nums
      /\ code = OK =>
            /\ e.row_nums = b.row_nums + 1
            /\ \A col \in 0 .. b.column_nums - 1 : CellValue(e, b.row_nums, col) = NullCell
      /\ code # OK => e.row_nums = b.row_nums \/ (e.row_nums = b.row_nums + 1 /\ b.column_nums = 0)
  BY TabledTypes, AllocRowInv
<1> SUFFICES (code = OK => Tabled(e, u)) /\ (code # OK => Tabled(e, t))
  OBVIOUS
<1> HIDE DEF e, code
<1>2. /\ null \in TableRow /\ DOMAIN null = 0 .. b.column_nums - 1
      /\ \A c \in 0 .. b.column_nums - 1 : null[c] = NullCell
  BY TabledTypes, NullRowIsRow
<1> HIDE DEF null
<1>3. /\ u \in Seq(TableRow) /\ Len(u) = Len(t) + 1 /\ u[Len(t) + 1] = null
      /\ \A r \in 1 .. Len(t) : u[r] = t[r]
  BY <1>2, TabledTypes
<1> HIDE DEF u
<1>4. CASE code # OK
  <2>1. CASE e.row_nums = b.row_nums
    <3>1. Tabled(e, t)
      BY <1>1, <2>1, SameTable
    <3> QED
      BY <1>4, <3>1
  <2>2. CASE e.row_nums = b.row_nums + 1 /\ b.column_nums = 0
    <3>1. Tabled(e, t)
      BY <1>1, <2>2, TabledTypes DEF Tabled
    <3> QED
      BY <1>4, <3>1
  <2> QED
    BY <1>1, <1>4, <2>1, <2>2
<1>5. CASE code = OK
  <2>1. CASE b.column_nums = 0
    BY <1>1, <1>3, <1>5, <2>1, TabledTypes DEF Tabled
  <2>2. CASE b.column_nums > 0
    <3>1. Len(t) = b.row_nums
      BY <2>2 DEF Tabled
    <3>2. \A r \in 1 .. Len(u) : r \in 1 .. Len(t) \/ r = Len(t) + 1
      BY <1>3, TabledTypes
    <3>3. \A r \in 1 .. Len(t) : /\ r - 1 \in 0 .. e.row_nums - 1 /\ r - 1 < b.row_nums
                                 /\ (Len(t) + 1) - 1 = b.row_nums
      BY <1>1, <1>5, <3>1, TabledTypes
    <3>4. \A r \in 1 .. Len(u) : DOMAIN u[r] = 0 .. b.column_nums - 1
      BY <1>2, <1>3, <2>2, <3>2 DEF Tabled
    <3>5. ASSUME NEW r \in 1 .. Len(u), NEW c \in 0 .. b.column_nums - 1
          PROVE  CellValue(e, r - 1, c) = u[r][c]
      <4>1. CASE r \in 1 .. Len(t)
        <5>1. CellValue(e, r - 1, c) = CellValue(b, r - 1, c)
          BY <1>1, <3>3, <4>1 DEF KeepsCells
        <5> QED
          BY <1>3, <2>2, <4>1, <5>1 DEF Tabled
      <4>2. CASE r = Len(t) + 1
        <5>1. r - 1 = b.row_nums
          BY <3>1, <4>2, TabledTypes
        <5> QED
          BY <1>1, <1>2, <1>3, <1>5, <4>2, <5>1
      <4> QED
        BY <3>2, <4>1, <4>2
    <3> QED
      BY <1>1, <1>3, <1>5, <2>2, <3>1, <3>4, <3>5 DEF Tabled
  <2> QED
    BY <2>1, <2>2, TabledTypes
<1> QED
  BY <1>4, <1>5

LEMMA FreeLastRowTabled ==
    ASSUME NEW b, NEW t, Tabled(b, t)
    PROVE  /\ FreeLastRow(b).code = OK =>
                 Tabled(FreeLastRow(b).b, IF t = <<>> THEN t ELSE SubSeq(t, 1, Len(t) - 1))
           /\ FreeLastRow(b).code # OK => Tabled(FreeLastRow(b).b, t)
<1> DEFINE e == FreeLastRow(b).b
           code == FreeLastRow(b).code
           u == IF t = <<>> THEN t ELSE SubSeq(t, 1, Len(t) - 1)
<1>1. /\ BlockInv(e) /\ KeepsCells(b, e) /\ e.column_nums = b.column_nums
      /\ code # OK => e = b
      /\ code = OK => e.row_nums = IF b.row_nums > 0 THEN b.row_nums - 1 ELSE 0
  BY TabledTypes, FreeLastRowInv DEF BlockInv, IsBlock
<1> SUFFICES (code = OK => Tabled(e, u)) /\ (code # OK => Tabled(e, t))
  OBVIOUS
<1> HIDE DEF e, code
<1>2. CASE code = OK
  <2>1. CASE t = <<>>
    <3>1. b.column_nums > 0 => b.row_nums = 0
      BY <2>1 DEF Tabled
    <3>2. e.row_nums \in Nat /\ (e.column_nums > 0 => e.row_nums = 0) /\ Len(t) = 0
      BY <1>1, <1>2, <2>1, <3>1, TabledTypes
    <3>3. Tabled(e, t)
      BY <1>1, <2>1, <3>2, TabledTypes DEF Tabled
    <3>4. u = t
      BY <2>1
    <3> HIDE DEF u
    <3> QED
      BY <1>2, <3>3, <3>4
  <2>2. CASE t # <<>>
    <3>1. Len(t) >= 1
      BY <2>2, TabledTypes, EmptySeq
    <3>2. /\ u \in Seq(TableRow) /\ Len(u) = Len(t) - 1
          /\ \A r \in 1 .. Len(t) - 1 : r \in 1 .. Len(t) /\ u[r] = t[r]
      <4>1. u = SubSeq(t, 1, Len(t) - 1)
        BY <2>2
      <4>2. Len(t) - 1 \in 1 - 1 .. Len(t) /\ 1 \in 1 .. Len(t) + 1 /\ Len(t) \in Nat
        BY <3>1, TabledTypes
      <4>3. /\ \A r \in 1 .. Len(t) - 1 : r \in 1 .. Len(t) /\ t[r] \in TableRow
            /\ 1 \in Int /\ Len(t) - 1 \in Int /\ (IF 1 <= Len(t) - 1 THEN (Len(t) - 1) - 1 + 1 ELSE 0) = Len(t) - 1
            /\ (Len(t) - 1) - 1 + 1 = Len(t) - 1 /\ \A r \in 1 .. Len(t) - 1 : 1 + r - 1 = r
        <5>1. Len(t) \in Nat /\ Len(t) >= 1 /\ \A r \in 1 .. Len(t) : t[r] \in TableRow
          BY <3>1, TabledTypes
        <5> DEFINE k == Len(t)
        <5> HIDE DEF k
        <5>2. k \in Nat /\ k >= 1 /\ \A r \in 1 .. k : t[r] \in TableRow
          BY <5>1 DEF k
        <5>3. \A r \in 1 .. k - 1 : r \in 1 .. k /\ t[r] \in TableRow
          BY <5>2
        <5>4. \A r \in 1 .. k - 1 : 1 + r - 1 = r
          OBVIOUS
        <5>5. 1 \in Int /\ k - 1 \in Int /\ (k - 1) - 1 + 1 = k - 1
          BY <5>2
        <5>6. (IF 1 <= k - 1 THEN (k - 1) - 1 + 1 ELSE 0) = k - 1
          BY <5>2
        <5> QED
          BY <5>3, <5>4, <5>5, <5>6 DEF k
      <4> HIDE DEF u
      <4> DEFINE n == Len(t) - 1
      <4>4. /\ SubSeq(t, 1, n) \in Seq(TableRow)
            /\ Len(SubSeq(t, 1, n)) = IF 1 <= n THEN n - 1 + 1 ELSE 0
            /\ \A r \in 1 .. n - 1 + 1 : SubSeq(t, 1, n)[r] = t[1 + r - 1]
        <5> HIDE DEF n
        <5> QED
          BY <4>3, SubSeqProperties DEF n
      <4> QED
        BY <4>1, <4>3, <4>4
    <3> HIDE DEF u
    <3>3. e.row_nums = b.row_nums - 1 /\ \A r \in 1 .. Len(u) : r - 1 \in 0 .. b.row_nums - 2 /\ r - 1 < b.row_nums
      BY <1>1, <1>2, <3>1, <3>2, TabledTypes
    <3>4. ASSUME b.column_nums > 0, NEW r \in 1 .. Len(u), NEW c \in 0 .. b.column_nums - 1
          PROVE  CellValue(e, r - 1, c) = u[r][c]
      <4>1. Len(t) = b.row_nums /\ b.row_nums - 2 = e.row_nums - 1
        BY <3>3, <3>4, TabledTypes DEF Tabled
      <4>2. CellValue(e, r - 1, c) = CellValue(b, r - 1, c)
        BY <1>1, <3>3, <4>1 DEF KeepsCells
      <4> QED
        BY <3>2, <3>4, <4>2 DEF Tabled
    <3>5. b.column_nums = 0 => Len(u) <= e.row_nums
      BY <3>2, <3>3, TabledTypes
    <3>6. b.column_nums > 0 => Len(u) = e.row_nums /\ \A r \in 1 .. Len(u) : DOMAIN u[r] = 0 .. b.column_nums - 1
      BY <3>2, <3>3, TabledTypes DEF Tabled
    <3>7. Tabled(e, u)
      BY <1>1, <3>2, <3>4, <3>5, <3>6 DEF Tabled
    <3> QED
      BY <1>2, <3>7
  <2> QED
    BY <2>1, <2>2
<1> QED
  BY <1>1, <1>2

LEMMA PutTabled ==
    ASSUME NEW b, Tabled(b, table), NEW row \in Int, NEW col, NEW v \in FfiValues
    PROVE  /\ Put(b, row, col, v).code = OK => Tabled(Put(b, row, col, v).b, PutCell(row, col, v))
           /\ Put(b, row, col, v).code # OK => Tabled(Put(b, row, col, v).b, table)
<1> DEFINE e == Put(b, row, col, v).b
           code == Put(b, row, col, v).code
           u == PutCell(row, col, v)
<1>1. /\ BlockInv(e) /\ e.row_nums = b.row_nums /\ e.column_nums = b.column_nums
      /\ code # OK => e = b
      /\ code = OK =>
            /\ row \in 0 .. b.row_nums - 1 /\ col \in 0 .. b.column_nums - 1
            /\ \A r \in 0 .. b.row_nums - 1, k \in 0 .. b.column_nums - 1 :
                  CellValue(e, r, k) = IF r = row /\ k = col THEN v ELSE CellValue(b, r, k)
  BY TabledTypes, PutInv, BlockFfiAssumption
<1> SUFFICES (code = OK => Tabled(e, u)) /\ (code # OK => Tabled(e, table))
  OBVIOUS
<1> HIDE DEF e, code
<1>2. /\ DOMAIN u = 1 .. Len(table)
      /\ \A r \in 1 .. Len(table) :
            /\ u[r] = [c \in DOMAIN table[r] |-> IF r = row + 1 /\ c = col THEN v ELSE table[r][c]]
            /\ u[r] \in TableRow
  <2>1. /\ DOMAIN u = 1 .. Len(table)
        /\ \A r \in 1 .. Len(table) :
              u[r] = [c \in DOMAIN table[r] |-> IF r = row + 1 /\ c = col THEN v ELSE table[r][c]]
    BY TabledTypes DEF PutCell
  <2>2. ASSUME NEW r \in 1 .. Len(table) PROVE u[r] \in TableRow
    <3>1. table[r] \in TableRow
      BY TabledTypes
    <3>2. PICK n \in Nat : table[r] \in [0 .. n - 1 -> FfiValues \cup {NullCell}]
      BY <3>1 DEF TableRow
    <3>3. u[r] \in [0 .. n - 1 -> FfiValues \cup {NullCell}]
      BY <2>1, <3>2
    <3> QED
      BY <3>3 DEF TableRow
  <2> QED
    BY <2>1, <2>2
<1>3. u = [r \in 1 .. Len(table) |-> u[r]]
  BY TabledTypes DEF PutCell
<1> HIDE DEF u
<1>4. u \in Seq(TableRow) /\ Len(u) = Len(table)
  BY <1>2, <1>3, TabledTypes
<1>5. CASE code = OK
  <2>1. b.column_nums > 0 /\ row \in Nat /\ b.column_nums \in Nat
    BY <1>1, <1>5, TabledTypes
  <2>2. Len(table) = b.row_nums /\ \A r \in 1 .. Len(table) : DOMAIN table[r] = 0 .. b.column_nums - 1
    BY <2>1 DEF Tabled
  <2>3. ASSUME NEW r \in 1 .. Len(u), NEW c \in 0 .. b.column_nums - 1
        PROVE  CellValue(e, r - 1, c) = u[r][c]
    <3>1. r - 1 \in 0 .. b.row_nums - 1 /\ r \in 1 .. Len(table)
      BY <1>4, <2>2, TabledTypes
    <3>2. CellValue(e, r - 1, c) = IF r - 1 = row /\ c = col THEN v ELSE CellValue(b, r - 1, c)
      BY <1>1, <1>5, <3>1
    <3>3. CellValue(b, r - 1, c) = table[r][c]
      BY <2>1, <3>1 DEF Tabled
    <3>4. r - 1 = row <=> r = row + 1
      BY <2>1, <3>1, TabledTypes
    <3>5. u[r][c] = IF r = row + 1 /\ c = col THEN v ELSE table[r][c]
      BY <1>2, <2>2, <3>1
    <3> QED
      BY <3>2, <3>3, <3>4, <3>5
  <2>4. \A r \in 1 .. Len(u) : DOMAIN u[r] = 0 .. b.column_nums - 1
    BY <1>2, <1>4, <2>2
  <2> QED
    BY <1>1, <1>4, <1>5, <2>1, <2>2, <2>3, <2>4 DEF Tabled
<1> QED
  BY <1>1, <1>5

\* A call leaves the table that its outcome calls for.
LEMMA CallTabled ==
    ASSUME FfiInv, NEW handle, NEW r, NEW t, Call(handle, r, t),
           mapping # <<>> => (r.code = OK => Tabled(r.b, t)) /\ (r.code # OK => Tabled(r.b, table))
    PROVE  FfiInv'
<1>1. ToldOk(handle, r.code) <=> r.code = OK
  BY DEF ToldOk, convert_error_code, E_OK, E_ERROR
<1>2. mapping # <<>> /\ mapping' = <<r.b>> /\ owner' = owner /\ reader' = reader
  BY DEF Call
<1>3. table' = IF r.code = OK THEN t ELSE table
  BY <1>1 DEF Call
<1>4. Tabled(mapping'[1], table')
  BY <1>2, <1>3
<1> QED
  BY <1>2, <1>4 DEF FfiInv

THEOREM FfiTyped == BlockFfiSpec => []FfiInv
<1>1. BlockFfiInit => FfiInv
  BY DEF BlockFfiInit, FfiInv
<1>2. FfiInv /\ [BlockFfiNext]_blockVars => FfiInv'
  <2> SUFFICES ASSUME FfiInv, [BlockFfiNext]_blockVars PROVE FfiInv'
    OBVIOUS
  <2> DEFINE m == mapping[1]
  <2>1. mapping # <<>> => Tabled(m, table)
    BY DEF FfiInv
  <2> HIDE DEF m
  <2>2. ASSUME NEW size \in FfiBlockSizes, NEW h \in {"block", "writer"}, BlockCreate(h, size)
        PROVE  FfiInv'
    <3>1. Tabled(CreateBlock(size), <<>>)
      BY BlockFfiAssumption, CreateBlockInv, NoTable
    <3> HIDE DEF CreateBlock
    <3>2. mapping'[1] = CreateBlock(size) /\ table' = <<>> /\ owner' = h /\ reader' = "none" /\ mapping' # <<>>
      BY <2>2 DEF BlockCreate
    <3> QED
      BY <3>1, <3>2 DEF FfiInv
  <2>3. CASE BlockFree
    BY <2>3 DEF FfiInv, BlockFree
  <2>4. CASE BlockClear
    <3>1. mapping # <<>> /\ Call(owner, Clear(m), <<>>)
      BY <2>4 DEF BlockClear, FfiInv, m
    <3> QED
      BY <2>1, <3>1, ClearTabled, CallTabled
  <2>5. CASE BlockAllocRow \/ WriterAllocRow
    <3>1. PICK h \in {"block", "writer"} : Call(h, AllocRow(m), Append(table, NullRow(m.column_nums)))
      BY <2>5 DEF BlockAllocRow, WriterAllocRow, AddRow, m
    <3> QED
      BY <2>1, <3>1, AllocRowTabled, CallTabled
  <2>6. CASE BlockFreeLastRow \/ WriterFreeLastRow
    <3>1. PICK h \in {"block", "writer"} : Call(h, FreeLastRow(m), DropRow)
      BY <2>6 DEF BlockFreeLastRow, WriterFreeLastRow, m
    <3>2. mapping # <<>> => /\ FreeLastRow(m).code = OK => Tabled(FreeLastRow(m).b, DropRow)
                            /\ FreeLastRow(m).code # OK => Tabled(FreeLastRow(m).b, table)
      BY <2>1, FreeLastRowTabled DEF DropRow
    <3> QED
      BY <3>1, <3>2, CallTabled
  <2>7. ASSUME NEW n \in FfiColumns, BlockSetColumnNum(n)
        PROVE  FfiInv'
    <3>1. Call(owner, SetColumnNum(m, n), table)
      BY <2>7 DEF BlockSetColumnNum, m
    <3>2. mapping # <<>> => Tabled(SetColumnNum(m, n).b, table)
      BY <2>1, BlockFfiAssumption, SetColumnNumTabled
    <3> QED
      BY <3>1, <3>2, CallTabled
  <2>8. ASSUME NEW col \in 0 .. ColMaxNum, NEW v \in FfiValues, WriterWrite(col, v)
        PROVE  FfiInv'
    <3>1. mapping # <<>> /\ Tabled(m, table)
      BY <2>1, <2>8 DEF WriterWrite
    <3> DEFINE row == CurrentRowIndex(m)
    <3>2. row \in Int
      BY <3>1, TabledTypes DEF CurrentRowIndex
    <3>3. Call("writer", IF row < 0 THEN Answer(INVALID_OPERATION, m) ELSE Put(m, row, col, v), PutCell(row, col, v))
      BY <2>8 DEF WriterWrite, m
    <3> HIDE DEF row
    <3>4. CASE row < 0
      <4>1. Answer(INVALID_OPERATION, m).b = m /\ Answer(INVALID_OPERATION, m).code # OK
        BY DEF Answer, OK, INVALID_OPERATION
      <4>2. Call("writer", Answer(INVALID_OPERATION, m), PutCell(row, col, v))
        BY <3>3, <3>4
      <4> QED
        BY <3>1, <4>1, <4>2, CallTabled
    <3>5. CASE ~(row < 0)
      <4>1. Call("writer", Put(m, row, col, v), PutCell(row, col, v))
        BY <3>3, <3>5
      <4> QED
        BY <3>1, <3>2, <4>1, PutTabled, CallTabled
    <3> QED
      BY <3>4, <3>5
  <2>9. ASSUME NEW col \in 0 .. ColMaxNum, NEW v \in FfiValues, NEW row \in 0 .. FfiMaxRows, BlockPut(row, col, v)
        PROVE  FfiInv'
    <3>1. Call("block", Put(m, row, col, v), PutCell(row, col, v))
      BY <2>9 DEF BlockPut, m
    <3> QED
      BY <2>1, <3>1, PutTabled, CallTabled
  <2>10. ASSUME NEW col \in 0 .. ColMaxNum, NEW v \in FfiValues, NEW row \in 0 .. FfiMaxRows, ReaderCalls(row, col, v)
         PROVE  FfiInv'
    <3> DEFINE b == [ReadMessageParcel(m) EXCEPT !.read_only = (reader = "readonly")]
               tries == {<<Clear(b), <<>>>>, <<SetColumnNum(b, 1), table>>, <<FreeLastRow(b), DropRow>>,
                         <<Put(b, row, col, v), PutCell(row, col, v)>>}
    <3>1. reader # "none" /\ mapping # <<>> /\ owner' = owner /\ reader' = reader
      BY <2>10 DEF ReaderCalls, FfiInv
    <3>2. Tabled(b, table)
      <4> DEFINE c == [m EXCEPT !.read_only = TRUE]
      <4>1. Tabled(c, table)
        BY <2>1, <3>1, ReadOnlyTabled
      <4>2. c = ReadMessageParcel(m)
        BY DEF ReadMessageParcel
      <4> HIDE DEF c
      <4> QED
        BY <4>1, <4>2, ReadOnlyTabled
    <3>3. PICK t \in tries : /\ mapping' = <<[t[1].b EXCEPT !.read_only = FALSE]>>
                             /\ table' = IF t[1].code = OK THEN t[2] ELSE table
      BY <2>10 DEF ReaderCalls, m
    <3> HIDE DEF b
    <3>4. /\ t[1].code = OK => Tabled(t[1].b, t[2])
          /\ t[1].code # OK => Tabled(t[1].b, table)
      <4>1. CASE t = <<Clear(b), <<>>>>
        BY <3>2, <4>1, ClearTabled
      <4>2. CASE t = <<SetColumnNum(b, 1), table>>
        BY <3>2, <4>2, SetColumnNumTabled
      <4>3. CASE t = <<FreeLastRow(b), DropRow>>
        BY <3>2, <4>3, FreeLastRowTabled DEF DropRow
      <4>4. CASE t = <<Put(b, row, col, v), PutCell(row, col, v)>>
        BY <3>2, <4>4, PutTabled
      <4> QED
        BY <4>1, <4>2, <4>3, <4>4
    <3>5. Tabled(t[1].b, table')
      BY <3>3, <3>4
    <3>6. Tabled([t[1].b EXCEPT !.read_only = FALSE], table')
      BY <3>5, ReadOnlyTabled
    <3>7. Tabled(mapping'[1], table')
      BY <3>3, <3>6
    <3> QED
      BY <3>1, <3>3, <3>7 DEF FfiInv
  <2>11. CASE ReceiveBlock \/ BlockNewFromFd
    BY <2>11 DEF FfiInv, ReceiveBlock, BlockNewFromFd, ReaderMaps
  <2>12. CASE ReaderUnmaps
    BY <2>12 DEF FfiInv, ReaderUnmaps
  <2>13. CASE UNCHANGED blockVars
    BY <2>13 DEF FfiInv, blockVars
  <2> QED
    BY <2>2, <2>3, <2>4, <2>5, <2>6, <2>7, <2>8, <2>9, <2>10, <2>11, <2>12, <2>13 DEF BlockFfiNext
<1> QED
  BY <1>1, <1>2, PTL DEF BlockFfiSpec

\* Whatever order a provider and a reader call in, no two objects of the block
\* overlap and all lie inside the mapping.
THEOREM FfiBlockIsWellFormed == BlockFfiSpec => []FfiBlockWellFormed
<1>1. FfiInv => FfiBlockWellFormed
  BY DEF FfiInv, Tabled, BlockInv, FfiBlockWellFormed
<1> QED
  BY <1>1, FfiTyped, PTL

\* A cell reads as the value of the last call that succeeded on it.
THEOREM CellsAreKept == BlockFfiSpec => []CellsKeepValues
<1>1. FfiInv => CellsKeepValues
  <2> SUFFICES ASSUME FfiInv, mapping # <<>> PROVE CellsKeepValues
    BY DEF CellsKeepValues
  <2> DEFINE m == mapping[1]
  <2>1. Tabled(m, table) /\ m.column_nums \in Nat
    BY TabledTypes DEF FfiInv
  <2> HIDE DEF m
  <2>2. \A c \in 0 .. m.column_nums - 1 : m.column_nums > 0
    BY <2>1
  <2>3. /\ m.column_nums > 0 => Len(table) = m.row_nums
        /\ \A r \in 1 .. Len(table), c \in 0 .. m.column_nums - 1 : CellValue(m, r - 1, c) = table[r][c]
    BY <2>1, <2>2 DEF Tabled
  <2> QED
    BY <2>3 DEF CellsKeepValues, m
<1> QED
  BY <1>1, FfiTyped, PTL

-----------------------------------------------------------------------------
(* The result set *)

RsType ==
    /\ DOMAIN rs = {"block", "bridge", "row_pos", "count", "is_closed", "start", "end", "shared"}
    /\ rs.row_pos = INIT_POS \/ rs.row_pos \in 0 .. Len(SourceRows) - 1
    /\ rs.count \in 0 .. Len(SourceRows)
    /\ rs.start \in Int /\ rs.end \in Int

\* A block can be written; when it has rows they have the columns of the source.
HasBlock(b) ==
    /\ BlockInv(b) /\ ~b.read_only
    /\ b.row_nums > 0 => b.column_nums = Columns

\* The first n rows of a block are rows first, first + 1, .. of the source.
Shows(b, n, first) ==
    \A i \in 0 .. n - 1, c \in 0 .. Columns - 1 : CellValue(b, i, c) = Row(first + i)[c]

\* As Shows, but a row may break off where there was no room for its next cell.
Holds(b, n, first) ==
    \A i \in 0 .. n - 1 : Whole(b, i, Row(first + i)) \/ BreaksOff(b, i, Row(first + i))

\* Between calls the window says what the block shows.  One that says nothing has
\* no rows, unless the bridge failed after it wrote some.
WindowInv ==
    Settled =>
        /\ rs.block = NoBlock /\ rs.bridge => rs.start < 0
        /\ rs.block # NoBlock /\ rs.start < 0 => FailAfterRows \/ rs.block.row_nums = 0
        /\ rs.block # NoBlock /\ rs.start >= 0 =>
              /\ rs.block.row_nums = rs.end - rs.start + 1
              /\ Holds(rs.block, rs.block.row_nums, rs.start)

FillType ==
    /\ DOMAIN fill = {"at", "for", "first", "last", "goal", "col"}
    /\ fill.at \in {"idle", "rows", "cells", "refused", "full"}
    /\ fill.first \in Nat /\ fill.last \in Int /\ fill.col \in Nat

\* The fill of which a bridge is in the middle is someone's.
FillOwner ==
    \/ fill.for = "cursor" /\ ~rs.shared /\ ~rs.is_closed /\ fill.goal \in 0 .. Len(SourceRows) - 1
    \/ fill.for = "client" /\ rs.shared
    \/ fill.for = "provider" /\ ~rs.shared /\ ~rs.is_closed /\ fill.first = 0

\* While a bridge fills the block, all rows but the one it is at are whole.  Of that
\* one the cells it has passed are written and the others null, also when it was
\* refused one.
AtRow == fill.at \in {"cells", "refused"}
WholeRows == IF AtRow THEN rs.block.row_nums - 1 ELSE rs.block.row_nums

FillInv ==
    ~Settled =>
        /\ rs.block # NoBlock /\ rs.block.column_nums = Columns
        /\ FillOwner
        /\ fill.last < Len(SourceRows)
        /\ rs.block.row_nums = 0 \/ fill.first + rs.block.row_nums <= fill.last + 1
        /\ AtRow => rs.block.row_nums > 0
        /\ Shows(rs.block, WholeRows, fill.first)
        /\ fill.at = "cells" =>
              /\ fill.col < Columns
              /\ \A c \in 0 .. fill.col - 1 :
                    CellValue(rs.block, rs.block.row_nums - 1, c) = Row(fill.first + (rs.block.row_nums - 1))[c]
              /\ \A c \in fill.col .. Columns - 1 :
                    CellValue(rs.block, rs.block.row_nums - 1, c) = NullCell
        /\ fill.at = "refused" =>
              BreaksOff(rs.block, rs.block.row_nums - 1, Row(fill.first + (rs.block.row_nums - 1)))

\* What the client was told is the window.
ReplyInv ==
    /\ reply.end \in Int
    /\ reply.end >= 0 =>
          /\ rs.shared /\ Settled /\ rs.block # NoBlock
          /\ reply.first >= 0 /\ rs.start = reply.first /\ rs.end = reply.end

ResultSetInv ==
    /\ RsType /\ FillType
    /\ rs.block # NoBlock => HasBlock(rs.block)
    /\ WindowInv /\ FillInv /\ ReplyInv

LEMMA SourceValue ==
    ASSUME NEW i \in 0 .. Len(SourceRows) - 1, NEW c \in 0 .. Columns - 1
    PROVE  IsValue(Row(i)[c])
<1>1. i + 1 \in 1 .. Len(SourceRows)
  BY ResultSetAssumption
<1> QED
  BY <1>1, ResultSetAssumption DEF Row

LEMMA BlockIsBlock ==
    ASSUME NEW b, HasBlock(b)
    PROVE  /\ BlockInv(b) /\ ~b.read_only /\ b # NoBlock
           /\ b.row_nums \in Nat /\ b.column_nums \in Nat
           /\ b.row_nums > 0 => b.column_nums = Columns
<1>1. DOMAIN b # DOMAIN NoBlock
  BY DEF HasBlock, BlockInv, IsBlock, NoBlock
<1> QED
  BY <1>1 DEF HasBlock, BlockInv, IsBlock

\* A new block, or one that was cleared, is ready for the bridge.
LEMMA FreshBlock ==
    ASSUME NEW b, BlockInv(b), ~b.read_only, b.row_nums = 0, b.column_nums = 0
    PROVE  LET s == SetColumnNum(b, Columns) IN
           HasBlock(s.b) /\ s.b.row_nums = 0 /\ (s.code = OK => s.b.column_nums = Columns)
<1> DEFINE s == SetColumnNum(b, Columns)
<1>1. BlockInv(s.b) /\ s.b.row_nums = 0 /\ ~s.b.read_only /\ (s.code = OK => s.b.column_nums = Columns)
  <2>1. Columns \in Nat
    BY ResultSetAssumption
  <2> QED
    BY <2>1, SetColumnNumInv
<1> HIDE DEF s
<1> QED
  BY <1>1 DEF HasBlock, s

LEMMA BlockCreated ==
    LET b == CreateBlock(BlockSize) IN
    BlockInv(b) /\ ~b.read_only /\ b.row_nums = 0 /\ b.column_nums = 0
BY CreateBlockInv, ResultSetAssumption

LEMMA ReadyBlock ==
    ASSUME ResultSetInv
    PROVE  /\ HasBlock(Ready(rs).b) /\ Ready(rs).b.row_nums = 0
           /\ IsReady(rs) => Ready(rs).b.column_nums = Columns
<1> DEFINE b == BlockFor(rs)
<1>1. BlockInv(b) /\ ~b.read_only
  BY BlockCreated, BlockIsBlock DEF BlockFor, ResultSetInv
<1> HIDE DEF b
<1>2. BlockInv(Clear(b).b) /\ ~Clear(b).b.read_only /\ Clear(b).b.row_nums = 0 /\ Clear(b).b.column_nums = 0
  BY <1>1, ClearInv
<1> QED
  BY <1>2, FreshBlock DEF Ready, IsReady, b

LEMMA BlockUpdate ==
    ASSUME RsType, NEW b
    PROVE  LET r == [rs EXCEPT !.block = b] IN
           /\ DOMAIN r = DOMAIN rs /\ r.block = b /\ r.bridge = rs.bridge /\ r.row_pos = rs.row_pos
           /\ r.count = rs.count /\ r.is_closed = rs.is_closed /\ r.start = rs.start /\ r.end = rs.end
           /\ r.shared = rs.shared
BY DEF RsType

LEMMA NothingShown ==
    ASSUME NEW b, NEW first, b.row_nums = 0
    PROVE  Shows(b, b.row_nums, first)
BY DEF Shows

\* What a bridge leaves: whole rows, the last of which may break off.
LEMMA HoldsRows ==
    ASSUME NEW b, NEW first, b.row_nums \in Nat,
           \/ Shows(b, b.row_nums, first)
           \/ Shows(b, b.row_nums - 1, first) /\ BreaksOff(b, b.row_nums - 1, Row(first + (b.row_nums - 1)))
    PROVE  Holds(b, b.row_nums, first)
<1> DEFINE n == b.row_nums
<1>1. SUFFICES ASSUME NEW i \in 0 .. n - 1
               PROVE  Whole(b, i, Row(first + i)) \/ BreaksOff(b, i, Row(first + i))
  BY DEF Holds
<1>2. CASE Shows(b, n, first)
  BY <1>2 DEF Shows, Whole, SameValue
<1>3. CASE Shows(b, n - 1, first) /\ BreaksOff(b, n - 1, Row(first + (n - 1)))
  <2>1. i = n - 1 \/ i \in 0 .. (n - 1) - 1
    OBVIOUS
  <2> QED
    BY <1>3, <2>1 DEF Shows, Whole, SameValue
<1> QED
  BY <1>2, <1>3

\* A bridge goes on with its fill.
LEMMA FillGoesOn ==
    ASSUME ResultSetInv, ~Settled, NEW b, HasBlock(b), b.column_nums = Columns, rs' = [rs EXCEPT !.block = b],
           NEW at \in {"rows", "cells", "refused", "full"}, NEW col \in Nat,
           fill' = [fill EXCEPT !.at = at, !.col = col], reply' = reply,
           b.row_nums = 0 \/ fill.first + b.row_nums <= fill.last + 1,
           at \in {"cells", "refused"} => b.row_nums > 0,
           Shows(b, IF at \in {"cells", "refused"} THEN b.row_nums - 1 ELSE b.row_nums, fill.first),
           at = "cells" =>
              /\ col < Columns
              /\ \A c \in 0 .. col - 1 : CellValue(b, b.row_nums - 1, c) = Row(fill.first + (b.row_nums - 1))[c]
              /\ \A c \in col .. Columns - 1 : CellValue(b, b.row_nums - 1, c) = NullCell,
           at = "refused" => BreaksOff(b, b.row_nums - 1, Row(fill.first + (b.row_nums - 1)))
    PROVE  ResultSetInv'
<1>1. /\ DOMAIN rs' = DOMAIN rs /\ rs'.block = b /\ rs'.bridge = rs.bridge /\ rs'.row_pos = rs.row_pos
      /\ rs'.count = rs.count /\ rs'.is_closed = rs.is_closed /\ rs'.start = rs.start /\ rs'.end = rs.end
      /\ rs'.shared = rs.shared
  BY BlockUpdate DEF ResultSetInv
<1>2. /\ DOMAIN fill' = DOMAIN fill /\ fill'.at = at /\ fill'.for = fill.for /\ fill'.first = fill.first
      /\ fill'.last = fill.last /\ fill'.goal = fill.goal /\ fill'.col = col
  BY DEF ResultSetInv, FillType
<1>3. RsType' /\ FillType' /\ ~Settled'
  BY <1>1, <1>2 DEF ResultSetInv, RsType, FillType, Settled
<1>4. FillInv'
  BY <1>1, <1>2, BlockIsBlock DEF ResultSetInv, FillInv, FillOwner, AtRow, WholeRows
<1>5. ReplyInv'
  BY <1>1, <1>3 DEF ResultSetInv, ReplyInv
<1> QED
  BY <1>1, <1>3, <1>4, <1>5 DEF ResultSetInv, WindowInv

\* A fill begins.
LEMMA FillBegins ==
    ASSUME ResultSetInv, NEW b, HasBlock(b), b.row_nums = 0, b.column_nums = Columns,
           rs' = [rs EXCEPT !.block = b],
           NEW for, NEW first \in Nat, NEW last \in Int, NEW goal, last < Len(SourceRows),
           fill' = Filling(for, first, last, goal),
           \/ for = "cursor" /\ ~rs.shared /\ ~rs.is_closed /\ goal \in 0 .. Len(SourceRows) - 1
           \/ for = "client" /\ rs.shared
           \/ for = "provider" /\ ~rs.shared /\ ~rs.is_closed /\ first = 0,
           reply'.end \in Int, reply'.end < 0
    PROVE  ResultSetInv'
<1>1. /\ DOMAIN rs' = DOMAIN rs /\ rs'.block = b /\ rs'.bridge = rs.bridge /\ rs'.row_pos = rs.row_pos
      /\ rs'.count = rs.count /\ rs'.is_closed = rs.is_closed /\ rs'.start = rs.start /\ rs'.end = rs.end
      /\ rs'.shared = rs.shared
  BY BlockUpdate DEF ResultSetInv
<1>2. /\ DOMAIN fill' = {"at", "for", "first", "last", "goal", "col"}
      /\ fill'.at = "rows" /\ fill'.for = for /\ fill'.first = first
      /\ fill'.last = last /\ fill'.goal = goal /\ fill'.col = 0
  BY DEF Filling
<1>3. RsType' /\ FillType' /\ ~Settled' /\ ReplyInv'
  BY <1>1, <1>2 DEF ResultSetInv, RsType, FillType, Settled, ReplyInv
<1>4. FillInv'
  BY <1>1, <1>2, BlockIsBlock, NothingShown DEF FillInv, FillOwner, AtRow, WholeRows
<1> QED
  BY <1>1, <1>3, <1>4 DEF ResultSetInv, WindowInv

\* The result set is left with no fill under way.
LEMMA FillEnds ==
    ASSUME RsType', fill' = Unfilled \/ (Settled /\ fill' = fill), ResultSetInv,
           rs'.block # NoBlock => HasBlock(rs'.block),
           rs'.block = NoBlock /\ rs'.bridge => rs'.start < 0,
           rs'.block # NoBlock /\ rs'.start < 0 => FailAfterRows \/ rs'.block.row_nums = 0,
           rs'.block # NoBlock /\ rs'.start >= 0 =>
              /\ rs'.block.row_nums = rs'.end - rs'.start + 1
              /\ Holds(rs'.block, rs'.block.row_nums, rs'.start),
           ReplyInv'
    PROVE  ResultSetInv'
<1>1. FillType' /\ Settled'
  BY DEF ResultSetInv, FillType, Settled, Unfilled
<1> QED
  BY <1>1 DEF ResultSetInv, WindowInv, FillInv

LEMMA BridgeAllocRowKeeps == ResultSetInv /\ BridgeAllocRow => ResultSetInv'
<1> SUFFICES ASSUME ResultSetInv, BridgeAllocRow PROVE ResultSetInv'
  OBVIOUS
<1> DEFINE b == rs.block
           a == AllocRow(b)
           e == a.b
           at == IF a.code # OK THEN "full" ELSE IF Columns = 0 THEN "rows" ELSE "cells"
<1>1. /\ fill.at = "rows" /\ fill.first + b.row_nums <= fill.last + 1 - 1
      /\ rs' = [rs EXCEPT !.block = e] /\ fill' = [fill EXCEPT !.at = at, !.col = 0] /\ reply' = reply
      /\ fill.first \in Nat /\ fill.last \in Int
  BY DEF BridgeAllocRow, ResultSetInv, FillType
<1>2. ~Settled /\ HasBlock(b) /\ b.column_nums = Columns /\ Shows(b, b.row_nums, fill.first)
  BY <1>1 DEF Settled, ResultSetInv, FillInv, WholeRows, AtRow
<1>3. BlockInv(b) /\ ~b.read_only /\ b.row_nums \in Nat /\ Columns \in Nat
  BY <1>2, BlockIsBlock, ResultSetAssumption
<1>4. /\ BlockInv(e) /\ KeepsCells(b, e)
      /\ e.column_nums = b.column_nums /\ e.read_only = b.read_only
      /\ a.code = OK => /\ e.row_nums = b.row_nums + 1
                        /\ \A col \in 0 .. b.column_nums - 1 : CellValue(e, b.row_nums, col) = NullCell
      /\ a.code # OK => e.row_nums = b.row_nums \/ (e.row_nums = b.row_nums + 1 /\ b.column_nums = 0)
  BY <1>3, AllocRowInv
<1>5. at \in {"rows", "cells", "full"} /\ (at = "full" <=> a.code # OK) /\ (at = "rows" => Columns = 0)
      /\ (at = "cells" => Columns > 0)
  BY <1>3
<1> HIDE DEF a, b, e, at
<1>6. HasBlock(e)
  BY <1>2, <1>3, <1>4 DEF HasBlock
<1>7. Shows(e, IF at \in {"cells", "refused"} THEN e.row_nums - 1 ELSE e.row_nums, fill.first)
  <2>1. CASE Columns = 0
    BY <2>1 DEF Shows
  <2>2. CASE Columns > 0
    <3>1. (IF at \in {"cells", "refused"} THEN e.row_nums - 1 ELSE e.row_nums) = b.row_nums
      BY <1>2, <1>3, <1>4, <1>5, <2>2
    <3>2. \A i \in 0 .. b.row_nums - 1 : i \in 0 .. e.row_nums - 1 /\ i < b.row_nums
      BY <1>3, <1>4
    <3>3. Shows(e, b.row_nums, fill.first)
      BY <1>2, <1>4, <3>2 DEF Shows, KeepsCells
    <3> QED
      BY <3>1, <3>3
  <2> QED
    BY <1>3, <2>1, <2>2
<1>8. /\ e.row_nums = 0 \/ fill.first + e.row_nums <= fill.last + 1
      /\ at \in {"cells", "refused"} => e.row_nums > 0
  BY <1>1, <1>3, <1>4, <1>5
<1>9. at = "cells" =>
          /\ 0 < Columns
          /\ \A c \in 0 .. 0 - 1 : CellValue(e, e.row_nums - 1, c) = Row(fill.first + (e.row_nums - 1))[c]
          /\ \A c \in 0 .. Columns - 1 : CellValue(e, e.row_nums - 1, c) = NullCell
  <2>1. at = "cells" => e.row_nums - 1 = b.row_nums
    BY <1>3, <1>4, <1>5
  <2> QED
    BY <1>2, <1>4, <1>5, <2>1
<1>10. e.column_nums = Columns /\ at \in {"rows", "cells", "refused", "full"} /\ 0 \in Nat
  BY <1>2, <1>4, <1>5
<1> QED
  BY <1>1, <1>2, <1>5, <1>6, <1>7, <1>8, <1>9, <1>10, FillGoesOn

LEMMA BridgeWriteCellKeeps == ResultSetInv /\ BridgeWriteCell => ResultSetInv'
<1> SUFFICES ASSUME ResultSetInv, BridgeWriteCell PROVE ResultSetInv'
  OBVIOUS
<1> DEFINE b == rs.block
           row == b.row_nums - 1
           i == fill.first + row
           v == Row(i)[fill.col]
           p == Put(b, row, fill.col, v)
           e == p.b
           at == IF p.code # OK THEN "refused" ELSE IF fill.col + 1 = Columns THEN "rows" ELSE "cells"
           col == fill.col + 1
<1>1. /\ fill.at = "cells" /\ rs' = [rs EXCEPT !.block = e] /\ fill' = [fill EXCEPT !.at = at, !.col = col]
      /\ reply' = reply
  BY DEF BridgeWriteCell
<1>2. /\ ~Settled /\ HasBlock(b) /\ b.column_nums = Columns /\ Shows(b, row, fill.first)
      /\ b.row_nums > 0 /\ fill.first + b.row_nums <= fill.last + 1
      /\ fill.last < Len(SourceRows) /\ fill.last \in Int /\ fill.first \in Nat /\ fill.col \in Nat
      /\ fill.col < Columns
      /\ \A c \in 0 .. fill.col - 1 : CellValue(b, row, c) = Row(i)[c]
      /\ \A c \in fill.col .. Columns - 1 : CellValue(b, row, c) = NullCell
  BY <1>1 DEF Settled, ResultSetInv, FillInv, FillType, WholeRows, AtRow
<1>3. /\ BlockInv(b) /\ ~b.read_only /\ b.row_nums \in Nat /\ Columns \in Nat
      /\ Len(SourceRows) \in Nat
  BY <1>2, BlockIsBlock, ResultSetAssumption
<1>4. /\ row \in 0 .. b.row_nums - 1 /\ row \in Int /\ i \in 0 .. Len(SourceRows) - 1
      /\ fill.col \in 0 .. Columns - 1 /\ col \in Nat /\ row + 1 = b.row_nums
  <2> DEFINE n == b.row_nums
             first == fill.first
             last == fill.last
             k == fill.col
             len == Len(SourceRows)
  <2>1. /\ n \in Nat /\ n > 0 /\ first + n <= last + 1 /\ last < len /\ last \in Int /\ first \in Nat
        /\ k \in Nat /\ k < Columns /\ Columns \in Nat /\ len \in Nat
    BY <1>2, <1>3
  <2> HIDE DEF b, n, first, last, k, len
  <2>2. /\ n - 1 \in 0 .. n - 1 /\ n - 1 \in Int /\ first + (n - 1) \in 0 .. len - 1
        /\ k \in 0 .. Columns - 1 /\ k + 1 \in Nat /\ (n - 1) + 1 = n
    BY <2>1
  <2> QED
    BY <2>2 DEF n, first, len, k
<1>5. IsValue(v)
  BY <1>4, SourceValue
<1>6. /\ at \in {"rows", "cells", "refused"} /\ (at = "refused" <=> p.code # OK)
      /\ (at = "rows" => col = Columns) /\ (at = "cells" => col < Columns)
  BY <1>2, <1>3
<1> HIDE DEF b, row, v, p, e, at
<1>7. /\ BlockInv(e) /\ e.row_nums = b.row_nums /\ e.column_nums = b.column_nums /\ e.read_only = b.read_only
      /\ p.code # OK => e = b
      /\ p.code = OK =>
            \A r \in 0 .. b.row_nums - 1, k \in 0 .. b.column_nums - 1 :
                CellValue(e, r, k) = IF r = row /\ k = fill.col THEN v ELSE CellValue(b, r, k)
  <2> DEFINE k0 == fill.col
  <2>1. BlockInv(b) /\ row \in Int /\ IsValue(v) /\ p = Put(b, row, k0, v)
    BY <1>3, <1>4, <1>5 DEF p
  <2> HIDE DEF k0
  <2>2. /\ BlockInv(Put(b, row, k0, v).b)
        /\ Put(b, row, k0, v).b.row_nums = b.row_nums
        /\ Put(b, row, k0, v).b.column_nums = b.column_nums
        /\ Put(b, row, k0, v).b.read_only = b.read_only
        /\ Put(b, row, k0, v).code # OK => Put(b, row, k0, v).b = b
        /\ Put(b, row, k0, v).code = OK =>
              \A r \in 0 .. b.row_nums - 1, k \in 0 .. b.column_nums - 1 :
                  CellValue(Put(b, row, k0, v).b, r, k) = IF r = row /\ k = k0 THEN v ELSE CellValue(b, r, k)
    BY <2>1, PutInv
  <2>3. e = Put(b, row, k0, v).b
    BY <2>1 DEF e
  <2> QED
    BY <2>1, <2>2, <2>3 DEF k0
<1>8. HasBlock(e)
  BY <1>2, <1>3, <1>7 DEF HasBlock
<1>9. Shows(e, row, fill.first)
  <2>1. CASE p.code # OK
    BY <1>2, <1>7, <2>1
  <2>2. CASE p.code = OK
    <3>1. \A r \in 0 .. row - 1 : r \in 0 .. b.row_nums - 1 /\ r # row
      BY <1>3, <1>4
    <3> QED
      BY <1>2, <1>7, <2>2, <3>1 DEF Shows
  <2> QED
    BY <2>1, <2>2
<1>10. p.code = OK => \A c \in 0 .. col - 1 : CellValue(e, row, c) = Row(i)[c]
  <2> SUFFICES ASSUME p.code = OK, NEW c \in 0 .. col - 1 PROVE CellValue(e, row, c) = Row(i)[c]
    OBVIOUS
  <2>1. c \in 0 .. Columns - 1 /\ (c = fill.col \/ c \in 0 .. fill.col - 1)
    BY <1>2, <1>3
  <2> QED
    BY <1>2, <1>4, <1>7, <2>1 DEF v
<1>a. p.code = OK => \A c \in col .. Columns - 1 : CellValue(e, row, c) = NullCell
  <2> SUFFICES ASSUME p.code = OK, NEW c \in col .. Columns - 1 PROVE CellValue(e, row, c) = NullCell
    OBVIOUS
  <2>1. c \in 0 .. Columns - 1 /\ c # fill.col /\ c \in fill.col .. Columns - 1
    BY <1>2, <1>3
  <2> QED
    BY <1>2, <1>4, <1>7, <2>1
\* The cell that is refused is a text or blob for which there is no room.
<1>b. p.code # OK => BreaksOff(e, row, Row(i))
  <2> SUFFICES ASSUME p.code # OK PROVE BreaksOff(b, row, Row(i))
    BY <1>7
  <2>1. HasCell(b, row, fill.col)
    BY <1>2, <1>3, <1>4, HasCellIs
  <2>2. NoRoomFor(b, v)
    BY <1>3, <2>1 DEF p, Put, PutInline, PutBlobOrString, Answer, NoRoomFor
  <2>3. BreaksOffAt(b, row, Row(i), fill.col)
    BY <1>2, <2>2 DEF BreaksOffAt, SameValue, NullCell, v, row
  <2> QED
    BY <1>4, <2>3 DEF BreaksOff
<1>11. Shows(e, IF at \in {"cells", "refused"} THEN e.row_nums - 1 ELSE e.row_nums, fill.first)
  <2>1. CASE at # "rows"
    <3>1. e.row_nums - 1 = row
      BY <1>7 DEF row
    <3> QED
      BY <1>6, <1>9, <2>1, <3>1
  <2>2. CASE at = "rows"
    <3>1. \A r \in 0 .. e.row_nums - 1 : r = row \/ r \in 0 .. row - 1
      BY <1>3, <1>4, <1>7
    <3>2. Shows(e, e.row_nums, fill.first)
      BY <1>6, <1>9, <1>10, <2>2, <3>1 DEF Shows
    <3> QED
      BY <2>2, <3>2
  <2> QED
    BY <2>1, <2>2
<1>12. /\ at = "cells" =>
            /\ col < Columns
            /\ \A c \in 0 .. col - 1 : CellValue(e, e.row_nums - 1, c) = Row(fill.first + (e.row_nums - 1))[c]
            /\ \A c \in col .. Columns - 1 : CellValue(e, e.row_nums - 1, c) = NullCell
       /\ at = "refused" => BreaksOff(e, e.row_nums - 1, Row(fill.first + (e.row_nums - 1)))
  <2>1. e.row_nums - 1 = row
    BY <1>7 DEF row
  <2> QED
    BY <1>6, <1>10, <1>a, <1>b, <2>1
<1>13. /\ e.row_nums = 0 \/ fill.first + e.row_nums <= fill.last + 1
       /\ e.row_nums > 0 /\ e.column_nums = Columns /\ at \in {"rows", "cells", "refused", "full"}
  BY <1>2, <1>6, <1>7
<1> HIDE DEF col, i
<1> QED
  BY <1>1, <1>2, <1>4, <1>8, <1>11, <1>12, <1>13, FillGoesOn

LEMMA ProviderFreesLastRowKeeps == ResultSetInv /\ ProviderFreesLastRow => ResultSetInv'
<1> SUFFICES ASSUME ResultSetInv, ProviderFreesLastRow PROVE ResultSetInv'
  OBVIOUS
<1> DEFINE b == rs.block
           e == FreeLastRow(b).b
<1>1. /\ fill.at = "refused" /\ rs' = [rs EXCEPT !.block = e]
      /\ fill' = [fill EXCEPT !.at = "full", !.col = fill.col] /\ reply' = reply
  BY DEF ProviderFreesLastRow, ResultSetInv, FillType
<1>2. /\ ~Settled /\ HasBlock(b) /\ b.column_nums = Columns /\ Shows(b, b.row_nums - 1, fill.first)
      /\ b.row_nums > 0 /\ fill.first + b.row_nums <= fill.last + 1
      /\ fill.last \in Int /\ fill.first \in Nat /\ fill.col \in Nat
  BY <1>1 DEF Settled, ResultSetInv, FillInv, FillType, WholeRows, AtRow
<1>3. BlockInv(b) /\ ~b.read_only /\ b.row_nums \in Nat
  BY <1>2, BlockIsBlock
<1>4. /\ BlockInv(e) /\ KeepsCells(b, e) /\ e.column_nums = b.column_nums /\ e.read_only = b.read_only
      /\ e.row_nums = b.row_nums - 1
  BY <1>2, <1>3, FreeLastRowInv
<1> HIDE DEF b, e
<1>5. HasBlock(e)
  BY <1>2, <1>3, <1>4 DEF HasBlock
<1>6. Shows(e, e.row_nums, fill.first)
  <2>1. \A r \in 0 .. e.row_nums - 1 : r < b.row_nums
    BY <1>3, <1>4
  <2> QED
    BY <1>2, <1>4, <2>1 DEF Shows, KeepsCells
<1>7. fill.first + e.row_nums <= fill.last + 1 /\ e.column_nums = Columns
  BY <1>2, <1>3, <1>4
<1> QED
  BY <1>1, <1>2, <1>5, <1>6, <1>7, FillGoesOn

LEMMA OnGoKeeps ==
    ASSUME ResultSetInv, Settled, NEW for, NEW first \in Nat, NEW last \in Int, NEW goal,
           last < Len(SourceRows), OnGo(for, first, last, goal),
           \/ for = "cursor" /\ ~rs.shared /\ ~rs.is_closed /\ goal \in 0 .. Len(SourceRows) - 1
           \/ for = "client" /\ rs.shared,
           reply'.end \in Int, reply'.end < 0
    PROVE  ResultSetInv'
<1> DEFINE b == Ready(rs).b
           filling == Filling(for, first, last, goal)
           lost == [rs EXCEPT !.block = b, !.start = -1, !.end = -1]
<1>1. \/ IsReady(rs) /\ rs' = [rs EXCEPT !.block = b] /\ fill' = filling
      \/ rs' = lost /\ fill' = Unfilled
      \/ rs.block = NoBlock /\ rs' = rs /\ fill' = Unfilled
  <2>1. PICK o \in OnGoOutcomes(rs, filling) : rs' = o.rs /\ fill' = o.fill
    BY DEF OnGo
  <2>2. \/ IsReady(rs) /\ o = [rs |-> [rs EXCEPT !.block = b], fill |-> filling]
        \/ o = [rs |-> lost, fill |-> Unfilled]
        \/ rs.block = NoBlock /\ o = [rs |-> rs, fill |-> Unfilled]
    <3> HIDE DEF b, filling, lost
    <3> QED
      BY <2>1 DEF OnGoOutcomes, b, lost
  <2> HIDE DEF b, filling, lost
  <2> QED
    BY <2>1, <2>2
<1>2. HasBlock(b) /\ b.row_nums = 0 /\ (IsReady(rs) => b.column_nums = Columns)
  BY ReadyBlock
<1> HIDE DEF b
<1>3. CASE IsReady(rs) /\ rs' = [rs EXCEPT !.block = b] /\ fill' = filling
  BY <1>2, <1>3, FillBegins
<1>4. CASE rs' = lost /\ fill' = Unfilled
  <2>1. /\ DOMAIN rs' = DOMAIN rs /\ rs'.block = b /\ rs'.start = -1 /\ rs'.end = -1
        /\ rs'.row_pos = rs.row_pos /\ rs'.count = rs.count
    BY <1>4 DEF ResultSetInv, RsType
  <2>2. RsType' /\ ReplyInv'
    BY <2>1 DEF ResultSetInv, RsType, ReplyInv
  <2> HIDE DEF lost
  <2> QED
    BY <1>2, <1>4, <2>1, <2>2, FillEnds
<1>5. CASE rs.block = NoBlock /\ rs' = rs /\ fill' = Unfilled
  <2>1. RsType' /\ ReplyInv'
    BY <1>5 DEF ResultSetInv, RsType, ReplyInv
  <2> QED
    BY <1>5, <2>1, FillEnds DEF ResultSetInv, WindowInv
<1> QED
  BY <1>1, <1>3, <1>4, <1>5

LEMMA GoToRowKeeps ==
    ASSUME ResultSetInv, NEW position \in Int, GoToRow(position)
    PROVE  ResultSetInv'
<1>1. /\ Settled /\ ~rs.shared /\ ~rs.is_closed /\ 0 <= position /\ position < rs.count /\ reply' = reply
      /\ rs.count \in 0 .. Len(SourceRows) /\ reply.end \in Int /\ reply.end < 0
      /\ Len(SourceRows) \in Nat
  BY ResultSetAssumption DEF GoToRow, Moves, ResultSetInv, RsType, ReplyInv
<1>2. position \in 0 .. Len(SourceRows) - 1 /\ rs.count - 1 \in Int /\ rs.count - 1 < Len(SourceRows) /\ position \in Nat
  BY <1>1
<1>3. CASE rs' = [rs EXCEPT !.row_pos = position] /\ fill' = fill
  <2>1. /\ DOMAIN rs' = DOMAIN rs /\ rs'.block = rs.block /\ rs'.start = rs.start /\ rs'.end = rs.end
        /\ rs'.row_pos = position /\ rs'.count = rs.count /\ rs'.bridge = rs.bridge
    BY <1>3 DEF ResultSetInv, RsType
  <2>2. RsType' /\ ReplyInv'
    BY <1>1, <1>2, <2>1 DEF ResultSetInv, RsType, ReplyInv
  <2> QED
    BY <1>1, <1>3, <2>1, <2>2, FillEnds DEF ResultSetInv, WindowInv
<1>4. CASE OnGo("cursor", position, rs.count - 1, position)
  BY <1>1, <1>2, <1>4, OnGoKeeps
<1> QED
  BY <1>3, <1>4 DEF GoToRow

LEMMA WindowIs ==
    ASSUME RsType, NEW ok \in BOOLEAN
    PROVE  LET w == Window(rs, ok)
               filled == ok /\ rs.block.row_nums > 0
           IN  /\ DOMAIN w = DOMAIN rs /\ w.block = rs.block /\ w.bridge = rs.bridge /\ w.row_pos = rs.row_pos
               /\ w.count = rs.count /\ w.is_closed = rs.is_closed /\ w.shared = rs.shared
               /\ filled => w.start = fill.first /\ w.end = fill.first + rs.block.row_nums - 1
               /\ ~filled => w.start = -1 /\ w.end = -1
BY DEF RsType, Window

\* Where a bridge stops, the block holds the rows it wrote.
LEMMA BridgeLeaves ==
    ASSUME ResultSetInv, BridgeStops
    PROVE  Holds(rs.block, rs.block.row_nums, fill.first)
<1>1. ~Settled /\ rs.block.row_nums \in Nat
  BY BlockIsBlock DEF BridgeStops, Settled, ResultSetInv, FillInv
<1> QED
  BY <1>1, HoldsRows DEF BridgeStops, ResultSetInv, FillInv, WholeRows, AtRow

\* The bridge that returns leaves a window that shows the rows it wrote.
LEMMA OnGoReturnsKeeps ==
    ASSUME ResultSetInv, ~Settled, NEW ok \in BOOLEAN, OnGoReturns(ok),
           ok => BridgeStops, ~ok => FailAfterRows \/ rs.block.row_nums = 0
    PROVE  ResultSetInv'
<1> DEFINE n == rs.block.row_nums
           w == Window(rs, ok)
           filled == ok /\ n > 0
<1>1. /\ HasBlock(rs.block) /\ rs.block # NoBlock /\ n \in Nat
      /\ fill.first \in Nat /\ FillOwner /\ reply.end \in Int /\ (reply.end >= 0 => FALSE)
  BY BlockIsBlock DEF ResultSetInv, FillInv, FillType, ReplyInv
<1>a. filled => Holds(rs.block, n, fill.first)
  BY BridgeLeaves
<1>2. /\ DOMAIN w = DOMAIN rs /\ w.block = rs.block /\ w.bridge = rs.bridge /\ w.row_pos = rs.row_pos
      /\ w.count = rs.count /\ w.shared = rs.shared
      /\ filled => w.start = fill.first /\ w.end = fill.first + n - 1
      /\ ~filled => w.start = -1 /\ w.end = -1
  BY WindowIs DEF ResultSetInv
<1>3. /\ fill' = Unfilled
      /\ \/ fill.for = "cursor" /\ reply' = reply /\ rs' = [w EXCEPT !.row_pos = IF ok THEN fill.goal ELSE @]
         \/ fill.for = "client" /\ rs' = w /\ reply' = [first |-> fill.first, end |-> w.end]
  BY DEF OnGoReturns
<1> HIDE DEF n, w
<1>4. /\ DOMAIN rs' = DOMAIN rs /\ rs'.block = rs.block /\ rs'.count = rs.count /\ rs'.shared = rs.shared
      /\ rs'.start = w.start /\ rs'.end = w.end
      /\ rs'.row_pos = rs.row_pos \/ (rs'.row_pos = fill.goal /\ fill.for = "cursor")
  BY <1>2, <1>3 DEF ResultSetInv, RsType
<1>5. RsType'
  BY <1>1, <1>2, <1>4 DEF ResultSetInv, RsType, FillOwner
<1>6. Settled'
  BY <1>3 DEF Settled, Unfilled
<1>7. ReplyInv'
  <2>1. CASE fill.for = "cursor" /\ reply' = reply
    BY <1>1, <2>1 DEF ReplyInv
  <2>2. CASE fill.for = "client" /\ rs' = w /\ reply' = [first |-> fill.first, end |-> w.end]
    <3>1. rs.shared /\ reply'.end = w.end /\ reply'.first = fill.first
      BY <1>1, <2>2 DEF FillOwner
    <3>2. w.end \in Int /\ (w.end >= 0 => w.start = fill.first)
      BY <1>1, <1>2
    <3> QED
      BY <1>1, <1>4, <1>6, <3>1, <3>2 DEF ReplyInv
  <2> QED
    BY <1>3, <2>1, <2>2
<1>8. /\ rs'.start < 0 => ~filled
      /\ rs'.start >= 0 => filled /\ n = rs'.end - rs'.start + 1 /\ rs'.start = fill.first
      /\ ~filled => FailAfterRows \/ n = 0
  BY <1>1, <1>2, <1>4 DEF n
<1> HIDE DEF filled
<1> QED
  BY <1>1, <1>3, <1>4, <1>5, <1>7, <1>8, <1>a, FillEnds DEF n

LEMMA BridgeReturnsKeeps == ResultSetInv /\ BridgeReturns => ResultSetInv'
BY OnGoReturnsKeeps DEF BridgeReturns, BridgeStops, Settled

LEMMA BridgeFailsKeeps == ResultSetInv /\ BridgeFails => ResultSetInv'
BY OnGoReturnsKeeps DEF BridgeFails

LEMMA ProviderFillsBlockKeeps == ResultSetInv /\ ProviderFillsBlock => ResultSetInv'
<1> SUFFICES ASSUME ResultSetInv, ProviderFillsBlock PROVE ResultSetInv'
  OBVIOUS
<1> DEFINE b == Ready(rs).b
<1>1. HasBlock(b) /\ b.row_nums = 0 /\ (IsReady(rs) => b.column_nums = Columns)
  BY ReadyBlock
<1>2. /\ IsReady(rs) /\ rs' = [rs EXCEPT !.block = b] /\ ~rs.shared /\ ~rs.is_closed
      /\ fill' = Filling("provider", 0, Len(SourceRows) - 1, 0) /\ reply' = reply
  BY DEF ProviderFillsBlock
<1>3. 0 \in Nat /\ Len(SourceRows) - 1 \in Int /\ Len(SourceRows) - 1 < Len(SourceRows)
  BY ResultSetAssumption
<1>4. reply'.end \in Int /\ reply'.end < 0
  BY <1>2 DEF ResultSetInv, ReplyInv
<1> HIDE DEF b
<1> QED
  BY <1>1, <1>2, <1>3, <1>4, FillBegins

LEMMA SetBlockKeeps == ResultSetInv /\ SetBlock => ResultSetInv'
<1> SUFFICES ASSUME ResultSetInv, SetBlock PROVE ResultSetInv'
  OBVIOUS
<1> DEFINE n == rs.block.row_nums
<1>1. /\ fill.for = "provider" /\ ~Settled /\ BridgeStops /\ fill' = Unfilled /\ reply' = reply
      /\ rs' = [rs EXCEPT !.count = n, !.start = 0, !.end = n - 1]
  BY DEF SetBlock, BridgeStops, Settled
<1>a. Holds(rs.block, n, fill.first)
  BY <1>1, BridgeLeaves
<1>2. /\ HasBlock(rs.block) /\ rs.block # NoBlock /\ n \in Nat /\ fill.first = 0 /\ Holds(rs.block, n, 0)
      /\ n = 0 \/ 0 + n <= fill.last + 1
      /\ fill.last < Len(SourceRows) /\ fill.last \in Int /\ Len(SourceRows) \in Nat
      /\ reply.end \in Int /\ reply.end < 0
  BY <1>1, <1>a, BlockIsBlock, ResultSetAssumption DEF ResultSetInv, FillInv, FillType, FillOwner, ReplyInv
<1> HIDE DEF n
<1>3. /\ DOMAIN rs' = DOMAIN rs /\ rs'.block = rs.block /\ rs'.count = n /\ rs'.start = 0 /\ rs'.end = n - 1
      /\ rs'.row_pos = rs.row_pos
  BY <1>1 DEF ResultSetInv, RsType
<1>4. n \in 0 .. Len(SourceRows) /\ n - 1 \in Int /\ n = (n - 1) - 0 + 1
  BY <1>2
<1>5. RsType' /\ ReplyInv'
  BY <1>1, <1>2, <1>3, <1>4 DEF ResultSetInv, RsType, ReplyInv
<1>6. rs'.block.row_nums = n
  BY <1>3 DEF n
<1> QED
  BY <1>1, <1>2, <1>3, <1>4, <1>5, <1>6, FillEnds

LEMMA CloseKeeps ==
    ASSUME ResultSetInv, Settled, rs' = CloseOutcome(rs), fill' = fill, reply'.end \in Int, reply'.end < 0
    PROVE  ResultSetInv'
<1>1. /\ DOMAIN rs' = DOMAIN rs /\ rs'.block = NoBlock /\ rs'.bridge = FALSE /\ rs'.count = rs.count
      /\ rs'.start = rs.start /\ rs'.end = rs.end /\ rs'.row_pos = rs.row_pos
  BY DEF ResultSetInv, RsType, CloseOutcome
<1>2. RsType' /\ ReplyInv'
  BY <1>1 DEF ResultSetInv, RsType, ReplyInv
<1> QED
  BY <1>1, <1>2, FillEnds

LEMMA WriteToParcelKeeps == ResultSetInv /\ WriteToParcel => ResultSetInv'
<1> SUFFICES ASSUME ResultSetInv, WriteToParcel PROVE ResultSetInv'
  OBVIOUS
<1> DEFINE e == SetColumnNum(CreateBlock(BlockSize), Columns).b
           b == IF rs.block = NoBlock /\ rs.bridge THEN e ELSE rs.block
<1>1. HasBlock(e) /\ e.row_nums = 0
  <2> DEFINE c == CreateBlock(BlockSize)
  <2>1. BlockInv(c) /\ ~c.read_only /\ c.row_nums = 0 /\ c.column_nums = 0
    BY BlockCreated
  <2> HIDE DEF c
  <2>2. LET s == SetColumnNum(c, Columns) IN HasBlock(s.b) /\ s.b.row_nums = 0
    BY <2>1, FreshBlock
  <2> QED
    BY <2>2 DEF c
<1> HIDE DEF e
<1>2. /\ Settled /\ ~rs.shared /\ fill' = fill /\ reply' = reply /\ rs' = [rs EXCEPT !.shared = TRUE, !.block = b]
      /\ reply.end \in Int /\ reply.end < 0
  BY DEF WriteToParcel, ResultSetInv, ReplyInv, e
<1> HIDE DEF b
<1>3. /\ DOMAIN rs' = DOMAIN rs /\ rs'.block = b /\ rs'.bridge = rs.bridge /\ rs'.count = rs.count
      /\ rs'.start = rs.start /\ rs'.end = rs.end /\ rs'.row_pos = rs.row_pos
  BY <1>2 DEF ResultSetInv, RsType
<1>4. RsType' /\ ReplyInv'
  BY <1>2, <1>3 DEF ResultSetInv, RsType, ReplyInv
<1>5. CASE rs.block = NoBlock /\ rs.bridge
  <2>1. b = e /\ rs.start < 0
    BY <1>2, <1>5 DEF b, ResultSetInv, WindowInv
  <2>2. e # NoBlock /\ rs.start \in Int
    BY <1>1, BlockIsBlock DEF ResultSetInv, RsType
  <2> QED
    BY <1>1, <1>2, <1>3, <1>4, <2>1, <2>2, FillEnds
<1>6. CASE ~(rs.block = NoBlock /\ rs.bridge)
  <2>1. b = rs.block
    BY <1>6 DEF b
  <2> QED
    BY <1>2, <1>3, <1>4, <2>1, FillEnds DEF ResultSetInv, WindowInv
<1> QED
  BY <1>5, <1>6

LEMMA HandleOnGoKeeps == ResultSetInv /\ HandleOnGo => ResultSetInv'
<1> SUFFICES ASSUME ResultSetInv, HandleOnGo PROVE ResultSetInv'
  OBVIOUS
<1>1. Settled /\ rs.shared /\ reply'.end \in Int /\ reply'.end < 0
  BY DEF HandleOnGo, NoReply
<1>2. PICK first \in 0 .. Len(SourceRows) - 1, target \in 0 .. Len(SourceRows) - 1 :
          OnGo("client", first, target, 0) \/ (rs' = rs /\ fill' = fill)
  BY DEF HandleOnGo
<1>3. first \in Nat /\ target \in Int /\ target < Len(SourceRows)
  BY ResultSetAssumption
<1>4. CASE OnGo("client", first, target, 0)
  BY <1>1, <1>3, <1>4, OnGoKeeps
<1>5. CASE rs' = rs /\ fill' = fill
  BY <1>1, <1>5 DEF ResultSetInv, RsType, FillType, WindowInv, FillInv, FillOwner, AtRow, WholeRows, ReplyInv, Settled
<1> QED
  BY <1>2, <1>4, <1>5

LEMMA InitFields ==
    ASSUME ResultSetInit
    PROVE  /\ DOMAIN rs = {"block", "bridge", "row_pos", "count", "is_closed", "start", "end", "shared"}
           /\ rs.block = NoBlock /\ rs.row_pos = INIT_POS /\ rs.start = -1 /\ rs.end = -1 /\ rs.is_closed = FALSE
           /\ rs.count = 0 \/ rs.count = Len(SourceRows)
<1> DEFINE o == OverBridge
           p == [o EXCEPT !.bridge = FALSE]
           q == [p EXCEPT !.count = 0]
<1>1. /\ DOMAIN o = {"block", "bridge", "row_pos", "count", "is_closed", "start", "end", "shared"}
      /\ o.block = NoBlock /\ o.row_pos = INIT_POS /\ o.start = -1 /\ o.end = -1 /\ o.is_closed = FALSE /\ o.count = Len(SourceRows)
  BY DEF OverBridge
<1>2. rs \in {o, q}
  BY DEF ResultSetInit
<1> HIDE DEF o
<1>3. /\ DOMAIN p = DOMAIN o /\ p.block = NoBlock /\ p.row_pos = INIT_POS /\ p.start = -1 /\ p.end = -1 /\ p.is_closed = FALSE
  BY <1>1
<1> HIDE DEF p
<1>4. /\ DOMAIN q = DOMAIN o /\ q.block = NoBlock /\ q.row_pos = INIT_POS /\ q.start = -1 /\ q.end = -1 /\ q.is_closed = FALSE /\ q.count = 0
  BY <1>1, <1>3
<1> HIDE DEF q
<1> QED
  BY <1>1, <1>2, <1>4

LEMMA InitResultSet == ResultSetInit => ResultSetInv
<1> SUFFICES ASSUME ResultSetInit PROVE ResultSetInv
  OBVIOUS
<1>1. /\ DOMAIN rs = {"block", "bridge", "row_pos", "count", "is_closed", "start", "end", "shared"}
      /\ rs.block = NoBlock /\ rs.row_pos = INIT_POS /\ rs.start = -1 /\ rs.end = -1
      /\ rs.count = 0 \/ rs.count = Len(SourceRows)
  BY InitFields
<1>2. RsType
  BY <1>1, ResultSetAssumption DEF RsType
<1>3. fill = Unfilled /\ reply = NoReply
  BY DEF ResultSetInit
<1>4. FillType /\ Settled /\ ReplyInv
  BY <1>3 DEF FillType, Settled, Unfilled, ReplyInv, NoReply
<1> QED
  BY <1>1, <1>2, <1>4 DEF ResultSetInv, WindowInv, FillInv

LEMMA NextResultSet == ResultSetInv /\ [ResultSetNext]_resultSetVars => ResultSetInv'
<1> SUFFICES ASSUME ResultSetInv, [ResultSetNext]_resultSetVars PROVE ResultSetInv'
  OBVIOUS
<1>1. CASE GoTo
  <2>1. PICK position \in 0 .. Len(SourceRows) - 1 : GoToRow(position)
    BY <1>1 DEF GoTo
  <2> QED
    BY <2>1, GoToRowKeeps
<1>2. CASE GoToRelative
  <2>1. PICK offset \in {-1, 1} : GoToRow(rs.row_pos + offset)
    BY <1>2 DEF GoToRelative
  <2>2. rs.row_pos + offset \in Int
    BY DEF ResultSetInv, RsType, INIT_POS
  <2> QED
    BY <2>1, <2>2, GoToRowKeeps
<1>3. CASE CloseResultSet \/ HandleClose
  <2>1. Settled /\ rs' = CloseOutcome(rs) /\ fill' = fill /\ reply'.end \in Int /\ reply'.end < 0
    BY <1>3 DEF CloseResultSet, HandleClose, NoReply, ResultSetInv, ReplyInv
  <2> QED
    BY <2>1, CloseKeeps
<1>4. CASE \/ \E kind \in {"long", "int", "double", "string", "blob", "null", "type"}, col \in 0 .. Columns - 1 :
                 Get(kind, col)
           \/ ProxyGetRowCount \/ StubDies \/ UNCHANGED resultSetVars
  <2>1. rs' = rs /\ fill' = fill /\ reply' = reply
    BY <1>4 DEF Get, ProxyGetRowCount, StubDies, resultSetVars
  <2> QED
    BY <2>1 DEF ResultSetInv, RsType, FillType, WindowInv, FillInv, FillOwner, AtRow, WholeRows, ReplyInv, Settled
<1> QED
  BY <1>1, <1>2, <1>3, <1>4, BridgeAllocRowKeeps, BridgeWriteCellKeeps, ProviderFreesLastRowKeeps, BridgeReturnsKeeps,
     BridgeFailsKeeps, ProviderFillsBlockKeeps, SetBlockKeeps, WriteToParcelKeeps, HandleOnGoKeeps
  DEF ResultSetNext

THEOREM ResultSetTyped == ResultSetSpec => []ResultSetInv
BY InitResultSet, NextResultSet, PTL DEF ResultSetSpec

\* The block of a result set never refers to one byte twice.
THEOREM RegionsAreDisjoint == ResultSetSpec => []BlockRegionsDisjoint
<1>1. ResultSetInv => BlockRegionsDisjoint
  BY DEF ResultSetInv, HasBlock, BlockInv, BlockRegionsDisjoint
<1> QED
  BY <1>1, ResultSetTyped, PTL

\* What the stub told the client is what lies in the memory they share.
THEOREM ReplyIsTrue == ResultSetSpec => []ReplyDescribesBlock
<1>1. ResultSetInv => ReplyDescribesBlock
  BY DEF ResultSetInv, ReplyInv, WindowInv, Holds, ReplyDescribesBlock
<1> QED
  BY <1>1, ResultSetTyped, PTL

(* What a reader is shown *)

\* Unless a bridge fails after it wrote rows, what the cursor can read is the row it
\* stands on, which may break off.
LEMMA ReadableRow ==
    ASSUME ResultSetInv, Settled, ~FailAfterRows, NEW col, Readable(rs, col)
    PROVE  /\ rs.row_pos \in 0 .. Len(SourceRows) - 1
           /\ \/ Whole(rs.block, BlockRowIndex(rs), Row(rs.row_pos))
              \/ BreaksOff(rs.block, BlockRowIndex(rs), Row(rs.row_pos))
<1> DEFINE b == rs.block
           i == BlockRowIndex(rs)
           n == b.row_nums
<1>1. /\ CheckState(rs, col) /\ b # NoBlock /\ HasCell(b, i, col) /\ HasBlock(b)
      /\ rs.row_pos \in 0 .. Len(SourceRows) - 1 /\ rs.start \in Int /\ rs.end \in Int
  BY DEF Readable, CheckState, ResultSetInv, RsType
<1>2. i \in 0 .. n - 1 /\ col \in 0 .. b.column_nums - 1
  BY <1>1 DEF HasCell
<1>3. n \in Nat
  BY <1>1, BlockIsBlock
<1>4. rs.start >= 0 /\ Holds(b, n, rs.start)
  <2>1. n # 0
    BY <1>2, <1>3
  <2> QED
    BY <1>1, <2>1 DEF ResultSetInv, WindowInv
<1>5. i = rs.row_pos - rs.start
  BY <1>1, <1>4 DEF BlockRowIndex
<1>6. i \in Int /\ rs.start + i = rs.row_pos
  BY <1>1, <1>5
<1> HIDE DEF b, i, n
<1>7. Whole(b, i, Row(rs.row_pos)) \/ BreaksOff(b, i, Row(rs.row_pos))
  BY <1>2, <1>4, <1>6 DEF Holds
<1> QED
  BY <1>1, <1>7 DEF b, i

\* Every null reads the same.
LEMMA NullReads ==
    ASSUME NEW v, v.type = "null",
           NEW kind \in {"long", "int", "double", "string", "blob", "null", "type"}
    PROVE  GetAs(kind, v) = GetAs(kind, NullCell)
<1>1. NullCell.type = "null"
  BY DEF NullCell
<1>2. ASSUME NEW w, w.type = "null"
      PROVE  /\ GetLong(w) = 0 /\ GetDouble(w) = 0 /\ GetString(w) = "" /\ GetBlob(w) = INVALID_OPERATION
             /\ IsColumnNull(w) = TRUE /\ GetColumnType(w) = "null"
  BY <1>2 DEF GetLong, GetDouble, GetString, GetBlob, IsColumnNull, GetColumnType
<1> QED
  BY <1>1, <1>2 DEF GetAs

\* An answer is given while the result set is the reader's own and has a block.
AnswerPlace == answer # NoAnswer => Settled /\ ~rs.shared /\ rs.block # NoBlock

Getting ==
    \E kind \in {"long", "int", "double", "string", "blob", "null", "type"}, col \in 0 .. Columns - 1 :
        Get(kind, col)

\* What was answered stays, or goes with the block it was read from.
LEMMA AnswerChanges ==
    ASSUME ResultSetInv, AnswerPlace, [ResultSetNext]_resultSetVars
    PROVE  answer' = NoAnswer \/ (answer' = answer /\ rs' = rs /\ fill' = fill) \/ Getting
<1>1. answer # NoAnswer => Settled /\ ~rs.shared /\ rs.block # NoBlock
  BY DEF AnswerPlace
<1>2. CASE GoTo \/ GoToRelative
  BY <1>2 DEF GoTo, GoToRelative, GoToRow
<1>3. CASE CloseResultSet \/ WriteToParcel
  BY <1>3 DEF CloseResultSet, WriteToParcel
<1>4. CASE BridgeAllocRow \/ BridgeWriteCell \/ ProviderFreesLastRow \/ BridgeReturns \/ BridgeFails \/ SetBlock
  <2>1. ~Settled /\ answer' = answer
    BY <1>4 DEF BridgeAllocRow, BridgeWriteCell, ProviderFreesLastRow, BridgeReturns, BridgeStops, BridgeFails,
       OnGoReturns, SetBlock, Settled
  <2> QED
    BY <1>1, <2>1
<1>5. CASE ProviderFillsBlock
  BY <1>1, <1>5 DEF ProviderFillsBlock
<1>6. CASE HandleOnGo \/ HandleClose \/ ProxyGetRowCount \/ StubDies
  <2>1. rs.shared /\ answer' = answer
    BY <1>6 DEF HandleOnGo, HandleClose, ProxyGetRowCount, StubDies
  <2> QED
    BY <1>1, <2>1
<1>7. CASE UNCHANGED resultSetVars
  BY <1>7 DEF resultSetVars
<1> QED
  BY <1>2, <1>3, <1>4, <1>5, <1>6, <1>7 DEF ResultSetNext, Getting

\* A getter that succeeds gives its cell, or what a null gives behind the break.
LEMMA GetReads ==
    ASSUME ~FailAfterRows, ResultSetInv,
           NEW kind \in {"long", "int", "double", "string", "blob", "null", "type"}, NEW col \in 0 .. Columns - 1,
           Get(kind, col)
    PROVE  AnswerPlace' /\ ReadsOwnRow'
<1> DEFINE b == rs.block
           i == BlockRowIndex(rs)
           row == Row(rs.row_pos)
<1>1. /\ Settled /\ ~rs.shared /\ Readable(rs, col) /\ rs' = rs /\ fill' = fill
      /\ answer' = [row |-> rs.row_pos, col |-> col, kind |-> kind, res |-> GetAs(kind, CellValue(b, i, col))]
  BY DEF Get, ReadCell
<1>2. /\ answer'.row = rs.row_pos /\ answer'.col = col /\ answer'.kind = kind
      /\ answer'.res = GetAs(kind, CellValue(b, i, col))
  BY <1>1
<1>3. AnswerPlace'
  BY <1>1 DEF AnswerPlace, Settled, Readable
<1>4. Whole(b, i, row) \/ BreaksOff(b, i, row)
  BY <1>1, ReadableRow
<1>5. BlockRowIndex(rs') = i
  BY <1>1 DEF BlockRowIndex
<1> HIDE DEF b, i, row
<1>6. CASE CellValue(b, i, col) = row[col]
  BY <1>2, <1>3, <1>6 DEF ReadsOwnRow, row
<1>7. CASE CellValue(b, i, col) # row[col]
  <2>1. PICK k \in 0 .. Columns - 1 : BreaksOffAt(b, i, row, k)
    BY <1>4, <1>7 DEF Whole, SameValue, BreaksOff
  <2>2. k \in 0 .. col
    BY <1>7, <2>1, ResultSetAssumption DEF BreaksOffAt, SameValue
  <2>3. CellValue(b, i, col).type = "null"
    BY <2>1, <2>2 DEF BreaksOffAt
  <2>4. GetAs(kind, CellValue(b, i, col)) = GetAs(kind, NullCell)
    BY <2>3, NullReads
  <2>5. /\ answer'.row = rs'.row_pos /\ answer'.res = GetAs(answer'.kind, NullCell)
        /\ BreaksOffAt(rs'.block, BlockRowIndex(rs'), Row(answer'.row), k) /\ k \in 0 .. answer'.col
    BY <1>1, <1>2, <1>5, <2>1, <2>2, <2>4 DEF b, row
  <2> QED
    BY <1>3, <2>5 DEF ReadsOwnRow
<1> QED
  BY <1>6, <1>7

LEMMA ReadsOwnRowKept ==
    ASSUME ~FailAfterRows, ResultSetInv, AnswerPlace, ReadsOwnRow, [ResultSetNext]_resultSetVars
    PROVE  AnswerPlace' /\ ReadsOwnRow'
<1>1. CASE answer' = NoAnswer
  BY <1>1 DEF AnswerPlace, ReadsOwnRow
<1>2. CASE answer' = answer /\ rs' = rs /\ fill' = fill
  BY <1>2 DEF AnswerPlace, ReadsOwnRow, Settled, BlockRowIndex
<1>3. CASE Getting
  BY <1>3, GetReads DEF Getting
<1> QED
  BY <1>1, <1>2, <1>3, AnswerChanges

\* A getter that succeeds gives the cell of the row the cursor stands on, or what a
\* null gives where that row breaks off.
THEOREM GettersReadOwnRow == ~FailAfterRows => (ResultSetSpec => []ReadsOwnRow)
<1> SUFFICES ASSUME ~FailAfterRows PROVE ResultSetSpec => []ReadsOwnRow
  OBVIOUS
<1>1. ResultSetInit => AnswerPlace /\ ReadsOwnRow
  BY DEF ResultSetInit, AnswerPlace, ReadsOwnRow
<1>2. ResultSetInv /\ AnswerPlace /\ ReadsOwnRow /\ [ResultSetNext]_resultSetVars => AnswerPlace' /\ ReadsOwnRow'
  BY ReadsOwnRowKept
<1> QED
  BY <1>1, <1>2, ResultSetTyped, PTL DEF ResultSetSpec

(* The result set implements its cursor *)

LEMMA ShownIsOwn ==
    ASSUME ResultSetInv, ~FailAfterRows
    PROVE  ShownRow \in {rs.row_pos, TornRow, NoRow} /\ (ShownRow # NoRow => rs.row_pos \in 0 .. Len(SourceRows) - 1)
<1>1. CASE Settled /\ ~rs.shared /\ Readable(rs, 0)
  BY <1>1, ReadableRow DEF ShownRow
<1>2. CASE ~(Settled /\ ~rs.shared /\ Readable(rs, 0))
  BY <1>2 DEF ShownRow
<1> QED
  BY <1>1, <1>2

\* Nothing is shown while a bridge fills the block, to a client, or of a block that
\* has no rows.
LEMMA NoneShown ==
    ASSUME ~Settled \/ rs.shared \/ rs.is_closed \/ rs.block = NoBlock \/ rs.block.row_nums = 0
    PROVE  ShownRow = NoRow
<1>1. ASSUME Settled, ~rs.shared, Readable(rs, 0) PROVE FALSE
  BY <1>1 DEF Readable, CheckState, HasCell
<1> QED
  BY <1>1 DEF ShownRow

LEMMA ShownKept ==
    ASSUME rs' = rs, fill' = fill
    PROVE  ShownRow' = ShownRow /\ UNCHANGED <<rs.row_pos, ShownRow, rs.is_closed>>
BY DEF ShownRow, Settled, Readable, CheckState, BlockRowIndex

LEMMA ShownIsOwnNext ==
    (ResultSetInv /\ ~FailAfterRows =>
        ShownRow \in {rs.row_pos, TornRow, NoRow} /\ (ShownRow # NoRow => rs.row_pos \in 0 .. Len(SourceRows) - 1))'
<1>1. ResultSetInv /\ ~FailAfterRows =>
        ShownRow \in {rs.row_pos, TornRow, NoRow} /\ (ShownRow # NoRow => rs.row_pos \in 0 .. Len(SourceRows) - 1)
  BY ShownIsOwn
<1> QED
  BY <1>1, PTL

LEMMA NoneShownNext ==
    (~Settled \/ rs.shared \/ rs.is_closed \/ rs.block = NoBlock \/ rs.block.row_nums = 0 => ShownRow = NoRow)'
<1>1. ~Settled \/ rs.shared \/ rs.is_closed \/ rs.block = NoBlock \/ rs.block.row_nums = 0 => ShownRow = NoRow
  BY NoneShown
<1> QED
  BY <1>1, PTL

\* The cursor that loses its row.
LEMMA IsLose ==
    ASSUME rs'.row_pos = rs.row_pos, rs'.is_closed = rs.is_closed,
           ~Settled' \/ rs'.shared \/ rs'.block = NoBlock \/ rs'.block.row_nums = 0
    PROVE  Cursor!Lose
BY NoneShownNext DEF Cursor!Lose

LEMMA IsMove ==
    ASSUME ResultSetInv', ~FailAfterRows, ~rs.is_closed, rs'.is_closed = rs.is_closed,
           rs'.row_pos \in 0 .. Len(SourceRows) - 1
    PROVE  Cursor!Move
BY ShownIsOwnNext DEF Cursor!Move

LEMMA IsClose ==
    ASSUME rs' = CloseOutcome(rs), ResultSetInv
    PROVE  Cursor!Close
<1>1. rs'.is_closed = TRUE /\ rs'.block = NoBlock /\ rs'.row_pos = rs.row_pos
  BY DEF CloseOutcome, ResultSetInv, RsType
<1> QED
  BY <1>1, NoneShownNext DEF Cursor!Close

\* The fetch that begins, or that cannot begin, shows nothing.
LEMMA OnGoLoses ==
    ASSUME ResultSetInv, NEW for, NEW first, NEW last, NEW goal, OnGo(for, first, last, goal)
    PROVE  Cursor!Lose
<1> DEFINE b == Ready(rs).b
<1>1. b.row_nums = 0
  BY ReadyBlock
<1>2. PICK o \in OnGoOutcomes(rs, Filling(for, first, last, goal)) : rs' = o.rs /\ fill' = o.fill
  BY DEF OnGo
<1>3. \/ o.rs = [rs EXCEPT !.block = b]
      \/ o.rs = [rs EXCEPT !.block = b, !.start = -1, !.end = -1]
      \/ rs.block = NoBlock /\ o.rs = rs
  <2> HIDE DEF b
  <2> QED
    BY <1>2 DEF OnGoOutcomes, b
<1> HIDE DEF b
<1>4. /\ rs'.row_pos = rs.row_pos /\ rs'.is_closed = rs.is_closed
      /\ rs'.block = NoBlock \/ rs'.block = b
  BY <1>2, <1>3 DEF ResultSetInv, RsType
<1> QED
  BY <1>1, <1>4, IsLose

LEMMA CursorStep ==
    ASSUME ~FailAfterRows, ResultSetInv, ResultSetInv', [ResultSetNext]_resultSetVars
    PROVE  [Cursor!CursorNext]_(Cursor!cursorVars)
<1>1. ASSUME NEW position \in Int, GoToRow(position)
      PROVE  Cursor!CursorNext
  <2>1. /\ ~rs.is_closed /\ 0 <= position /\ position < rs.count
        /\ rs.count \in 0 .. Len(SourceRows) /\ Len(SourceRows) \in Nat
    BY <1>1, ResultSetAssumption DEF GoToRow, Moves, ResultSetInv, RsType
  <2>2. position \in 0 .. Len(SourceRows) - 1
    BY <2>1
  <2>3. CASE rs' = [rs EXCEPT !.row_pos = position]
    <3>1. rs'.row_pos = position /\ rs'.is_closed = rs.is_closed
      BY <2>3 DEF ResultSetInv, RsType
    <3> QED
      BY <2>1, <2>2, <3>1, IsMove DEF Cursor!CursorNext
  <2>4. CASE OnGo("cursor", position, rs.count - 1, position)
    BY <2>4, OnGoLoses DEF Cursor!CursorNext
  <2> QED
    BY <1>1, <2>3, <2>4 DEF GoToRow
<1>2. CASE GoTo
  <2>1. PICK position \in 0 .. Len(SourceRows) - 1 : GoToRow(position)
    BY <1>2 DEF GoTo
  <2> QED
    BY <1>1, <2>1
<1>3. CASE GoToRelative
  <2>1. PICK offset \in {-1, 1} : GoToRow(rs.row_pos + offset)
    BY <1>3 DEF GoToRelative
  <2>2. rs.row_pos + offset \in Int
    BY DEF ResultSetInv, RsType, INIT_POS
  <2> QED
    BY <1>1, <2>1, <2>2
<1>4. CASE CloseResultSet \/ HandleClose
  BY <1>4, IsClose DEF CloseResultSet, HandleClose, Cursor!CursorNext
<1>5. CASE \/ \E kind \in {"long", "int", "double", "string", "blob", "null", "type"}, col \in 0 .. Columns - 1 :
                 Get(kind, col)
           \/ ProxyGetRowCount \/ StubDies \/ UNCHANGED resultSetVars
  <2>1. rs' = rs /\ fill' = fill
    BY <1>5 DEF Get, ProxyGetRowCount, StubDies, resultSetVars
  <2> QED
    BY <2>1, ShownKept DEF Cursor!cursorVars
\* The calls of the bridge
<1>6. CASE BridgeAllocRow \/ BridgeWriteCell \/ ProviderFreesLastRow
  <2>1. PICK b : rs' = [rs EXCEPT !.block = b]
    BY <1>6 DEF BridgeAllocRow, BridgeWriteCell, ProviderFreesLastRow
  <2>2. rs'.row_pos = rs.row_pos /\ rs'.is_closed = rs.is_closed
    BY <2>1 DEF ResultSetInv, RsType
  <2>3. ~Settled'
    <3>1. fill'.at # "idle"
      BY <1>6 DEF BridgeAllocRow, BridgeWriteCell, ProviderFreesLastRow, ResultSetInv, FillType
    <3> QED
      BY <3>1 DEF Settled
  <2> QED
    BY <2>2, <2>3, IsLose DEF Cursor!CursorNext
<1>7. ASSUME NEW ok \in BOOLEAN, ~Settled, OnGoReturns(ok)
      PROVE  Cursor!CursorNext
  <2> DEFINE w == Window(rs, ok)
  <2>1. /\ DOMAIN w = DOMAIN rs /\ w.block = rs.block /\ w.row_pos = rs.row_pos /\ w.is_closed = rs.is_closed
        /\ w.shared = rs.shared
    BY WindowIs DEF ResultSetInv
  <2>2. \/ fill.for = "cursor" /\ rs' = [w EXCEPT !.row_pos = IF ok THEN fill.goal ELSE @]
        \/ fill.for = "client" /\ rs' = w
    BY <1>7 DEF OnGoReturns
  <2>3. FillOwner
    BY <1>7 DEF ResultSetInv, FillInv
  <2> HIDE DEF w
  <2>4. CASE fill.for = "client" /\ rs' = w
    BY <2>1, <2>3, <2>4, IsLose DEF FillOwner, Cursor!CursorNext
  <2>5. CASE fill.for = "cursor" /\ rs' = [w EXCEPT !.row_pos = IF ok THEN fill.goal ELSE @]
    <3>1. /\ rs'.row_pos = IF ok THEN fill.goal ELSE rs.row_pos
          /\ rs'.is_closed = rs.is_closed /\ ~rs.is_closed
      BY <2>1, <2>3, <2>5 DEF ResultSetInv, RsType, FillOwner
    <3>2. rs'.row_pos = INIT_POS \/ rs'.row_pos \in 0 .. Len(SourceRows) - 1
      BY DEF ResultSetInv, RsType
    <3>3. CASE rs'.row_pos \in 0 .. Len(SourceRows) - 1
      BY <3>1, <3>3, IsMove DEF Cursor!CursorNext
    <3>4. CASE rs'.row_pos \notin 0 .. Len(SourceRows) - 1
      <4>1. rs'.row_pos = rs.row_pos
        BY <2>3, <2>5, <3>1, <3>4 DEF FillOwner
      <4>2. ShownRow' = NoRow
        BY <3>4, ShownIsOwnNext
      <4> QED
        BY <3>1, <4>1, <4>2 DEF Cursor!CursorNext, Cursor!Lose
    <3> QED
      BY <3>3, <3>4
  <2> QED
    BY <2>2, <2>4, <2>5
<1>8. CASE BridgeReturns \/ BridgeFails
  BY <1>7, <1>8 DEF BridgeReturns, BridgeStops, BridgeFails, Settled
\* A block is filled by its provider and handed over
<1>9. CASE ProviderFillsBlock
  <2>1. rs' = [rs EXCEPT !.block = Ready(rs).b] /\ fill' = Filling("provider", 0, Len(SourceRows) - 1, 0)
    BY <1>9 DEF ProviderFillsBlock
  <2>2. rs'.row_pos = rs.row_pos /\ rs'.is_closed = rs.is_closed
    BY <2>1 DEF ResultSetInv, RsType
  <2>3. ~Settled'
    BY <2>1 DEF Settled, Filling
  <2> QED
    BY <2>2, <2>3, IsLose DEF Cursor!CursorNext
<1>10. CASE SetBlock
  <2> DEFINE n == rs.block.row_nums
  <2>1. fill.for = "provider" /\ ~Settled /\ rs' = [rs EXCEPT !.count = n, !.start = 0, !.end = n - 1]
    BY <1>10 DEF SetBlock, BridgeStops, Settled
  <2>2. ~rs.is_closed
    BY <2>1 DEF ResultSetInv, FillInv, FillOwner
  <2> HIDE DEF n
  <2>3. rs'.row_pos = rs.row_pos /\ rs'.is_closed = rs.is_closed
    BY <2>1 DEF ResultSetInv, RsType
  <2>4. CASE rs'.row_pos \in 0 .. Len(SourceRows) - 1
    BY <2>2, <2>3, <2>4, IsMove DEF Cursor!CursorNext
  <2>5. CASE rs'.row_pos \notin 0 .. Len(SourceRows) - 1
    BY <2>3, <2>5, ShownIsOwnNext DEF Cursor!CursorNext, Cursor!Lose
  <2> QED
    BY <2>4, <2>5
<1>11. CASE WriteToParcel
  <2>1. PICK b : rs' = [rs EXCEPT !.shared = TRUE, !.block = b]
    BY <1>11 DEF WriteToParcel
  <2>2. rs'.row_pos = rs.row_pos /\ rs'.is_closed = rs.is_closed /\ rs'.shared
    BY <2>1 DEF ResultSetInv, RsType
  <2> QED
    BY <2>2, IsLose DEF Cursor!CursorNext
<1>12. CASE HandleOnGo
  <2>1. PICK first \in 0 .. Len(SourceRows) - 1, target \in 0 .. Len(SourceRows) - 1 :
            OnGo("client", first, target, 0) \/ (rs' = rs /\ fill' = fill)
    BY <1>12 DEF HandleOnGo
  <2>2. CASE OnGo("client", first, target, 0)
    BY <2>2, OnGoLoses DEF Cursor!CursorNext
  <2>3. CASE rs' = rs /\ fill' = fill
    BY <2>3, ShownKept DEF Cursor!cursorVars
  <2> QED
    BY <2>1, <2>2, <2>3
<1> QED
  BY <1>2, <1>3, <1>4, <1>5, <1>6, <1>8, <1>9, <1>10, <1>11, <1>12 DEF ResultSetNext

\* A result set implements a cursor over the rows of its source: every step of one
\* is a step of the other or changes nothing that a reader sees.
THEOREM ResultSetIsCursor == ~FailAfterRows => (ResultSetSpec => ImplementsCursor)
<1> SUFFICES ASSUME ~FailAfterRows PROVE ResultSetSpec => Cursor!CursorSpec
  BY DEF ImplementsCursor
<1>1. ResultSetInit => Cursor!CursorInit
  <2> SUFFICES ASSUME ResultSetInit PROVE Cursor!CursorInit
    OBVIOUS
  <2>1. rs.block = NoBlock /\ rs.row_pos = -1
    BY InitFields DEF INIT_POS
  <2>2. rs.is_closed = FALSE
    BY InitFields
  <2> QED
    BY <2>1, <2>2, NoneShown DEF Cursor!CursorInit
<1>2. ResultSetInv /\ ResultSetInv' /\ [ResultSetNext]_resultSetVars => [Cursor!CursorNext]_(Cursor!cursorVars)
  BY CursorStep
<1> QED
  BY <1>1, <1>2, ResultSetTyped, PTL DEF ResultSetSpec, Cursor!CursorSpec
=============================================================================
