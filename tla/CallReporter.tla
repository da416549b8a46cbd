----------------------------- MODULE CallReporter -----------------------------
(***************************************************************************)
(* CallReporter (call_reporter.rs): the calls of a function are counted    *)
(* under one lock, and a function that was called ACCESS_COUNT_THRESHOLD   *)
(* times in a window of TIME_THRESHOLD is refused until the window ends.   *)
(* The log lines are left out but for the flag that limits them.           *)
(***************************************************************************)
EXTENDS Integers, Sequences, FiniteSets

CONSTANTS
    RESET_COUNT_THRESHOLD,    \* 100 in the code
    ACCESS_COUNT_THRESHOLD,   \* 3000 in the code
    TIME_THRESHOLD,           \* 30000 ms in the code
    Funcs,                    \* the counted functions
    MaxTime, MaxCalls         \* bounds of the run: last instant, calls of a function

ASSUME CallReporterAssumption ==
    /\ RESET_COUNT_THRESHOLD \in Nat \ {0} /\ ACCESS_COUNT_THRESHOLD \in Nat \ {0}
    /\ TIME_THRESHOLD \in Nat \ {0} /\ MaxTime \in Nat /\ MaxCalls \in Nat

VARIABLES
    now,          \* CLOCK_BOOTTIME, which never goes back
    call_counts,  \* function -> CallInfo, for the functions with an entry
    calls         \* function -> its calls since the clock last failed for it: [at, over]

reporterVars == <<now, call_counts, calls>>

NewCallInfo == [count |-> 0, total_count |-> 0, first_time |-> 0, start_time |-> 0,
                log_print_flag |-> FALSE]

\* Mutant: a new window keeps the start of the old one.
WindowMutant(info, curr) ==
    IF curr - info.start_time >= TIME_THRESHOLD \/ curr < info.start_time
    THEN [info EXCEPT !.total_count = 0, !.log_print_flag = FALSE]
    ELSE info

\* The window of the access threshold starts with the first call, and again
\* when it is over.
Window(info, curr) ==
    LET started == IF info.total_count = 0 THEN [info EXCEPT !.start_time = curr] ELSE info
    IN  IF curr - started.start_time >= TIME_THRESHOLD \/ curr < started.start_time
        THEN [started EXCEPT !.start_time = curr, !.total_count = 0, !.log_print_flag = FALSE]
        ELSE started

\* update_call_counts_locked: the entry after a call at curr.
UpdateCallCounts(info, curr) ==
    LET n == info.count + 1
        w == Window(info, curr)
    IN  [w EXCEPT !.count = IF n % RESET_COUNT_THRESHOLD = 0 THEN 0 ELSE n,
                  !.first_time = IF info.count = 0 THEN curr ELSE @,
                  !.total_count = @ + 1]

IsOverThreshold(info) == info.total_count >= ACCESS_COUNT_THRESHOLD

ReporterInit == now = 0 /\ call_counts = <<>> /\ calls = [f \in Funcs |-> <<>>]

\* set_call_count of the manager, which is count: one call under the lock, the
\* first refusal of a window logged.
Count(f) ==
    LET info == UpdateCallCounts(IF f \in DOMAIN call_counts THEN call_counts[f] ELSE NewCallInfo, now)
        over == IsOverThreshold(info)
    IN  /\ Len(calls[f]) < MaxCalls
        /\ call_counts' = [g \in DOMAIN call_counts \cup {f} |->
               IF g = f THEN [info EXCEPT !.log_print_flag = @ \/ over] ELSE call_counts[g]]
        /\ calls' = [calls EXCEPT ![f] = Append(@, [at |-> now, over |-> over])]
        /\ UNCHANGED now

\* A call whose clock_gettime fails: the entry is removed, the call passes.
CountWithoutClock(f) ==
    /\ call_counts # <<>>
    /\ call_counts' = [g \in DOMAIN call_counts \ {f} |-> call_counts[g]]
    /\ calls' = [calls EXCEPT ![f] = <<>>]
    /\ UNCHANGED now

Tick == now < MaxTime /\ now' = now + 1 /\ UNCHANGED <<call_counts, calls>>

ReporterNext == Tick \/ \E f \in Funcs : Count(f) \/ CountWithoutClock(f)

ReporterSpec == ReporterInit /\ [][ReporterNext]_reporterVars

----------------------------------------------------------------------------
\* The calls of f in a stretch of time that were refused, or were not.
Within(f, from, to, over) ==
    {i \in DOMAIN calls[f] : calls[f][i].at \in from .. to /\ calls[f][i].over \in over}

\* The limit holds across the borders of the windows: in no stretch of
\* TIME_THRESHOLD does a function get more than two windows of calls through,
\* and a refused call had ACCESS_COUNT_THRESHOLD calls, itself included, in the
\* stretch before it.
LimitsCallRate ==
    \A f \in Funcs :
        /\ \A t \in 0 .. MaxTime :
              Cardinality(Within(f, t, t + TIME_THRESHOLD - 1, {FALSE})) <= 2 * (ACCESS_COUNT_THRESHOLD - 1)
        /\ \A i \in DOMAIN calls[f] :
              calls[f][i].over =>
                  LET at == calls[f][i].at IN
                  Cardinality(Within(f, at - TIME_THRESHOLD + 1, at, BOOLEAN)) >= ACCESS_COUNT_THRESHOLD
=============================================================================
