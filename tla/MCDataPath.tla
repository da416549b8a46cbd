------------------------------ MODULE MCDataPath ------------------------------
(***************************************************************************)
(* Result sets, the C interface of their block, JSON nodes, the calls of an *)
(* extension and the helpers of the ArkTS binding, for TLC.  They share no *)
(* state: a behaviour is one of one of them, which Init chooses, and the   *)
(* others stay as they begin.  JsonNode, which no theorem is about, is     *)
(* instantiated, the others are extended.                                  *)
(***************************************************************************)
EXTENDS ResultSet, BlockFfi, ExtensionCall, AniHelper

CONSTANTS
    Parts,           \* the components of the run
    JsonKeys, Width16, Width32, Width64

VARIABLES
    part,
    node, text, stored

----------------------------------------------------------------------------
\* Five rows of two columns, of which a block of 70 bytes holds two, and one when
\* the row with the string of nine bytes comes second.  A text that is a number,
\* one that is not, nulls, a blob, a fraction, and an integer of more than IntBits
\* bits are among the cells.
Integer(v) == [type |-> "integer", val |-> v]
Str(v, size) == [type |-> "string", val |-> v, size |-> size]
Null == [type |-> "null"]
SampleRows == <<
    0 :> Integer(3) @@ 1 :> Str("7", 2),
    0 :> Integer(9) @@ 1 :> Str("x", 5),
    0 :> Null @@ 1 :> [type |-> "blob", val |-> "bb", size |-> 3],
    0 :> [type |-> "float", val |-> 25] @@ 1 :> Str("y", 9),
    0 :> Integer(4) @@ 1 :> Null >>
NumberOf(s) == IF s = "7" THEN 7 ELSE 0
TenthsOf(s) == 10 * NumberOf(s)

WrittenValues == {Integer(3), Str("x", 5)}

\* Numbers inside, at and beyond the ends of the widths of the run.
JsonNumbers == {-8, -2, 0, 3, 4, 5, 9, 15}

----------------------------------------------------------------------------
Json == INSTANCE JsonNode

jsonVars == <<node, text, stored>>
vars == <<part, resultSetVars, blockVars, jsonVars, extVars, helperVars>>

Init ==
    /\ part \in Parts
    /\ ResultSetInit /\ (part # "cursor" => rs = OverBridge)
    /\ BlockFfiInit
    /\ Json!JsonInit
    /\ ExtensionInit
    /\ AniHelperInit

CursorStep ==
    /\ part = "cursor" /\ ResultSetNext
    /\ UNCHANGED <<part, blockVars, jsonVars, extVars, helperVars>>
BlockStep ==
    /\ part = "block" /\ BlockFfiNext
    /\ UNCHANGED <<part, resultSetVars, jsonVars, extVars, helperVars>>
JsonStep ==
    /\ part = "json" /\ Json!JsonNext
    /\ UNCHANGED <<part, resultSetVars, blockVars, extVars, helperVars>>
ExtensionStep ==
    /\ part = "extension" /\ ExtensionNext
    /\ UNCHANGED <<part, resultSetVars, blockVars, jsonVars, helperVars>>
HelperStep ==
    /\ part = "helper" /\ AniHelperNext
    /\ UNCHANGED <<part, resultSetVars, blockVars, jsonVars, extVars>>

Next == CursorStep \/ BlockStep \/ JsonStep \/ ExtensionStep \/ HelperStep

\* An IPC thread goes on with the request it serves, and the main thread finishes
\* a task it has begun.  That it begins one, and that a handler answers, is up to
\* the application.
Fairness ==
    /\ \A t \in IpcThreads : WF_extVars(ThreadStep(t))
    /\ WF_extVars(TaskStep)

Spec == Init /\ [][Next]_vars /\ Fairness

----------------------------------------------------------------------------
\* A getter of a JSON node gives the value that was set last under its name, with
\* the conversions of its type, after any sequence of sets, dumps and parses.
GetterGivesStored == part = "json" => Json!GetterGivesStored
=============================================================================
