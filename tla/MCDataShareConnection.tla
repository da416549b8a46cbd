----------------------- MODULE MCDataShareConnection -----------------------
(***************************************************************************)
(* DataShareConnection for TLC.                                            *)
(***************************************************************************)
EXTENDS DataShareConnection, TLC

\* Client threads, binder threads and observers are interchangeable.
Symmetry ==
    Permutations(Clients) \cup Permutations(CallbackThreads) \cup Permutations(Observers)

=============================================================================
