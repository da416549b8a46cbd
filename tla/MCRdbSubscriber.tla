--------------------------- MODULE MCRdbSubscriber ---------------------------
(***************************************************************************)
(* RdbSubscriberManager for TLC.                                           *)
(***************************************************************************)
EXTENDS RdbSubscriberManager, TLC

\* Keys, subscribers and threads are interchangeable; observers are not, their
\* numbers are the order of registration.
Symmetry ==
    Permutations(Keys) \cup Permutations(Subscribers) \cup Permutations(Threads)

=============================================================================
