------------------------ MODULE MCPublishedSubscriber ------------------------
(***************************************************************************)
(* PublishedDataSubscriberManager for TLC.                                 *)
(***************************************************************************)
EXTENDS PublishedDataSubscriberManager, TLC

\* Observers are not interchangeable: their numbers are the order of
\* registration.
Symmetry ==
    Permutations(Keys) \cup Permutations(Subscribers) \cup Permutations(Threads)

=============================================================================
