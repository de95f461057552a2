------------------------ MODULE MCThreadSafeScheduler ------------------------
(* Instances of ThreadSafeScheduler for TLC. *)
EXTENDS ThreadSafeScheduler, TLC

CONSTANTS p1, p2, d1, d2, d3

\* Two requests of the same priority and length, one urgent, one short.
MCRequest ==
    {[id |-> 1, priority |-> 1, est_tokens |-> 8],
     [id |-> 2, priority |-> 1, est_tokens |-> 8],
     [id |-> 3, priority |-> 1, est_tokens |-> 2],
     [id |-> 4, priority |-> 10, est_tokens |-> 1]}

MCFewRequests == {request \in MCRequest : request.id < 4}

MCSymmetry == Permutations({p1, p2}) \cup Permutations({d1, d2, d3})
=============================================================================
