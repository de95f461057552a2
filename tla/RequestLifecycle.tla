-------------------------- MODULE RequestLifecycle --------------------------
(***************************************************************************)
(* What the gateway promises to its HTTP clients, without ranks, frames or *)
(* threads: a queued request is served, one request at a time and the      *)
(* urgent and short ones first, and then keeps one answer for ever.  The   *)
(* gateway may stop at any moment and leave requests unserved.             *)
(***************************************************************************)
EXTENDS Integers

CONSTANTS
    Request,            \* records with id, priority and est_tokens
    Answers             \* [Request -> the set of answers it may get]

VARIABLES
    pending,            \* requests accepted and not yet served
    serving,            \* the request being served, if any
    answers             \* the answers given, by request id

vars == <<pending, serving, answers>>

\* r is to be served before s.
Before(r, s) ==
    \/ r.priority > s.priority
    \/ r.priority = s.priority /\ r.est_tokens < s.est_tokens

IdsInUse == {r.id : r \in pending \cup serving} \cup DOMAIN answers

Init ==
    /\ pending = {}
    /\ serving = {}
    /\ answers = [id \in {} |-> <<>>]

Submit(r) ==
    /\ pending' = pending \cup {r}
    /\ r.id \notin IdsInUse
    /\ UNCHANGED <<serving, answers>>

Serve(r) ==
    /\ serving = {}
    /\ r \in pending
    /\ \A s \in pending : ~Before(s, r)
    /\ pending' = pending \ {r}
    /\ serving' = {r}
    /\ UNCHANGED answers

Answer(r) ==
    /\ r \in serving
    /\ serving' = {}
    /\ \E answer \in Answers[r] :
        answers' = [id \in DOMAIN answers \cup {r.id} |->
                        IF id = r.id THEN answer ELSE answers[id]]
    /\ UNCHANGED pending

Next ==
    \E r \in Request : Submit(r) \/ Serve(r) \/ Answer(r)

Spec == Init /\ [][Next]_vars
=============================================================================
