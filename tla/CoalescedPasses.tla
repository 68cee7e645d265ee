-------------------------- MODULE CoalescedPasses --------------------------
(***************************************************************************)
(* What offload_job.h promises the owner of a background job, without the  *)
(* worker thread, the eventfd or libev: every request is answered by a     *)
(* pass that began after it, a burst of requests folds into at most one    *)
(* further pass, and one pass at a time touches the owner's fields.        *)
(***************************************************************************)
EXTENDS Naturals

CONSTANT Jobs

VARIABLES
    want,   \* requests made so far: the version of the owner's inputs
    taken,  \* version of the inputs the last pass began with
    seen,   \* version of the results the listener has read
    owed,   \* passes still owed to the owner, the one in flight included
    stage,  \* what the pass in flight is doing
    open    \* jobs whose owner still exists

cvars == <<want, taken, seen, owed, stage, open>>

CInit ==
    /\ want  = [j \in Jobs |-> 0]
    /\ taken = [j \in Jobs |-> 0]
    /\ seen  = [j \in Jobs |-> 0]
    /\ owed  = [j \in Jobs |-> 0]
    /\ stage = [j \in Jobs |-> "rest"]
    /\ open  = Jobs

\* A request while nothing is owed owes a pass; any number of requests made
\* while a pass is owed owe one more.
Request(j) ==
    /\ j \in open
    /\ want' = [want EXCEPT ![j] = @ + 1]
    /\ owed' = [owed EXCEPT ![j] = IF @ = 0 THEN 1 ELSE 2]
    /\ UNCHANGED <<taken, seen, stage, open>>

Begin(j) ==
    /\ j \in open
    /\ owed[j] > 0
    /\ stage[j] = "rest"
    /\ taken' = [taken EXCEPT ![j] = want[j]]
    /\ stage' = [stage EXCEPT ![j] = "work"]
    /\ UNCHANGED <<want, seen, owed, open>>

End(j) ==
    /\ stage[j] = "work"
    /\ stage' = [stage EXCEPT ![j] = "done"]
    /\ UNCHANGED <<want, taken, seen, owed, open>>

\* The completion: the listener reads the results and may itself make n
\* requests; those stand in for a re-run that was owed.
Deliver(j) ==
    /\ j \in open
    /\ stage[j] = "done"
    /\ \E n \in 0..2 :
        /\ want' = [want EXCEPT ![j] = @ + n]
        /\ owed' = [owed EXCEPT ![j] = IF n = 0 THEN @ - 1 ELSE n]
    /\ seen'  = [seen EXCEPT ![j] = taken[j]]
    /\ stage' = [stage EXCEPT ![j] = "rest"]
    /\ UNCHANGED <<taken, open>>

\* The owner may go away only when no pass touches its fields and none will.
Close(j) ==
    /\ j \in open
    /\ owed[j] = 0 \/ stage[j] = "done"
    /\ open' = open \ {j}
    /\ UNCHANGED <<want, taken, seen, owed, stage>>

CNext == \E j \in Jobs :
    Request(j) \/ Begin(j) \/ End(j) \/ Deliver(j) \/ Close(j)

Promise == CInit /\ [][CNext]_cvars

FairPromise ==
    /\ Promise
    /\ \A j \in Jobs :
        WF_cvars(Begin(j)) /\ WF_cvars(End(j)) /\ WF_cvars(Deliver(j))
=============================================================================
