----------------------------- MODULE OffloadJob -----------------------------
(***************************************************************************)
(* offload_job.cpp: background jobs whose passes run on the composer's one *)
(* shared worker thread and complete on the event loop through an eventfd. *)
(*                                                                         *)
(* Two threads interleave.  The loop thread runs one callback at a time    *)
(* and is split only where the worker can be observed: between draining    *)
(* the eventfd and loading the completion counter, and while it waits in   *)
(* ThreadPool::join.  The worker is split at every write the loop can see. *)
(***************************************************************************)
EXTENDS Naturals, Sequences

CONSTANTS
    Jobs,        \* the OffloadJob objects that share the lane
    DrainJobs,   \* those whose owner calls drain() (renderer.cpp: the shm copy)
    MortalJobs,  \* those whose owner goes away while the lane lives on
    CounterSize, \* completion and retiredPasses are counters modulo this (2^32)
    MaxRequests, \* bound: run() calls per job
    NoJob        \* "no job" for the worker and the loop

ASSUME JobsAssumption == NoJob \notin Jobs
ASSUME DrainAssumption == DrainJobs \subseteq Jobs
ASSUME MortalAssumption == MortalJobs \subseteq Jobs
ASSUME CounterAssumption == CounterSize \in Nat /\ CounterSize >= 2
ASSUME BoundAssumption == MaxRequests \in Nat

VARIABLES
    busy,          \* a pass is in flight (loop only)
    again,         \* a coalesced request is owed one more pass (loop only)
    completion,    \* passes the worker finished (atomic)
    retiredPasses, \* passes whose completion the loop has run (loop only)
    efd,           \* the eventfd's counter is not zero
    pending,       \* wakeups libev collected and has not dispatched yet
    alive,         \* jobs not destroyed
    lane,          \* tasks queued on the shared pool
    worker,        \* the worker thread: its task's job and where it stands
    loop,          \* the loop thread: where it stands between two callbacks
    want,          \* history: run() calls, the version of the owner's inputs
    taken,         \* history: version the last pass began with
    seen           \* history: version the listener last read

jobVars    == <<busy, again, retiredPasses>>
workerVars == <<completion, worker, taken>>
vars == <<busy, again, completion, retiredPasses, efd, pending, alive, lane,
          worker, loop, want, taken, seen>>

WorkerAt == {"idle", "work", "signal", "leave"}
LoopAt   == {"idle", "join", "fetch"}
LoopBy   == {"io", "drain", "destroy"}

Idle     == [at |-> "idle", job |-> NoJob, by |-> "io"]
AtRest   == [at |-> "idle", job |-> NoJob]

InLane(j)    == \E p \in DOMAIN lane : lane[p] = j
Working(j)   == worker.at = "work" /\ worker.job = j
Signalling(j) == worker.at = "signal" /\ worker.job = j
Fetching(j)  == loop.at = "fetch" /\ loop.job = j
Finished(j)  == completion[j] # retiredPasses[j]

\* Mutants are named for the bug they stand for and precede what they mutate.
BumpPastTheEnd(n) == n + 1

\* The release increment of the u32 counter, which wraps.
Bump(n) == IF n = CounterSize - 1 THEN 0 ELSE n + 1

Init ==
    /\ busy          = [j \in Jobs |-> FALSE]
    /\ again         = [j \in Jobs |-> FALSE]
    /\ completion    = [j \in Jobs |-> 0]
    /\ retiredPasses = [j \in Jobs |-> 0]
    /\ efd           = [j \in Jobs |-> FALSE]
    /\ pending       = {}
    /\ alive         = Jobs
    /\ lane          = << >>
    /\ worker        = AtRest
    /\ loop          = Idle
    /\ want          = [j \in Jobs |-> 0]
    /\ taken         = [j \in Jobs |-> 0]
    /\ seen          = [j \in Jobs |-> 0]

-----------------------------------------------------------------------------
(* The worker: one thread, first in first out.                             *)

\* The task enters work(self) and reads the inputs the owner has published.
BeginPass ==
    /\ worker.at = "idle"
    /\ lane # << >>
    /\ worker' = [at |-> "work", job |-> Head(lane)]
    /\ lane'   = Tail(lane)
    /\ taken'  = [taken EXCEPT ![Head(lane)] = want[Head(lane)]]
    /\ UNCHANGED <<jobVars, completion, efd, pending, alive, loop, want, seen>>

\* work(self) returned: the pass is published by the release increment.
FinishWork ==
    /\ worker.at = "work"
    /\ completion' = [completion EXCEPT ![worker.job] = Bump(@)]
    /\ worker'     = [worker EXCEPT !.at = "signal"]
    /\ UNCHANGED <<jobVars, efd, pending, alive, lane, loop, want, taken, seen>>

SignalOnlyWhenLaneDrains ==
    /\ worker.at = "signal"
    /\ efd'    = [efd EXCEPT ![worker.job] = @ \/ lane = << >>]
    /\ worker' = [worker EXCEPT !.at = "leave"]
    /\ UNCHANGED <<jobVars, completion, pending, alive, lane, loop, want, taken, seen>>

\* fd.signal(): the worker's last access to the job.
Signal ==
    /\ worker.at = "signal"
    /\ efd'    = [efd EXCEPT ![worker.job] = TRUE]
    /\ worker' = [worker EXCEPT !.at = "leave"]
    /\ UNCHANGED <<jobVars, completion, pending, alive, lane, loop, want, taken, seen>>

\* The pool drops its inflight count once the task has returned.
LeaveTask ==
    /\ worker.at = "leave"
    /\ worker' = AtRest
    /\ UNCHANGED <<jobVars, completion, efd, pending, alive, lane, loop, want,
                   taken, seen>>

-----------------------------------------------------------------------------
(* The loop.                                                               *)

LoopIdle == loop.at = "idle"

Submit(j) ==
    /\ busy' = [busy EXCEPT ![j] = TRUE]
    /\ lane' = Append(lane, j)

\* run(): a request during a pass only leaves a mark.
Run(j) ==
    /\ LoopIdle
    /\ j \in alive
    /\ want[j] < MaxRequests
    /\ want' = [want EXCEPT ![j] = @ + 1]
    /\ IF busy[j]
       THEN /\ again' = [again EXCEPT ![j] = TRUE]
            /\ UNCHANGED <<busy, lane>>
       ELSE Submit(j) /\ UNCHANGED again
    /\ UNCHANGED <<workerVars, retiredPasses, efd, pending, alive, loop, seen>>

\* libev polls: it collects every readable watcher before any callback runs.
Collect ==
    /\ LoopIdle
    /\ pending = {}
    /\ pending' = {j \in alive : efd[j]}
    /\ pending' # {}
    /\ UNCHANGED <<jobVars, workerVars, efd, alive, lane, loop, want, seen>>

\* offloadJobCb: retired() drains the eventfd first.
Dispatch(j) ==
    /\ LoopIdle
    /\ j \in pending
    /\ pending' = pending \ {j}
    /\ efd'     = [efd EXCEPT ![j] = FALSE]
    /\ loop'    = [at |-> "fetch", job |-> j, by |-> "io"]
    /\ UNCHANGED <<jobVars, workerVars, alive, lane, want, seen>>

\* drain() on a busy job waits in ThreadPool::join.
Drain(j) ==
    /\ LoopIdle
    /\ j \in DrainJobs \cap alive
    /\ busy[j]
    /\ loop' = [at |-> "join", job |-> j, by |-> "drain"]
    /\ UNCHANGED <<jobVars, workerVars, efd, pending, alive, lane, want, seen>>

\* ThreadPool::join spins until no task of any job is in flight.
LaneEmpty == lane = << >> /\ worker.at = "idle"

\* drain() goes on to retired(), which drains the eventfd.
DrainJoined ==
    /\ loop.at = "join"
    /\ loop.by = "drain"
    /\ LaneEmpty
    /\ efd'  = [efd EXCEPT ![loop.job] = FALSE]
    /\ loop' = [loop EXCEPT !.at = "fetch"]
    /\ UNCHANGED <<jobVars, workerVars, pending, alive, lane, want, seen>>

BackAlwaysJoins(j, stillBusy) ==
    IF loop.by = "drain" THEN [loop EXCEPT !.at = "join"] ELSE Idle

\* Where retired() returns to: drain() loops while the job is busy.
Back(j, stillBusy) ==
    IF loop.by = "drain" /\ stillBusy
    THEN [loop EXCEPT !.at = "join"]
    ELSE Idle

OwedOnlyByListener(j, n) == n > 0

\* The pass the loop owes after the listener made n calls of run() itself.
Owed(j, n) == n > 0 \/ again[j]

AgainNotCleared(j, n) == again[j] \/ n > 1

\* The mark is cleared before the listener runs; its second run() sets it.
Remark(j, n) == n > 1

AnyWakeupRetires(j) == TRUE

\* A wakeup counts only when a pass finished since the last one retired.
Fresh(j) == completion[j] # retiredPasses[j]

\* retired() after the drain: a stale wakeup finds nothing new; otherwise
\* the listener runs, may call run() (the second call coalesces), and a
\* coalesced request it did not serve itself starts a pass.
FetchStale ==
    LET j == loop.job IN
    /\ loop.at = "fetch"
    /\ completion[j] = retiredPasses[j]
    /\ loop' = Back(j, busy[j])
    /\ UNCHANGED <<jobVars, workerVars, efd, pending, alive, lane, want, seen>>

FetchRetire ==
    LET j == loop.job IN
    /\ loop.at = "fetch"
    /\ Fresh(j)
    /\ retiredPasses' = [retiredPasses EXCEPT ![j] = completion[j]]
    /\ seen' = [seen EXCEPT ![j] = taken[j]]
    /\ \E n \in 0..2 :
        /\ want[j] + n <= MaxRequests
        /\ want'  = [want EXCEPT ![j] = @ + n]
        /\ busy'  = [busy EXCEPT ![j] = Owed(j, n)]
        /\ again' = [again EXCEPT ![j] = Remark(j, n)]
        /\ lane'  = IF Owed(j, n) THEN Append(lane, j) ELSE lane
        /\ loop'  = Back(j, Owed(j, n))
    /\ UNCHANGED <<workerVars, efd, pending, alive>>

\* ~OffloadJobImpl joins only when busy; the pool then stops the watcher,
\* which also forgets a collected wakeup.
DestroyJoining(j) ==
    /\ LoopIdle
    /\ j \in MortalJobs \cap alive
    /\ busy[j]
    /\ loop' = [at |-> "join", job |-> j, by |-> "destroy"]
    /\ UNCHANGED <<jobVars, workerVars, efd, pending, alive, lane, want, seen>>

DestroyWithoutJoin(j) ==
    /\ LoopIdle
    /\ j \in MortalJobs \cap alive
    /\ alive'   = alive \ {j}
    /\ pending' = pending \ {j}
    /\ UNCHANGED <<jobVars, workerVars, efd, lane, loop, want, seen>>

DestroyIdle(j) ==
    /\ LoopIdle
    /\ j \in MortalJobs \cap alive
    /\ ~busy[j]
    /\ alive'   = alive \ {j}
    /\ pending' = pending \ {j}
    /\ UNCHANGED <<jobVars, workerVars, efd, lane, loop, want, seen>>

DestroyJoined ==
    /\ loop.at = "join"
    /\ loop.by = "destroy"
    /\ LaneEmpty
    /\ alive'   = alive \ {loop.job}
    /\ pending' = pending \ {loop.job}
    /\ loop'    = Idle
    /\ UNCHANGED <<jobVars, workerVars, efd, lane, want, seen>>

-----------------------------------------------------------------------------
WorkerStep == BeginPass \/ FinishWork \/ Signal \/ LeaveTask

LoopStep ==
    \/ Collect
    \/ DrainJoined
    \/ FetchStale
    \/ FetchRetire
    \/ DestroyJoined
    \/ \E j \in Jobs :
        Run(j) \/ Dispatch(j) \/ Drain(j) \/ DestroyJoining(j) \/ DestroyIdle(j)

Next == WorkerStep \/ LoopStep

Spec == Init /\ [][Next]_vars

\* The kernel schedules the worker and the loop thread; libev dispatches
\* every wakeup it collected.  Owners owe nothing: they may never call run.
Fairness ==
    /\ WF_vars(WorkerStep)
    /\ WF_vars(Collect)
    /\ WF_vars(DrainJoined \/ DestroyJoined \/ FetchStale \/ FetchRetire)
    /\ \A j \in Jobs : WF_vars(Dispatch(j))

FairSpec == Spec /\ Fairness

-----------------------------------------------------------------------------
TypeOK ==
    /\ busy \in [Jobs -> BOOLEAN]
    /\ again \in [Jobs -> BOOLEAN]
    /\ completion \in [Jobs -> 0 .. CounterSize - 1]
    /\ retiredPasses \in [Jobs -> 0 .. CounterSize - 1]
    /\ efd \in [Jobs -> BOOLEAN]
    /\ pending \subseteq Jobs
    /\ alive \subseteq Jobs
    /\ lane \in Seq(Jobs)
    /\ worker \in [at : WorkerAt, job : Jobs \cup {NoJob}]
    /\ worker.job = NoJob <=> worker.at = "idle"
    /\ loop \in [at : LoopAt, job : Jobs \cup {NoJob}, by : LoopBy]
    /\ loop.job = NoJob <=> loop.at = "idle"
    /\ want \in [Jobs -> Nat]
    /\ taken \in [Jobs -> Nat]
    /\ seen \in [Jobs -> Nat]

\* The loop and the worker never own the job's fields at once: while a pass
\* is queued or working the loop holds the job busy, so no listener runs and
\* no second pass is submitted (offload_job.h: inputs and results travel
\* through the owner's fields).
OnePassInFlight ==
    /\ \A j \in Jobs :
        /\ Working(j) => busy[j] /\ ~InLane(j) /\ ~Finished(j)
        /\ InLane(j) => busy[j] /\ ~Finished(j)
        /\ Finished(j) => busy[j]
    /\ \A p, q \in DOMAIN lane : lane[p] = lane[q] => p = q

\* A request is never forgotten: until the listener has seen results made
\* after it, a pass is in flight, and either that pass began after the
\* request, or has not begun, or a re-run is owed (run(), retired()).
NoLostRequest ==
    \A j \in Jobs :
        /\ seen[j] < want[j] => busy[j]
        /\ taken[j] < want[j] => again[j] \/ InLane(j)

\* A finished pass always has a wakeup on its way to the loop, although a
\* drain empties the eventfd and leaves stale wakeups behind.
NoLostWakeup ==
    \A j \in alive :
        Finished(j) => efd[j] \/ Signalling(j) \/ Fetching(j)

\* The worker never touches a destroyed job: neither its fields nor its
\* eventfd (offload_job.h: the pool joins an in-flight pass first).
NoTouchAfterDestroy ==
    /\ worker.at \in {"work", "signal"} => worker.job \in alive
    /\ \A p \in DOMAIN lane : lane[p] \in alive

\* join and drain return although other jobs share the lane.
JoinReturns == loop.at = "join" ~> loop.at = "idle"

\* The mapping under which the threads implement the promise.
Stage(j) == IF Working(j) THEN "work" ELSE IF Finished(j) THEN "done" ELSE "rest"

OwedPasses(j) == (IF busy[j] THEN 1 ELSE 0) + (IF again[j] THEN 1 ELSE 0)

Abstract == INSTANCE CoalescedPasses WITH
    owed  <- [j \in Jobs |-> OwedPasses(j)],
    stage <- [j \in Jobs |-> Stage(j)],
    open  <- alive

\* offload_job.h's contract, with its liveness.
KeepsPromise == Abstract!FairPromise
=============================================================================
