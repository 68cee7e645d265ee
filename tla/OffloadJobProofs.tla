-------------------------- MODULE OffloadJobProofs --------------------------
(***************************************************************************)
(* Proofs about OffloadJob for any set of jobs, any counter width and any  *)
(* number of requests.                                                     *)
(***************************************************************************)
EXTENDS OffloadJob, TLAPS

\* The inductive invariant.  Besides the checked invariants it says where a
\* busy job's pass is, and that outside a pass the listener has seen what the
\* last pass took.
IInv ==
    /\ TypeOK
    /\ OnePassInFlight
    /\ NoLostWakeup
    /\ \A j \in Jobs :
        /\ busy[j] => Working(j) \/ InLane(j) \/ Finished(j)
        /\ again[j] => busy[j]
        /\ taken[j] < want[j] => again[j] \/ InLane(j)
        /\ taken[j] <= want[j]
        /\ ~Working(j) /\ ~Finished(j) => seen[j] = taken[j]

\* Appending a task keeps the queue a sequence of jobs and adds that job.
LEMMA AppendToLane ==
    ASSUME NEW s \in Seq(Jobs), NEW j \in Jobs
    PROVE  /\ Append(s, j) \in Seq(Jobs)
           /\ \A k : (\E p \in DOMAIN Append(s, j) : Append(s, j)[p] = k)
                        <=> (k = j \/ \E p \in DOMAIN s : s[p] = k)
           /\ (\A p, q \in DOMAIN s : s[p] = s[q] => p = q)
                /\ (\A p \in DOMAIN s : s[p] # j)
              => \A p, q \in DOMAIN Append(s, j) :
                    Append(s, j)[p] = Append(s, j)[q] => p = q
<1> DEFINE t == Append(s, j)
<1>1. /\ t \in Seq(Jobs)
      /\ Len(s) \in Nat
      /\ DOMAIN s = 1 .. Len(s)
      /\ DOMAIN t = 1 .. Len(s) + 1
      /\ t[Len(s) + 1] = j
      /\ \A p \in 1 .. Len(s) : t[p] = s[p]
  OBVIOUS
<1>2. \A p \in DOMAIN t : p \in DOMAIN s \/ p = Len(s) + 1
  BY <1>1
<1> HIDE DEF t
<1>3. Append(s, j) = t
  BY DEF t
<1>4. \A k : (\E p \in DOMAIN t : t[p] = k)
                <=> (k = j \/ \E p \in DOMAIN s : s[p] = k)
  BY <1>1, <1>2
<1>5. (\A p, q \in DOMAIN s : s[p] = s[q] => p = q)
        /\ (\A p \in DOMAIN s : s[p] # j)
      => \A p, q \in DOMAIN t : t[p] = t[q] => p = q
  BY <1>1, <1>2
<1>6. QED
  BY <1>1, <1>3, <1>4, <1>5

\* Taking the head of a queue without duplicates removes exactly that job.
LEMMA TakeFromLane ==
    ASSUME NEW s \in Seq(Jobs), s # << >>,
           \A p, q \in DOMAIN s : s[p] = s[q] => p = q
    PROVE  /\ Head(s) \in Jobs
           /\ Tail(s) \in Seq(Jobs)
           /\ \E p \in DOMAIN s : s[p] = Head(s)
           /\ \A k : (\E p \in DOMAIN Tail(s) : Tail(s)[p] = k)
                        <=> (k # Head(s) /\ \E p \in DOMAIN s : s[p] = k)
           /\ \A p, q \in DOMAIN Tail(s) : Tail(s)[p] = Tail(s)[q] => p = q
<1> DEFINE t == Tail(s)
<1> DEFINE h == Head(s)
<1>1. /\ h \in Jobs
      /\ t \in Seq(Jobs)
      /\ Len(s) \in Nat \ {0}
      /\ DOMAIN s = 1 .. Len(s)
      /\ DOMAIN t = 1 .. Len(s) - 1
      /\ s[1] = h
      /\ \A p \in 1 .. Len(s) - 1 : t[p] = s[p + 1]
  OBVIOUS
<1>2. Head(s) = h /\ Tail(s) = t
  OBVIOUS
<1> HIDE DEF t, h
<1>3. 1 \in DOMAIN s
  BY <1>1
<1>4. \A p \in DOMAIN t : p + 1 \in DOMAIN s /\ p + 1 # 1 /\ t[p] = s[p + 1]
  BY <1>1
<1>5. \A p \in DOMAIN s : p = 1 \/ (p - 1 \in DOMAIN t /\ t[p - 1] = s[p])
  BY <1>1
<1>6. \A k : (\E p \in DOMAIN t : t[p] = k)
                <=> (k # h /\ \E p \in DOMAIN s : s[p] = k)
  <2> TAKE k
  <2>1. ASSUME NEW p \in DOMAIN t, t[p] = k
        PROVE  k # h /\ \E q \in DOMAIN s : s[q] = k
    BY <2>1, <1>1, <1>3, <1>4
  <2>2. ASSUME k # h, NEW p \in DOMAIN s, s[p] = k
        PROVE  \E q \in DOMAIN t : t[q] = k
    BY <2>2, <1>1, <1>5
  <2>3. QED
    BY <2>1, <2>2
<1>7. \A p, q \in DOMAIN t : t[p] = t[q] => p = q
  BY <1>1, <1>4
<1>8. /\ h \in Jobs
      /\ t \in Seq(Jobs)
      /\ \E p \in DOMAIN s : s[p] = h
      /\ \A k : (\E p \in DOMAIN t : t[p] = k)
                <=> (k # h /\ \E p \in DOMAIN s : s[p] = k)
      /\ \A p, q \in DOMAIN t : t[p] = t[q] => p = q
  <2>1. \E p \in DOMAIN s : s[p] = h
    BY <1>1, <1>3
  <2>2. h \in Jobs /\ t \in Seq(Jobs)
    BY <1>1
  <2>3. QED
    BY <2>1, <2>2, <1>6, <1>7, Zenon
<1>9. QED
  BY <1>8, Zenon DEF h, t

\* The increment moves the counter to another value of its range.
LEMMA BumpMoves ==
    ASSUME NEW n \in 0 .. CounterSize - 1
    PROVE  Bump(n) \in 0 .. CounterSize - 1 /\ Bump(n) # n
BY CounterAssumption DEF Bump

LEMMA InitIInv == Init => IInv
<1> SUFFICES ASSUME Init PROVE IInv
  OBVIOUS
<1>1. DOMAIN lane = {}
  BY DEF Init
<1>2. lane \in Seq(Jobs)
  BY DEF Init
<1>3. TypeOK
  BY <1>2, JobsAssumption, CounterAssumption
     DEF Init, TypeOK, AtRest, Idle, WorkerAt, LoopAt, LoopBy
<1>4. OnePassInFlight /\ NoLostWakeup
  BY <1>1, JobsAssumption
     DEF Init, OnePassInFlight, NoLostWakeup, Working, InLane, Finished, AtRest
<1>5. QED
  BY <1>1, <1>3, <1>4 DEF Init, IInv, Working, InLane, Finished, AtRest

LEMMA BeginPassIInv == IInv /\ BeginPass => IInv'
<1> SUFFICES ASSUME IInv, BeginPass PROVE IInv'
  OBVIOUS
<1> DEFINE h == Head(lane)
<1> USE DEF IInv, BeginPass
<1>1. /\ h \in Jobs
      /\ lane' \in Seq(Jobs)
      /\ InLane(h)
      /\ \A k : InLane(k)' <=> k # h /\ InLane(k)
      /\ \A p, q \in DOMAIN lane' : lane'[p] = lane'[q] => p = q
  <2>1. /\ lane \in Seq(Jobs)
        /\ lane # << >>
        /\ \A p, q \in DOMAIN lane : lane[p] = lane[q] => p = q
        /\ lane' = Tail(lane)
    BY DEF TypeOK, OnePassInFlight
  <2>2. /\ h \in Jobs
        /\ Tail(lane) \in Seq(Jobs)
        /\ \E p \in DOMAIN lane : lane[p] = h
        /\ \A k : (\E p \in DOMAIN Tail(lane) : Tail(lane)[p] = k)
                      <=> (k # h /\ \E p \in DOMAIN lane : lane[p] = k)
        /\ \A p, q \in DOMAIN Tail(lane) :
              Tail(lane)[p] = Tail(lane)[q] => p = q
    BY <2>1, TakeFromLane, Zenon
  <2>3. /\ lane' \in Seq(Jobs)
        /\ \A k : (\E p \in DOMAIN lane' : lane'[p] = k)
                      <=> (k # h /\ \E p \in DOMAIN lane : lane[p] = k)
        /\ \A p, q \in DOMAIN lane' : lane'[p] = lane'[q] => p = q
    BY <2>1, <2>2
  <2>4. QED
    BY <2>2, <2>3, Zenon DEF InLane
<1>2. \A k \in Jobs : Working(k)' <=> k = h
  BY <1>1 DEF Working
<1>3. \A k \in Jobs : ~Working(k) /\ (Finished(k)' <=> Finished(k))
  BY DEF Working, Finished, jobVars
<1>4. TypeOK'
  BY <1>1, JobsAssumption DEF TypeOK, jobVars, WorkerAt
<1>5. OnePassInFlight'
  BY <1>1, <1>2, <1>3 DEF OnePassInFlight, jobVars
<1>6. NoLostWakeup'
  BY <1>3 DEF NoLostWakeup, Signalling, Fetching, Finished, TypeOK, jobVars
<1>7. ASSUME NEW j \in Jobs
      PROVE  /\ busy'[j] => Working(j)' \/ InLane(j)' \/ Finished(j)'
             /\ again'[j] => busy'[j]
             /\ taken'[j] < want'[j] => again'[j] \/ InLane(j)'
             /\ taken'[j] <= want'[j]
             /\ ~Working(j)' /\ ~Finished(j)' => seen'[j] = taken'[j]
  <2>1. taken'[j] = IF j = h THEN want[j] ELSE taken[j]
    BY DEF TypeOK
  <2>2. CASE j = h
    BY <2>1, <2>2, <1>1, <1>2, <1>3 DEF TypeOK, jobVars
  <2>3. CASE j # h
    <3>1. /\ InLane(j)' <=> InLane(j)
          /\ ~Working(j)' /\ ~Working(j)
          /\ Finished(j)' <=> Finished(j)
      BY <2>3, <1>1, <1>2, <1>3
    <3>2. /\ busy' = busy /\ again' = again /\ want' = want /\ seen' = seen
          /\ taken'[j] = taken[j]
      BY <2>1, <2>3 DEF jobVars
    <3>3. QED
      BY <3>1, <3>2
  <2>4. QED
    BY <2>2, <2>3
<1>8. QED
  BY <1>4, <1>5, <1>6, <1>7

LEMMA FinishWorkIInv == IInv /\ FinishWork => IInv'
<1> SUFFICES ASSUME IInv, FinishWork PROVE IInv'
  OBVIOUS
<1> DEFINE w == worker.job
<1> USE DEF IInv, FinishWork
<1>1. w \in Jobs /\ Working(w) /\ ~Finished(w) /\ busy[w] /\ ~InLane(w)
  BY DEF TypeOK, Working, OnePassInFlight, WorkerAt
<1>2. \A k \in Jobs : ~Working(k)' /\ (InLane(k)' <=> InLane(k))
  BY DEF Working, InLane, TypeOK
<1>3. \A k \in Jobs : Working(k) => k = w
  BY DEF Working
<1>4. \A k \in Jobs : Finished(k)' <=> (k = w \/ Finished(k))
  BY <1>1, BumpMoves DEF Finished, TypeOK, jobVars
<1>5. TypeOK'
  BY <1>1, BumpMoves, JobsAssumption DEF TypeOK, jobVars, WorkerAt
<1>6. OnePassInFlight'
  BY <1>1, <1>2, <1>3, <1>4 DEF OnePassInFlight, jobVars
<1>7. NoLostWakeup'
  BY <1>1, <1>4 DEF NoLostWakeup, Signalling, Fetching, TypeOK, jobVars
<1>8. QED
  BY <1>1, <1>2, <1>3, <1>4, <1>5, <1>6, <1>7 DEF jobVars

LEMMA SignalIInv == IInv /\ Signal => IInv'
<1> SUFFICES ASSUME IInv, Signal PROVE IInv'
  OBVIOUS
<1> USE DEF IInv, Signal
<1>1. worker.job \in Jobs
  BY DEF TypeOK
<1>2. \A k \in Jobs : /\ ~Working(k)' /\ ~Working(k)
                      /\ InLane(k)' <=> InLane(k)
                      /\ Finished(k)' <=> Finished(k)
  BY DEF Working, InLane, Finished, TypeOK, jobVars
<1>3. TypeOK'
  BY <1>1, JobsAssumption DEF TypeOK, jobVars, WorkerAt
<1>4. OnePassInFlight'
  BY <1>2 DEF OnePassInFlight, jobVars
<1>5. NoLostWakeup'
  BY <1>1, <1>2 DEF NoLostWakeup, Signalling, Fetching, TypeOK, jobVars
<1>6. QED
  BY <1>2, <1>3, <1>4, <1>5 DEF jobVars

LEMMA LeaveTaskIInv == IInv /\ LeaveTask => IInv'
<1> SUFFICES ASSUME IInv, LeaveTask PROVE IInv'
  OBVIOUS
<1> USE DEF IInv, LeaveTask
<1>1. \A k \in Jobs : /\ ~Working(k)' /\ ~Working(k)
                      /\ InLane(k)' <=> InLane(k)
                      /\ Finished(k)' <=> Finished(k)
  BY JobsAssumption DEF Working, InLane, Finished, TypeOK, jobVars, AtRest
<1>2. TypeOK'
  BY JobsAssumption DEF TypeOK, jobVars, WorkerAt, AtRest
<1>3. OnePassInFlight'
  BY <1>1 DEF OnePassInFlight, jobVars
<1>4. NoLostWakeup'
  BY <1>1 DEF NoLostWakeup, Signalling, Fetching, TypeOK, jobVars
<1>5. QED
  BY <1>1, <1>2, <1>3, <1>4 DEF jobVars

\* Loop steps that leave the jobs, the lane and the worker alone can disturb
\* only the wakeups.
LEMMA QuietStep ==
    IInv /\ UNCHANGED <<jobVars, workerVars, lane, want, seen>>
      /\ TypeOK' /\ NoLostWakeup'
    => IInv'
<1> SUFFICES ASSUME IInv, UNCHANGED <<jobVars, workerVars, lane, want, seen>>,
                    TypeOK', NoLostWakeup'
             PROVE  IInv'
  OBVIOUS
<1>1. \A k \in Jobs : /\ Working(k)' <=> Working(k)
                      /\ InLane(k)' <=> InLane(k)
                      /\ Finished(k)' <=> Finished(k)
  BY DEF Working, InLane, Finished, jobVars, workerVars
<1>2. OnePassInFlight'
  BY <1>1 DEF IInv, OnePassInFlight, jobVars
<1>3. QED
  BY <1>1, <1>2 DEF IInv, jobVars, workerVars

LEMMA CollectIInv == IInv /\ Collect => IInv'
<1> SUFFICES ASSUME IInv, Collect PROVE IInv'
  OBVIOUS
<1>1. TypeOK'
  BY DEF IInv, Collect, TypeOK, jobVars, workerVars
<1>2. NoLostWakeup'
  BY DEF IInv, Collect, NoLostWakeup, Signalling, Fetching, Finished, jobVars, workerVars
<1>3. QED
  BY <1>1, <1>2, QuietStep DEF Collect

LEMMA DispatchIInv == \A j \in Jobs : IInv /\ Dispatch(j) => IInv'
<1> SUFFICES ASSUME NEW j \in Jobs, IInv, Dispatch(j) PROVE IInv'
  OBVIOUS
<1>1. TypeOK'
  BY JobsAssumption
     DEF IInv, Dispatch, TypeOK, jobVars, workerVars, LoopAt, LoopBy
<1>2. NoLostWakeup'
  BY DEF IInv, Dispatch, LoopIdle, TypeOK, NoLostWakeup, Signalling, Fetching,
         Finished, jobVars, workerVars
<1>3. QED
  BY <1>1, <1>2, QuietStep DEF Dispatch

LEMMA DrainIInv == \A j \in Jobs : IInv /\ Drain(j) => IInv'
<1> SUFFICES ASSUME NEW j \in Jobs, IInv, Drain(j) PROVE IInv'
  OBVIOUS
<1>1. TypeOK'
  BY JobsAssumption
     DEF IInv, Drain, TypeOK, jobVars, workerVars, LoopAt, LoopBy
<1>2. NoLostWakeup'
  BY DEF IInv, Drain, LoopIdle, TypeOK, NoLostWakeup, Signalling, Fetching,
         Finished, jobVars, workerVars
<1>3. QED
  BY <1>1, <1>2, QuietStep DEF Drain

LEMMA DrainJoinedIInv == IInv /\ DrainJoined => IInv'
<1> SUFFICES ASSUME IInv, DrainJoined PROVE IInv'
  OBVIOUS
<1>1. TypeOK'
  BY JobsAssumption
     DEF IInv, DrainJoined, TypeOK, jobVars, workerVars, LoopAt, LoopBy
<1>2. NoLostWakeup'
  BY DEF IInv, DrainJoined, TypeOK, NoLostWakeup, Signalling, Fetching,
         Finished, jobVars, workerVars
<1>3. QED
  BY <1>1, <1>2, QuietStep DEF DrainJoined

LEMMA FetchStaleIInv == IInv /\ FetchStale => IInv'
<1> SUFFICES ASSUME IInv, FetchStale PROVE IInv'
  OBVIOUS
<1>1. loop.job \in Jobs /\ ~Finished(loop.job)
  BY DEF IInv, FetchStale, TypeOK, Finished
<1>2. TypeOK'
  BY <1>1, JobsAssumption
     DEF IInv, FetchStale, Back, Idle, TypeOK, jobVars, workerVars, LoopAt, LoopBy
<1>3. NoLostWakeup'
  BY <1>1 DEF IInv, FetchStale, TypeOK, NoLostWakeup, Signalling, Fetching,
              Finished, jobVars, workerVars
<1>4. QED
  BY <1>2, <1>3, QuietStep DEF FetchStale

LEMMA DestroyJoiningIInv == \A j \in Jobs : IInv /\ DestroyJoining(j) => IInv'
<1> SUFFICES ASSUME NEW j \in Jobs, IInv, DestroyJoining(j) PROVE IInv'
  OBVIOUS
<1>1. TypeOK'
  BY JobsAssumption
     DEF IInv, DestroyJoining, TypeOK, jobVars, workerVars, LoopAt, LoopBy
<1>2. NoLostWakeup'
  BY DEF IInv, DestroyJoining, LoopIdle, TypeOK, NoLostWakeup, Signalling,
         Fetching, Finished, jobVars, workerVars
<1>3. QED
  BY <1>1, <1>2, QuietStep DEF DestroyJoining

LEMMA DestroyIdleIInv == \A j \in Jobs : IInv /\ DestroyIdle(j) => IInv'
<1> SUFFICES ASSUME NEW j \in Jobs, IInv, DestroyIdle(j) PROVE IInv'
  OBVIOUS
<1>1. TypeOK'
  BY DEF IInv, DestroyIdle, TypeOK, jobVars, workerVars
<1>2. NoLostWakeup'
  BY DEF IInv, DestroyIdle, NoLostWakeup, Signalling, Fetching, Finished,
         jobVars, workerVars
<1>3. QED
  BY <1>1, <1>2, QuietStep DEF DestroyIdle

LEMMA DestroyJoinedIInv == IInv /\ DestroyJoined => IInv'
<1> SUFFICES ASSUME IInv, DestroyJoined PROVE IInv'
  OBVIOUS
<1>1. TypeOK'
  BY JobsAssumption
     DEF IInv, DestroyJoined, Idle, TypeOK, jobVars, workerVars, LoopAt, LoopBy
<1>2. NoLostWakeup'
  BY DEF IInv, DestroyJoined, NoLostWakeup, Signalling, Fetching, Finished,
         jobVars, workerVars
<1>3. QED
  BY <1>1, <1>2, QuietStep DEF DestroyJoined

\* What submitting a pass does to the lane.
LEMMA SubmitLane ==
    ASSUME TypeOK, OnePassInFlight, NEW j \in Jobs, ~InLane(j),
           lane' = Append(lane, j)
    PROVE  /\ lane' \in Seq(Jobs)
           /\ \A k : InLane(k)' <=> k = j \/ InLane(k)
           /\ \A p, q \in DOMAIN lane' : lane'[p] = lane'[q] => p = q
<1>1. /\ lane \in Seq(Jobs)
      /\ \A p, q \in DOMAIN lane : lane[p] = lane[q] => p = q
      /\ \A p \in DOMAIN lane : lane[p] # j
  BY DEF TypeOK, OnePassInFlight, InLane
<1>2. /\ Append(lane, j) \in Seq(Jobs)
      /\ \A k : (\E p \in DOMAIN Append(lane, j) : Append(lane, j)[p] = k)
                   <=> (k = j \/ \E p \in DOMAIN lane : lane[p] = k)
      /\ \A p, q \in DOMAIN Append(lane, j) :
            Append(lane, j)[p] = Append(lane, j)[q] => p = q
  BY <1>1, AppendToLane, Zenon
<1>3. /\ lane' \in Seq(Jobs)
      /\ \A k : (\E p \in DOMAIN lane' : lane'[p] = k)
                   <=> (k = j \/ \E p \in DOMAIN lane : lane[p] = k)
      /\ \A p, q \in DOMAIN lane' : lane'[p] = lane'[q] => p = q
  BY <1>2
<1>4. QED
  BY <1>3, Zenon DEF InLane

LEMMA RunIInv == \A j \in Jobs : IInv /\ Run(j) => IInv'
<1> SUFFICES ASSUME NEW j \in Jobs, IInv, Run(j) PROVE IInv'
  OBVIOUS
<1>1. \A k \in Jobs : /\ Working(k)' <=> Working(k)
                      /\ Finished(k)' <=> Finished(k)
  BY DEF Run, Submit, Working, Finished, workerVars
<1>2. /\ want' \in [Jobs -> Nat]
      /\ \A k \in Jobs : want'[k] = IF k = j THEN want[k] + 1 ELSE want[k]
  <2>1. want' = [want EXCEPT ![j] = @ + 1] /\ want \in [Jobs -> Nat]
    BY DEF IInv, TypeOK, Run
  <2>2. QED
    BY <2>1
<1>u. UNCHANGED <<completion, worker, taken, retiredPasses, efd, pending, alive,
                  loop, seen>>
  BY DEF Run, workerVars
<1>3. NoLostWakeup'
  BY <1>u, <1>1 DEF IInv, TypeOK, NoLostWakeup, Signalling, Fetching
<1>4. CASE busy[j]
  <2>1. /\ lane' = lane /\ busy' = busy
        /\ \A k \in Jobs : again'[k] = (k = j \/ again[k])
        /\ again' \in [Jobs -> BOOLEAN]
    BY <1>4 DEF IInv, TypeOK, Run
  <2>2. \A k \in Jobs : InLane(k)' <=> InLane(k)
    BY <2>1 DEF InLane
  <2>3. TypeOK'
    BY <1>u, <1>2, <1>4, <2>1 DEF IInv, TypeOK, Run
  <2>4. OnePassInFlight'
    BY <1>1, <2>1, <2>2 DEF IInv, OnePassInFlight
  <2>5. QED
    <3>1. ASSUME NEW k \in Jobs
          PROVE  /\ busy'[k] => Working(k)' \/ InLane(k)' \/ Finished(k)'
                 /\ again'[k] => busy'[k]
                 /\ taken'[k] < want'[k] => again'[k] \/ InLane(k)'
                 /\ taken'[k] <= want'[k]
                 /\ ~Working(k)' /\ ~Finished(k)' => seen'[k] = taken'[k]
      <4>1. /\ taken[k] \in Nat /\ want[k] \in Nat
            /\ taken'[k] = taken[k] /\ seen'[k] = seen[k]
            /\ taken[k] <= want[k]
            /\ ~Working(k) /\ ~Finished(k) => seen[k] = taken[k]
        BY <1>u DEF IInv, TypeOK
      <4>2. /\ busy[k] => Working(k) \/ InLane(k) \/ Finished(k)
            /\ again[k] => busy[k]
            /\ taken[k] < want[k] => again[k] \/ InLane(k)
        BY DEF IInv
      <4>3. taken'[k] <= want'[k] /\ (k # j => want'[k] = want[k])
        BY <4>1, <1>2
      <4>4. CASE k = j
        BY <4>1, <4>2, <4>3, <4>4, <1>1, <1>4, <2>1, <2>2
      <4>5. CASE k # j
        BY <4>1, <4>2, <4>3, <4>5, <1>1, <2>1, <2>2
      <4>6. QED
        BY <4>4, <4>5
    <3>2. QED
      BY <3>1, <1>3, <2>3, <2>4 DEF IInv
<1>5. CASE ~busy[j]
  <2>1. /\ lane' = Append(lane, j) /\ again' = again
        /\ \A k \in Jobs : busy'[k] = (k = j \/ busy[k])
        /\ busy' \in [Jobs -> BOOLEAN]
    BY <1>5 DEF IInv, TypeOK, Run, Submit
  <2>2. ~InLane(j) /\ ~Working(j) /\ ~Finished(j)
    BY <1>5 DEF IInv, OnePassInFlight
  <2>3. /\ lane' \in Seq(Jobs)
        /\ \A k : InLane(k)' <=> k = j \/ InLane(k)
        /\ \A p, q \in DOMAIN lane' : lane'[p] = lane'[q] => p = q
    BY <2>1, <2>2, SubmitLane DEF IInv
  <2>4. TypeOK'
    BY <1>u, <1>2, <2>1, <2>3 DEF IInv, TypeOK
  <2>5. OnePassInFlight'
    BY <1>1, <2>1, <2>2, <2>3 DEF IInv, OnePassInFlight
  <2>6. QED
    <3>1. ASSUME NEW k \in Jobs
          PROVE  /\ busy'[k] => Working(k)' \/ InLane(k)' \/ Finished(k)'
                 /\ again'[k] => busy'[k]
                 /\ taken'[k] < want'[k] => again'[k] \/ InLane(k)'
                 /\ taken'[k] <= want'[k]
                 /\ ~Working(k)' /\ ~Finished(k)' => seen'[k] = taken'[k]
      <4>1. /\ taken[k] \in Nat /\ want[k] \in Nat
            /\ taken'[k] = taken[k] /\ seen'[k] = seen[k]
            /\ taken[k] <= want[k]
            /\ ~Working(k) /\ ~Finished(k) => seen[k] = taken[k]
        BY <1>u DEF IInv, TypeOK
      <4>2. /\ busy[k] => Working(k) \/ InLane(k) \/ Finished(k)
            /\ again[k] => busy[k]
            /\ taken[k] < want[k] => again[k] \/ InLane(k)
        BY DEF IInv
      <4>3. taken'[k] <= want'[k] /\ (k # j => want'[k] = want[k])
        BY <4>1, <1>2
      <4>4. CASE k = j
        BY <4>1, <4>2, <4>3, <4>4, <1>1, <2>1, <2>2, <2>3
      <4>5. CASE k # j
        BY <4>1, <4>2, <4>3, <4>5, <1>1, <2>1, <2>3
      <4>6. QED
        BY <4>4, <4>5
    <3>2. QED
      BY <3>1, <1>3, <2>4, <2>5 DEF IInv
<1>6. QED
  BY <1>4, <1>5

LEMMA FetchRetireIInv == IInv /\ FetchRetire => IInv'
<1> SUFFICES ASSUME IInv, FetchRetire PROVE IInv'
  OBVIOUS
<1> DEFINE j == loop.job
<1>1. j \in Jobs /\ Finished(j) /\ busy[j] /\ ~Working(j) /\ ~InLane(j)
  BY DEF IInv, FetchRetire, Fresh, TypeOK, OnePassInFlight, Finished
<1> HIDE DEF j
<1>2. PICK n \in 0 .. 2 :
        /\ want'  = [want EXCEPT ![j] = @ + n]
        /\ busy'  = [busy EXCEPT ![j] = Owed(j, n)]
        /\ again' = [again EXCEPT ![j] = Remark(j, n)]
        /\ lane'  = IF Owed(j, n) THEN Append(lane, j) ELSE lane
        /\ loop'  = Back(j, Owed(j, n))
  BY DEF FetchRetire, j
<1>3. Owed(j, n) \in BOOLEAN /\ Remark(j, n) \in BOOLEAN
  BY <1>1 DEF Owed, Remark, IInv, TypeOK
<1>4. /\ retiredPasses' = [retiredPasses EXCEPT ![j] = completion[j]]
      /\ seen' = [seen EXCEPT ![j] = taken[j]]
      /\ UNCHANGED <<completion, worker, taken, efd, pending, alive>>
  BY DEF FetchRetire, workerVars, j
<1>5. \A k \in Jobs : /\ Working(k)' <=> Working(k)
                      /\ Finished(k)' <=> k # j /\ Finished(k)
  BY <1>1, <1>4 DEF IInv, TypeOK, Working, Finished
<1>6. /\ lane' \in Seq(Jobs)
      /\ \A k \in Jobs : InLane(k)' <=> (k = j /\ Owed(j, n)) \/ InLane(k)
      /\ \A p, q \in DOMAIN lane' : lane'[p] = lane'[q] => p = q
  <2>1. CASE Owed(j, n)
    <3>1. lane' = Append(lane, j)
      BY <1>2, <2>1
    <3>2. QED
      BY <3>1, <1>1, <2>1, SubmitLane DEF IInv
  <2>2. CASE ~Owed(j, n)
    <3>1. lane' = lane
      BY <1>2, <2>2
    <3>2. QED
      BY <3>1, <2>2 DEF IInv, TypeOK, OnePassInFlight, InLane
  <2>3. QED
    BY <2>1, <2>2
<1>7. \A k \in Jobs :
        /\ busy'[k]  = IF k = j THEN Owed(j, n) ELSE busy[k]
        /\ again'[k] = IF k = j THEN Remark(j, n) ELSE again[k]
        /\ want'[k]  = IF k = j THEN want[k] + n ELSE want[k]
        /\ seen'[k]  = IF k = j THEN taken[k] ELSE seen[k]
  BY <1>2, <1>4 DEF IInv, TypeOK
<1>8. loop' \in [at : LoopAt, job : Jobs \cup {NoJob}, by : LoopBy]
        /\ (loop'.job = NoJob <=> loop'.at = "idle")
  <2>1. loop' = Idle \/ loop' = [loop EXCEPT !.at = "join"]
    BY <1>2 DEF Back
  <2>2. CASE loop' = Idle
    BY <2>2 DEF Idle, LoopAt, LoopBy
  <2>3. CASE loop' = [loop EXCEPT !.at = "join"]
    BY <2>3, <1>1, JobsAssumption DEF IInv, TypeOK, LoopAt, LoopBy, j
  <2>4. QED
    BY <2>1, <2>2, <2>3
<1>9. TypeOK'
  <2>1. /\ busy' \in [Jobs -> BOOLEAN]
        /\ again' \in [Jobs -> BOOLEAN]
    BY <1>1, <1>2, <1>3 DEF IInv, TypeOK
  <2>2. /\ retiredPasses' \in [Jobs -> 0 .. CounterSize - 1]
        /\ want' \in [Jobs -> Nat]
        /\ seen' \in [Jobs -> Nat]
    <3>1. want \in [Jobs -> Nat] /\ want' = [want EXCEPT ![j] = @ + n]
      BY <1>2 DEF IInv, TypeOK
    <3>2. \A i \in Nat : i + n \in Nat
      OBVIOUS
    <3>3. want' \in [Jobs -> Nat]
      BY <1>1, <3>1, <3>2
    <3>4. QED
      BY <1>1, <1>4, <3>3 DEF IInv, TypeOK
  <2>3. QED
    BY <2>1, <2>2, <1>4, <1>6, <1>8 DEF IInv, TypeOK
<1>10. OnePassInFlight'
  BY <1>1, <1>5, <1>6, <1>7 DEF IInv, OnePassInFlight
<1>11. NoLostWakeup'
  BY <1>1, <1>4, <1>5 DEF IInv, NoLostWakeup, Signalling, Fetching, TypeOK, j
<1>12. ASSUME NEW k \in Jobs
       PROVE  /\ busy'[k] => Working(k)' \/ InLane(k)' \/ Finished(k)'
              /\ again'[k] => busy'[k]
              /\ taken'[k] < want'[k] => again'[k] \/ InLane(k)'
              /\ taken'[k] <= want'[k]
              /\ ~Working(k)' /\ ~Finished(k)' => seen'[k] = taken'[k]
  <2>1. CASE k = j
    <3>2. taken'[j] = taken[j] /\ taken[j] \in Nat /\ want[j] \in Nat
          /\ taken[j] <= want[j] /\ want'[j] = want[j] + n
      BY <1>1, <1>4, <1>7 DEF IInv, TypeOK
    <3>3. taken[j] < want[j] => again[j]
      BY <1>1 DEF IInv
    <3>4. Remark(j, n) => Owed(j, n)
      BY DEF Remark, Owed
    <3>5. taken'[j] < want'[j] => Owed(j, n)
      BY <3>2, <3>3 DEF Owed
    <3>6. QED
      BY <2>1, <3>2, <3>4, <3>5, <1>1, <1>5, <1>6, <1>7
  <2>2. CASE k # j
    BY <2>2, <1>4, <1>5, <1>6, <1>7 DEF IInv, TypeOK
  <2>3. QED
    BY <2>1, <2>2
<1>13. QED
  BY <1>9, <1>10, <1>11, <1>12 DEF IInv

LEMMA NextIInv == IInv /\ [Next]_vars => IInv'
<1> SUFFICES ASSUME IInv, [Next]_vars PROVE IInv'
  OBVIOUS
<1>1. CASE WorkerStep
  BY <1>1, BeginPassIInv, FinishWorkIInv, SignalIInv, LeaveTaskIInv DEF WorkerStep
<1>2. CASE LoopStep
  BY <1>2, CollectIInv, DispatchIInv, DrainIInv, DrainJoinedIInv, FetchStaleIInv,
     FetchRetireIInv, DestroyJoiningIInv, DestroyIdleIInv, DestroyJoinedIInv,
     RunIInv DEF LoopStep
<1>3. CASE UNCHANGED vars
  <2>1. TypeOK'
    BY <1>3 DEF IInv, TypeOK, vars
  <2>2. NoLostWakeup'
    BY <1>3 DEF IInv, NoLostWakeup, Signalling, Fetching, Finished, vars
  <2>3. QED
    BY <1>3, <2>1, <2>2, QuietStep DEF vars, jobVars, workerVars
<1>4. QED
  BY <1>1, <1>2, <1>3 DEF Next

LEMMA AlwaysIInv == Spec => []IInv
BY InitIInv, NextIInv, PTL DEF Spec

\* Every reachable state is well typed: in particular the pass counters stay
\* in their width and the queue holds jobs only.
THEOREM TypeCorrect == Spec => []TypeOK
<1>1. IInv => TypeOK
  BY DEF IInv
<1>2. QED
  BY <1>1, AlwaysIInv, PTL

\* The loop and the worker never own a job's fields at once, however many
\* jobs share the lane and however stale wakeups interleave with passes.
THEOREM OnePassAtATime == Spec => []OnePassInFlight
<1>1. IInv => OnePassInFlight
  BY DEF IInv
<1>2. QED
  BY <1>1, AlwaysIInv, PTL

\* A request the listener has not seen answered always has a pass in flight,
\* and one that began too early owes another.
THEOREM RequestsAreKept == Spec => []NoLostRequest
<1>1. IInv => NoLostRequest
  <2> SUFFICES ASSUME IInv, NEW j \in Jobs
               PROVE  /\ seen[j] < want[j] => busy[j]
                      /\ taken[j] < want[j] => again[j] \/ InLane(j)
    BY DEF NoLostRequest
  <2>1. ~busy[j] => ~Working(j) /\ ~InLane(j) /\ ~Finished(j) /\ ~again[j]
    BY DEF IInv, OnePassInFlight
  <2>2. ~busy[j] => seen[j] = taken[j] /\ ~(taken[j] < want[j])
    BY <2>1 DEF IInv
  <2>3. QED
    BY <2>2 DEF IInv, TypeOK
<1>2. QED
  BY <1>1, AlwaysIInv, PTL

\* A finished pass of a living job always has its wakeup on the way.
THEOREM WakeupsAreKept == Spec => []NoLostWakeup
<1>1. IInv => NoLostWakeup
  BY DEF IInv
<1>2. QED
  BY <1>1, AlwaysIInv, PTL

-----------------------------------------------------------------------------
(* Lifetime.                                                               *)

\* Whatever still has to touch a job keeps it alive, the worker's late
\* signal aside.
AInv ==
    /\ pending \subseteq alive
    /\ loop.at # "idle" => loop.job \in alive
    /\ \A j \in Jobs : InLane(j) \/ Working(j) => j \in alive

LEMMA InitAInv == Init => AInv
BY DEF Init, AInv, InLane, Working, AtRest, Idle

LEMMA NextAInv == IInv /\ IInv' /\ AInv /\ [Next]_vars => AInv'
<1> SUFFICES ASSUME IInv, IInv', AInv, [Next]_vars PROVE AInv'
  OBVIOUS
<1> USE DEF AInv
<1>1. CASE BeginPass
  <2>1. \A k \in Jobs : InLane(k)' \/ Working(k)' => InLane(k)
    <3>1. /\ lane \in Seq(Jobs) /\ lane # << >>
          /\ \A p, q \in DOMAIN lane : lane[p] = lane[q] => p = q
          /\ lane' = Tail(lane) /\ worker' = [at |-> "work", job |-> Head(lane)]
      BY <1>1 DEF BeginPass, IInv, TypeOK, OnePassInFlight
    <3>2. /\ \E p \in DOMAIN lane : lane[p] = Head(lane)
          /\ \A k : (\E p \in DOMAIN Tail(lane) : Tail(lane)[p] = k)
                        => \E p \in DOMAIN lane : lane[p] = k
      BY <3>1, TakeFromLane, Zenon
    <3>3. \A k : (\E p \in DOMAIN lane' : lane'[p] = k)
                    => \E p \in DOMAIN lane : lane[p] = k
      BY <3>1, <3>2
    <3>4. \A k : Working(k)' => k = Head(lane)
      BY <3>1 DEF Working
    <3>5. QED
      BY <3>2, <3>3, <3>4, Zenon DEF InLane
  <2>2. QED
    BY <1>1, <2>1 DEF BeginPass
<1>2. CASE FinishWork \/ Signal \/ LeaveTask
  <2>1. /\ UNCHANGED <<lane, loop, alive, pending>>
        /\ worker'.at # "work"
    BY <1>2 DEF FinishWork, Signal, LeaveTask, AtRest, IInv, TypeOK
  <2>2. QED
    BY <2>1 DEF InLane, Working
<1>3. CASE \/ Collect \/ DrainJoined \/ FetchStale \/ DestroyJoined
           \/ \E j \in Jobs : Dispatch(j) \/ Drain(j) \/ DestroyJoining(j)
                              \/ DestroyIdle(j)
  <2>1. \A k \in Jobs : /\ InLane(k)' <=> InLane(k)
                        /\ Working(k)' <=> Working(k)
    BY <1>3 DEF Collect, DrainJoined, FetchStale, DestroyJoined, Dispatch, Drain,
                DestroyJoining, DestroyIdle, InLane, Working, workerVars
  <2>2. CASE Collect \/ DrainJoined \/ FetchStale
    <3>1. /\ alive' = alive
          /\ pending' \subseteq alive
          /\ loop'.at # "idle" => loop.at # "idle" /\ loop'.job = loop.job
      <4>1. CASE Collect
        BY <4>1 DEF Collect, LoopIdle
      <4>2. CASE DrainJoined
        BY <4>2 DEF DrainJoined, IInv, TypeOK
      <4>3. CASE FetchStale
        BY <4>3 DEF FetchStale, Back, Idle, IInv, TypeOK
      <4>4. QED
        BY <2>2, <4>1, <4>2, <4>3
    <3>2. QED
      BY <2>1, <3>1
  <2>3. CASE DestroyJoined
    <3>1. \A k \in Jobs : ~InLane(k) /\ ~Working(k)
      BY <2>3 DEF DestroyJoined, LaneEmpty, InLane, Working
    <3>2. QED
      BY <2>1, <2>3, <3>1 DEF DestroyJoined, Idle
  <2>4. ASSUME NEW j \in Jobs, Dispatch(j) \/ Drain(j) \/ DestroyJoining(j)
        PROVE  AInv'
    BY <2>1, <2>4 DEF Dispatch, Drain, DestroyJoining
  <2>5. ASSUME NEW j \in Jobs, DestroyIdle(j)
        PROVE  AInv'
    <3>1. ~InLane(j) /\ ~Working(j)
      BY <2>5 DEF DestroyIdle, IInv, OnePassInFlight
    <3>2. QED
      BY <2>1, <2>5, <3>1 DEF DestroyIdle, LoopIdle
  <2>6. QED
    BY <1>3, <2>2, <2>3, <2>4, <2>5
<1>4. ASSUME NEW j \in Jobs, Run(j)
      PROVE  AInv'
  <2>1. j \in alive /\ UNCHANGED <<alive, pending, loop, worker>>
    BY <1>4 DEF Run, workerVars
  <2>2. \A k \in Jobs : InLane(k)' => k = j \/ InLane(k)
    <3>1. CASE busy[j]
      BY <1>4, <3>1 DEF Run, InLane
    <3>2. CASE ~busy[j]
      BY <1>4, <3>2, SubmitLane DEF Run, Submit, IInv, OnePassInFlight
    <3>3. QED
      BY <3>1, <3>2
  <2>3. QED
    BY <2>1, <2>2 DEF Working
<1>5. CASE FetchRetire
  <2>1. /\ loop.job \in alive /\ loop.job \in Jobs
        /\ UNCHANGED <<alive, pending, worker>>
        /\ loop' = Idle \/ loop'.job = loop.job
    BY <1>5 DEF FetchRetire, IInv, TypeOK, Back, workerVars
  <2>2. ~InLane(loop.job)
    BY <1>5, <2>1 DEF FetchRetire, Fresh, IInv, OnePassInFlight, Finished
  <2>3. lane' = lane \/ lane' = Append(lane, loop.job)
    BY <1>5 DEF FetchRetire
  <2>4. \A k \in Jobs : InLane(k)' => k = loop.job \/ InLane(k)
    BY <2>1, <2>2, <2>3, SubmitLane DEF IInv, InLane
  <2>5. QED
    BY <2>1, <2>4 DEF Working, Idle
<1>6. CASE UNCHANGED vars
  BY <1>6 DEF vars, InLane, Working
<1>7. QED
  BY <1>1, <1>2, <1>3, <1>4, <1>5, <1>6 DEF Next, WorkerStep, LoopStep

LEMMA AlwaysAInv == Spec => []AInv
<1>1. Spec => []IInv
  BY AlwaysIInv
<1>2. QED
  BY <1>1, InitAInv, NextAInv, PTL DEF Spec

\* Without drain() no wakeup of a job is stale: one that is signalled,
\* collected or being fetched stands for a pass that has yet to retire.
SInv ==
    \A j \in Jobs \ DrainJobs :
        /\ efd[j] => Finished(j) /\ ~Signalling(j) /\ ~Fetching(j)
        /\ j \in pending => efd[j]
        /\ Fetching(j) => Finished(j) /\ ~Signalling(j)
        /\ Signalling(j) => Finished(j)

\* Where the loop waits, and for whom.
WInv ==
    /\ loop.at = "join" => loop.by # "io"
    /\ loop.at = "fetch" => loop.by # "destroy"
    /\ loop.at # "idle" /\ loop.by = "drain" => loop.job \in DrainJobs
    /\ loop.at # "idle" /\ loop.by = "destroy" => loop.job \in MortalJobs

LEMMA InitWInv == Init => WInv
BY DEF Init, WInv, Idle

LEMMA NextWInv == IInv /\ WInv /\ [Next]_vars => WInv'
<1> SUFFICES ASSUME IInv, WInv, [Next]_vars PROVE WInv'
  OBVIOUS
<1>1. CASE UNCHANGED loop
  BY <1>1 DEF WInv
<1>2. CASE DrainJoined \/ FetchStale \/ FetchRetire \/ DestroyJoined
  <2>1. loop' = Idle \/ (loop' = [loop EXCEPT !.at = "fetch"] /\ loop.by = "drain"
                                                         /\ loop.at = "join")
          \/ (loop' = [loop EXCEPT !.at = "join"] /\ loop.by = "drain"
                                               /\ loop.at = "fetch")
    BY <1>2 DEF DrainJoined, FetchStale, FetchRetire, DestroyJoined, Back
  <2>2. CASE loop' = Idle
    BY <2>2 DEF WInv, Idle
  <2>3. CASE loop' # Idle
    BY <2>1, <2>3 DEF WInv, IInv, TypeOK
  <2>4. QED
    BY <2>2, <2>3
<1>3. CASE \E j \in Jobs : Dispatch(j) \/ Drain(j) \/ DestroyJoining(j)
  BY <1>3 DEF WInv, Dispatch, Drain, DestroyJoining
<1>4. QED
  BY <1>1, <1>2, <1>3
     DEF Next, WorkerStep, LoopStep, BeginPass, FinishWork, Signal, LeaveTask,
         Collect, Run, DestroyIdle, vars

LEMMA AlwaysWInv == Spec => []WInv
<1>1. Spec => []IInv
  BY AlwaysIInv
<1>2. QED
  BY <1>1, InitWInv, NextWInv, PTL DEF Spec

LEMMA InitSInv == Init => SInv
<1> SUFFICES ASSUME Init, NEW j \in Jobs \ DrainJobs
             PROVE  ~efd[j] /\ j \notin pending /\ ~Fetching(j) /\ ~Signalling(j)
  BY DEF SInv
<1>1. QED
  BY DEF Init, Signalling, Fetching, AtRest, Idle

LEMMA NextSInv == IInv /\ WInv /\ SInv /\ [Next]_vars => SInv'
<1> SUFFICES ASSUME IInv, WInv, SInv, [Next]_vars, NEW j \in Jobs \ DrainJobs
             PROVE  /\ efd'[j] => Finished(j)' /\ ~Signalling(j)' /\ ~Fetching(j)'
                    /\ j \in pending' => efd'[j]
                    /\ Fetching(j)' => Finished(j)' /\ ~Signalling(j)'
                    /\ Signalling(j)' => Finished(j)'
  BY DEF SInv
<1>1. /\ efd[j] => Finished(j) /\ ~Signalling(j) /\ ~Fetching(j)
      /\ j \in pending => efd[j]
      /\ Fetching(j) => Finished(j) /\ ~Signalling(j)
      /\ Signalling(j) => Finished(j)
      /\ Working(j) => ~Finished(j)
  BY DEF SInv, IInv, OnePassInFlight
<1>2. CASE BeginPass
  BY <1>1, <1>2 DEF BeginPass, Signalling, Fetching, Finished, jobVars
<1>3. CASE FinishWork
  <2>1. CASE worker.job = j
    <3>1. Working(j) /\ Finished(j)'
      BY <1>3, <2>1, BumpMoves DEF FinishWork, Working, Finished, IInv, TypeOK,
                                   OnePassInFlight, jobVars
    <3>2. UNCHANGED <<efd, pending, loop>>
      BY <1>3 DEF FinishWork
    <3>3. QED
      BY <1>1, <3>1, <3>2 DEF Fetching
  <2>2. CASE worker.job # j
    BY <1>1, <1>3, <2>2 DEF FinishWork, Signalling, Fetching, Finished, IInv,
                            TypeOK, jobVars
  <2>3. QED
    BY <2>1, <2>2
<1>4. CASE Signal
  BY <1>1, <1>4 DEF Signal, Signalling, Fetching, Finished, IInv, TypeOK, jobVars
<1>5. CASE LeaveTask
  BY <1>1, <1>5 DEF LeaveTask, Signalling, Fetching, Finished, AtRest, jobVars
<1>6. CASE Collect
  BY <1>1, <1>6 DEF Collect, Signalling, Fetching, Finished, jobVars, workerVars
<1>7. ASSUME NEW k \in Jobs, Dispatch(k)
      PROVE  /\ efd'[j] => Finished(j)' /\ ~Signalling(j)' /\ ~Fetching(j)'
             /\ j \in pending' => efd'[j]
             /\ Fetching(j)' => Finished(j)' /\ ~Signalling(j)'
             /\ Signalling(j)' => Finished(j)'
  BY <1>1, <1>7 DEF Dispatch, LoopIdle, Signalling, Fetching, Finished, IInv,
                    TypeOK, jobVars, workerVars
<1>8. ASSUME NEW k \in Jobs,
             Drain(k) \/ DestroyJoining(k) \/ DestroyIdle(k) \/ Run(k)
      PROVE  /\ efd'[j] => Finished(j)' /\ ~Signalling(j)' /\ ~Fetching(j)'
             /\ j \in pending' => efd'[j]
             /\ Fetching(j)' => Finished(j)' /\ ~Signalling(j)'
             /\ Signalling(j)' => Finished(j)'
  BY <1>1, <1>8 DEF Drain, DestroyJoining, DestroyIdle, Run, LoopIdle, Signalling,
                    Fetching, Finished, jobVars, workerVars
<1>9. CASE DrainJoined \/ DestroyJoined
  <2>1. loop.at = "join" /\ LaneEmpty
    BY <1>9 DEF DrainJoined, DestroyJoined
  <2>2. ~Signalling(j) /\ ~Signalling(j)' /\ (Finished(j)' <=> Finished(j))
    BY <1>9, <2>1 DEF DrainJoined, DestroyJoined, LaneEmpty, Signalling, Finished,
                      jobVars, workerVars
  <2>3. ~Fetching(j)'
    <3>1. CASE DestroyJoined
      BY <3>1 DEF DestroyJoined, Fetching, Idle
    <3>2. CASE DrainJoined
      <4>1. loop.job \in DrainJobs
        BY <3>2 DEF DrainJoined, WInv
      <4>2. loop'.job = loop.job
        BY <3>2 DEF DrainJoined, IInv, TypeOK
      <4>3. QED
        BY <4>1, <4>2 DEF Fetching
    <3>3. QED
      BY <1>9, <3>1, <3>2
  <2>4. (efd'[j] => efd[j]) /\ (j \in pending' => j \in pending)
        /\ (j # loop.job \/ DestroyJoined => efd'[j] = efd[j])
    BY <1>9 DEF DrainJoined, DestroyJoined, IInv, TypeOK
  <2>5. DrainJoined => j # loop.job
    BY <2>1 DEF DrainJoined, WInv
  <2>6. QED
    BY <1>1, <1>9, <2>2, <2>3, <2>4, <2>5
<1>10. CASE FetchStale \/ FetchRetire
  <2>1. /\ loop.at = "fetch" /\ loop.job \in Jobs
        /\ UNCHANGED <<efd, pending, worker, completion>>
        /\ loop'.at # "fetch"
    BY <1>10 DEF FetchStale, FetchRetire, Back, Idle, IInv, TypeOK, workerVars
  <2>2. loop.job # j => (Finished(j)' <=> Finished(j))
    BY <1>10, <2>1 DEF FetchStale, FetchRetire, Finished, IInv, TypeOK, jobVars
  <2>3. loop.job = j => ~efd[j] /\ ~Signalling(j)
    BY <1>1, <2>1 DEF Fetching
  <2>4. QED
    BY <1>1, <2>1, <2>2, <2>3 DEF Fetching, Signalling
<1>11. CASE UNCHANGED vars
  BY <1>1, <1>11 DEF vars, Signalling, Fetching, Finished
<1>12. QED
  BY <1>2, <1>3, <1>4, <1>5, <1>6, <1>7, <1>8, <1>9, <1>10, <1>11
     DEF Next, WorkerStep, LoopStep

\* The worker never touches a destroyed job, provided no job that dies while
\* the lane lives is ever drained: joining only when busy is then enough.
THEOREM DestroyedJobsAreLeftAlone ==
    ASSUME DrainJobs \cap MortalJobs = {}
    PROVE  Spec => []NoTouchAfterDestroy
<1> DEFINE Immortal == Jobs \ MortalJobs \subseteq alive
<1> DEFINE SigInv ==
        /\ Immortal
        /\ \A j \in Jobs : Signalling(j) => j \in alive
<1>1. Init => SigInv
  BY DEF Init, Signalling, AtRest
<1>2. IInv /\ AInv /\ SInv /\ SigInv /\ WInv /\ [Next]_vars => SigInv'
  <2> SUFFICES ASSUME IInv, AInv, SInv, SigInv, WInv, [Next]_vars PROVE SigInv'
    OBVIOUS
  <2>1. CASE UNCHANGED alive /\ ~FinishWork
    <3>1. \A k \in Jobs : Signalling(k)' => Signalling(k)
      BY <2>1 DEF Next, WorkerStep, LoopStep, BeginPass, Signal, LeaveTask, Collect,
                  DrainJoined, FetchStale, FetchRetire, DestroyJoined, Run,
                  Dispatch, Drain, DestroyJoining, DestroyIdle, vars, Signalling,
                  AtRest, workerVars, IInv, TypeOK
    <3>2. QED
      BY <2>1, <3>1
  <2>2. CASE FinishWork
    <3>1. worker.job \in Jobs /\ Working(worker.job) /\ alive' = alive
          /\ worker'.job = worker.job
      BY <2>2 DEF FinishWork, Working, IInv, TypeOK
    <3>2. QED
      BY <3>1 DEF AInv, Signalling
  <2>3. CASE DestroyJoined
    <3>1. \A k \in Jobs : ~Signalling(k)'
      BY <2>3 DEF DestroyJoined, LaneEmpty, Signalling, workerVars
    <3>2. loop.job \in MortalJobs
      BY <2>3 DEF DestroyJoined, WInv
    <3>3. QED
      BY <2>3, <3>1, <3>2 DEF DestroyJoined
  <2>4. ASSUME NEW j \in Jobs, DestroyIdle(j)
        PROVE  SigInv'
    <3>1. j \in MortalJobs /\ ~Finished(j)
      BY <2>4 DEF DestroyIdle, IInv, OnePassInFlight
    <3>2. ~Signalling(j)
      BY <3>1 DEF SInv
    <3>3. alive' = alive \ {j} /\ worker' = worker
      BY <2>4 DEF DestroyIdle, workerVars
    <3>4. QED
      BY <3>1, <3>2, <3>3 DEF Signalling
  <2>5. QED
    BY <2>1, <2>2, <2>3, <2>4
       DEF Next, WorkerStep, LoopStep, BeginPass, Signal, LeaveTask, Collect,
           DrainJoined, FetchStale, FetchRetire, Run, Dispatch, Drain,
           DestroyJoining, vars
<1>3. IInv /\ AInv /\ SigInv => NoTouchAfterDestroy
  BY DEF IInv, TypeOK, AInv, NoTouchAfterDestroy, Signalling, Working, InLane
<1>4. QED
  BY <1>1, <1>2, <1>3, AlwaysIInv, AlwaysAInv, AlwaysWInv, InitSInv, NextSInv, PTL
     DEF Spec

-----------------------------------------------------------------------------
(* Refinement.                                                             *)

LEMMA QuietRefines ==
    UNCHANGED <<jobVars, workerVars, lane, want, seen, alive>>
      => UNCHANGED Abstract!cvars
BY DEF Abstract!cvars, OwedPasses, Stage, Working, Finished, jobVars, workerVars

LEMMA InitRefines == Init => Abstract!CInit
<1> SUFFICES ASSUME Init PROVE Abstract!CInit
  OBVIOUS
<1>1. \A j \in Jobs : ~Working(j) /\ ~Finished(j) /\ ~busy[j] /\ ~again[j]
  BY DEF Init, Working, Finished, AtRest
<1>2. \A j \in Jobs : OwedPasses(j) = 0
  <2> SUFFICES ASSUME NEW j \in Jobs PROVE OwedPasses(j) = 0
    OBVIOUS
  <2>1. busy[j] = FALSE /\ again[j] = FALSE
    BY DEF Init
  <2>2. QED
    BY <2>1 DEF OwedPasses
<1>3. \A j \in Jobs : Stage(j) = "rest"
  BY <1>1, Zenon DEF Stage
<1>4. QED
  BY <1>2, <1>3 DEF Init, Abstract!CInit

\* The mapped functions after a step, from their values at each job.
LEMMA MapStage ==
    ASSUME NEW j \in Jobs, NEW v, Stage(j)' = v,
           \A k \in Jobs \ {j} : Stage(k)' = Stage(k)
    PROVE  [k \in Jobs |-> Stage(k)]' = [[k \in Jobs |-> Stage(k)] EXCEPT ![j] = v]
OBVIOUS

LEMMA MapOwed ==
    ASSUME NEW j \in Jobs, NEW v, OwedPasses(j)' = v,
           \A k \in Jobs \ {j} : OwedPasses(k)' = OwedPasses(k)
    PROVE  [k \in Jobs |-> OwedPasses(k)]'
              = [[k \in Jobs |-> OwedPasses(k)] EXCEPT ![j] = v]
OBVIOUS

LEMMA BeginPassRefines ==
    IInv /\ AInv /\ BeginPass => \E j \in Jobs : Abstract!Begin(j)
<1> SUFFICES ASSUME IInv, AInv, BeginPass PROVE \E j \in Jobs : Abstract!Begin(j)
  OBVIOUS
<1>1. PICK h \in Jobs : h = Head(lane) /\ InLane(h)
  <2>1. lane \in Seq(Jobs) /\ lane # << >>
        /\ \A p, q \in DOMAIN lane : lane[p] = lane[q] => p = q
    BY DEF IInv, TypeOK, OnePassInFlight, BeginPass
  <2>2. QED
    BY <2>1, TakeFromLane, Zenon DEF InLane
<1>2. UNCHANGED <<jobVars, completion, alive, want, seen>>
      /\ taken' = [taken EXCEPT ![h] = want[h]]
      /\ worker.at = "idle" /\ worker' = [at |-> "work", job |-> h]
  BY <1>1 DEF BeginPass
<1>3. h \in alive /\ busy[h] /\ ~Finished(h)
  BY <1>1 DEF AInv, IInv, OnePassInFlight
<1>4. Stage(h) = "rest" /\ OwedPasses(h) > 0
  BY <1>2, <1>3 DEF Stage, OwedPasses, Working
<1>5. Stage(h)' = "work" /\ \A k \in Jobs \ {h} : Stage(k)' = Stage(k)
  BY <1>2 DEF Stage, Working, Finished, jobVars
<1>6. [k \in Jobs |-> Stage(k)]' = [[k \in Jobs |-> Stage(k)] EXCEPT ![h] = "work"]
  BY <1>1, <1>5, MapStage
<1>7. [k \in Jobs |-> OwedPasses(k)]' = [k \in Jobs |-> OwedPasses(k)]
  BY <1>2 DEF OwedPasses, jobVars
<1>8. Abstract!Begin(h)
  BY <1>1, <1>2, <1>3, <1>4, <1>6, <1>7 DEF Abstract!Begin
<1>9. QED
  BY <1>1, <1>8

LEMMA FinishWorkRefines ==
    IInv /\ FinishWork => \E j \in Jobs : Abstract!End(j)
<1> SUFFICES ASSUME IInv, FinishWork PROVE \E j \in Jobs : Abstract!End(j)
  OBVIOUS
<1>1. PICK w \in Jobs : w = worker.job /\ Working(w) /\ ~Finished(w)
  BY DEF IInv, TypeOK, OnePassInFlight, FinishWork, Working
<1>2. UNCHANGED <<jobVars, alive, want, taken, seen>>
      /\ completion' = [completion EXCEPT ![w] = Bump(@)]
      /\ worker' = [worker EXCEPT !.at = "signal"]
  BY <1>1 DEF FinishWork
<1>3. \A k \in Jobs : ~Working(k)' /\ (Working(k) => k = w)
  BY <1>1, <1>2 DEF Working, IInv, TypeOK
<1>4. \A k \in Jobs : Finished(k)' <=> (k = w \/ Finished(k))
  BY <1>1, <1>2, BumpMoves DEF Finished, IInv, TypeOK, jobVars
<1>5. Stage(w)' = "done" /\ \A k \in Jobs \ {w} : Stage(k)' = Stage(k)
  BY <1>1, <1>3, <1>4 DEF Stage
<1>6. [k \in Jobs |-> Stage(k)]' = [[k \in Jobs |-> Stage(k)] EXCEPT ![w] = "done"]
  BY <1>1, <1>5, MapStage
<1>7. [k \in Jobs |-> OwedPasses(k)]' = [k \in Jobs |-> OwedPasses(k)]
  BY <1>2 DEF OwedPasses, jobVars
<1>8. Stage(w) = "work"
  BY <1>1 DEF Stage
<1>9. Abstract!End(w)
  BY <1>1, <1>2, <1>6, <1>7, <1>8 DEF Abstract!End
<1>10. QED
  BY <1>1, <1>9

LEMMA RunRefines ==
    \A j \in Jobs : IInv /\ Run(j) => Abstract!Request(j)
<1> SUFFICES ASSUME NEW j \in Jobs, IInv, Run(j) PROVE Abstract!Request(j)
  OBVIOUS
<1>1. /\ j \in alive
      /\ UNCHANGED <<completion, worker, taken, retiredPasses, alive, seen>>
      /\ want' = [want EXCEPT ![j] = @ + 1]
  BY DEF Run, workerVars
<1>2. [k \in Jobs |-> Stage(k)]' = [k \in Jobs |-> Stage(k)]
  BY <1>1 DEF Stage, Working, Finished
<1>3. \A k \in Jobs \ {j} : OwedPasses(k)' = OwedPasses(k)
  BY DEF Run, Submit, OwedPasses, IInv, TypeOK
<1>4. OwedPasses(j)' = IF OwedPasses(j) = 0 THEN 1 ELSE 2
  <2>1. CASE busy[j]
    <3>1. again'[j] /\ busy'[j]
      BY <2>1 DEF Run, IInv, TypeOK
    <3>2. QED
      BY <2>1, <3>1 DEF OwedPasses
  <2>2. CASE ~busy[j]
    <3>1. ~again[j] /\ ~again'[j] /\ busy'[j]
      BY <2>2 DEF Run, Submit, IInv, TypeOK
    <3>2. QED
      BY <2>2, <3>1 DEF OwedPasses
  <2>3. QED
    BY <2>1, <2>2
<1>5. [k \in Jobs |-> OwedPasses(k)]'
        = [[k \in Jobs |-> OwedPasses(k)] EXCEPT
              ![j] = IF OwedPasses(j) = 0 THEN 1 ELSE 2]
  BY <1>3, <1>4, MapOwed
<1>6. QED
  BY <1>1, <1>2, <1>5 DEF Abstract!Request

LEMMA FetchRetireRefines ==
    IInv /\ AInv /\ FetchRetire => \E j \in Jobs : Abstract!Deliver(j)
<1> SUFFICES ASSUME IInv, AInv, FetchRetire
             PROVE  \E j \in Jobs : Abstract!Deliver(j)
  OBVIOUS
<1>1. PICK j \in Jobs : /\ j = loop.job /\ j \in alive
                       /\ Finished(j) /\ busy[j] /\ ~Working(j)
  BY DEF IInv, AInv, FetchRetire, Fresh, TypeOK, OnePassInFlight, Finished
<1>2. PICK n \in 0 .. 2 :
        /\ want'  = [want EXCEPT ![j] = @ + n]
        /\ busy'  = [busy EXCEPT ![j] = Owed(j, n)]
        /\ again' = [again EXCEPT ![j] = Remark(j, n)]
  BY <1>1 DEF FetchRetire
<1>3. /\ retiredPasses' = [retiredPasses EXCEPT ![j] = completion[j]]
      /\ seen' = [seen EXCEPT ![j] = taken[j]]
      /\ UNCHANGED <<completion, worker, taken, alive>>
  BY <1>1 DEF FetchRetire, workerVars
<1>4. \A k \in Jobs : /\ Working(k)' <=> Working(k)
                      /\ Finished(k)' <=> k # j /\ Finished(k)
  BY <1>1, <1>3 DEF IInv, TypeOK, Working, Finished
<1>5. Stage(j) = "done" /\ Stage(j)' = "rest"
        /\ \A k \in Jobs \ {j} : Stage(k)' = Stage(k)
  BY <1>1, <1>4 DEF Stage
<1>6. \A k \in Jobs \ {j} : OwedPasses(k)' = OwedPasses(k)
  BY <1>1, <1>2 DEF OwedPasses, IInv, TypeOK
<1>7. OwedPasses(j)' = IF n = 0 THEN OwedPasses(j) - 1 ELSE n
  <2>1. (busy'[j] <=> n > 0 \/ again[j]) /\ (again'[j] <=> n > 1)
    <3>1. busy'[j] = Owed(j, n) /\ again'[j] = Remark(j, n)
      BY <1>1, <1>2 DEF IInv, TypeOK
    <3>2. QED
      BY <3>1, Zenon DEF Owed, Remark
  <2>2. CASE n = 0
    <3>1. (busy'[j] <=> again[j]) /\ ~again'[j]
      BY <2>1, <2>2
    <3>2. QED
      BY <1>1, <2>2, <3>1 DEF OwedPasses
  <2>3. CASE n # 0
    <3>1. busy'[j] /\ (again'[j] <=> n = 2)
      BY <2>1, <2>3
    <3>2. QED
      BY <2>3, <3>1 DEF OwedPasses
  <2>4. QED
    BY <2>2, <2>3
<1>8. [k \in Jobs |-> Stage(k)]' = [[k \in Jobs |-> Stage(k)] EXCEPT ![j] = "rest"]
  BY <1>1, <1>5, MapStage
<1>9. [k \in Jobs |-> OwedPasses(k)]'
        = [[k \in Jobs |-> OwedPasses(k)] EXCEPT
              ![j] = IF n = 0 THEN OwedPasses(j) - 1 ELSE n]
  BY <1>1, <1>6, <1>7, MapOwed
<1>10. Abstract!Deliver(j)
  BY <1>1, <1>2, <1>3, <1>5, <1>8, <1>9 DEF Abstract!Deliver
<1>11. QED
  BY <1>1, <1>10

LEMMA DestroyRefines ==
    \A j \in Jobs : IInv /\ DestroyIdle(j) => Abstract!Close(j)
<1> SUFFICES ASSUME NEW j \in Jobs, IInv, DestroyIdle(j) PROVE Abstract!Close(j)
  OBVIOUS
<1>1. OwedPasses(j) = 0
  BY DEF DestroyIdle, OwedPasses, IInv
<1>2. UNCHANGED <<jobVars, workerVars, want, seen>>
      /\ alive' = alive \ {j} /\ j \in alive
  BY DEF DestroyIdle
<1>3. [k \in Jobs |-> Stage(k)]' = [k \in Jobs |-> Stage(k)]
        /\ [k \in Jobs |-> OwedPasses(k)]' = [k \in Jobs |-> OwedPasses(k)]
  BY <1>2 DEF Stage, OwedPasses, Working, Finished, jobVars, workerVars
<1>4. QED
  BY <1>1, <1>2, <1>3 DEF Abstract!Close, workerVars

LEMMA DestroyJoinedRefines ==
    IInv /\ AInv /\ DestroyJoined => \E j \in Jobs : Abstract!Close(j)
<1> SUFFICES ASSUME IInv, AInv, DestroyJoined
             PROVE  \E j \in Jobs : Abstract!Close(j)
  OBVIOUS
<1>1. PICK j \in Jobs : j = loop.job /\ j \in alive /\ ~Working(j) /\ ~InLane(j)
  BY DEF DestroyJoined, LaneEmpty, IInv, AInv, TypeOK, Working, InLane
<1>2. UNCHANGED <<jobVars, workerVars, want, seen>> /\ alive' = alive \ {j}
  BY <1>1 DEF DestroyJoined
<1>3. OwedPasses(j) = 0 \/ Stage(j) = "done"
  <2>1. CASE busy[j]
    BY <1>1, <2>1 DEF IInv, Stage
  <2>2. CASE ~busy[j]
    BY <1>1, <2>2 DEF IInv, OwedPasses
  <2>3. QED
    BY <2>1, <2>2
<1>4. [k \in Jobs |-> Stage(k)]' = [k \in Jobs |-> Stage(k)]
        /\ [k \in Jobs |-> OwedPasses(k)]' = [k \in Jobs |-> OwedPasses(k)]
  BY <1>2 DEF Stage, OwedPasses, Working, Finished, jobVars, workerVars
<1>5. Abstract!Close(j)
  BY <1>1, <1>2, <1>3, <1>4 DEF Abstract!Close, workerVars
<1>6. QED
  BY <1>1, <1>5

\* The threads, the eventfd and libev implement what offload_job.h promises:
\* every step of theirs is a step of the promise or changes nothing it names.
THEOREM KeepsSafetyPromise == Spec => Abstract!Promise
<1>1. IInv /\ AInv /\ [Next]_vars => [Abstract!CNext]_(Abstract!cvars)
  <2> SUFFICES ASSUME IInv, AInv, [Next]_vars
               PROVE  [Abstract!CNext]_(Abstract!cvars)
    OBVIOUS
  <2>1. CASE BeginPass \/ FinishWork \/ FetchRetire \/ DestroyJoined
    BY <2>1, BeginPassRefines, FinishWorkRefines, FetchRetireRefines,
       DestroyJoinedRefines DEF Abstract!CNext
  <2>2. ASSUME NEW j \in Jobs, Run(j) \/ DestroyIdle(j)
        PROVE  Abstract!CNext
    BY <2>2, RunRefines, DestroyRefines DEF Abstract!CNext
  <2>3. CASE Signal \/ LeaveTask
    <3>1. UNCHANGED <<jobVars, completion, want, taken, seen, alive>>
            /\ \A k \in Jobs : ~Working(k) /\ ~Working(k)'
      BY <2>3 DEF Signal, LeaveTask, Working, AtRest, IInv, TypeOK
    <3>2. UNCHANGED Abstract!cvars
      BY <3>1 DEF Abstract!cvars, Stage, OwedPasses, Finished, jobVars
    <3>3. QED
      BY <3>2
  <2>4. CASE \/ Collect \/ DrainJoined \/ FetchStale
             \/ \E j \in Jobs : Dispatch(j) \/ Drain(j) \/ DestroyJoining(j)
    BY <2>4, QuietRefines
       DEF Collect, DrainJoined, FetchStale, Dispatch, Drain, DestroyJoining
  <2>5. CASE UNCHANGED vars
    BY <2>5, QuietRefines DEF vars, jobVars, workerVars
  <2>6. QED
    BY <2>1, <2>2, <2>3, <2>4, <2>5 DEF Next, WorkerStep, LoopStep
<1>2. QED
  BY <1>1, InitRefines, AlwaysIInv, AlwaysAInv, PTL DEF Spec, Abstract!Promise
=============================================================================
