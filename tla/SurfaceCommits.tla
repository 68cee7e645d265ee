--------------------------- MODULE SurfaceCommits ---------------------------
(***************************************************************************)
(* What becomes of a wl_surface.commit (wayland.cpp): it is applied, or    *)
(* merged into the cache of a synchronized subsurface, or parked in the    *)
(* queue of its surface behind a fifo barrier, a commit timer or an        *)
(* acquire point of explicit synchronization.  A parent's commit and       *)
(* set_desync apply caches, the frame event of the output fires frame      *)
(* callbacks, clears barriers and drains the queues.  The renderer is here *)
(* as far as the updates need it: needsFrame, the buffers its frame in     *)
(* flight holds, the fence and the flip.                                   *)
(*                                                                         *)
(* The loop is one thread: handlers are single steps, except that the      *)
(* drain of the frame event is one step per update, during which nothing   *)
(* else runs.  Every commit carries one frame callback.                    *)
(***************************************************************************)
EXTENDS Naturals, Sequences, FiniteSets

CONSTANTS
    Order,           \* the surfaces, in the order of their creation
    Parent,          \* a subsurface's parent, NoParent for a toplevel's surface
    NoParent,
    Updates,         \* what a surface may commit: [attach, set, wait, timed, late]
    MaxCommits,      \* bound: the commits of each surface
    SettleFrames,    \* how many frames follow a change
    SyncWhileParked  \* whether set_sync may come while updates are parked

Surfaces == {Order[i] : i \in DOMAIN Order}
Subs == {s \in Surfaces : Parent[s] # NoParent}
Roots == Surfaces \ Subs

(* none: no attach; refused: an shm buffer the renderer cannot use *)
Attaches == {"none", "null", "dmabuf", "shm", "pixel", "refused"}
Kept(attach) == attach \in {"dmabuf", "shm"}
Content(attach) == attach \in {"dmabuf", "shm", "pixel"}

ASSUME OrderAssumption == Order \in Seq(Surfaces) /\ Cardinality(Surfaces) = Len(Order)
ASSUME ParentAssumption ==
    \A i \in DOMAIN Order : Parent[Order[i]] \in {NoParent} \cup {Order[j] : j \in 1 .. (i - 1)}
ASSUME UpdatesAssumption ==
    \A s \in Surfaces : \A a \in Updates[s] :
       /\ a.attach \in Attaches /\ {a.set, a.wait, a.timed, a.late} \subseteq BOOLEAN
       /\ a.late => a.attach = "dmabuf"
ASSUME BoundsAssumption ==
    /\ SettleFrames \in Nat \ {0} /\ SyncWhileParked \in BOOLEAN
    /\ \A s \in Surfaces : MaxCommits[s] \in Nat

VARIABLES
    last,        \* how many times each surface was committed
    surf,        \* the state applied to each surface, see Surface
    queue,       \* parked updates, see Entry
    cache,       \* the merged update of a synchronized subsurface, see Update
    barrier,     \* whether the fifo barrier is up
    sync,        \* a subsurface's own flag
    subs,        \* the wl_subsurfaces there are
    alive,       \* the wl_surfaces there are
    xdg,         \* of a toplevel: initial configure sent, acked; window mapped
    minimized,
    needsFrame, settle,
    frame,       \* flip: waiting for the frame event; fence, held: the GPU's frame
    drain,       \* the rest of the frame event: surfaces left, the next one's state
    unready,     \* buffers whose acquire point has not materialized ...
    armed,       \* ... and those of them whose eventfd is registered
    wakeup,      \* the eventfd is readable
    given,       \* history: the buffers clients committed
    returned,    \* ... and those given back: wl_buffer.release
    fired, lost  \* frame callbacks: done, or given up with their surface

loop == <<needsFrame, settle, frame, drain>>
points == <<unready, armed, wakeup>>
vars == <<last, surf, queue, cache, barrier, sync, subs, alive, xdg, minimized,
          loop, points, given, returned, fired, lost>>

(* A buffer and a frame callback are named by their commit. *)
Of(s, ns) == {<<s, n>> : n \in ns}
Listed(q) == {q[i] : i \in DOMAIN q}

NoUpdate == [n |-> 0, from |-> 0, attach |-> "none", frames |-> <<>>]

(* The commit of the newest update, the one whose attach counts, its       *)
(* attach, and the frame callbacks.                                        *)
Update == [n : Nat, from : Nat, attach : Attaches, frames : Seq(Nat)]
Entry == [u : Update, set : BOOLEAN, wait : BOOLEAN, timed : BOOLEAN]

(* held: the surface holds its buffer; owed: callbacks for the next frame *)
Surface == [n : Nat, from : Nat, attach : Attaches, held : BOOLEAN, owed : SUBSET Nat]
----------------------------------------------------------------------------
(* The tree.  A subsurface is linked to its parent while both the          *)
(* wl_subsurface and the parent live.                                      *)

Linked(s) == s \in subs /\ s \in alive /\ Parent[s] \in alive

Line[s \in Surfaces] == IF Parent[s] = NoParent THEN <<s>> ELSE <<s>> \o Line[Parent[s]]

(* s and the ancestors it is linked to *)
Chain(s) == {Line[s][i] : i \in {i \in DOMAIN Line[s] : \A j \in 1 .. (i - 1) : Linked(Line[s][j])}}

RootOf(s) == Line[s][Cardinality(Chain(s))]

EffectiveSync(s) == \E m \in Chain(s) \cap subs : sync[m]

(* The linked descendants of s reached through synchronized ones only. *)
SyncTree(s) ==
    {d \in Surfaces \ {s} : s \in Chain(d) /\ \A m \in Chain(d) \ Chain(s) : sync[m]}

Shown(s) ==
    LET r == RootOf(s) IN r \in Roots /\ xdg[r].mapped /\ r \notin minimized

Full(s) == \A m \in Chain(s) : Content(surf[m].attach)
----------------------------------------------------------------------------
(* Applying updates *)

(* applyCache: the state f of a surface with the update u on top *)
Onto(f, u) ==
    [n      |-> IF u.n = 0 THEN f.n ELSE u.n,
     from   |-> IF u.from = 0 THEN f.from ELSE u.from,
     attach |-> IF u.from = 0 THEN f.attach ELSE u.attach,
     held   |-> IF u.from = 0 THEN f.held ELSE Kept(u.attach),
     owed   |-> f.owed \cup Listed(u.frames)]

Held(sf) == {<<s, sf[s].from>> : s \in {s \in Surfaces : sf[s].held}}

(* The surfaces change to sf, and more buffers are given back at once; one *)
(* a frame in flight still holds is given back when its fence retires.     *)
Become(sf, more) ==
    /\ surf' = sf
    /\ returned' = returned \cup more \cup ((Held(surf) \ Held(sf)) \ frame.held)

(* The caches of the surfaces in ds are applied, and the update u to s. *)
ApplyAll(s, u, ds, more) ==
    /\ Become([d \in Surfaces |-> IF d = s THEN Onto(surf[s], u)
                                  ELSE IF d \in ds THEN Onto(surf[d], cache[d]) ELSE surf[d]], more)
    /\ cache' = [d \in Surfaces |-> IF d \in ds THEN NoUpdate ELSE cache[d]]

(* xdgHandleCommit: the first commit is answered by a configure, content   *)
(* maps the window, its loss unmaps it and starts over.                    *)
HandleCommit(r) ==
    LET x == xdg[r]
        content == Content(surf'[r].attach)
    IN  IF ~x.sent THEN [x EXCEPT !.sent = TRUE]
        ELSE IF x.mapped /\ ~content THEN [sent |-> FALSE, acked |-> FALSE, mapped |-> FALSE]
        ELSE [x EXCEPT !.mapped = content]

Handled(s) == xdg' = IF s \in Roots THEN [xdg EXCEPT ![s] = HandleCommit(s)] ELSE xdg
----------------------------------------------------------------------------
SCInit ==
    /\ last = [s \in Surfaces |-> 0]
    /\ surf = [s \in Surfaces |-> [n |-> 0, from |-> 0, attach |-> "null", held |-> FALSE, owed |-> {}]]
    /\ queue = [s \in Surfaces |-> <<>>]
    /\ cache = [s \in Surfaces |-> NoUpdate]
    /\ barrier = [s \in Surfaces |-> FALSE]
    /\ sync = [s \in Surfaces |-> s \in Subs]
    /\ subs = Subs
    /\ alive = Surfaces
    /\ xdg = [r \in Roots |-> [sent |-> FALSE, acked |-> FALSE, mapped |-> FALSE]]
    /\ minimized = {}
    /\ needsFrame = FALSE /\ settle = 0
    /\ frame = [flip |-> FALSE, fence |-> FALSE, held |-> {}]
    /\ drain = [left |-> {}, busy |-> FALSE, presented |-> FALSE]
    /\ unready = {} /\ armed = {} /\ wakeup = FALSE
    /\ given = {} /\ returned = {} /\ fired = {} /\ lost = {}

(* No frame event is being handled: the loop can run something else. *)
Idle == drain.left = {}
----------------------------------------------------------------------------
(* wl_surface.commit *)

SupersededKept(s, c, u) == {}

(* A merged update that attaches displaces the buffer the cache held,      *)
(* which is given back.                                                    *)
Superseded(s, c, u) == IF u.from # 0 /\ Kept(c.attach) THEN {<<s, c.from>>} ELSE {}

MergeDropsFrames(c, u) == [u EXCEPT !.from = IF u.from = 0 THEN c.from ELSE @,
                                    !.attach = IF u.from = 0 THEN c.attach ELSE @]

Merge(c, u) ==
    [n |-> u.n,
     from |-> IF u.from = 0 THEN c.from ELSE u.from,
     attach |-> IF u.from = 0 THEN c.attach ELSE u.attach,
     frames |-> c.frames \o u.frames]

ToCacheOfParent(s) == s \in subs /\ sync[Parent[s]]

ToCache(s) == s \in subs /\ EffectiveSync(s)

ParksOvertaking(s, a) == a.late \/ (a.wait /\ barrier[s]) \/ a.timed

ParksReadyOnly(s, a) == queue[s] # <<>> \/ (a.wait /\ barrier[s]) \/ a.timed

(* Behind parked updates, behind the barrier, before its time, or with an  *)
(* acquire point that has not materialized: the update is parked.          *)
Parks(s, a) == a.late \/ queue[s] # <<>> \/ (a.wait /\ barrier[s]) \/ a.timed

Committed(s, a) ==
    LET n == last[s] + 1 IN
    [n |-> n, from |-> IF a.attach = "none" THEN 0 ELSE n, attach |-> a.attach, frames |-> <<n>>]

(* A single-pixel or refused buffer is given back by the commit itself. *)
AtOnce(s, a) == IF a.attach \in {"pixel", "refused"} THEN {<<s, last[s] + 1>>} ELSE {}

(* A toplevel's buffer before the ack of its configure is an error. *)
Commits(s, a) ==
    /\ Idle /\ s \in alive /\ last[s] < MaxCommits[s] /\ a \in Updates[s]
    /\ s \in Roots /\ a.attach \notin {"none", "null"} => xdg[s].sent /\ xdg[s].acked
    /\ last' = [last EXCEPT ![s] = @ + 1]
    /\ given' = IF a.attach \in {"none", "null"} THEN given ELSE given \cup {<<s, last[s] + 1>>}
    /\ needsFrame' = TRUE
    /\ unready' = IF a.late THEN unready \cup {<<s, last[s] + 1>>} ELSE unready
    /\ UNCHANGED <<sync, subs, alive, minimized, settle, frame, drain, wakeup, fired, lost>>

CommitCached(s, a) ==
    /\ Commits(s, a) /\ ToCache(s)
    /\ cache' = [cache EXCEPT ![s] = Merge(@, Committed(s, a))]
    /\ Become(surf, Superseded(s, cache[s], Committed(s, a)) \cup AtOnce(s, a))
    /\ barrier' = [barrier EXCEPT ![s] = @ \/ a.set]
    /\ UNCHANGED <<queue, xdg, armed>>

CommitParked(s, a) ==
    /\ Commits(s, a) /\ ~ToCache(s) /\ Parks(s, a)
    /\ queue' = [queue EXCEPT ![s] =
          Append(@, [u |-> Committed(s, a), set |-> a.set, wait |-> a.wait, timed |-> a.timed])]
    /\ Become(surf, AtOnce(s, a))
    /\ armed' = armed \cup (unready' \ unready)
    /\ UNCHANGED <<cache, barrier, xdg>>

CommitApplied(s, a) ==
    /\ Commits(s, a) /\ ~ToCache(s) /\ ~Parks(s, a)
    /\ ApplyAll(s, Committed(s, a), SyncTree(s), AtOnce(s, a))
    /\ Handled(s)
    /\ barrier' = [barrier EXCEPT ![s] = @ \/ a.set]
    /\ UNCHANGED <<queue, armed>>
----------------------------------------------------------------------------
(* Other requests, and the user *)

(* xdg_surface.ack_configure of the one configure that is out *)
AckConfigure(r) ==
    /\ Idle /\ r \in alive /\ xdg[r].sent /\ ~xdg[r].acked
    /\ xdg' = [xdg EXCEPT ![r].acked = TRUE]
    /\ UNCHANGED <<last, surf, queue, cache, barrier, sync, subs, alive, minimized,
                   loop, points, given, returned, fired, lost>>

SetSync(s) ==
    /\ Idle /\ s \in subs
    /\ SyncWhileParked \/ \A d \in Surfaces : s \in Chain(d) => queue[d] = <<>>
    /\ sync' = [sync EXCEPT ![s] = TRUE]
    /\ UNCHANGED <<last, surf, queue, cache, barrier, subs, alive, xdg, minimized,
                   loop, points, given, returned, fired, lost>>

SetDesyncNoFrame(s) ==
    /\ Idle /\ s \in subs \cap alive
    /\ sync' = [sync EXCEPT ![s] = FALSE]
    /\ IF \E m \in (Chain(s) \cap subs) \ {s} : sync[m]
       THEN UNCHANGED <<surf, cache, returned>>
       ELSE ApplyAll(s, cache[s], SyncTree(s) \cup {s}, {})
    /\ UNCHANGED <<last, queue, barrier, subs, alive, xdg, minimized,
                   loop, points, given, fired, lost>>

(* set_desync applies the cache, and those below, when no ancestor keeps   *)
(* the subsurface synchronized.                                            *)
SetDesync(s) ==
    /\ Idle /\ s \in subs \cap alive
    /\ sync' = [sync EXCEPT ![s] = FALSE]
    /\ IF \E m \in (Chain(s) \cap subs) \ {s} : sync[m]
       THEN UNCHANGED <<surf, cache, returned, needsFrame>>
       ELSE ApplyAll(s, cache[s], SyncTree(s) \cup {s}, {}) /\ needsFrame' = TRUE
    /\ UNCHANGED <<last, queue, barrier, subs, alive, xdg, minimized,
                   settle, frame, drain, points, given, fired, lost>>

(* wl_surface.destroy: parked updates go, the applied buffer is let go,    *)
(* the cache stays with the wl_subsurface.                                 *)
DestroySurface(s) ==
    LET entries == {e.u : e \in Listed(queue[s])} IN
    /\ Idle /\ s \in alive
    /\ alive' = alive \ {s}
    /\ Become([surf EXCEPT ![s].attach = "null", ![s].held = FALSE, ![s].owed = {}],
              {<<s, u.from>> : u \in {u \in entries : Kept(u.attach)}})
    /\ lost' = lost \cup Of(s, surf[s].owed) \cup Of(s, UNION {Listed(u.frames) : u \in entries})
    /\ queue' = [queue EXCEPT ![s] = <<>>]
    /\ barrier' = [barrier EXCEPT ![s] = FALSE]
    /\ needsFrame' = TRUE
    /\ UNCHANGED <<last, cache, sync, subs, xdg, minimized, settle, frame, drain, points, given, fired>>

(* subsurfaceResourceDestroyed walks the cached callbacks with a range-for *)
(* while the destruction of each, as long as the surface lives, removes it *)
(* from the same vector and shifts the rest down.                          *)
Walked(s) ==
    LET f == cache[s].frames IN
    IF s \in alive THEN {f[IF 2 * i - 1 < Len(f) THEN 2 * i - 1 ELSE Len(f)] : i \in DOMAIN f}
                   ELSE Listed(f)

(* wl_subsurface.destroy: the cache goes, the surface is no longer part of *)
(* the tree.                                                               *)
DestroySubsurface(s) ==
    /\ Idle /\ s \in subs
    /\ subs' = subs \ {s}
    /\ lost' = lost \cup Of(s, Walked(s))
    /\ Become(surf, IF Kept(cache[s].attach) THEN {<<s, cache[s].from>>} ELSE {})
    /\ cache' = [cache EXCEPT ![s] = NoUpdate]
    /\ UNCHANGED <<last, queue, barrier, sync, alive, xdg, minimized, loop, points, given, fired>>

(* The user, in the dock, minimizes the window or brings it back. *)
Minimize(r) ==
    /\ Idle /\ r \in alive /\ xdg[r].mapped
    /\ minimized' = IF r \in minimized THEN minimized \ {r} ELSE minimized \cup {r}
    /\ needsFrame' = TRUE
    /\ UNCHANGED <<last, surf, queue, cache, barrier, sync, subs, alive, xdg,
                   settle, frame, drain, points, given, returned, fired, lost>>
----------------------------------------------------------------------------
(* The renderer's frame: frameNow, the fence, the flip *)

Wants == needsFrame \/ settle > 0

SettledNot == IF needsFrame THEN SettleFrames ELSE settle - 1

Settled == IF needsFrame THEN SettleFrames - 1 ELSE settle - 1

(* The renderer's idea of a visible surface does not ask whether the       *)
(* window is mapped.                                                       *)
Visible(s) == Full(s) /\ RootOf(s) \in Roots \ minimized

(* The frame holds the dma-bufs it samples until its fence; an shm buffer  *)
(* is copied, visible or not, and its surface lets it go.                  *)
Copied == {s \in Surfaces : surf[s].held /\ surf[s].attach = "shm"}
Sampled == {s \in alive : surf[s].held /\ surf[s].attach = "dmabuf" /\ Visible(s)}

RenderFrame ==
    /\ Idle /\ Wants /\ ~frame.flip /\ ~frame.fence
    /\ needsFrame' = FALSE /\ settle' = Settled
    /\ frame' = [flip |-> TRUE, fence |-> TRUE,
                 held |-> {<<s, surf[s].from>> : s \in Copied \cup Sampled}]
    /\ surf' = [s \in Surfaces |-> IF s \in Copied THEN [surf[s] EXCEPT !.held = FALSE] ELSE surf[s]]
    /\ UNCHANGED <<last, queue, cache, barrier, sync, subs, alive, xdg, minimized,
                   drain, points, given, returned, fired, lost>>

(* The previous frame's fence is not there yet: try again. *)
FrameDeferred ==
    /\ Idle /\ Wants /\ ~frame.flip /\ frame.fence
    /\ needsFrame' = TRUE
    /\ UNCHANGED <<last, surf, queue, cache, barrier, sync, subs, alive, xdg, minimized,
                   settle, frame, drain, points, given, returned, fired, lost>>

FenceRetires ==
    /\ Idle /\ frame.fence
    /\ frame' = [frame EXCEPT !.fence = FALSE, !.held = {}]
    /\ returned' = returned \cup (frame.held \ Held(surf))
    /\ UNCHANGED <<last, surf, queue, cache, barrier, sync, subs, alive, xdg, minimized,
                   needsFrame, settle, drain, points, given, fired, lost>>
----------------------------------------------------------------------------
(* The frame event: the callbacks of shown surfaces fire, then the queues  *)
(* of all surfaces are drained.                                            *)

Presented(s) == s \in alive /\ Shown(s) /\ Full(s)

FlipDone ==
    /\ Idle /\ frame.flip
    /\ frame' = [frame EXCEPT !.flip = FALSE]
    /\ fired' = fired \cup UNION {Of(s, surf[s].owed) : s \in {s \in Surfaces : Presented(s)}}
    /\ surf' = [s \in Surfaces |-> IF Presented(s) THEN [surf[s] EXCEPT !.owed = {}] ELSE surf[s]]
    /\ drain' = [drain EXCEPT !.left = alive]
    /\ UNCHANGED <<last, queue, cache, barrier, sync, subs, alive, xdg, minimized,
                   needsFrame, settle, points, given, returned, lost>>

Draining ==
    Order[CHOOSE i \in DOMAIN Order :
              Order[i] \in drain.left /\ \A j \in 1 .. (i - 1) : Order[j] \notin drain.left]

(* drainFifo begins: the barrier of a shown surface is satisfied. *)
BeginDrain ==
    /\ ~Idle /\ ~drain.busy
    /\ drain' = [drain EXCEPT !.busy = TRUE, !.presented = Shown(Draining)]
    /\ barrier' = [barrier EXCEPT ![Draining] = @ /\ ~Shown(Draining)]
    /\ UNCHANGED <<last, surf, queue, cache, sync, subs, alive, xdg, minimized,
                   needsFrame, settle, frame, points, given, returned, fired, lost>>

HeldOnAcquire(s) == <<s, Head(queue[s]).u.n>> \in unready

BlockedNoAcquire(s) ==
    LET e == Head(queue[s]) IN (drain.presented /\ e.wait /\ barrier[s]) \/ e.timed

(* What keeps the oldest update parked: its barrier, unless the surface is *)
(* hidden, its time, its acquire point.                                    *)
Blocked(s) ==
    LET e == Head(queue[s]) IN
    (drain.presented /\ e.wait /\ barrier[s]) \/ e.timed \/ HeldOnAcquire(s)

MayAdmit(s) == queue[s] # <<>> /\ ~Blocked(s)

Admit ==
    /\ ~Idle /\ drain.busy
    /\ LET s == Draining IN
       /\ MayAdmit(s)
       /\ ApplyAll(s, Head(queue[s]).u, SyncTree(s), {})
       /\ Handled(s)
       /\ barrier' = [barrier EXCEPT ![s] = @ \/ Head(queue[s]).set]
       /\ queue' = [queue EXCEPT ![s] = Tail(@)]
    /\ needsFrame' = TRUE
    /\ UNCHANGED <<last, sync, subs, alive, minimized, settle, frame, drain, points, given, fired, lost>>

NeedsFrameNever(s) == FALSE

(* An update held by its barrier or its time needs another frame; one held *)
(* by its acquire point waits for the eventfd.                             *)
NeedsFrameFor(s) == queue[s] # <<>> /\ ~HeldOnAcquire(s)

EndDrain ==
    /\ ~Idle /\ drain.busy
    /\ ~MayAdmit(Draining)
    /\ drain' = [left |-> drain.left \ {Draining}, busy |-> FALSE, presented |-> FALSE]
    /\ needsFrame' = (needsFrame \/ NeedsFrameFor(Draining))
    /\ UNCHANGED <<last, surf, queue, cache, barrier, sync, subs, alive, xdg, minimized,
                   settle, frame, points, given, returned, fired, lost>>
----------------------------------------------------------------------------
(* Time, and the clients' GPUs *)

(* The instant a commit timer names comes; it may be far away.  A drain    *)
(* reads the clock once.                                                   *)
TimePasses(s, i) ==
    /\ ~drain.busy /\ i \in DOMAIN queue[s] /\ queue[s][i].timed
    /\ queue' = [queue EXCEPT ![s][i].timed = FALSE]
    /\ UNCHANGED <<last, surf, cache, barrier, sync, subs, alive, xdg, minimized,
                   loop, points, given, returned, fired, lost>>

(* An acquire point materializes; a registered eventfd becomes readable. *)
Materialize(b) ==
    /\ b \in unready
    /\ unready' = unready \ {b} /\ armed' = armed \ {b}
    /\ wakeup' = (wakeup \/ b \in armed)
    /\ UNCHANGED <<last, surf, queue, cache, barrier, sync, subs, alive, xdg, minimized,
                   loop, given, returned, fired, lost>>

(* syncEvCb *)
SyncEvent ==
    /\ Idle /\ wakeup
    /\ wakeup' = FALSE /\ needsFrame' = TRUE
    /\ UNCHANGED <<last, surf, queue, cache, barrier, sync, subs, alive, xdg, minimized,
                   settle, frame, drain, unready, armed, given, returned, fired, lost>>
----------------------------------------------------------------------------
Commit(s) == \E a \in Updates[s] : CommitCached(s, a) \/ CommitParked(s, a) \/ CommitApplied(s, a)

Drain == BeginDrain \/ Admit \/ EndDrain

SCNext ==
    \/ \E s \in Surfaces : Commit(s) \/ DestroySurface(s)
    \/ \E s \in Subs : SetSync(s) \/ SetDesync(s) \/ DestroySubsurface(s)
    \/ \E r \in Roots : AckConfigure(r) \/ Minimize(r)
    \/ RenderFrame \/ FrameDeferred \/ FenceRetires \/ FlipDone
    \/ Drain
    \/ \E s \in Surfaces : \E i \in DOMAIN queue[s] : TimePasses(s, i)
    \/ \E b \in unready : Materialize(b)
    \/ SyncEvent

(* The loop serves what is ready, the GPU finishes, the kernel flips.      *)
(* Clients, users, commit timers and acquire points owe nothing.           *)
Fairness ==
    /\ WF_vars(RenderFrame) /\ WF_vars(FenceRetires) /\ WF_vars(FlipDone)
    /\ WF_vars(Drain) /\ WF_vars(SyncEvent)

SCSpec == SCInit /\ [][SCNext]_vars
FairSpec == SCSpec /\ Fairness
----------------------------------------------------------------------------
(* Properties *)

(* Every variable keeps its type, and the bookkeeping its bounds: at most  *)
(* SettleFrames - 1 frames are owed after one, what the GPU holds has a    *)
(* fence, registered acquire points have not materialized.                 *)
TypeOK ==
    /\ last \in [Surfaces -> Nat] /\ surf \in [Surfaces -> Surface]
    /\ cache \in [Surfaces -> Update] /\ queue \in [Surfaces -> Seq(Entry)]
    /\ \A s \in Surfaces : surf[s].owed \subseteq 1 .. last[s] /\ surf[s].n <= last[s]
    /\ {barrier, sync} \subseteq [Surfaces -> BOOLEAN]
    /\ subs \subseteq Subs /\ alive \subseteq Surfaces /\ minimized \subseteq Roots
    /\ xdg \in [Roots -> [sent : BOOLEAN, acked : BOOLEAN, mapped : BOOLEAN]]
    /\ needsFrame \in BOOLEAN /\ settle \in 0 .. (SettleFrames - 1)
    /\ frame.held # {} => frame.fence
    /\ armed \subseteq unready /\ wakeup \in BOOLEAN

(* What waits of a surface: its parked updates, then its cache. *)
Waiting(s) == [i \in DOMAIN queue[s] |-> queue[s][i].u]
              \o IF cache[s].n = 0 THEN <<>> ELSE <<cache[s]>>

(* The promise of wl_surface.commit: each surface's updates are applied in *)
(* the order of their commits, each whole, and its content is the newest   *)
(* applied attach, through caches, queues, drains and destruction.         *)
Pending(s) ==
    IF s \notin alive THEN <<>>
    ELSE [i \in DOMAIN Waiting(s) |-> [n |-> Waiting(s)[i].n, from |-> Waiting(s)[i].from]]

CU == INSTANCE ContentUpdates WITH
    made <- last,
    shown <- [s \in Surfaces |-> [n |-> surf[s].n, from |-> surf[s].from]],
    waiting <- [s \in Surfaces |-> Pending(s)]

KeepsOrder == CU!CUSpec

(* A client gets every buffer it committed back exactly once: until then   *)
(* one update that waits has it, or the surface and the frame in flight.   *)
BufferPlaces(s) ==
    <<Held(surf) \cup frame.held, returned>>
    \o [i \in DOMAIN Waiting(s) |->
          LET u == Waiting(s)[i] IN IF Kept(u.attach) THEN {<<s, u.from>>} ELSE {}]

BuffersAccounted ==
    \A b \in given : Cardinality({i \in DOMAIN BufferPlaces(b[1]) : b \in BufferPlaces(b[1])[i]}) = 1

(* Every frame callback is in one place: with one update that waits, with  *)
(* the surface that owes it, done, or given up.                            *)
CallbackPlaces(s) ==
    <<Of(s, surf[s].owed), fired, lost>>
    \o [i \in DOMAIN Waiting(s) |-> Of(s, Listed(Waiting(s)[i].frames))]

CallbacksAccounted ==
    \A s \in Surfaces : \A n \in 1 .. last[s] :
       Cardinality({i \in DOMAIN CallbackPlaces(s) : <<s, n>> \in CallbackPlaces(s)[i]}) = 1

(* The state of a synchronized subsurface changes only together with its   *)
(* parent's, or when set_desync releases it.                               *)
SyncedTogether ==
    [][\A s \in Subs : EffectiveSync(s) /\ Linked(s) /\ surf'[s].n # surf[s].n =>
          surf'[Parent[s]].n # surf[Parent[s]].n \/ ~EffectiveSync(s)']_vars

(* An update is kept in a cache only while something will apply it: once   *)
(* no ancestor keeps the subsurface synchronized its cache is empty.       *)
NoStrandedCache == \A s \in alive : cache[s].n # 0 => ToCache(s)

(* set_desync applies every cache it releases, of the subsurface and of    *)
(* those below it, when no ancestor remains synchronized.                  *)
DesyncReleases ==
    [][\A s \in Subs : sync[s] /\ ~sync'[s] =>
          \A d \in alive : s \in Chain(d) /\ ~ToCache(d)' => cache'[d].n = 0]_vars

(* The GPU samples no buffer before its acquire point has materialized:    *)
(* commits of surfaces that are not synchronized wait for it.              *)
SampledReady == frame.held \cap unready = {}

(* An update whose time has come and whose acquire point is there does not *)
(* stay parked, whatever its barrier and whether or not the window shows.  *)
Ready(s) == queue[s] # <<>> /\ ~Head(queue[s]).timed /\ ~HeldOnAcquire(s)

ReadyUpdatesApplied == \A s \in Surfaces : Ready(s) ~> ~Ready(s)

(* A surface that is on the screen does not owe frame callbacks forever. *)
Owes(s) == surf[s].owed # {} /\ Presented(s)

CallbacksFire == \A s \in Surfaces : Owes(s) ~> ~Owes(s)
=============================================================================
