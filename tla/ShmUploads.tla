----------------------------- MODULE ShmUploads -----------------------------
(***************************************************************************)
(* How the pixels of wl_shm buffers reach textures (renderer.cpp): a       *)
(* commit makes a content that refers to the client's buffer, the frame    *)
(* loop has its damaged part copied on the worker into memory the GPU can  *)
(* read, notes an upload with the texture, records the noted uploads in    *)
(* the next composed frame and lets the buffer go with that frame's fence. *)
(*                                                                         *)
(* An image is a set of cells.  What matters of any copy of an image is    *)
(* which of its cells differ from the newest commit: its stale cells.      *)
(***************************************************************************)
EXTENDS Naturals, Sequences, FiniteSets

CONSTANTS
    Order,   \* the surfaces, in the order of the scene
    Bufs,    \* surface -> the client's buffers for it, of one size
    Cells,   \* the parts of an image that are damaged one by one
    Copied,  \* buffers whose memory the worker copies (ShmBackend::Cpu); the
             \* GPU reads the memory of the others in place
    Broken,  \* buffers whose memory may vanish or find no staging memory
    Whole,   \* surfaces whose commits damage everything
    Drops,   \* surfaces that may attach no buffer
    Mortal,  \* surfaces that may be destroyed
    Eager,   \* surfaces that do not wait for the frame callback of a commit
    Direct,  \* whether a fullscreen client's buffer may be scanned out
    NoBuf

Surfaces == {Order[i] : i \in DOMAIN Order}
Buffers == UNION {Bufs[s] : s \in Surfaces}

ASSUME OrderAssumption ==
    Order \in Seq(Surfaces) /\ \A i, j \in DOMAIN Order : Order[i] = Order[j] => i = j
ASSUME BuffersAssumption ==
    /\ NoBuf \notin Buffers
    /\ \A s \in Surfaces : IsFiniteSet(Bufs[s])
    /\ \A s, t \in Surfaces : s # t => Bufs[s] \cap Bufs[t] = {}
ASSUME SubsetsAssumption ==
    Copied \cup Broken \subseteq Buffers /\ Whole \cup Drops \cup Mortal \cup Eager \subseteq Surfaces
ASSUME CellsAssumption == Cells # {} /\ Direct \in BOOLEAN

VARIABLES
    surf,       \* Surface: shm (buf), hasContent, dirty; alive; the damage of
                \* the newest commit and whether its frame callback is owed
    refs,       \* references to the content made of each buffer; 0: released
    content,    \* the content made of each buffer and its ShmState
    staged,     \* each buffer's ShmUpload
    tex,        \* each surface's SurfaceTexture
    tasks,      \* shmCopyActive, then shmCopyQueue
    worker,     \* the pass of shmCopyJob for the first task
    gpu,        \* the frame in flight: the contents it reads and holds, and
                \* whether it reads one that is gone
    flip,       \* a presented frame waits for its frame event
    needsFrame, \* Scene::needsFrame
    forced      \* composeNow: waiting before or after the frame it forces

vars == <<surf, refs, content, staged, tex, tasks, worker, gpu, flip, needsFrame, forced>>

NoTex  == [there |-> FALSE, pend |-> FALSE, src |-> NoBuf, gone |-> FALSE,
           rect |-> {}, stale |-> Cells]
NoContent == [damage |-> {}, copy |-> "new", stale |-> {}]
NoGpu  == [busy |-> FALSE, reads |-> {}, held |-> {}, gone |-> FALSE]

Listed(q) == {q[i] : i \in DOMAIN q}
Active == tasks # <<>>
Alive(b) == refs[b] > 0
One(b, S) == IF b \in S THEN 1 ELSE 0

(* References taken and dropped; a texture's note of an upload is a bare   *)
(* pointer that outlives a content whose last reference goes.              *)
Count(plus, minus) == [b \in Buffers |-> refs[b] + One(b, plus) - One(b, minus)]
Orphaned(t, r) ==
    [s \in Surfaces |-> IF t[s].src # NoBuf /\ r[t[s].src] = 0 THEN [t[s] EXCEPT !.gone = TRUE] ELSE t[s]]

Kept(c, r) == [b \in Buffers |-> IF r[b] = 0 THEN NoContent ELSE c[b]]

(* What a step makes of textures and contents, once counted. *)
Become(t, c, r) == tex' = Orphaned(t, r) /\ content' = Kept(c, r) /\ refs' = r

Init ==
    /\ surf = [s \in Surfaces |-> [buf |-> NoBuf, has |-> FALSE, dirty |-> FALSE,
                                   alive |-> TRUE, damage |-> {}, owed |-> FALSE]]
    /\ refs = [b \in Buffers |-> 0]
    /\ content = [b \in Buffers |-> NoContent]
    /\ staged = [b \in Buffers |-> [init |-> FALSE, stale |-> Cells]]
    /\ tex = [s \in Surfaces |-> NoTex]
    /\ tasks = <<>> /\ worker = "idle"
    /\ gpu = NoGpu /\ flip = FALSE /\ needsFrame = FALSE /\ forced = "no"
----------------------------------------------------------------------------
(* The client *)

Loop == forced = "no"

(* surfaceCommit with a wl_shm buffer the compositor has released.  The    *)
(* client repaints the whole buffer and damages what differs from its last *)
(* commit: everything, after none.                                         *)
Commit(s, b, d) ==
    LET gone == IF surf[s].buf = NoBuf THEN {} ELSE {surf[s].buf}
        Older(c) == IF c \in Bufs[s] THEN d ELSE {}
    IN
    /\ Loop /\ surf[s].alive
    /\ b \in Bufs[s] /\ ~Alive(b)
    /\ surf[s].owed => s \in Eager
    /\ d # {} /\ (~surf[s].has \/ s \in Whole => d = Cells)
    /\ surf' = [surf EXCEPT ![s].buf = b, ![s].has = TRUE, ![s].dirty = TRUE,
                            ![s].damage = d, ![s].owed = TRUE]
    /\ Become([tex EXCEPT ![s].stale = @ \cup d],
              [c \in Buffers |-> IF c = b THEN [NoContent EXCEPT !.damage = d]
                                 ELSE [content[c] EXCEPT !.stale = @ \cup Older(c)]],
              Count({b}, gone))
    /\ staged' = [c \in Buffers |-> [staged[c] EXCEPT !.stale = @ \cup Older(c)]]
    /\ needsFrame' = TRUE
    /\ UNCHANGED <<tasks, worker, gpu, flip, forced>>

CommitNullKeeps(s) ==
    /\ Loop /\ surf[s].alive /\ s \in Drops /\ surf[s].has
    /\ surf' = [surf EXCEPT ![s].buf = NoBuf, ![s].has = FALSE, ![s].damage = {}]
    /\ needsFrame' = TRUE
    /\ UNCHANGED <<refs, content, tex, staged, tasks, worker, gpu, flip, forced>>

(* A commit of no buffer keeps the texture. *)
CommitNull(s) ==
    LET gone == IF surf[s].buf = NoBuf THEN {} ELSE {surf[s].buf} IN
    /\ Loop /\ surf[s].alive /\ s \in Drops /\ surf[s].has
    /\ surf' = [surf EXCEPT ![s].buf = NoBuf, ![s].has = FALSE, ![s].damage = {}]
    /\ Become(tex, content, Count({}, gone))
    /\ needsFrame' = TRUE
    /\ UNCHANGED <<staged, tasks, worker, gpu, flip, forced>>

(* wl_surface.destroy, or the client leaves: the texture goes with the     *)
(* surface's frame resource.                                               *)
DestroySurface(s) ==
    LET gone == IF surf[s].buf = NoBuf THEN {} ELSE {surf[s].buf} IN
    /\ Loop /\ s \in Mortal /\ surf[s].alive
    /\ surf' = [surf EXCEPT ![s].alive = FALSE, ![s].buf = NoBuf, ![s].has = FALSE,
                            ![s].dirty = FALSE, ![s].damage = {}, ![s].owed = FALSE]
    /\ Become([tex EXCEPT ![s] = NoTex], content, Count({}, gone))
    /\ needsFrame' = TRUE
    /\ UNCHANGED <<staged, tasks, worker, gpu, flip, forced>>
----------------------------------------------------------------------------
(* The copies *)

BeginCopy ==
    /\ Active /\ worker = "idle"
    /\ worker' = "copying"
    /\ UNCHANGED <<surf, refs, content, staged, tex, tasks, gpu, flip, needsFrame, forced>>

(* shmCopyWork ends: the damaged part has been copied, or the memory was   *)
(* not there.                                                              *)
EndCopy ==
    LET b == Head(tasks).b
        d == content[b].damage IN
    /\ worker = "copying"
    /\ \/ /\ worker' = "copied"
          /\ staged' = [staged EXCEPT ![b].stale = (@ \ d) \cup (content[b].stale \cap d)]
       \/ /\ b \in Broken
          /\ worker' = "failed"
          /\ staged' = [staged EXCEPT ![b].stale = @ \cup d]
    /\ UNCHANGED <<surf, refs, content, tex, tasks, gpu, flip, needsFrame, forced>>

(* The task's surface still has the content that was copied. *)
StillShows(t) == surf[t.s].buf = t.b

(* shmCopyDone, when the loop learns of the pass or drain() has waited for *)
(* it: a broken client is told; the next task starts.                      *)
CopyDone ==
    LET t == Head(tasks) IN
    /\ forced # "after" /\ worker \in {"copied", "failed"}
    /\ worker' = "idle"
    /\ tasks' = Tail(tasks)
    /\ staged' = [staged EXCEPT ![t.b].init = @ \/ worker = "copied"]
    /\ Become(tex, [content EXCEPT ![t.b].copy = IF worker = "copied" THEN "ready" ELSE "failed"],
              Count({}, {t.b}))
    /\ IF StillShows(t)
       THEN surf' = [surf EXCEPT ![t.s].dirty = TRUE] /\ needsFrame' = TRUE
       ELSE UNCHANGED <<surf, needsFrame>>
    /\ UNCHANGED <<gpu, flip, forced>>
----------------------------------------------------------------------------
(* The frame *)

Dirty == {s \in Surfaces : surf[s].dirty /\ surf[s].has}
OnCpu(s) == surf[s].buf \in Copied

(* prepareShm on the first look at a content; a new staging memory takes   *)
(* the whole image.                                                        *)
Prepared(c, b) ==
    IF c.copy # "new" THEN c
    ELSE IF b \in Copied
         THEN [c EXCEPT !.copy = "prepared", !.damage = IF staged[b].init THEN @ ELSE Cells]
         ELSE [c EXCEPT !.copy = "ready"]

(* uploadShm notes the upload of a ready content, of the damage or, for a  *)
(* new texture, of everything.                                             *)
Noted(s) ==
    LET b == surf[s].buf
        t == IF tex[s].there THEN tex[s] ELSE [NoTex EXCEPT !.there = TRUE] IN
    [t EXCEPT !.pend = TRUE, !.src = b, !.gone = FALSE,
              !.rect = @ \cup (IF tex[s].there THEN content[b].damage ELSE Cells)]

SourceStale(b) == IF b \in Copied THEN staged[b].stale ELSE content[b].stale

(* renderFrame copies the noted part of a source into its texture. *)
Uploaded(t) ==
    [t EXCEPT !.pend = FALSE, !.src = NoBuf, !.gone = FALSE, !.rect = {},
              !.stale = (@ \ t.rect) \cup (IF t.gone THEN t.rect ELSE t.rect \cap SourceStale(t.src))]

(* frameNow looks at every dirty surface, visible or not; for some it      *)
(* finds no memory.  One content that is not ready yet holds the frame.    *)
MayFail == {s \in Dirty : surf[s].buf \in Broken /\ content[surf[s].buf].copy = "new"}
FailedNow(bad) == bad
Failed(bad) == bad \cup {s \in Dirty : content[surf[s].buf].copy = "failed"}
NotWaiting(bad) == {}
Waiting(bad) == {s \in Dirty \ Failed(bad) : OnCpu(s) /\ content[surf[s].buf].copy # "ready"}
Noting(bad) == Dirty \ (Failed(bad) \cup Waiting(bad))

Looked(bad) ==
    [b \in Buffers |->
        IF \E s \in bad : surf[s].buf = b THEN [content[b] EXCEPT !.copy = "failed"]
        ELSE IF \E s \in Dirty : surf[s].buf = b THEN Prepared(content[b], b)
        ELSE content[b]]

WithNotes(bad) == [s \in Surfaces |-> IF s \in Noting(bad) THEN Noted(s) ELSE tex[s]]

(* Surfaces of the scene, one after the other. *)
Before(s, t) == \E i, j \in DOMAIN Order : i < j /\ Order[i] = s /\ Order[j] = t
InOrder(S) ==
    {q \in [1 .. Cardinality(S) -> S] :
        Listed(q) = S /\ \A i, j \in DOMAIN q : i < j => Before(q[i], q[j])}

(* frameNow returns early: the copies are queued, the loop tries again.    *)
Hold(bad) ==
    /\ \E queued \in InOrder(Waiting(bad)) :
          tasks' = tasks \o [i \in DOMAIN queued |-> [s |-> queued[i], b |-> surf[queued[i]].buf]]
    /\ Become(WithNotes(bad), Looked(bad), Count({surf[s].buf : s \in Waiting(bad)}, {}))
    /\ surf' = [s \in Surfaces |-> [surf[s] EXCEPT !.dirty = @ /\ s \in Waiting(bad) \cup (Surfaces \ Dirty)]]
    /\ needsFrame' = TRUE
    /\ UNCHANGED <<gpu, flip>>

(* The frame is scanned out directly: nothing is rendered, the notes stay. *)
Scan(bad) ==
    /\ surf' = [s \in Surfaces |-> [surf[s] EXCEPT !.dirty = @ /\ s \notin Dirty]]
    /\ Become(WithNotes(bad), Looked(bad), refs)
    /\ needsFrame' = FALSE /\ flip' = TRUE
    /\ UNCHANGED <<tasks, gpu>>

HeldNothing(reads) == {}

(* The frame holds what it reads until its fence. *)
HeldBy(reads) == reads

(* Everything is ready: renderFrame records the notes, holds what it reads *)
(* and takes it off the surfaces that show it.                             *)
Render(bad) ==
    LET noted == WithNotes(bad)
        pend == {s \in Surfaces : noted[s].pend}
        reads == {noted[s].src : s \in {s \in pend : ~noted[s].gone}}
        shown == {s \in Surfaces : surf[s].buf \in reads}
    IN
    /\ Become([s \in Surfaces |-> IF s \in pend THEN Uploaded(noted[s]) ELSE noted[s]],
              Looked(bad), Count(HeldBy(reads), {surf[s].buf : s \in shown}))
    /\ gpu' = [busy |-> TRUE, reads |-> reads, held |-> HeldBy(reads), gone |-> \E s \in pend : noted[s].gone]
    /\ surf' = [s \in Surfaces |->
          [surf[s] EXCEPT !.dirty = @ /\ s \notin Dirty, !.buf = IF s \in shown THEN NoBuf ELSE @]]
    /\ needsFrame' = FALSE /\ flip' = TRUE
    /\ UNCHANGED tasks

FrameNow ==
    \E bad \in SUBSET MayFail :
       \/ Waiting(bad) # {} /\ Hold(bad)
       \/ Waiting(bad) = {} /\ Render(bad)

WantFrameAnyway == needsFrame

(* prepareCb: no frame while a copy runs. *)
WantFrame == ~Active /\ needsFrame

Frame ==
    /\ Loop /\ WantFrame /\ ~flip /\ ~gpu.busy
    /\ FrameNow
    /\ UNCHANGED <<staged, worker, forced>>

DirectFrame ==
    /\ Direct /\ Loop /\ WantFrame /\ ~flip /\ ~gpu.busy
    /\ \E bad \in SUBSET MayFail : Waiting(bad) = {} /\ Scan(bad)
    /\ UNCHANGED <<staged, worker, forced>>

(* finishGpuFrame: the fence retires the frame and what it held. *)
Fence ==
    /\ gpu.busy /\ (forced = "before" => ~Active)
    /\ gpu' = NoGpu
    /\ Become(tex, content, Count({}, gpu.held))
    /\ forced' = IF forced = "after" THEN "no" ELSE forced
    /\ UNCHANGED <<surf, staged, tasks, worker, flip, needsFrame>>

(* The clock, input and the rest of the desktop ask for frames of their own. *)
Poke ==
    /\ Loop /\ ~needsFrame /\ needsFrame' = TRUE
    /\ UNCHANGED <<surf, refs, content, staged, tex, tasks, worker, gpu, flip, forced>>

(* The frame event fires the callbacks of every surface that has content,  *)
(* shown in that frame or not yet.                                         *)
FrameEvent ==
    /\ Loop /\ flip
    /\ flip' = FALSE
    /\ surf' = [s \in Surfaces |-> IF surf[s].has THEN [surf[s] EXCEPT !.owed = FALSE] ELSE surf[s]]
    /\ UNCHANGED <<refs, content, staged, tex, tasks, worker, gpu, needsFrame, forced>>
----------------------------------------------------------------------------
(* composeNow and readPixel: a frame forced between two callbacks waits    *)
(* for the copies and the previous fence, then for its own.                *)

ComposeNow ==
    /\ Loop /\ forced' = "before"
    /\ UNCHANGED <<surf, refs, content, staged, tex, tasks, worker, gpu, flip, needsFrame>>

Compose ==
    /\ forced = "before" /\ ~Active /\ ~gpu.busy
    /\ FrameNow
    /\ forced' = IF gpu'.busy THEN "after" ELSE "no"
    /\ UNCHANGED <<staged, worker>>
----------------------------------------------------------------------------
Serve ==
    \/ BeginCopy \/ EndCopy \/ CopyDone
    \/ Frame \/ DirectFrame \/ Fence \/ FrameEvent \/ Compose

Next ==
    \/ \E s \in Surfaces :
          \/ \E b \in Bufs[s] : \E d \in SUBSET Cells : Commit(s, b, d)
          \/ CommitNull(s) \/ DestroySurface(s)
    \/ Poke \/ ComposeNow
    \/ Serve

(* While there is something to do, the worker, the GPU, the display or the *)
(* loop does some of it.  Clients and screenshots owe nothing.             *)
Fairness == WF_vars(Serve)

Spec == Init /\ [][Next]_vars
FairSpec == Spec /\ Fairness
----------------------------------------------------------------------------
(* Every variable keeps its type; each content is queued for one copy.     *)
TypeOK ==
    /\ surf \in [Surfaces -> [buf : Buffers \cup {NoBuf}, has : BOOLEAN, dirty : BOOLEAN,
                             alive : BOOLEAN, damage : SUBSET Cells, owed : BOOLEAN]]
    /\ refs \in [Buffers -> 0 .. 3]
    /\ content \in [Buffers -> [damage : SUBSET Cells, stale : SUBSET Cells,
                                copy : {"new", "prepared", "ready", "failed"}]]
    /\ staged \in [Buffers -> [init : BOOLEAN, stale : SUBSET Cells]]
    /\ tex \in [Surfaces -> [there : BOOLEAN, pend : BOOLEAN, src : Buffers \cup {NoBuf},
                            gone : BOOLEAN, rect : SUBSET Cells, stale : SUBSET Cells]]
    /\ \A i, j \in DOMAIN tasks : tasks[i].b = tasks[j].b => i = j
    /\ worker \in {"idle", "copying", "copied", "failed"} /\ (worker # "idle" => Active)
    /\ gpu.reads \cup gpu.held # {} => gpu.busy
    /\ {flip, needsFrame} \subseteq BOOLEAN /\ forced \in {"no", "before", "after"}

(* A buffer goes back to its client exactly when nothing uses its content: *)
(* no surface, no copy queued or running, no frame in flight.              *)
RefsAgree ==
    \A b \in Buffers :
       refs[b] = One(b, {surf[s].buf : s \in Surfaces}) + One(b, {t.b : t \in Listed(tasks)})
                 + One(b, gpu.held)

(* Nobody writes what the GPU reads: neither the client, which has not got *)
(* the buffer back, nor the worker, which copies into the staging memory.  *)
SourcesQuiet == \A b \in gpu.reads : Alive(b) /\ b \notin {t.b : t \in Listed(tasks)}

(* What a surface shows once its newest commit was uploaded: that commit's *)
(* damage, and, for a client with one buffer, which the release paces, the *)
(* whole image.                                                            *)
UpToDate(s) == surf[s].has /\ ~surf[s].dirty /\ surf[s].buf = NoBuf

DamageShown ==
    \A s \in Surfaces : UpToDate(s) =>
       /\ tex[s].stale \cap surf[s].damage = {}
       /\ Cardinality(Bufs[s]) = 1 => tex[s].stale = {}

(* The whole image, for every client.                                      *)
WholeImageShown == \A s \in Surfaces : UpToDate(s) => tex[s].stale = {}

(* A commit is not left waiting: while clients wait for their callbacks    *)
(* frames go on, whatever is copied, fails or is forced in between.        *)
EveryCommitTaken == \A s \in Surfaces : surf[s].dirty ~> ~(surf[s].dirty /\ surf[s].has)

(* What the GPU is told to read exists.                                    *)
SourcesAlive == ~gpu.gone

(* A forced frame has what the clients committed before it.                *)
ForcedFrameCurrent == [][forced = "before" /\ forced' # "before" => \A s \in Surfaces : surf'[s].has => ~surf'[s].dirty]_vars
=============================================================================
