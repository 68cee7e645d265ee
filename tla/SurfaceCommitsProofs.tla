------------------------ MODULE SurfaceCommitsProofs ------------------------
(***************************************************************************)
(* Proofs about SurfaceCommits for any tree of surfaces, any number of     *)
(* commits and any updates.                                                *)
(*                                                                         *)
(* A step changes many surfaces at once, but each of them in one of few    *)
(* ways, and what is said of buffers and callbacks is said of one surface  *)
(* at a time.  Local(d) is what concerns the surface d; every step is, for *)
(* every d, a local step, and the invariants are about the local states.   *)
(***************************************************************************)
EXTENDS SurfaceCommits, TLAPS, FiniteSetTheorems, SequenceTheorems, WellFoundedInduction

Names == Surfaces \X Nat
At(S, d) == {n \in Nat : <<d, n>> \in S}

Local(d) ==
    [last |-> last[d], surf |-> surf[d], queue |-> queue[d], cache |-> cache[d],
     given |-> At(given, d), back |-> At(returned, d), gpu |-> At(frame.held, d),
     done |-> At(fired, d), lost |-> At(lost, d), late |-> At(unready, d), alive |-> d \in alive]

LocalSet ==
    [last : Nat, surf : Surface, queue : Seq(Entry), cache : Update,
     given : SUBSET Nat, back : SUBSET Nat, gpu : SUBSET Nat,
     done : SUBSET Nat, lost : SUBSET Nat, late : SUBSET Nat, alive : BOOLEAN]

(* The buffer the surface holds; those that wait in its queue and cache.   *)
HeldBy(f) == IF f.held THEN {f.from} ELSE {}
KeptBy(u) == IF Kept(u.attach) THEN {u.from} ELSE {}
ParkedBuffers(q) == UNION {KeptBy(q[i].u) : i \in DOMAIN q}
ParkedFrames(q) == UNION {Listed(q[i].u.frames) : i \in DOMAIN q}

(* What the surface gives back when its state changes to f. *)
Freed(z, f) == (HeldBy(z.surf) \ HeldBy(f)) \ z.gpu
-----------------------------------------------------------------------------
(* The local steps *)

(* wl_surface.commit of the update u, which may bring a buffer, have it    *)
(* given back at once, or have it wait for its acquire point.              *)
NewUpdate(d, z, u, late) ==
    /\ z.alive
    /\ \E a \in Updates[d] :
         /\ u = [n |-> z.last + 1, from |-> IF a.attach = "none" THEN 0 ELSE z.last + 1,
                 attach |-> a.attach, frames |-> <<z.last + 1>>]
         /\ late = IF a.late THEN {z.last + 1} ELSE {}
Brought(u) == IF u.attach \in {"none", "null"} THEN {} ELSE {u.n}
Spared(u) == IF u.attach \in {"pixel", "refused"} THEN {u.n} ELSE {}
Replaced(c, u) == IF u.from # 0 THEN KeptBy(c) ELSE {}

CacheL(d, z, y) ==
    \E u \in Update, late \in SUBSET {z.last + 1} :
        /\ NewUpdate(d, z, u, late) /\ d \in Subs
        /\ y = [z EXCEPT !.last = @ + 1, !.given = @ \cup Brought(u), !.late = @ \cup late,
                         !.cache = Merge(@, u),
                         !.back = @ \cup Replaced(z.cache, u) \cup Spared(u)]

ParkL(d, z, y) ==
    \E u \in Update, e \in Entry, late \in SUBSET {z.last + 1} :
        /\ NewUpdate(d, z, u, late) /\ e.u = u
        /\ y = [z EXCEPT !.last = @ + 1, !.given = @ \cup Brought(u), !.late = @ \cup late,
                         !.queue = Append(@, e), !.back = @ \cup Spared(u)]

NowL(d, z, y) ==
    \E u \in Update :
        /\ NewUpdate(d, z, u, {}) /\ z.queue = <<>>
        /\ y = [z EXCEPT !.last = @ + 1, !.given = @ \cup Brought(u),
                         !.surf = Onto(@, u),
                         !.back = @ \cup Spared(u) \cup Freed(z, Onto(z.surf, u))]

ApplyCacheL(z, y) ==
    y = [z EXCEPT !.surf = Onto(@, z.cache), !.cache = NoUpdate,
                  !.back = @ \cup Freed(z, Onto(z.surf, z.cache))]

AdmitL(z, y) ==
    /\ z.queue # <<>> /\ Head(z.queue).u.n \notin z.late
    /\ y = [z EXCEPT !.surf = Onto(@, Head(z.queue).u), !.queue = Tail(@),
                     !.back = @ \cup Freed(z, Onto(z.surf, Head(z.queue).u))]

TimeL(z, y) ==
    \E q \in Seq(Entry) :
        /\ DOMAIN q = DOMAIN z.queue /\ \A i \in DOMAIN q : q[i].u = z.queue[i].u
        /\ y = [z EXCEPT !.queue = q]

DieL(z, y) ==
    \E f \in Surface :
        /\ f = [z.surf EXCEPT !.attach = "null", !.held = FALSE, !.owed = {}]
        /\ y = [z EXCEPT !.alive = FALSE, !.surf = f, !.queue = <<>>,
                         !.back = @ \cup ParkedBuffers(z.queue) \cup Freed(z, f),
                         !.lost = @ \cup z.surf.owed \cup ParkedFrames(z.queue)]

(* The wl_subsurface is destroyed; all callbacks of the cache go, unless   *)
(* there are more than two of a surface that lives.                        *)
SubDieL(z, y) ==
    \E gone \in SUBSET Listed(z.cache.frames) :
        /\ Len(z.cache.frames) <= 2 \/ ~z.alive => gone = Listed(z.cache.frames)
        /\ y = [z EXCEPT !.cache = NoUpdate, !.back = @ \cup KeptBy(z.cache),
                         !.lost = @ \cup gone]

(* The frame takes what the surface holds, which an upload lets go.        *)
FrameL(z, y) ==
    \E f \in Surface, gpu \in SUBSET HeldBy(z.surf) :
        /\ z.gpu = {}
        /\ \/ f = z.surf
           \/ f = [z.surf EXCEPT !.held = FALSE] /\ gpu = HeldBy(z.surf)
        /\ y = [z EXCEPT !.surf = f, !.gpu = gpu]

FenceL(z, y) == y = [z EXCEPT !.gpu = {}, !.back = @ \cup (z.gpu \ HeldBy(z.surf))]

FlipL(z, y) ==
    \E f \in Surface :
        /\ f = [z.surf EXCEPT !.owed = {}]
        /\ y = [z EXCEPT !.surf = f, !.done = @ \cup z.surf.owed]

ReadyL(z, y) == \E n \in Nat : y = [z EXCEPT !.late = @ \ {n}]

LocalStep(d, z, y) ==
    \/ z = y
    \/ CacheL(d, z, y) \/ ParkL(d, z, y) \/ NowL(d, z, y)
    \/ ApplyCacheL(z, y) \/ AdmitL(z, y) \/ TimeL(z, y)
    \/ DieL(z, y) \/ SubDieL(z, y)
    \/ FrameL(z, y) \/ FenceL(z, y) \/ FlipL(z, y) \/ ReadyL(z, y)
-----------------------------------------------------------------------------
(* What is true of a local state *)

(* Updates carry numbers of commits that were made, those in the queue one *)
(* commit each, in the order of the commits.                               *)
Fits(u, k) ==
    /\ u.n <= k /\ u.from <= k /\ Listed(u.frames) \subseteq 1 .. k
    /\ u.attach = "none" <=> u.from = 0
Single(u) == u.n > 0 /\ u.from \in {0, u.n} /\ u.frames = <<u.n>>
InOrder(q, k) ==
    /\ \A i \in DOMAIN q : Fits(q[i].u, k) /\ Single(q[i].u)
    /\ \A i, j \in DOMAIN q : i < j => q[i].u.n < q[j].u.n
Numbered(z) ==
    /\ z.surf.n <= z.last /\ z.surf.owed \subseteq 1 .. z.last
    /\ Fits(z.cache, z.last) /\ (z.cache.n = 0 => z.cache = NoUpdate)
    /\ InOrder(z.queue, z.last)
    /\ z.given \subseteq 0 .. z.last /\ z.late \subseteq 0 .. z.last

(* Four sets that share no member and make up W. *)
Split4(W, A, B, C, D) ==
    /\ W = A \cup B \cup C \cup D
    /\ A \cap B = {} /\ A \cap C = {} /\ A \cap D = {}
    /\ B \cap C = {} /\ B \cap D = {} /\ C \cap D = {}
Balanced(z) ==
    Split4(z.given, HeldBy(z.surf) \cup z.gpu, z.back, ParkedBuffers(z.queue), KeptBy(z.cache))
Accounted(z) ==
    Split4((1 .. z.last) \ Listed(z.cache.frames),
           z.surf.owed, z.done, z.lost, ParkedFrames(z.queue))

Sound(z) == z \in LocalSet /\ Numbered(z) /\ Balanced(z)
-----------------------------------------------------------------------------
(* Updates and queues *)

LEMMA OntoType ==
    ASSUME NEW f \in Surface, NEW u \in Update
    PROVE  /\ Onto(f, u) \in Surface
           /\ Onto(f, u).n = IF u.n = 0 THEN f.n ELSE u.n
           /\ Onto(f, u).from = IF u.from = 0 THEN f.from ELSE u.from
           /\ Onto(f, u).owed = f.owed \cup Listed(u.frames)
           /\ HeldBy(Onto(f, u)) = IF u.from = 0 THEN HeldBy(f) ELSE KeptBy(u)
<1>1. Listed(u.frames) \in SUBSET Nat
  BY DEF Listed, Update
<1>2. PICK owed \in SUBSET Nat : owed = f.owed \cup Listed(u.frames)
  BY <1>1 DEF Surface
<1>3. CASE u.from = 0
  <2>1. Onto(f, u) = [n |-> IF u.n = 0 THEN f.n ELSE u.n, from |-> f.from, attach |-> f.attach,
                      held |-> f.held, owed |-> owed]
    BY <1>2, <1>3 DEF Onto
  <2>2. Onto(f, u) \in Surface
    BY <1>2, <1>3, <2>1 DEF Surface, Update
  <2>3. HeldBy(Onto(f, u)) = HeldBy(f)
    <3>1. Onto(f, u).held = f.held /\ Onto(f, u).from = f.from
      BY <2>1
    <3>2. QED
      BY <3>1, Zenon DEF HeldBy
  <2>4. Onto(f, u).n = (IF u.n = 0 THEN f.n ELSE u.n) /\ Onto(f, u).from = f.from
        /\ Onto(f, u).owed = owed
    BY <2>1
  <2>5. QED
    BY <1>2, <1>3, <2>2, <2>3, <2>4
<1>4. CASE u.from # 0
  <2> DEFINE held == Kept(u.attach)
  <2>1. held \in BOOLEAN
    <3>1. (u.attach \in {"dmabuf", "shm"}) \in BOOLEAN
      OBVIOUS
    <3>2. QED
      BY <3>1, Zenon DEF Kept
  <2>2. Onto(f, u) = [n |-> IF u.n = 0 THEN f.n ELSE u.n, from |-> u.from, attach |-> u.attach,
                      held |-> held, owed |-> owed]
    <3>1. f.owed \cup Listed(u.frames) = owed
      BY <1>2
    <3>2. QED
      BY <1>4, <3>1, Zenon DEF Onto
  <2>7. (held <=> Kept(u.attach))
    OBVIOUS
  <2> HIDE DEF held
  <2>3. Onto(f, u) \in Surface
    BY <1>2, <2>1, <2>2 DEF Surface, Update
  <2>4. HeldBy(Onto(f, u)) = KeptBy(u)
    <3>1. Onto(f, u).held = held /\ Onto(f, u).from = u.from
      BY <2>2
    <3>2. QED
      BY <2>1, <2>7, <3>1, Zenon DEF HeldBy, KeptBy
  <2>5. Onto(f, u).n = (IF u.n = 0 THEN f.n ELSE u.n) /\ Onto(f, u).from = u.from
        /\ Onto(f, u).owed = owed
    BY <2>2
  <2>6. QED
    BY <1>2, <1>4, <2>3, <2>4, <2>5
<1>5. QED
  BY <1>3, <1>4

\* What an update brings and what the surface had are in hand or given back.
LEMMA OntoBuffers ==
    ASSUME NEW z \in LocalSet, NEW u \in Update, u.from = 0 => u.attach = "none",
           NEW f, f = Onto(z.surf, u)
    PROVE  /\ HeldBy(f) \cup z.gpu \cup Freed(z, f) = HeldBy(z.surf) \cup z.gpu \cup KeptBy(u)
           /\ (HeldBy(f) \cup z.gpu) \cap Freed(z, f) = {}
<1>1. HeldBy(f) = IF u.from = 0 THEN HeldBy(z.surf) ELSE KeptBy(u)
  BY OntoType DEF LocalSet
<1>2. u.from = 0 => KeptBy(u) = {}
  BY DEF KeptBy, Kept
<1>3. QED
  BY <1>1, <1>2 DEF Freed

LEMMA AppendParked ==
    ASSUME NEW q \in Seq(Entry), NEW e \in Entry
    PROVE  /\ ParkedBuffers(Append(q, e)) = ParkedBuffers(q) \cup KeptBy(e.u)
           /\ ParkedFrames(Append(q, e)) = ParkedFrames(q) \cup Listed(e.u.frames)
<1>1. /\ DOMAIN Append(q, e) = DOMAIN q \cup {Len(q) + 1}
      /\ \A i \in DOMAIN q : Append(q, e)[i] = q[i]
      /\ Append(q, e)[Len(q) + 1] = e
  BY AppendProperties
<1>2. QED
  BY <1>1 DEF ParkedBuffers, ParkedFrames

LEMMA TailParked ==
    ASSUME NEW q \in Seq(Entry), q # <<>>
    PROVE  /\ ParkedBuffers(q) = ParkedBuffers(Tail(q)) \cup KeptBy(Head(q).u)
           /\ ParkedFrames(q) = ParkedFrames(Tail(q)) \cup Listed(Head(q).u.frames)
<1>1. /\ Len(q) \in Nat /\ Len(q) > 0 /\ Head(q) = q[1]
      /\ DOMAIN q = 1 .. Len(q) /\ DOMAIN Tail(q) = 1 .. (Len(q) - 1)
      /\ \A i \in DOMAIN Tail(q) : Tail(q)[i] = q[i + 1]
  OBVIOUS
<1>2. \A i \in DOMAIN q : i = 1 \/ (i - 1 \in DOMAIN Tail(q) /\ Tail(q)[i - 1] = q[i])
  BY <1>1
<1>3. \A i \in DOMAIN Tail(q) : i + 1 \in DOMAIN q /\ Tail(q)[i] = q[i + 1]
  BY <1>1
<1>4. 1 \in DOMAIN q
  BY <1>1
<1>5. ASSUME NEW x PROVE x \in ParkedBuffers(q) <=> x \in ParkedBuffers(Tail(q)) \cup KeptBy(Head(q).u)
  BY <1>1, <1>2, <1>3, <1>4 DEF ParkedBuffers
<1>6. ASSUME NEW x PROVE x \in ParkedFrames(q) <=> x \in ParkedFrames(Tail(q)) \cup Listed(Head(q).u.frames)
  BY <1>1, <1>2, <1>3, <1>4 DEF ParkedFrames
<1>7. QED
  BY <1>5, <1>6

\* An update of one commit has its buffer and its callback.
LEMMA SingleNames ==
    ASSUME NEW u, NEW k, Fits(u, k), Single(u)
    PROVE  Listed(u.frames) = {u.n} /\ KeptBy(u) \subseteq {u.n}
<1>1. Listed(u.frames) = {u.n}
  BY DEF Single, Listed
<1>2. u.attach = "none" \/ u.from = u.n
  BY DEF Single, Fits
<1>3. QED
  BY <1>1, <1>2 DEF KeptBy, Kept

\* Parked buffers and callbacks bear the numbers of parked updates.
LEMMA ParkedNumbers ==
    ASSUME NEW q, NEW k, InOrder(q, k), NEW x \in ParkedBuffers(q) \cup ParkedFrames(q)
    PROVE  \E i \in DOMAIN q : x = q[i].u.n /\ x <= k
<1>1. CASE x \in ParkedBuffers(q)
  <2>1. PICK i \in DOMAIN q : x \in KeptBy(q[i].u)
    BY <1>1 DEF ParkedBuffers
  <2>2. x = q[i].u.from /\ q[i].u.attach # "none"
    BY <2>1 DEF KeptBy, Kept
  <2>3. QED
    BY <2>2 DEF InOrder, Fits, Single
<1>2. CASE x \in ParkedFrames(q)
  <2>1. PICK i \in DOMAIN q : x \in Listed(q[i].u.frames)
    BY <1>2 DEF ParkedFrames
  <2>2. q[i].u.frames = <<q[i].u.n>> /\ q[i].u.n <= k
    BY DEF InOrder, Fits, Single
  <2>3. QED
    BY <2>1, <2>2 DEF Listed
<1>3. QED
  BY <1>1, <1>2

\* The oldest parked update has a number of its own.
LEMMA HeadParked ==
    ASSUME NEW q \in Seq(Entry), q # <<>>, NEW k, InOrder(q, k)
    PROVE  /\ Fits(Head(q).u, k) /\ Single(Head(q).u) /\ InOrder(Tail(q), k)
           /\ ParkedBuffers(Tail(q)) \cap KeptBy(Head(q).u) = {}
           /\ ParkedFrames(Tail(q)) \cap Listed(Head(q).u.frames) = {}
<1>1. /\ Len(q) \in Nat /\ Len(q) > 0 /\ Head(q) = q[1]
      /\ DOMAIN q = 1 .. Len(q) /\ DOMAIN Tail(q) = 1 .. (Len(q) - 1)
      /\ \A i \in DOMAIN Tail(q) : Tail(q)[i] = q[i + 1]
  OBVIOUS
<1>2. 1 \in DOMAIN q /\ \A i \in DOMAIN Tail(q) : i + 1 \in DOMAIN q
  BY <1>1
<1>3. Fits(Head(q).u, k) /\ Single(Head(q).u)
  BY <1>1, <1>2 DEF InOrder
<1>4. \A i \in DOMAIN q : q[i].u.n \in Nat
  <2>1. \A i \in DOMAIN q : q[i] \in Entry
    BY <1>1
  <2>2. \A i \in DOMAIN q : q[i].u \in Update
    BY <2>1 DEF Entry
  <2>3. QED
    BY <2>2 DEF Update
<1>5. InOrder(Tail(q), k)
  <2>1. \A i \in DOMAIN Tail(q) : Fits(Tail(q)[i].u, k) /\ Single(Tail(q)[i].u)
    BY <1>1, <1>2 DEF InOrder
  <2>2. ASSUME NEW i \in DOMAIN Tail(q), NEW j \in DOMAIN Tail(q), i < j
        PROVE  Tail(q)[i].u.n < Tail(q)[j].u.n
    BY <1>1, <1>2, <2>2 DEF InOrder
  <2>3. QED
    BY <2>1, <2>2 DEF InOrder
<1>6. \A i \in DOMAIN Tail(q) : Tail(q)[i].u.n # Head(q).u.n
  <2>1. TAKE i \in DOMAIN Tail(q)
  <2>2. q[1].u.n < q[i + 1].u.n
    BY <1>1, <1>2 DEF InOrder
  <2>3. QED
    BY <1>1, <1>2, <1>4, <2>2
<1>7. Listed(Head(q).u.frames) = {Head(q).u.n} /\ KeptBy(Head(q).u) \subseteq {Head(q).u.n}
  BY <1>3, SingleNames
<1>8. \A x \in ParkedBuffers(Tail(q)) \cup ParkedFrames(Tail(q)) : x # Head(q).u.n
  <2>1. TAKE x \in ParkedBuffers(Tail(q)) \cup ParkedFrames(Tail(q))
  <2>2. PICK i \in DOMAIN Tail(q) : x = Tail(q)[i].u.n
    BY <1>5, <2>1, ParkedNumbers, ZenonT(30)
  <2>3. QED
    BY <1>6, <2>2, Zenon
<1>9. /\ ParkedBuffers(Tail(q)) \cap KeptBy(Head(q).u) = {}
      /\ ParkedFrames(Tail(q)) \cap Listed(Head(q).u.frames) = {}
  BY <1>7, <1>8
<1>10. QED
  BY <1>3, <1>5, <1>9

LEMMA AppendInOrder ==
    ASSUME NEW k \in Nat, NEW q \in Seq(Entry), InOrder(q, k),
           NEW e \in Entry, Fits(e.u, k + 1), Single(e.u), e.u.n = k + 1
    PROVE  InOrder(Append(q, e), k + 1)
<1>1. /\ DOMAIN Append(q, e) = DOMAIN q \cup {Len(q) + 1} /\ DOMAIN q = 1 .. Len(q)
      /\ Len(q) \in Nat
      /\ \A i \in DOMAIN q : Append(q, e)[i] = q[i]
      /\ Append(q, e)[Len(q) + 1] = e
  BY AppendProperties
<1>2. ASSUME NEW i \in DOMAIN q PROVE Fits(q[i].u, k + 1) /\ Single(q[i].u) /\ q[i].u.n < k + 1
  <2>1. Fits(q[i].u, k) /\ Single(q[i].u)
    BY DEF InOrder
  <2>2. q[i] \in Entry
    BY <1>1, <1>2
  <2>6. q[i].u \in Update
    BY <2>2 DEF Entry
  <2>3. q[i].u.n \in Nat /\ q[i].u.from \in Nat
    BY <2>6 DEF Update
  <2>4. Listed(q[i].u.frames) \subseteq 1 .. k + 1
    BY <2>1 DEF Fits
  <2>5. QED
    BY <2>1, <2>3, <2>4 DEF Fits
<1>3. \A i \in DOMAIN Append(q, e) : Fits(Append(q, e)[i].u, k + 1) /\ Single(Append(q, e)[i].u)
  BY <1>1, <1>2
<1>4. ASSUME NEW i \in DOMAIN Append(q, e), NEW j \in DOMAIN Append(q, e), i < j
      PROVE  Append(q, e)[i].u.n < Append(q, e)[j].u.n
  <2>1. CASE j \in DOMAIN q
    <3>1. i \in DOMAIN q
      BY <1>1, <1>4, <2>1
    <3>2. QED
      BY <1>1, <1>4, <2>1, <3>1 DEF InOrder
  <2>2. CASE j = Len(q) + 1
    <3>1. i \in DOMAIN q
      BY <1>1, <1>4, <2>2
    <3>2. QED
      BY <1>1, <1>2, <2>2, <3>1
  <2>3. QED
    BY <1>1, <2>1, <2>2
<1>5. QED
  BY <1>3, <1>4 DEF InOrder
-----------------------------------------------------------------------------
(* Local steps keep local states sound *)

\* A commit's update has the next number, and a buffer of its own at most.
LEMMA NewNumber ==
    ASSUME NEW d \in Surfaces, NEW z \in LocalSet, NEW u \in Update, NEW late, NewUpdate(d, z, u, late)
    PROVE  /\ u.n = z.last + 1 /\ Fits(u, z.last + 1) /\ Single(u)
           /\ KeptBy(u) \cup Spared(u) = Brought(u) /\ KeptBy(u) \cap Spared(u) = {}
           /\ Brought(u) \subseteq {z.last + 1} /\ late \subseteq KeptBy(u)
<1> DEFINE k == z.last + 1
<1>1. PICK a \in Updates[d] :
         /\ u = [n |-> k, from |-> IF a.attach = "none" THEN 0 ELSE k,
                 attach |-> a.attach, frames |-> <<k>>]
         /\ late = IF a.late THEN {k} ELSE {}
  BY Zenon DEF NewUpdate
<1>2. k \in Nat /\ k > 0
  BY DEF LocalSet
<1> HIDE DEF k
<1>3. /\ u.n = k /\ u.from = (IF a.attach = "none" THEN 0 ELSE k)
      /\ u.attach = a.attach /\ u.frames = <<k>>
  BY <1>1
<1>4. a.attach \in Attaches /\ (a.late => a.attach = "dmabuf")
  BY UpdatesAssumption
<1>5. Listed(u.frames) = {k}
  BY <1>3 DEF Listed
<1>6. Fits(u, k)
  BY <1>2, <1>3, <1>5 DEF Fits
<1>7. Single(u)
  BY <1>2, <1>3 DEF Single
<1>8. KeptBy(u) = IF Kept(a.attach) THEN {k} ELSE {}
  BY <1>3 DEF KeptBy, Kept
<1>9. /\ KeptBy(u) \cup Spared(u) = Brought(u) /\ KeptBy(u) \cap Spared(u) = {}
      /\ Brought(u) \subseteq {k}
  BY <1>3, <1>4, <1>8 DEF Spared, Brought, Kept, Attaches
<1>10. late \subseteq KeptBy(u)
  BY <1>1, <1>4, <1>8 DEF Kept
<1>11. QED
  BY <1>3, <1>6, <1>7, <1>9, <1>10 DEF k

LEMMA MergeFits ==
    ASSUME NEW k \in Nat, NEW c \in Update, Fits(c, k),
           NEW u \in Update, Fits(u, k + 1), Single(u), u.n = k + 1
    PROVE  /\ Merge(c, u) \in Update /\ Fits(Merge(c, u), k + 1) /\ Merge(c, u).n = k + 1
           /\ KeptBy(Merge(c, u)) = IF u.from = 0 THEN KeptBy(c) ELSE KeptBy(u)
           /\ Listed(Merge(c, u).frames) = Listed(c.frames) \cup {k + 1}
<1>1. c.frames \in Seq(Nat) /\ u.frames \in Seq(Nat) /\ u.frames = <<k + 1>>
  BY DEF Update, Single
<1> DEFINE f == c.frames \o u.frames
<1>2. f \in Seq(Nat)
  BY <1>1
<1>3. f = Append(c.frames, k + 1)
  <2>1. k + 1 \in Nat /\ c.frames \o u.frames = c.frames \o <<k + 1>>
    BY <1>1
  <2>2. QED
    BY <1>1, <2>1, AppendIsConcat
<1>4. Listed(f) = Listed(c.frames) \cup {k + 1}
  <2>1. /\ DOMAIN f = DOMAIN c.frames \cup {Len(c.frames) + 1}
        /\ \A i \in DOMAIN c.frames : f[i] = c.frames[i]
        /\ f[Len(c.frames) + 1] = k + 1
    BY <1>1, <1>3, AppendProperties
  <2>2. QED
    BY <2>1 DEF Listed
<1> DEFINE m == [n |-> u.n, from |-> IF u.from = 0 THEN c.from ELSE u.from,
                 attach |-> IF u.from = 0 THEN c.attach ELSE u.attach, frames |-> f]
<1>5. Merge(c, u) = m
  BY Zenon DEF Merge
<1> HIDE DEF f
<1>6. m \in Update
  BY <1>2 DEF Update
<1>7. /\ m.n = k + 1 /\ m.frames = f
      /\ m.from = (IF u.from = 0 THEN c.from ELSE u.from)
      /\ m.attach = (IF u.from = 0 THEN c.attach ELSE u.attach)
  OBVIOUS
<1> HIDE DEF m
<1>8. KeptBy(m) = IF u.from = 0 THEN KeptBy(c) ELSE KeptBy(u)
  BY <1>7, Zenon DEF KeptBy
<1>9. Fits(m, k + 1)
  <2>1. c.from \in Nat /\ u.from \in Nat
    BY DEF Update
  <2>2. m.n <= k + 1 /\ m.from <= k + 1
    BY <1>7, <2>1 DEF Fits
  <2>3. Listed(m.frames) \subseteq 1 .. k + 1
    BY <1>4, <1>7 DEF Fits
  <2>4. m.attach = "none" <=> m.from = 0
    BY <1>7, Zenon DEF Fits
  <2>5. QED
    BY <2>2, <2>3, <2>4 DEF Fits
<1>10. QED
  BY <1>4, <1>5, <1>6, <1>7, <1>8, <1>9

LEMMA InOrderLater ==
    ASSUME NEW k \in Nat, NEW q \in Seq(Entry), InOrder(q, k)
    PROVE  InOrder(q, k + 1)
<1>1. ASSUME NEW i \in DOMAIN q PROVE Fits(q[i].u, k + 1)
  <2>1. Fits(q[i].u, k)
    BY <1>1 DEF InOrder
  <2>2. q[i] \in Entry
    BY <1>1
  <2>3. q[i].u \in Update
    BY <2>2 DEF Entry
  <2>4. q[i].u.n \in Nat /\ q[i].u.from \in Nat
    BY <2>3 DEF Update
  <2>5. Listed(q[i].u.frames) \subseteq 1 .. k + 1
    BY <2>1 DEF Fits
  <2>6. QED
    BY <2>1, <2>4, <2>5 DEF Fits
<1>2. QED
  BY <1>1 DEF InOrder

LEMMA FitsLater ==
    ASSUME NEW k \in Nat, NEW u \in Update, Fits(u, k)
    PROVE  Fits(u, k + 1)
<1>1. u.n \in Nat /\ u.from \in Nat
  BY DEF Update
<1>2. Listed(u.frames) \subseteq 1 .. k + 1
  BY DEF Fits
<1>3. QED
  BY <1>1, <1>2 DEF Fits

\* The state of the surface with an update on top keeps within the commits.
LEMMA OntoNumbers ==
    ASSUME NEW k \in Nat, NEW f \in Surface, NEW u \in Update, Fits(u, k),
           f.n <= k, f.owed \subseteq 1 .. k
    PROVE  Onto(f, u).n <= k /\ Onto(f, u).owed \subseteq 1 .. k
<1>1. u.n <= k /\ Listed(u.frames) \subseteq 1 .. k
  BY DEF Fits
<1>2. Onto(f, u).n = (IF u.n = 0 THEN f.n ELSE u.n)
      /\ Onto(f, u).owed = f.owed \cup Listed(u.frames)
  BY OntoType, Zenon
<1>3. QED
  BY <1>1, <1>2

LEMMA NoUpdateFits ==
    ASSUME NEW k \in Nat
    PROVE  NoUpdate \in Update /\ KeptBy(NoUpdate) = {} /\ Fits(NoUpdate, k) /\ NoUpdate.n = 0
<1>1. NoUpdate \in Update
  BY DEF NoUpdate, Update, Attaches
<1>2. /\ NoUpdate.n = 0 /\ NoUpdate.from = 0 /\ NoUpdate.attach = "none" /\ NoUpdate.frames = <<>>
  BY DEF NoUpdate
<1>3. Listed(NoUpdate.frames) = {}
  BY <1>2 DEF Listed
<1>4. QED
  BY <1>1, <1>2, <1>3 DEF KeptBy, Kept, Fits

LEMMA CacheSound ==
    ASSUME NEW d \in Surfaces, NEW z, Sound(z), NEW y, CacheL(d, z, y)
    PROVE  Sound(y)
<1>1. z \in LocalSet /\ Numbered(z) /\ Balanced(z)
  BY Zenon DEF Sound
<1>2. PICK u \in Update, late \in SUBSET {z.last + 1} :
        /\ NewUpdate(d, z, u, late)
        /\ y = [z EXCEPT !.last = @ + 1, !.given = @ \cup Brought(u), !.late = @ \cup late,
                         !.cache = Merge(@, u),
                         !.back = @ \cup Replaced(z.cache, u) \cup Spared(u)]
  BY Zenon DEF CacheL
<1> DEFINE k == z.last
           m == Merge(z.cache, u)
           b == z.back \cup Replaced(z.cache, u) \cup Spared(u)
           g == z.given \cup Brought(u)
           t == z.late \cup late
<1>3. /\ k \in Nat /\ z.surf \in Surface /\ z.queue \in Seq(Entry) /\ z.cache \in Update
      /\ z.given \in SUBSET Nat /\ z.back \in SUBSET Nat /\ z.late \in SUBSET Nat
  BY <1>1 DEF LocalSet
<1>4. /\ u.n = k + 1 /\ Fits(u, k + 1) /\ Single(u)
      /\ KeptBy(u) \cup Spared(u) = Brought(u) /\ KeptBy(u) \cap Spared(u) = {}
      /\ Brought(u) \subseteq {k + 1}
  BY <1>1, <1>2, NewNumber, Zenon
<1>5. /\ m \in Update /\ Fits(m, k + 1) /\ m.n = k + 1
      /\ KeptBy(m) = IF u.from = 0 THEN KeptBy(z.cache) ELSE KeptBy(u)
  <2>1. Fits(z.cache, k)
    BY <1>1, Zenon DEF Numbered
  <2>2. QED
    BY <1>3, <1>4, <2>1, MergeFits
<1>6. KeptBy(z.cache) \subseteq Nat /\ Spared(u) \subseteq Nat /\ Brought(u) \subseteq Nat
  <2>1. z.cache.from \in Nat
    BY <1>3 DEF Update
  <2>2. KeptBy(z.cache) \subseteq Nat
    BY <2>1 DEF KeptBy
  <2>3. QED
    BY <1>3, <1>4, <2>2
<1>7. b \in SUBSET Nat /\ g \in SUBSET Nat /\ t \in SUBSET Nat /\ k + 1 \in Nat
  <2>1. t \in SUBSET Nat /\ k + 1 \in Nat
    BY <1>2, <1>3
  <2>2. QED
    BY <1>3, <1>6, <2>1 DEF Replaced
<1>8. y = [z EXCEPT !.last = k + 1, !.given = g, !.late = t, !.cache = m, !.back = b]
  BY <1>2, Zenon
<1> HIDE DEF m, b, g, t
<1>9. /\ y \in LocalSet /\ y.last = k + 1 /\ y.surf = z.surf /\ y.queue = z.queue
      /\ y.cache = m /\ y.given = g /\ y.back = b /\ y.gpu = z.gpu /\ y.late = t
  BY <1>1, <1>5, <1>7, <1>8 DEF LocalSet
<1>10. Numbered(y)
  <2>1. z.surf.n \in Nat
    BY <1>3 DEF Surface
  <2>2. y.surf.n <= k + 1 /\ y.surf.owed \subseteq 1 .. k + 1
    BY <1>1, <1>3, <1>9, <2>1 DEF Numbered
  <2>3. InOrder(y.queue, k + 1)
    BY <1>1, <1>3, <1>9, InOrderLater, Zenon DEF Numbered
  <2>4. g \subseteq 0 .. k + 1 /\ t \subseteq 0 .. k + 1
    BY <1>1, <1>2, <1>3, <1>4 DEF Numbered, g, t
  <2>5. m.n # 0
    BY <1>3, <1>5
  <2>6. QED
    BY <1>5, <1>9, <2>2, <2>3, <2>4, <2>5, Zenon DEF Numbered
<1>11. Balanced(y)
  <2> DEFINE H == HeldBy(z.surf) \cup z.gpu
             P == ParkedBuffers(z.queue)
  <2>1. Split4(z.given, H, z.back, P, KeptBy(z.cache))
    BY <1>1 DEF Balanced
  <2>2. k + 1 \notin z.given
    BY <1>1, <1>3 DEF Numbered
  <2>3. u.from = 0 => Brought(u) = {} /\ Spared(u) = {} /\ KeptBy(u) = {}
    BY <1>4 DEF Fits, Brought, Spared, KeptBy, Kept
  <2> HIDE DEF H, P
  <2>4. Split4(g, H, b, P, KeptBy(m))
    <3>1. CASE u.from = 0
      BY <1>5, <2>1, <2>3, <3>1 DEF g, b, Replaced
    <3>2. CASE u.from # 0
      BY <1>4, <1>5, <2>1, <2>2, <3>2 DEF g, b, Replaced, Split4
    <3>3. QED
      BY <3>1, <3>2
  <2>5. QED
    BY <1>9, <2>4, Zenon DEF Balanced, H, P
<1>12. QED
  BY <1>9, <1>10, <1>11 DEF Sound

LEMMA ParkSound ==
    ASSUME NEW d \in Surfaces, NEW z, Sound(z), NEW y, ParkL(d, z, y)
    PROVE  Sound(y)
<1>1. z \in LocalSet /\ Numbered(z) /\ Balanced(z)
  BY Zenon DEF Sound
<1>2. PICK u \in Update, e \in Entry, late \in SUBSET {z.last + 1} :
        /\ NewUpdate(d, z, u, late) /\ e.u = u
        /\ y = [z EXCEPT !.last = @ + 1, !.given = @ \cup Brought(u), !.late = @ \cup late,
                         !.queue = Append(@, e), !.back = @ \cup Spared(u)]
  BY Zenon DEF ParkL
<1> DEFINE k == z.last
           q == Append(z.queue, e)
           b == z.back \cup Spared(u)
           g == z.given \cup Brought(u)
           t == z.late \cup late
<1>3. /\ k \in Nat /\ z.surf \in Surface /\ z.queue \in Seq(Entry) /\ z.cache \in Update
      /\ z.given \in SUBSET Nat /\ z.back \in SUBSET Nat /\ z.late \in SUBSET Nat
  BY <1>1 DEF LocalSet
<1>4. /\ u.n = k + 1 /\ Fits(u, k + 1) /\ Single(u)
      /\ KeptBy(u) \cup Spared(u) = Brought(u) /\ KeptBy(u) \cap Spared(u) = {}
      /\ Brought(u) \subseteq {k + 1}
  BY <1>1, <1>2, NewNumber, Zenon
<1>5. q \in Seq(Entry) /\ ParkedBuffers(q) = ParkedBuffers(z.queue) \cup KeptBy(u)
  BY <1>2, <1>3, AppendParked, AppendProperties
<1>6. InOrder(q, k + 1)
  BY <1>1, <1>2, <1>3, <1>4, AppendInOrder, Zenon DEF Numbered
<1>7. b \in SUBSET Nat /\ g \in SUBSET Nat /\ t \in SUBSET Nat /\ k + 1 \in Nat
  <2>1. t \in SUBSET Nat /\ k + 1 \in Nat
    BY <1>2, <1>3
  <2>2. QED
    BY <1>3, <1>4, <2>1
<1>8. y = [z EXCEPT !.last = k + 1, !.given = g, !.late = t, !.queue = q, !.back = b]
  BY <1>2, Zenon
<1> HIDE DEF q, b, g, t
<1>9. /\ y \in LocalSet /\ y.last = k + 1 /\ y.surf = z.surf /\ y.queue = q
      /\ y.cache = z.cache /\ y.given = g /\ y.back = b /\ y.gpu = z.gpu /\ y.late = t
  BY <1>1, <1>5, <1>7, <1>8 DEF LocalSet
<1>10. Numbered(y)
  <2>1. z.surf.n \in Nat
    BY <1>3 DEF Surface
  <2>2. y.surf.n <= k + 1 /\ y.surf.owed \subseteq 1 .. k + 1
    BY <1>1, <1>3, <1>9, <2>1 DEF Numbered
  <2>3. Fits(y.cache, k + 1)
    BY <1>1, <1>3, <1>9, FitsLater, Zenon DEF Numbered
  <2>4. g \subseteq 0 .. k + 1 /\ t \subseteq 0 .. k + 1
    BY <1>1, <1>2, <1>3, <1>4 DEF Numbered, g, t
  <2>5. y.cache.n = 0 => y.cache = NoUpdate
    BY <1>1, <1>9, Zenon DEF Numbered
  <2>6. QED
    BY <1>6, <1>9, <2>2, <2>3, <2>4, <2>5, Zenon DEF Numbered
<1>11. Balanced(y)
  <2> DEFINE H == HeldBy(z.surf) \cup z.gpu
             C == KeptBy(z.cache)
  <2>1. Split4(z.given, H, z.back, ParkedBuffers(z.queue), C)
    BY <1>1 DEF Balanced
  <2>2. k + 1 \notin z.given
    BY <1>1, <1>3 DEF Numbered
  <2> HIDE DEF H, C
  <2>3. Split4(g, H, b, ParkedBuffers(q), C)
    BY <1>4, <1>5, <2>1, <2>2 DEF g, b, Split4
  <2>4. QED
    BY <1>9, <2>3, Zenon DEF Balanced, H, C
<1>12. QED
  BY <1>9, <1>10, <1>11 DEF Sound

\* A surface takes the update u from its cache or its queue, which then
\* hold what c and q are, or straight from a commit.
LEMMA TakenSplit ==
    ASSUME NEW W, NEW H, NEW B, NEW P, NEW K, NEW C, Split4(W, H, B, P \cup K, C), P \cap K = {},
           NEW G, NEW F, G \cup F = H \cup K, G \cap F = {}
    PROVE  Split4(W, G, B \cup F, P, C)
BY DEF Split4

LEMMA TakeSound ==
    ASSUME NEW z, Sound(z), NEW k \in Nat, k \in {z.last, z.last + 1},
           NEW u \in Update, Fits(u, k),
           NEW g \in SUBSET Nat, g \subseteq 0 .. k,
           NEW c \in Update, Fits(c, k), c.n = 0 => c = NoUpdate,
           NEW q \in Seq(Entry), InOrder(q, k),
           NEW b \in SUBSET Nat,
           Split4(g, HeldBy(z.surf) \cup z.gpu, b, ParkedBuffers(q) \cup KeptBy(u), KeptBy(c)),
           ParkedBuffers(q) \cap KeptBy(u) = {},
           NEW y, y = [z EXCEPT !.last = k, !.given = g, !.surf = Onto(@, u), !.cache = c,
                                !.queue = q, !.back = b \cup Freed(z, Onto(z.surf, u))]
    PROVE  Sound(y)
<1>1. z \in LocalSet /\ Numbered(z)
  BY Zenon DEF Sound
<1>2. /\ z.last \in Nat /\ z.surf \in Surface /\ z.late \in SUBSET Nat
  BY <1>1 DEF LocalSet
<1> DEFINE f == Onto(z.surf, u)
           r == b \cup Freed(z, f)
<1>3. f \in Surface
  BY <1>2, OntoType
<1>4. r \in SUBSET Nat
  <2>1. z.surf.from \in Nat
    BY <1>2 DEF Surface
  <2>2. QED
    BY <2>1 DEF Freed, HeldBy
<1>5. y = [z EXCEPT !.last = k, !.given = g, !.surf = f, !.cache = c, !.queue = q, !.back = r]
  BY Zenon
<1>6. f.n <= k /\ f.owed \subseteq 1 .. k
  <2>1. z.surf.n \in Nat
    BY <1>2 DEF Surface
  <2>2. z.surf.n <= k /\ z.surf.owed \subseteq 1 .. k
    BY <1>1, <1>2, <2>1 DEF Numbered
  <2>3. QED
    BY <1>2, <2>2, OntoNumbers, Zenon
<1>7. /\ HeldBy(f) \cup z.gpu \cup Freed(z, f) = HeldBy(z.surf) \cup z.gpu \cup KeptBy(u)
      /\ (HeldBy(f) \cup z.gpu) \cap Freed(z, f) = {}
  <2>1. u.from = 0 => u.attach = "none"
    BY DEF Fits
  <2>2. QED
    BY <1>1, <2>1, OntoBuffers, Zenon
<1>8. Split4(g, HeldBy(f) \cup z.gpu, r, ParkedBuffers(q), KeptBy(c))
  BY <1>7, TakenSplit, Zenon
<1> HIDE DEF f, r
<1>9. /\ y \in LocalSet /\ y.last = k /\ y.surf = f /\ y.queue = q
      /\ y.cache = c /\ y.given = g /\ y.back = r /\ y.gpu = z.gpu /\ y.late = z.late
  BY <1>1, <1>3, <1>4, <1>5, ZenonT(60) DEF LocalSet
<1>10. Numbered(y)
  <2>1. z.late \subseteq 0 .. k
    BY <1>1, <1>2 DEF Numbered
  <2>2. QED
    BY <1>6, <1>9, <2>1, Zenon DEF Numbered
<1>11. Balanced(y)
  BY <1>8, <1>9, Zenon DEF Balanced
<1>12. QED
  BY <1>9, <1>10, <1>11 DEF Sound

LEMMA NowSound ==
    ASSUME NEW d \in Surfaces, NEW z, Sound(z), NEW y, NowL(d, z, y)
    PROVE  Sound(y)
<1>1. z \in LocalSet /\ Numbered(z) /\ Balanced(z)
  BY Zenon DEF Sound
<1>2. PICK u \in Update :
        /\ NewUpdate(d, z, u, {}) /\ z.queue = <<>>
        /\ y = [z EXCEPT !.last = @ + 1, !.given = @ \cup Brought(u),
                         !.surf = Onto(@, u),
                         !.back = @ \cup Spared(u) \cup Freed(z, Onto(z.surf, u))]
  BY Zenon DEF NowL
<1> DEFINE k == z.last + 1
           g == z.given \cup Brought(u)
           b == z.back \cup Spared(u)
<1>3. /\ z.last \in Nat /\ k \in Nat /\ z.queue \in Seq(Entry) /\ z.cache \in Update
      /\ z.given \in SUBSET Nat /\ z.back \in SUBSET Nat
  BY <1>1 DEF LocalSet
<1>4. /\ u.n = k /\ Fits(u, k) /\ Single(u)
      /\ KeptBy(u) \cup Spared(u) = Brought(u) /\ KeptBy(u) \cap Spared(u) = {}
      /\ Brought(u) \subseteq {k}
  BY <1>1, <1>2, NewNumber, Zenon
<1>5. Fits(z.cache, k) /\ InOrder(z.queue, k) /\ (z.cache.n = 0 => z.cache = NoUpdate)
  BY <1>1, <1>3, FitsLater, InOrderLater, Zenon DEF Numbered
<1>6. k \notin z.given /\ g \subseteq 0 .. k /\ g \in SUBSET Nat /\ b \in SUBSET Nat
  BY <1>1, <1>3, <1>4 DEF Numbered
<1>7. ParkedBuffers(z.queue) = {}
  BY <1>2 DEF ParkedBuffers
<1>8. Split4(g, HeldBy(z.surf) \cup z.gpu, b, ParkedBuffers(z.queue) \cup KeptBy(u),
             KeptBy(z.cache))
  <2> DEFINE H == HeldBy(z.surf) \cup z.gpu
             C == KeptBy(z.cache)
  <2>1. Split4(z.given, H, z.back, {}, C)
    BY <1>1, <1>7 DEF Balanced
  <2> HIDE DEF H, C
  <2>2. Split4(g, H, b, {} \cup KeptBy(u), C)
    BY <1>4, <1>6, <2>1 DEF Split4
  <2>3. QED
    BY <1>7, <2>2, Zenon DEF H, C
<1>9. y = [z EXCEPT !.last = k, !.given = g, !.surf = Onto(@, u), !.cache = z.cache,
                    !.queue = z.queue, !.back = b \cup Freed(z, Onto(z.surf, u))]
  BY <1>1, <1>2 DEF LocalSet
<1>10. k \in {z.last, z.last + 1} /\ ParkedBuffers(z.queue) \cap KeptBy(u) = {}
  BY <1>7
<1> HIDE DEF k, g, b
<1>11. QED
  BY <1>3, <1>4, <1>5, <1>6, <1>8, <1>9, <1>10, TakeSound, Zenon

LEMMA ApplyCacheSound ==
    ASSUME NEW z, Sound(z), NEW y, ApplyCacheL(z, y)
    PROVE  Sound(y)
<1>1. z \in LocalSet /\ Numbered(z) /\ Balanced(z)
  BY Zenon DEF Sound
<1>2. /\ z.last \in Nat /\ z.queue \in Seq(Entry) /\ z.cache \in Update
      /\ z.given \in SUBSET Nat /\ z.back \in SUBSET Nat
  BY <1>1 DEF LocalSet
<1>3. NoUpdate \in Update /\ KeptBy(NoUpdate) = {} /\ Fits(NoUpdate, z.last)
      /\ NoUpdate.n = 0
  BY <1>2, NoUpdateFits
<1>4. Fits(z.cache, z.last) /\ InOrder(z.queue, z.last) /\ z.given \subseteq 0 .. z.last
  BY <1>1, Zenon DEF Numbered
<1>5. Split4(z.given, HeldBy(z.surf) \cup z.gpu, z.back,
             ParkedBuffers(z.queue) \cup KeptBy(z.cache), KeptBy(NoUpdate))
      /\ ParkedBuffers(z.queue) \cap KeptBy(z.cache) = {}
  BY <1>1, <1>3 DEF Balanced, Split4
<1>6. y = [z EXCEPT !.last = z.last, !.given = z.given, !.surf = Onto(@, z.cache),
                    !.cache = NoUpdate, !.queue = z.queue,
                    !.back = z.back \cup Freed(z, Onto(z.surf, z.cache))]
  BY <1>1 DEF ApplyCacheL, LocalSet
<1>7. z.last \in {z.last, z.last + 1}
  OBVIOUS
<1>8. QED
  BY <1>2, <1>3, <1>4, <1>5, <1>6, <1>7, TakeSound, Zenon

LEMMA AdmitSound ==
    ASSUME NEW z, Sound(z), NEW y, AdmitL(z, y)
    PROVE  Sound(y)
<1>1. z \in LocalSet /\ Numbered(z) /\ Balanced(z)
  BY Zenon DEF Sound
<1>2. /\ z.last \in Nat /\ z.queue \in Seq(Entry) /\ z.cache \in Update
      /\ z.given \in SUBSET Nat /\ z.back \in SUBSET Nat /\ z.queue # <<>>
  BY <1>1 DEF LocalSet, AdmitL
<1> DEFINE u == Head(z.queue).u
           q == Tail(z.queue)
<1>3. /\ Fits(z.cache, z.last) /\ InOrder(z.queue, z.last) /\ z.given \subseteq 0 .. z.last
      /\ (z.cache.n = 0 => z.cache = NoUpdate)
  BY <1>1, Zenon DEF Numbered
<1>4. Head(z.queue) \in Entry /\ q \in Seq(Entry)
  BY <1>2
<1>5. u \in Update
  BY <1>4 DEF Entry
<1>6. Fits(u, z.last) /\ InOrder(q, z.last) /\ ParkedBuffers(q) \cap KeptBy(u) = {}
  BY <1>2, <1>3, HeadParked
<1>7. ParkedBuffers(z.queue) = ParkedBuffers(q) \cup KeptBy(u)
  BY <1>2, TailParked
<1>8. Split4(z.given, HeldBy(z.surf) \cup z.gpu, z.back, ParkedBuffers(q) \cup KeptBy(u),
             KeptBy(z.cache))
  BY <1>1, <1>7 DEF Balanced
<1>9. y = [z EXCEPT !.last = z.last, !.given = z.given, !.surf = Onto(@, u), !.cache = z.cache,
                    !.queue = q, !.back = z.back \cup Freed(z, Onto(z.surf, u))]
  BY <1>1 DEF AdmitL, LocalSet
<1>10. z.last \in {z.last, z.last + 1}
  OBVIOUS
<1> HIDE DEF u, q
<1>11. QED
  BY <1>2, <1>3, <1>4, <1>5, <1>6, <1>8, <1>9, <1>10, TakeSound, Zenon

LEMMA TimeSound ==
    ASSUME NEW z, Sound(z), NEW y, TimeL(z, y)
    PROVE  Sound(y)
<1>1. z \in LocalSet /\ Numbered(z) /\ Balanced(z)
  BY Zenon DEF Sound
<1>2. PICK q \in Seq(Entry) :
        /\ DOMAIN q = DOMAIN z.queue /\ \A i \in DOMAIN q : q[i].u = z.queue[i].u
        /\ y = [z EXCEPT !.queue = q]
  BY Zenon DEF TimeL
<1>3. /\ y \in LocalSet /\ y.last = z.last /\ y.surf = z.surf /\ y.queue = q
      /\ y.cache = z.cache /\ y.given = z.given /\ y.back = z.back /\ y.gpu = z.gpu
      /\ y.late = z.late
  BY <1>1, <1>2 DEF LocalSet
<1>4. ParkedBuffers(q) = ParkedBuffers(z.queue)
  BY <1>2 DEF ParkedBuffers
<1>5. InOrder(q, z.last)
  BY <1>1, <1>2, Zenon DEF Numbered, InOrder
<1>6. Numbered(y)
  BY <1>1, <1>3, <1>5, Zenon DEF Numbered
<1>7. Balanced(y)
  BY <1>1, <1>3, <1>4, Zenon DEF Balanced
<1>8. QED
  BY <1>3, <1>6, <1>7 DEF Sound

LEMMA DieSound ==
    ASSUME NEW z, Sound(z), NEW y, DieL(z, y)
    PROVE  Sound(y)
<1>1. z \in LocalSet /\ Numbered(z) /\ Balanced(z)
  BY Zenon DEF Sound
<1>2. PICK f \in Surface :
        /\ f = [z.surf EXCEPT !.attach = "null", !.held = FALSE, !.owed = {}]
        /\ y = [z EXCEPT !.alive = FALSE, !.surf = f, !.queue = <<>>,
                         !.back = @ \cup ParkedBuffers(z.queue) \cup Freed(z, f),
                         !.lost = @ \cup z.surf.owed \cup ParkedFrames(z.queue)]
  BY Zenon DEF DieL
<1> DEFINE b == z.back \cup ParkedBuffers(z.queue) \cup Freed(z, f)
           l == z.lost \cup z.surf.owed \cup ParkedFrames(z.queue)
<1>3. /\ z.last \in Nat /\ z.surf \in Surface /\ z.queue \in Seq(Entry)
      /\ z.given \in SUBSET Nat /\ z.back \in SUBSET Nat /\ z.lost \in SUBSET Nat
  BY <1>1 DEF LocalSet
<1>4. /\ f.n = z.surf.n /\ f.owed = {} /\ f.held = FALSE
  BY <1>2, <1>3 DEF Surface
<1>5. HeldBy(f) = {} /\ Freed(z, f) = HeldBy(z.surf) \ z.gpu
  BY <1>4, Zenon DEF HeldBy, Freed
<1>6. \A i \in DOMAIN z.queue : z.queue[i] \in Entry
  BY <1>3
<1>7. \A i \in DOMAIN z.queue : z.queue[i].u \in Update
  BY <1>6 DEF Entry
<1>8. ParkedBuffers(z.queue) \in SUBSET Nat /\ ParkedFrames(z.queue) \in SUBSET Nat
  <2>1. \A i \in DOMAIN z.queue : z.queue[i].u.from \in Nat /\ z.queue[i].u.frames \in Seq(Nat)
    BY <1>7 DEF Update
  <2>2. QED
    BY <2>1 DEF ParkedBuffers, ParkedFrames, KeptBy, Listed
<1>9. b \in SUBSET Nat /\ l \in SUBSET Nat
  <2>1. z.surf.from \in Nat /\ z.surf.owed \in SUBSET Nat
    BY <1>3 DEF Surface
  <2>2. HeldBy(z.surf) \in SUBSET Nat
    BY <2>1 DEF HeldBy
  <2>3. QED
    BY <1>3, <1>5, <1>8, <2>1, <2>2
<1>10. y = [z EXCEPT !.alive = FALSE, !.surf = f, !.queue = <<>>, !.back = b, !.lost = l]
  BY <1>2, Zenon
<1>11. Split4(z.given, {} \cup z.gpu, b, {}, KeptBy(z.cache))
  BY <1>1, <1>5 DEF Balanced, Split4
<1> HIDE DEF b, l
<1>12. /\ y \in LocalSet /\ y.last = z.last /\ y.surf = f /\ y.queue = <<>>
       /\ y.cache = z.cache /\ y.given = z.given /\ y.back = b /\ y.gpu = z.gpu
       /\ y.late = z.late
  <2>1. f \in Surface /\ <<>> \in Seq(Entry)
    BY <1>2
  <2>2. QED
    BY <1>1, <1>9, <1>10, <2>1 DEF LocalSet
<1>13. Numbered(y)
  <2>1. InOrder(<<>>, z.last)
    BY DEF InOrder
  <2>2. f.n <= z.last /\ f.owed \subseteq 1 .. z.last
    BY <1>1, <1>4 DEF Numbered
  <2>3. QED
    BY <1>1, <1>12, <2>1, <2>2, Zenon DEF Numbered
<1>14. Balanced(y)
  <2>1. ParkedBuffers(<<>>) = {}
    BY DEF ParkedBuffers
  <2>2. QED
    BY <1>5, <1>11, <1>12, <2>1, Zenon DEF Balanced
<1>15. QED
  BY <1>12, <1>13, <1>14 DEF Sound

LEMMA SubDieSound ==
    ASSUME NEW z, Sound(z), NEW y, SubDieL(z, y)
    PROVE  Sound(y)
<1>1. z \in LocalSet /\ Numbered(z) /\ Balanced(z)
  BY Zenon DEF Sound
<1>2. PICK gone \in SUBSET Listed(z.cache.frames) :
        y = [z EXCEPT !.cache = NoUpdate, !.back = @ \cup KeptBy(z.cache), !.lost = @ \cup gone]
  BY Zenon DEF SubDieL
<1> DEFINE b == z.back \cup KeptBy(z.cache)
           l == z.lost \cup gone
<1>3. /\ z.last \in Nat /\ z.cache \in Update /\ z.back \in SUBSET Nat /\ z.lost \in SUBSET Nat
  BY <1>1 DEF LocalSet
<1>4. z.cache.from \in Nat /\ z.cache.frames \in Seq(Nat)
  BY <1>3 DEF Update
<1>5. b \in SUBSET Nat /\ l \in SUBSET Nat
  BY <1>2, <1>3, <1>4 DEF KeptBy, Listed
<1>6. NoUpdate \in Update /\ KeptBy(NoUpdate) = {} /\ Fits(NoUpdate, z.last)
  BY <1>3, NoUpdateFits
<1>7. y = [z EXCEPT !.cache = NoUpdate, !.back = b, !.lost = l]
  BY <1>2, Zenon
<1>8. Split4(z.given, HeldBy(z.surf) \cup z.gpu, b, ParkedBuffers(z.queue), KeptBy(NoUpdate))
  BY <1>1, <1>6 DEF Balanced, Split4
<1> HIDE DEF b, l
<1>9. /\ y \in LocalSet /\ y.last = z.last /\ y.surf = z.surf /\ y.queue = z.queue
      /\ y.cache = NoUpdate /\ y.given = z.given /\ y.back = b /\ y.gpu = z.gpu
      /\ y.late = z.late
  BY <1>1, <1>5, <1>6, <1>7 DEF LocalSet
<1>10. Numbered(y)
  BY <1>1, <1>6, <1>9, Zenon DEF Numbered
<1>11. Balanced(y)
  BY <1>8, <1>9, Zenon DEF Balanced
<1>12. QED
  BY <1>9, <1>10, <1>11 DEF Sound

LEMMA FrameSound ==
    ASSUME NEW z, Sound(z), NEW y, FrameL(z, y)
    PROVE  Sound(y)
<1>1. z \in LocalSet /\ Numbered(z) /\ Balanced(z)
  BY Zenon DEF Sound
<1>2. PICK f \in Surface, gpu \in SUBSET HeldBy(z.surf) :
        /\ z.gpu = {}
        /\ \/ f = z.surf
           \/ f = [z.surf EXCEPT !.held = FALSE] /\ gpu = HeldBy(z.surf)
        /\ y = [z EXCEPT !.surf = f, !.gpu = gpu]
  BY Zenon DEF FrameL
<1>3. z.last \in Nat /\ z.surf \in Surface
  BY <1>1 DEF LocalSet
<1>4. f.n = z.surf.n /\ f.owed = z.surf.owed
  BY <1>2, <1>3 DEF Surface
<1>5. HeldBy(f) \cup gpu = HeldBy(z.surf) \cup z.gpu
  <2>1. CASE f = z.surf
    BY <1>2, <2>1
  <2>2. CASE f = [z.surf EXCEPT !.held = FALSE] /\ gpu = HeldBy(z.surf)
    <3>1. f.held = FALSE
      BY <1>3, <2>2 DEF Surface
    <3>2. HeldBy(f) = {}
      BY <3>1, Zenon DEF HeldBy
    <3>3. QED
      BY <1>2, <2>2, <3>2
  <2>3. QED
    BY <1>2, <2>1, <2>2
<1>6. gpu \in SUBSET Nat
  <2>1. z.surf.from \in Nat
    BY <1>3 DEF Surface
  <2>2. QED
    BY <1>2, <2>1 DEF HeldBy
<1>7. /\ y \in LocalSet /\ y.last = z.last /\ y.surf = f /\ y.queue = z.queue
      /\ y.cache = z.cache /\ y.given = z.given /\ y.back = z.back /\ y.gpu = gpu
      /\ y.late = z.late
  BY <1>1, <1>2, <1>6 DEF LocalSet
<1>8. Numbered(y)
  BY <1>1, <1>4, <1>7, Zenon DEF Numbered
<1>9. Balanced(y)
  BY <1>1, <1>5, <1>7, Zenon DEF Balanced
<1>10. QED
  BY <1>7, <1>8, <1>9 DEF Sound

LEMMA FenceSound ==
    ASSUME NEW z, Sound(z), NEW y, FenceL(z, y)
    PROVE  Sound(y)
<1>1. z \in LocalSet /\ Numbered(z) /\ Balanced(z)
  BY Zenon DEF Sound
<1> DEFINE b == z.back \cup (z.gpu \ HeldBy(z.surf))
<1>2. b \in SUBSET Nat
  BY <1>1 DEF LocalSet
<1>3. y = [z EXCEPT !.gpu = {}, !.back = b]
  BY Zenon DEF FenceL
<1>4. Split4(z.given, HeldBy(z.surf) \cup {}, b, ParkedBuffers(z.queue), KeptBy(z.cache))
  BY <1>1 DEF Balanced, Split4
<1> HIDE DEF b
<1>5. /\ y \in LocalSet /\ y.last = z.last /\ y.surf = z.surf /\ y.queue = z.queue
      /\ y.cache = z.cache /\ y.given = z.given /\ y.back = b /\ y.gpu = {}
      /\ y.late = z.late
  BY <1>1, <1>2, <1>3 DEF LocalSet
<1>6. Numbered(y)
  BY <1>1, <1>5, Zenon DEF Numbered
<1>7. Balanced(y)
  BY <1>4, <1>5, Zenon DEF Balanced
<1>8. QED
  BY <1>5, <1>6, <1>7 DEF Sound

LEMMA FlipSound ==
    ASSUME NEW z, Sound(z), NEW y, FlipL(z, y)
    PROVE  Sound(y)
<1>1. z \in LocalSet /\ Numbered(z) /\ Balanced(z)
  BY Zenon DEF Sound
<1>2. PICK f \in Surface :
        f = [z.surf EXCEPT !.owed = {}] /\ y = [z EXCEPT !.surf = f, !.done = @ \cup z.surf.owed]
  BY Zenon DEF FlipL
<1> DEFINE o == z.done \cup z.surf.owed
<1>3. z.last \in Nat /\ z.surf \in Surface /\ z.done \in SUBSET Nat
  BY <1>1 DEF LocalSet
<1>4. o \in SUBSET Nat
  BY <1>3 DEF Surface
<1>5. f.n = z.surf.n /\ f.owed = {} /\ f.held = z.surf.held /\ f.from = z.surf.from
  BY <1>2, <1>3 DEF Surface
<1>6. HeldBy(f) = HeldBy(z.surf)
  BY <1>5, Zenon DEF HeldBy
<1>7. y = [z EXCEPT !.surf = f, !.done = o]
  BY <1>2, Zenon
<1> HIDE DEF o
<1>8. /\ y \in LocalSet /\ y.last = z.last /\ y.surf = f /\ y.queue = z.queue
      /\ y.cache = z.cache /\ y.given = z.given /\ y.back = z.back /\ y.gpu = z.gpu
      /\ y.late = z.late
  BY <1>1, <1>2, <1>4, <1>7 DEF LocalSet
<1>9. Numbered(y)
  <2>1. f.n <= z.last /\ f.owed \subseteq 1 .. z.last
    BY <1>1, <1>5 DEF Numbered
  <2>2. QED
    BY <1>1, <1>8, <2>1, Zenon DEF Numbered
<1>10. Balanced(y)
  BY <1>1, <1>6, <1>8, Zenon DEF Balanced
<1>11. QED
  BY <1>8, <1>9, <1>10 DEF Sound

LEMMA ReadySound ==
    ASSUME NEW z, Sound(z), NEW y, ReadyL(z, y)
    PROVE  Sound(y)
<1>1. z \in LocalSet /\ Numbered(z) /\ Balanced(z)
  BY Zenon DEF Sound
<1>2. PICK n \in Nat : y = [z EXCEPT !.late = @ \ {n}]
  BY Zenon DEF ReadyL
<1> DEFINE t == z.late \ {n}
<1>3. t \in SUBSET Nat /\ t \subseteq 0 .. z.last
  BY <1>1 DEF LocalSet, Numbered
<1>4. y = [z EXCEPT !.late = t]
  BY <1>2, Zenon
<1> HIDE DEF t
<1>5. /\ y \in LocalSet /\ y.last = z.last /\ y.surf = z.surf /\ y.queue = z.queue
      /\ y.cache = z.cache /\ y.given = z.given /\ y.back = z.back /\ y.gpu = z.gpu
      /\ y.late = t
  BY <1>1, <1>3, <1>4 DEF LocalSet
<1>6. Numbered(y)
  BY <1>1, <1>3, <1>5, Zenon DEF Numbered
<1>7. Balanced(y)
  BY <1>1, <1>5, Zenon DEF Balanced
<1>8. QED
  BY <1>5, <1>6, <1>7 DEF Sound

LEMMA LocalSound ==
    ASSUME NEW d \in Surfaces, NEW z, Sound(z), NEW y, LocalStep(d, z, y)
    PROVE  Sound(y)
BY CacheSound, ParkSound, NowSound, ApplyCacheSound, AdmitSound, TimeSound, DieSound,
   SubDieSound, FrameSound, FenceSound, FlipSound, ReadySound, Zenon DEF LocalStep
-----------------------------------------------------------------------------
(* Types *)

Typed ==
    /\ last \in [Surfaces -> Nat] /\ surf \in [Surfaces -> Surface]
    /\ queue \in [Surfaces -> Seq(Entry)] /\ cache \in [Surfaces -> Update]
    /\ barrier \in [Surfaces -> BOOLEAN] /\ sync \in [Surfaces -> BOOLEAN]
    /\ subs \in SUBSET Subs /\ alive \in SUBSET Surfaces /\ minimized \in SUBSET Roots
    /\ xdg \in [Roots -> [sent : BOOLEAN, acked : BOOLEAN, mapped : BOOLEAN]]
    /\ needsFrame \in BOOLEAN /\ settle \in 0 .. (SettleFrames - 1)
    /\ frame \in [flip : BOOLEAN, fence : BOOLEAN, held : SUBSET Names]
    /\ (frame.held # {} => frame.fence)
    /\ drain \in [left : SUBSET Surfaces, busy : BOOLEAN, presented : BOOLEAN]
    /\ unready \in SUBSET Names /\ armed \in SUBSET unready /\ wakeup \in BOOLEAN
    /\ given \in SUBSET Names /\ returned \in SUBSET Names
    /\ fired \in SUBSET Names /\ lost \in SUBSET Names

LEMMA AtSets ==
    ASSUME NEW d, NEW A, NEW B
    PROVE  /\ At(A \cup B, d) = At(A, d) \cup At(B, d)
           /\ At(A \ B, d) = At(A, d) \ At(B, d)
           /\ At({}, d) = {}
BY DEF At

LEMMA AtOf ==
    ASSUME NEW d, NEW s, NEW N \in SUBSET Nat
    PROVE  At(Of(s, N), d) = IF d = s THEN N ELSE {}
BY DEF At, Of

LEMMA AtHeld ==
    ASSUME NEW sf \in [Surfaces -> Surface], NEW d \in Surfaces
    PROVE  At(Held(sf), d) = HeldBy(sf[d]) /\ Held(sf) \in SUBSET Names
<1>1. \A s \in Surfaces : sf[s].from \in Nat /\ sf[s].held \in BOOLEAN
  BY DEF Surface
<1>2. Held(sf) \in SUBSET Names
  BY <1>1 DEF Held, Names
<1>3. ASSUME NEW n PROVE n \in At(Held(sf), d) <=> (sf[d].held /\ n = sf[d].from)
  BY <1>1 DEF At, Held
<1>4. ASSUME NEW n PROVE n \in HeldBy(sf[d]) <=> (sf[d].held /\ n = sf[d].from)
  BY <1>1 DEF HeldBy
<1>5. QED
  BY <1>2, <1>3, <1>4

LEMMA LocalTyped ==
    ASSUME Typed, NEW d \in Surfaces
    PROVE  Local(d) \in LocalSet
<1>1. /\ last[d] \in Nat /\ surf[d] \in Surface /\ queue[d] \in Seq(Entry) /\ cache[d] \in Update
  BY DEF Typed
<1>2. /\ At(given, d) \in SUBSET Nat /\ At(returned, d) \in SUBSET Nat
      /\ At(frame.held, d) \in SUBSET Nat /\ At(fired, d) \in SUBSET Nat
      /\ At(lost, d) \in SUBSET Nat /\ At(unready, d) \in SUBSET Nat
  BY DEF At
<1>3. (d \in alive) \in BOOLEAN
  OBVIOUS
<1>4. QED
  BY <1>1, <1>2, <1>3 DEF Local, LocalSet

\* What the surfaces give back is known surface by surface.
LEMMA Becomes ==
    ASSUME Typed, NEW sf \in [Surfaces -> Surface], NEW more, Become(sf, more), NEW d \in Surfaces
    PROVE  /\ surf' = sf
           /\ At(returned', d) = At(returned, d) \cup At(more, d) \cup Freed(Local(d), sf[d])
<1>1. surf' = sf /\ returned' = returned \cup more \cup ((Held(surf) \ Held(sf)) \ frame.held)
  BY DEF Become
<1>2. surf \in [Surfaces -> Surface]
  BY DEF Typed
<1>3. At(Held(surf), d) = HeldBy(surf[d]) /\ At(Held(sf), d) = HeldBy(sf[d])
  BY <1>2, AtHeld
<1>4. At(returned', d) = At(returned, d) \cup At(more, d)
          \cup ((At(Held(surf), d) \ At(Held(sf), d)) \ At(frame.held, d))
  BY <1>1 DEF At
<1>5. Local(d).surf = surf[d] /\ Local(d).gpu = At(frame.held, d)
  BY DEF Local
<1>6. QED
  BY <1>1, <1>3, <1>4, <1>5 DEF Freed

LEMMA BecomeTyped ==
    ASSUME Typed, NEW sf \in [Surfaces -> Surface], NEW more \in SUBSET Names, Become(sf, more)
    PROVE  surf' \in [Surfaces -> Surface] /\ returned' \in SUBSET Names
<1>1. surf' = sf /\ returned' = returned \cup more \cup ((Held(surf) \ Held(sf)) \ frame.held)
  BY DEF Become
<1>2. surf \in [Surfaces -> Surface] /\ returned \in SUBSET Names
  BY DEF Typed
<1>3. Held(surf) \in SUBSET Names
  BY <1>2 DEF Held, Names, Surface
<1>4. QED
  BY <1>1, <1>2, <1>3

LEMMA FreedNone ==
    ASSUME NEW d
    PROVE  Freed(Local(d), surf[d]) = {}
BY DEF Freed, Local

\* The state of a surface after caches are applied.
Applied(s, u, ds, d) ==
    IF d = s THEN Onto(surf[s], u) ELSE IF d \in ds THEN Onto(surf[d], cache[d]) ELSE surf[d]

LEMMA AppliedTyped ==
    ASSUME Typed, NEW s \in Surfaces, NEW u \in Update, NEW ds
    PROVE  [d \in Surfaces |-> Applied(s, u, ds, d)] \in [Surfaces -> Surface]
<1>1. surf \in [Surfaces -> Surface] /\ cache \in [Surfaces -> Update]
  BY DEF Typed
<1>2. ASSUME NEW d \in Surfaces
      PROVE  Applied(s, u, ds, d) \in Surface
  <2>1. surf[d] \in Surface /\ cache[d] \in Update
    BY <1>1, <1>2
  <2>2. Onto(surf[d], cache[d]) \in Surface /\ Onto(surf[d], u) \in Surface
    BY <2>1, OntoType
  <2>3. QED
    BY <2>1, <2>2 DEF Applied
<1>3. QED
  BY <1>2

LEMMA ApplyAllTyped ==
    ASSUME Typed, NEW s \in Surfaces, NEW u \in Update, NEW ds, NEW more \in SUBSET Names,
           ApplyAll(s, u, ds, more)
    PROVE  /\ surf' \in [Surfaces -> Surface] /\ cache' \in [Surfaces -> Update]
           /\ returned' \in SUBSET Names
<1> DEFINE sf == [d \in Surfaces |-> Applied(s, u, ds, d)]
<1>1. Become(sf, more) /\ cache' = [d \in Surfaces |-> IF d \in ds THEN NoUpdate ELSE cache[d]]
  BY DEF ApplyAll, Applied
<1>2. sf \in [Surfaces -> Surface]
  BY AppliedTyped
<1> HIDE DEF sf
<1>3. surf' \in [Surfaces -> Surface] /\ returned' \in SUBSET Names
  BY <1>1, <1>2, BecomeTyped
<1>4. NoUpdate \in Update
  BY NoUpdateFits
<1>5. cache' \in [Surfaces -> Update]
  BY <1>1, <1>4 DEF Typed
<1>6. QED
  BY <1>3, <1>5

LEMMA ApplyAllStep ==
    ASSUME Typed, NEW s \in Surfaces, NEW u \in Update, NEW ds, NEW more,
           ApplyAll(s, u, ds, more), NEW d \in Surfaces
    PROVE  /\ surf'[d] = Applied(s, u, ds, d)
           /\ cache'[d] = IF d \in ds THEN NoUpdate ELSE cache[d]
           /\ At(returned', d) = At(returned, d) \cup At(more, d) \cup Freed(Local(d), surf'[d])
<1> DEFINE sf == [x \in Surfaces |-> Applied(s, u, ds, x)]
<1>1. Become(sf, more) /\ cache' = [x \in Surfaces |-> IF x \in ds THEN NoUpdate ELSE cache[x]]
  BY DEF ApplyAll, Applied
<1>2. sf \in [Surfaces -> Surface] /\ sf[d] = Applied(s, u, ds, d)
  BY AppliedTyped
<1> HIDE DEF sf
<1>3. /\ surf' = sf
      /\ At(returned', d) = At(returned, d) \cup At(more, d) \cup Freed(Local(d), sf[d])
  BY <1>1, <1>2, Becomes
<1>4. QED
  BY <1>1, <1>2, <1>3

-----------------------------------------------------------------------------
(* Every step is, for every surface, a local step *)

LEMMA LocalSame ==
    ASSUME UNCHANGED <<last, surf, queue, cache, frame, given, returned, fired, lost, unready, alive>>,
           NEW d
    PROVE  Local(d)' = Local(d)
BY DEF Local

LEMMA LocalFields ==
    ASSUME Typed, Typed', NEW d \in Surfaces
    PROVE  /\ Local(d) \in LocalSet /\ Local(d)' \in LocalSet
           /\ Local(d).last = last[d] /\ Local(d).surf = surf[d] /\ Local(d).queue = queue[d]
           /\ Local(d).cache = cache[d] /\ Local(d).given = At(given, d)
           /\ Local(d).back = At(returned, d) /\ Local(d).gpu = At(frame.held, d)
           /\ Local(d).done = At(fired, d) /\ Local(d).lost = At(lost, d)
           /\ Local(d).late = At(unready, d)
           /\ Local(d)'.last = last'[d] /\ Local(d)'.surf = surf'[d] /\ Local(d)'.queue = queue'[d]
           /\ Local(d)'.cache = cache'[d] /\ Local(d)'.given = At(given', d)
           /\ Local(d)'.back = At(returned', d) /\ Local(d)'.gpu = At(frame.held', d)
           /\ Local(d)'.done = At(fired', d) /\ Local(d)'.lost = At(lost', d)
           /\ Local(d)'.late = At(unready', d)
           /\ (alive' = alive => Local(d)'.alive = Local(d).alive)
<1>1. Local(d) \in LocalSet
  BY LocalTyped
<1>2. Local(d)' \in LocalSet
  <2>1. /\ last'[d] \in Nat /\ surf'[d] \in Surface /\ queue'[d] \in Seq(Entry)
        /\ cache'[d] \in Update
    BY DEF Typed
  <2>2. /\ At(given', d) \in SUBSET Nat /\ At(returned', d) \in SUBSET Nat
        /\ At(frame.held', d) \in SUBSET Nat /\ At(fired', d) \in SUBSET Nat
        /\ At(lost', d) \in SUBSET Nat /\ At(unready', d) \in SUBSET Nat
    BY DEF At
  <2>3. (d \in alive') \in BOOLEAN
    OBVIOUS
  <2>4. QED
    BY <2>1, <2>2, <2>3 DEF Local, LocalSet
<1>3. alive' = alive => Local(d)'.alive = Local(d).alive
  BY DEF Local
<1>4. QED
  BY <1>1, <1>2, <1>3 DEF Local

LEMMA CommitFacts ==
    ASSUME Typed, NEW s \in Surfaces, NEW a, Commits(s, a)
    PROVE  /\ Committed(s, a) \in Update /\ AtOnce(s, a) \in SUBSET Names
           /\ Committed(s, a).n = last[s] + 1
           /\ NewUpdate(s, Local(s), Committed(s, a), IF a.late THEN {last[s] + 1} ELSE {})
           /\ \A d \in Surfaces :
                /\ last'[d] = IF d = s THEN last[d] + 1 ELSE last[d]
                /\ At(given', d) = IF d = s THEN At(given, d) \cup Brought(Committed(s, a))
                                   ELSE At(given, d)
                /\ At(unready', d) = IF d = s /\ a.late THEN At(unready, d) \cup {last[s] + 1}
                                     ELSE At(unready, d)
                /\ At(AtOnce(s, a), d) = IF d = s THEN Spared(Committed(s, a)) ELSE {}
           /\ last' \in [Surfaces -> Nat] /\ given' \in SUBSET Names
           /\ unready' \in SUBSET Names /\ unready \subseteq unready'
<1> DEFINE k == last[s] + 1
           u == Committed(s, a)
<1>1. last \in [Surfaces -> Nat] /\ k \in Nat /\ k # 0
  BY DEF Typed
<1>2. a \in Updates[s] /\ s \in alive
  BY DEF Commits
<1>3. a.attach \in Attaches
  BY <1>2, UpdatesAssumption
<1>4. <<k>> \in Seq(Nat)
  BY <1>1
<1>5. u = [n |-> k, from |-> IF a.attach = "none" THEN 0 ELSE k,
           attach |-> a.attach, frames |-> <<k>>]
  BY DEF Committed
<1>6. <<s, k>> \in Names
  BY <1>1 DEF Names
<1>7. last' = [last EXCEPT ![s] = last[s] + 1]
  BY DEF Commits
<1>8. given' = IF a.attach \in {"none", "null"} THEN given ELSE given \cup {<<s, k>>}
  BY DEF Commits
<1>9. unready' = IF a.late THEN unready \cup {<<s, k>>} ELSE unready
  BY DEF Commits
<1>10. AtOnce(s, a) = IF a.attach \in {"pixel", "refused"} THEN {<<s, k>>} ELSE {}
  BY DEF AtOnce
<1>11. last' \in [Surfaces -> Nat]
  BY <1>1, <1>7
<1>12. given \in SUBSET Names /\ unready \in SUBSET Names
  BY DEF Typed
<1>13. NewUpdate(s, Local(s), u, IF a.late THEN {k} ELSE {})
  <2>1. Local(s).alive /\ Local(s).last = last[s]
    BY <1>2 DEF Local
  <2>2. QED
    BY <1>2, <1>5, <2>1, Zenon DEF NewUpdate
<1> HIDE DEF k
<1>14. u.n = k /\ u.attach = a.attach
  BY <1>5
<1>15. u \in Update
  BY <1>1, <1>3, <1>4, <1>5 DEF Update
<1> HIDE DEF u
<1>16. ASSUME NEW d \in Surfaces
       PROVE  /\ last'[d] = IF d = s THEN last[d] + 1 ELSE last[d]
              /\ At(given', d) = IF d = s THEN At(given, d) \cup Brought(u) ELSE At(given, d)
              /\ At(unready', d) = IF d = s /\ a.late THEN At(unready, d) \cup {k}
                                   ELSE At(unready, d)
              /\ At(AtOnce(s, a), d) = IF d = s THEN Spared(u) ELSE {}
  <2>1. last'[d] = IF d = s THEN last[d] + 1 ELSE last[d]
    BY <1>1, <1>7, <1>16
  <2>2. At({<<s, k>>}, d) = IF d = s THEN {k} ELSE {}
    BY <1>1 DEF At
  <2>3. At(given', d) = IF d = s THEN At(given, d) \cup Brought(u) ELSE At(given, d)
    <3>1. CASE a.attach \in {"none", "null"}
      BY <1>8, <1>14, <3>1 DEF Brought
    <3>2. CASE a.attach \notin {"none", "null"}
      <4>1. given' = given \cup {<<s, k>>}
        BY <1>8, <3>2
      <4>2. At(given \cup {<<s, k>>}, d) = At(given, d) \cup At({<<s, k>>}, d)
        BY DEF At
      <4>3. Brought(u) = {k}
        BY <1>14, <3>2 DEF Brought
      <4>4. QED
        BY <2>2, <4>1, <4>2, <4>3
    <3>3. QED
      BY <3>1, <3>2
  <2>4. At(unready', d) = IF d = s /\ a.late THEN At(unready, d) \cup {k} ELSE At(unready, d)
    <3>1. CASE a.late
      <4>1. unready' = unready \cup {<<s, k>>}
        BY <1>9, <3>1
      <4>2. At(unready \cup {<<s, k>>}, d) = At(unready, d) \cup At({<<s, k>>}, d)
        BY DEF At
      <4>3. QED
        BY <2>2, <3>1, <4>1, <4>2
    <3>2. CASE ~a.late
      BY <1>9, <3>2
    <3>3. QED
      BY <3>1, <3>2
  <2>5. At(AtOnce(s, a), d) = IF d = s THEN Spared(u) ELSE {}
    BY <1>10, <1>14, <2>2, AtSets DEF Spared
  <2>6. QED
    BY <2>1, <2>3, <2>4, <2>5
<1>17. given' \in SUBSET Names /\ unready' \in SUBSET Names /\ unready \subseteq unready'
       /\ AtOnce(s, a) \in SUBSET Names
  BY <1>6, <1>8, <1>9, <1>10, <1>12
<1>18. QED
  BY <1>11, <1>13, <1>14, <1>15, <1>16, <1>17 DEF k, u

LEMMA CommitCachedLocal ==
    ASSUME Typed, Typed', NEW s \in Surfaces, NEW a, CommitCached(s, a), NEW d \in Surfaces
    PROVE  LocalStep(d, Local(d), Local(d)')
<1> DEFINE u == Committed(s, a)
           late == IF a.late THEN {last[s] + 1} ELSE {}
<1>1. Commits(s, a) /\ ToCache(s) /\ Become(surf, Superseded(s, cache[s], u) \cup AtOnce(s, a))
      /\ cache' = [cache EXCEPT ![s] = Merge(cache[s], u)] /\ queue' = queue
  BY DEF CommitCached
<1>2. /\ surf \in [Surfaces -> Surface] /\ cache \in [Surfaces -> Update]
      /\ last \in [Surfaces -> Nat] /\ s \in Subs
  BY <1>1 DEF Typed, ToCache
<1>3. alive' = alive /\ fired' = fired /\ lost' = lost /\ frame' = frame
  BY <1>1 DEF Commits
<1>4. u \in Update /\ AtOnce(s, a) \in SUBSET Names /\ NewUpdate(s, Local(s), u, late)
  BY <1>1, CommitFacts
<1>5. /\ last'[d] = IF d = s THEN last[d] + 1 ELSE last[d]
      /\ At(given', d) = IF d = s THEN At(given, d) \cup Brought(u) ELSE At(given, d)
      /\ At(unready', d) = IF d = s /\ a.late THEN At(unready, d) \cup {last[s] + 1}
                           ELSE At(unready, d)
      /\ At(AtOnce(s, a), d) = IF d = s THEN Spared(u) ELSE {}
  BY <1>1, CommitFacts
<1> HIDE DEF u
<1>6. /\ Superseded(s, cache[s], u) \in SUBSET Names
      /\ At(Superseded(s, cache[s], u), d) = IF d = s THEN Replaced(cache[s], u) ELSE {}
  <2>1. cache[s].from \in Nat
    BY <1>2 DEF Update
  <2>2. Replaced(cache[s], u) \in SUBSET Nat
    BY <2>1 DEF Replaced, KeptBy
  <2>3. Superseded(s, cache[s], u) = Of(s, Replaced(cache[s], u))
    BY DEF Superseded, Replaced, KeptBy, Of
  <2>4. Of(s, Replaced(cache[s], u)) \in SUBSET Names
    BY <2>2 DEF Of, Names
  <2>5. QED
    BY <2>2, <2>3, <2>4, AtOf
<1>7. /\ surf' = surf
      /\ At(returned', d) = At(returned, d) \cup At(Superseded(s, cache[s], u) \cup AtOnce(s, a), d)
                            \cup Freed(Local(d), surf[d])
  BY <1>1, <1>2, <1>4, <1>6, Becomes
<1>8. At(returned', d) = IF d = s THEN At(returned, d) \cup Replaced(cache[s], u) \cup Spared(u)
                         ELSE At(returned, d)
  <2> DEFINE A == Superseded(s, cache[s], u)
             B == AtOnce(s, a)
  <2>1. At(A \cup B, d) = At(A, d) \cup At(B, d)
    <3> HIDE DEF A, B
    <3>1. QED
      BY DEF At
  <2>2. QED
    BY <1>5, <1>6, <1>7, <2>1, FreedNone
<1>9. cache'[d] = IF d = s THEN Merge(cache[s], u) ELSE cache[d]
  BY <1>1, <1>2
<1>10. CASE d # s
  <2>1. Local(d)' = Local(d)
    BY <1>1, <1>3, <1>5, <1>7, <1>8, <1>9, <1>10 DEF Local
  <2>2. QED
    BY <2>1 DEF LocalStep
<1>11. CASE d = s
  <2> DEFINE z == Local(d)
             y == Local(d)'
  <2>1. z \in LocalSet /\ y \in LocalSet
    BY LocalFields
  <2>2. /\ y.last = z.last + 1 /\ y.surf = z.surf /\ y.queue = z.queue
        /\ y.cache = Merge(z.cache, u) /\ y.given = z.given \cup Brought(u)
        /\ y.back = z.back \cup Replaced(z.cache, u) \cup Spared(u) /\ y.gpu = z.gpu
        /\ y.done = z.done /\ y.lost = z.lost /\ y.late = z.late \cup late /\ y.alive = z.alive
    <3>1. At(unready', d) = At(unready, d) \cup late
      BY <1>5, <1>11
    <3> HIDE DEF late
    <3>2. QED
      BY <1>1, <1>3, <1>5, <1>7, <1>8, <1>9, <1>11, <3>1, LocalFields
  <2> HIDE DEF z, y
  <2>3. y = [z EXCEPT !.last = @ + 1, !.given = @ \cup Brought(u), !.late = @ \cup late,
                      !.cache = Merge(@, u), !.back = @ \cup Replaced(z.cache, u) \cup Spared(u)]
    BY <2>1, <2>2 DEF LocalSet
  <2>4. late \in SUBSET {z.last + 1}
    BY <1>11, LocalFields DEF z
  <2> HIDE DEF late
  <2>5. CacheL(d, z, y)
    BY <1>2, <1>4, <1>11, <2>3, <2>4, Zenon DEF CacheL, z
  <2>6. QED
    BY <1>11, <2>5, Zenon DEF LocalStep, z, y
<1>12. QED
  BY <1>10, <1>11

LEMMA CommitParkedLocal ==
    ASSUME Typed, Typed', NEW s \in Surfaces, NEW a, CommitParked(s, a), NEW d \in Surfaces
    PROVE  LocalStep(d, Local(d), Local(d)')
<1> DEFINE u == Committed(s, a)
           late == IF a.late THEN {last[s] + 1} ELSE {}
           e == [u |-> u, set |-> a.set, wait |-> a.wait, timed |-> a.timed]
<1>1. Commits(s, a) /\ Become(surf, AtOnce(s, a)) /\ cache' = cache
      /\ queue' = [queue EXCEPT ![s] = Append(queue[s], e)]
  BY DEF CommitParked
<1>2. /\ surf \in [Surfaces -> Surface] /\ queue \in [Surfaces -> Seq(Entry)]
      /\ last \in [Surfaces -> Nat]
  BY DEF Typed
<1>3. alive' = alive /\ fired' = fired /\ lost' = lost /\ frame' = frame /\ a \in Updates[s]
  BY <1>1 DEF Commits
<1>4. u \in Update /\ AtOnce(s, a) \in SUBSET Names /\ NewUpdate(s, Local(s), u, late)
  BY <1>1, CommitFacts
<1>5. /\ last'[d] = IF d = s THEN last[d] + 1 ELSE last[d]
      /\ At(given', d) = IF d = s THEN At(given, d) \cup Brought(u) ELSE At(given, d)
      /\ At(unready', d) = IF d = s /\ a.late THEN At(unready, d) \cup {last[s] + 1}
                           ELSE At(unready, d)
      /\ At(AtOnce(s, a), d) = IF d = s THEN Spared(u) ELSE {}
  BY <1>1, CommitFacts
<1> HIDE DEF u
<1>6. e \in Entry /\ e.u = u
  <2>1. {a.set, a.wait, a.timed, a.late} \subseteq BOOLEAN
    BY <1>3, UpdatesAssumption
  <2>2. QED
    BY <1>4, <2>1 DEF Entry
<1> HIDE DEF e
<1>7. /\ surf' = surf
      /\ At(returned', d) = At(returned, d) \cup At(AtOnce(s, a), d) \cup Freed(Local(d), surf[d])
  BY <1>1, <1>2, <1>4, Becomes
<1>8. At(returned', d) = IF d = s THEN At(returned, d) \cup Spared(u) ELSE At(returned, d)
  BY <1>5, <1>7, FreedNone
<1>9. queue'[d] = IF d = s THEN Append(queue[d], e) ELSE queue[d]
  BY <1>1, <1>2
<1>10. CASE d # s
  <2>1. Local(d)' = Local(d)
    BY <1>1, <1>3, <1>5, <1>7, <1>8, <1>9, <1>10 DEF Local
  <2>2. QED
    BY <2>1 DEF LocalStep
<1>11. CASE d = s
  <2> DEFINE z == Local(d)
             y == Local(d)'
  <2>1. z \in LocalSet /\ y \in LocalSet
    BY LocalFields
  <2>2. /\ y.last = z.last + 1 /\ y.surf = z.surf /\ y.queue = Append(z.queue, e)
        /\ y.cache = z.cache /\ y.given = z.given \cup Brought(u)
        /\ y.back = z.back \cup Spared(u) /\ y.gpu = z.gpu
        /\ y.done = z.done /\ y.lost = z.lost /\ y.late = z.late \cup late /\ y.alive = z.alive
    <3>1. At(unready', d) = At(unready, d) \cup late
      BY <1>5, <1>11
    <3> HIDE DEF late
    <3>2. /\ last'[d] = last[d] + 1 /\ surf'[d] = surf[d] /\ queue'[d] = Append(queue[d], e)
          /\ cache'[d] = cache[d] /\ At(given', d) = At(given, d) \cup Brought(u)
          /\ At(returned', d) = At(returned, d) \cup Spared(u)
      BY <1>1, <1>5, <1>7, <1>8, <1>9, <1>11
    <3>3. QED
      BY <1>3, <3>1, <3>2, LocalFields
  <2>3. late \in SUBSET {z.last + 1}
    BY <1>11, LocalFields
  <2> HIDE DEF z, y, late
  <2>4. y = [z EXCEPT !.last = @ + 1, !.given = @ \cup Brought(u), !.late = @ \cup late,
                      !.queue = Append(@, e), !.back = @ \cup Spared(u)]
    BY <2>1, <2>2 DEF LocalSet
  <2>5. ParkL(d, z, y)
    BY <1>4, <1>6, <1>11, <2>3, <2>4, Zenon DEF ParkL, z
  <2>6. QED
    BY <2>5, Zenon DEF LocalStep, z, y
<1>12. QED
  BY <1>10, <1>11

\* A surface whose cache its parent's commit or set_desync applies.
LEMMA CacheApplied ==
    ASSUME Typed, Typed', NEW d \in Surfaces,
           surf'[d] = Onto(surf[d], cache[d]), cache'[d] = NoUpdate,
           At(returned', d) = At(returned, d) \cup Freed(Local(d), surf'[d]),
           last'[d] = last[d], queue'[d] = queue[d], At(given', d) = At(given, d),
           At(unready', d) = At(unready, d),
           UNCHANGED <<frame, fired, lost, alive>>
    PROVE  LocalStep(d, Local(d), Local(d)')
<1> DEFINE z == Local(d)
           y == Local(d)'
<1>1. z \in LocalSet /\ y \in LocalSet
  BY LocalFields
<1>2. /\ y.last = z.last /\ y.surf = Onto(z.surf, z.cache) /\ y.queue = z.queue
      /\ y.cache = NoUpdate /\ y.given = z.given
      /\ y.back = z.back \cup Freed(z, Onto(z.surf, z.cache)) /\ y.gpu = z.gpu
      /\ y.done = z.done /\ y.lost = z.lost /\ y.late = z.late /\ y.alive = z.alive
  BY LocalFields
<1> HIDE DEF z, y
<1>3. y = [z EXCEPT !.surf = Onto(@, z.cache), !.cache = NoUpdate,
                    !.back = @ \cup Freed(z, Onto(z.surf, z.cache))]
  BY <1>1, <1>2 DEF LocalSet
<1>4. QED
  BY <1>3, Zenon DEF LocalStep, ApplyCacheL, z, y

LEMMA CommitAppliedLocal ==
    ASSUME Typed, Typed', NEW s \in Surfaces, NEW a, CommitApplied(s, a), NEW d \in Surfaces
    PROVE  LocalStep(d, Local(d), Local(d)')
<1> DEFINE u == Committed(s, a)
<1>1. Commits(s, a) /\ ApplyAll(s, u, SyncTree(s), AtOnce(s, a)) /\ queue' = queue
      /\ ~Parks(s, a)
  BY DEF CommitApplied
<1>2. alive' = alive /\ fired' = fired /\ lost' = lost /\ frame' = frame
  BY <1>1 DEF Commits
<1>3. ~a.late /\ queue[s] = <<>>
  BY <1>1 DEF Parks
<1>4. u \in Update /\ AtOnce(s, a) \in SUBSET Names /\ NewUpdate(s, Local(s), u, {})
  BY <1>1, <1>3, CommitFacts
<1>5. /\ last'[d] = IF d = s THEN last[d] + 1 ELSE last[d]
      /\ At(given', d) = IF d = s THEN At(given, d) \cup Brought(u) ELSE At(given, d)
      /\ At(unready', d) = At(unready, d)
      /\ At(AtOnce(s, a), d) = IF d = s THEN Spared(u) ELSE {}
  BY <1>1, <1>3, CommitFacts
<1>6. SyncTree(s) \in SUBSET Surfaces /\ s \notin SyncTree(s)
  BY DEF SyncTree
<1> HIDE DEF u
<1>7. /\ surf'[d] = IF d = s THEN Onto(surf[s], u)
                    ELSE IF d \in SyncTree(s) THEN Onto(surf[d], cache[d]) ELSE surf[d]
      /\ cache'[d] = IF d \in SyncTree(s) THEN NoUpdate ELSE cache[d]
      /\ At(returned', d)
           = At(returned, d) \cup At(AtOnce(s, a), d) \cup Freed(Local(d), surf'[d])
  BY <1>1, <1>4, ApplyAllStep DEF Applied
<1>8. CASE d # s /\ d \notin SyncTree(s)
  <2>1. surf'[d] = surf[d] /\ cache'[d] = cache[d] /\ At(returned', d) = At(returned, d)
    BY <1>5, <1>7, <1>8, FreedNone
  <2>2. Local(d)' = Local(d)
    BY <1>1, <1>2, <1>5, <1>8, <2>1 DEF Local
  <2>3. QED
    BY <2>2 DEF LocalStep
<1>9. CASE d # s /\ d \in SyncTree(s)
  <2>1. /\ surf'[d] = Onto(surf[d], cache[d]) /\ cache'[d] = NoUpdate
        /\ At(returned', d) = At(returned, d) \cup Freed(Local(d), surf'[d])
    BY <1>5, <1>7, <1>9
  <2>2. last'[d] = last[d] /\ queue'[d] = queue[d] /\ At(given', d) = At(given, d)
    BY <1>1, <1>5, <1>9
  <2>3. QED
    BY <1>2, <1>5, <2>1, <2>2, CacheApplied
<1>10. CASE d = s
  <2> DEFINE z == Local(d)
             y == Local(d)'
  <2>1. z \in LocalSet /\ y \in LocalSet
    BY LocalFields
  <2>2. /\ y.last = z.last + 1 /\ y.surf = Onto(z.surf, u) /\ y.queue = z.queue
        /\ y.cache = z.cache /\ y.given = z.given \cup Brought(u)
        /\ y.back = z.back \cup Spared(u) \cup Freed(z, Onto(z.surf, u)) /\ y.gpu = z.gpu
        /\ y.done = z.done /\ y.lost = z.lost /\ y.late = z.late /\ y.alive = z.alive
        /\ z.queue = <<>>
    <3>1. surf'[d] = Onto(surf[d], u) /\ cache'[d] = cache[d]
          /\ At(returned', d) = At(returned, d) \cup Spared(u) \cup Freed(Local(d), surf'[d])
      BY <1>5, <1>6, <1>7, <1>10
    <3>2. QED
      BY <1>1, <1>2, <1>3, <1>5, <1>10, <3>1, LocalFields
  <2> HIDE DEF z, y
  <2>3. y = [z EXCEPT !.last = @ + 1, !.given = @ \cup Brought(u), !.surf = Onto(@, u),
                      !.back = @ \cup Spared(u) \cup Freed(z, Onto(z.surf, u))]
    BY <2>1, <2>2 DEF LocalSet
  <2>4. NowL(d, z, y)
    BY <1>4, <1>10, <2>2, <2>3, Zenon DEF NowL, z
  <2>5. QED
    BY <2>4, Zenon DEF LocalStep, z, y
<1>11. QED
  BY <1>8, <1>9, <1>10

LEMMA SetDesyncLocal ==
    ASSUME Typed, Typed', NEW s \in Subs, SetDesync(s), NEW d \in Surfaces
    PROVE  LocalStep(d, Local(d), Local(d)')
<1>1. UNCHANGED <<last, queue, given, unready, frame, fired, lost, alive>>
  BY DEF SetDesync, points
<1>2. CASE UNCHANGED <<surf, cache, returned>>
  <2>1. Local(d)' = Local(d)
    BY <1>1, <1>2, LocalSame
  <2>2. QED
    BY <2>1 DEF LocalStep
<1>3. CASE ApplyAll(s, cache[s], SyncTree(s) \cup {s}, {})
  <2>1. cache[s] \in Update /\ SyncTree(s) \cup {s} \in SUBSET Surfaces /\ s \in Surfaces
    BY DEF Typed, SyncTree, Subs
  <2>2. /\ surf'[d] = IF d = s THEN Onto(surf[s], cache[s])
                      ELSE IF d \in SyncTree(s) \cup {s} THEN Onto(surf[d], cache[d]) ELSE surf[d]
        /\ cache'[d] = IF d \in SyncTree(s) \cup {s} THEN NoUpdate ELSE cache[d]
        /\ At(returned', d) = At(returned, d) \cup At({}, d) \cup Freed(Local(d), surf'[d])
    BY <1>3, <2>1, ApplyAllStep DEF Applied
  <2>3. CASE d \in SyncTree(s) \cup {s}
    <3>1. /\ surf'[d] = Onto(surf[d], cache[d]) /\ cache'[d] = NoUpdate
          /\ At(returned', d) = At(returned, d) \cup Freed(Local(d), surf'[d])
      BY <2>2, <2>3, AtSets
    <3>2. QED
      BY <1>1, <3>1, CacheApplied
  <2>4. CASE d \notin SyncTree(s) \cup {s}
    <3>1. surf'[d] = surf[d] /\ cache'[d] = cache[d] /\ At(returned', d) = At(returned, d)
      BY <2>2, <2>4, FreedNone, AtSets
    <3>2. Local(d)' = Local(d)
      BY <1>1, <3>1 DEF Local
    <3>3. QED
      BY <3>2 DEF LocalStep
  <2>5. QED
    BY <2>3, <2>4
<1>4. QED
  BY <1>2, <1>3 DEF SetDesync

LEMMA DestroySurfaceLocal ==
    ASSUME Typed, Typed', NEW s \in Surfaces, DestroySurface(s), NEW d \in Surfaces
    PROVE  LocalStep(d, Local(d), Local(d)')
<1> DEFINE entries == {e.u : e \in Listed(queue[s])}
           sf == [surf EXCEPT ![s].attach = "null", ![s].held = FALSE, ![s].owed = {}]
           f == [surf[s] EXCEPT !.attach = "null", !.held = FALSE, !.owed = {}]
           more == {<<s, u.from>> : u \in {u \in entries : Kept(u.attach)}}
           gone == UNION {Listed(u.frames) : u \in entries}
           q == queue[s]
<1>1. /\ s \in alive /\ alive' = alive \ {s} /\ Become(sf, more)
      /\ lost' = lost \cup Of(s, surf[s].owed) \cup Of(s, gone)
      /\ queue' = [queue EXCEPT ![s] = <<>>]
  BY DEF DestroySurface
<1>2. UNCHANGED <<last, cache, unready, frame, given, fired>>
  BY DEF DestroySurface, points
<1>3. /\ surf \in [Surfaces -> Surface] /\ queue \in [Surfaces -> Seq(Entry)]
      /\ surf[s] \in Surface /\ q \in Seq(Entry)
  BY DEF Typed
<1>4. f \in Surface
  BY <1>3 DEF Surface, Attaches
<1>5. sf = [surf EXCEPT ![s] = f]
  BY <1>3
<1> HIDE DEF f
<1>6. sf \in [Surfaces -> Surface] /\ sf[d] = IF d = s THEN f ELSE surf[d]
  BY <1>3, <1>4, <1>5
<1> HIDE DEF sf
<1>7. \A i \in DOMAIN q : q[i] \in Entry
  BY <1>3
<1>8. \A i \in DOMAIN q : q[i].u \in Update
  BY <1>7 DEF Entry
<1>9. \A i \in DOMAIN q : q[i].u.from \in Nat /\ q[i].u.frames \in Seq(Nat)
  BY <1>8 DEF Update
<1>10. entries = {q[i].u : i \in DOMAIN q}
  BY DEF Listed
<1> HIDE DEF q, entries
<1>11. gone = ParkedFrames(q) /\ gone \in SUBSET Nat
  <2>1. \A i \in DOMAIN q : Listed(q[i].u.frames) \subseteq Nat
    BY <1>9 DEF Listed
  <2>2. gone = ParkedFrames(q)
    BY <1>10 DEF ParkedFrames
  <2>3. QED
    BY <2>1, <2>2 DEF ParkedFrames
<1>12. ParkedBuffers(q) \in SUBSET Nat
  BY <1>9 DEF ParkedBuffers, KeptBy
<1>13. more = Of(s, ParkedBuffers(q))
  <2>1. ASSUME NEW x PROVE x \in more => x \in Of(s, ParkedBuffers(q))
    BY <1>10 DEF ParkedBuffers, Of, KeptBy
  <2>2. ASSUME NEW x PROVE x \in Of(s, ParkedBuffers(q)) => x \in more
    BY <1>10 DEF ParkedBuffers, Of, KeptBy
  <2>3. QED
    BY <2>1, <2>2
<1> HIDE DEF more, gone
<1>14. At(more, d) = IF d = s THEN ParkedBuffers(q) ELSE {}
  BY <1>12, <1>13, AtOf
<1>15. surf' = sf /\ At(returned', d) = At(returned, d) \cup At(more, d) \cup Freed(Local(d), sf[d])
  BY <1>1, <1>6, Becomes
<1>16. surf[s].owed \in SUBSET Nat
  BY <1>3 DEF Surface
<1>17. At(lost', d) = IF d = s THEN At(lost, d) \cup surf[s].owed \cup ParkedFrames(q)
                      ELSE At(lost, d)
  <2>1. At(lost \cup Of(s, surf[s].owed), d)
          = IF d = s THEN At(lost, d) \cup (surf[s].owed \cap Nat) ELSE At(lost, d)
    BY DEF At, Of
  <2>2. At((lost \cup Of(s, surf[s].owed)) \cup Of(s, gone), d)
          = IF d = s THEN At(lost \cup Of(s, surf[s].owed), d) \cup (gone \cap Nat)
            ELSE At(lost \cup Of(s, surf[s].owed), d)
    BY DEF At, Of
  <2>3. surf[s].owed \cap Nat = surf[s].owed /\ gone \cap Nat = ParkedFrames(q)
    BY <1>11, <1>16
  <2>4. QED
    BY <1>1, <2>1, <2>2, <2>3
<1>18. queue'[d] = IF d = s THEN <<>> ELSE queue[d]
  BY <1>1, <1>3
<1>19. CASE d # s
  <2>1. surf'[d] = surf[d] /\ queue'[d] = queue[d] /\ At(returned', d) = At(returned, d)
        /\ At(lost', d) = At(lost, d) /\ (d \in alive' <=> d \in alive)
    BY <1>1, <1>6, <1>14, <1>15, <1>17, <1>18, <1>19, FreedNone
  <2>2. Local(d)' = Local(d)
    BY <1>2, <2>1 DEF Local
  <2>3. QED
    BY <2>2 DEF LocalStep
<1>20. CASE d = s
  <2> DEFINE z == Local(d)
             y == Local(d)'
  <2>1. z \in LocalSet /\ y \in LocalSet
    BY LocalFields
  <2>2. y.alive = FALSE
    <3>1. (d \in alive') = FALSE
      BY <1>1, <1>20
    <3>2. y.alive = (d \in alive')
      BY DEF Local
    <3>3. QED
      BY <3>1, <3>2, Zenon
  <2>3. /\ y.last = z.last /\ y.surf = f /\ y.queue = <<>>
        /\ y.cache = z.cache /\ y.given = z.given
        /\ y.back = z.back \cup ParkedBuffers(z.queue) \cup Freed(z, f) /\ y.gpu = z.gpu
        /\ y.done = z.done /\ y.lost = z.lost \cup z.surf.owed \cup ParkedFrames(z.queue)
        /\ y.late = z.late
    BY <1>2, <1>6, <1>14, <1>15, <1>17, <1>18, <1>20, LocalFields DEF q
  <2>4. f = [z.surf EXCEPT !.attach = "null", !.held = FALSE, !.owed = {}]
    BY <1>20, LocalFields DEF f
  <2> HIDE DEF z, y
  <2>5. y = [z EXCEPT !.alive = FALSE, !.surf = f, !.queue = <<>>,
                      !.back = @ \cup ParkedBuffers(z.queue) \cup Freed(z, f),
                      !.lost = @ \cup z.surf.owed \cup ParkedFrames(z.queue)]
    BY <2>1, <2>2, <2>3 DEF LocalSet
  <2>6. DieL(z, y)
    BY <1>4, <2>4, <2>5, Zenon DEF DieL
  <2>7. QED
    BY <2>6, Zenon DEF LocalStep, z, y
<1>21. QED
  BY <1>19, <1>20

\* Up to two cached callbacks are walked past, one by one.
LEMMA WalkedAll ==
    ASSUME Typed, NEW s \in Surfaces
    PROVE  /\ Walked(s) \subseteq Listed(cache[s].frames)
           /\ Len(cache[s].frames) <= 2 \/ s \notin alive => Walked(s) = Listed(cache[s].frames)
<1> DEFINE f == cache[s].frames
           at(i) == IF 2 * i - 1 < Len(f) THEN 2 * i - 1 ELSE Len(f)
<1>1. f \in Seq(Nat)
  <2>1. cache[s] \in Update
    BY DEF Typed
  <2>2. QED
    BY <2>1 DEF Update
<1>2. Walked(s) = IF s \in alive THEN {f[at(i)] : i \in DOMAIN f} ELSE Listed(f)
  BY DEF Walked
<1> HIDE DEF f
<1>3. Len(f) \in Nat /\ DOMAIN f = 1 .. Len(f)
  BY <1>1
<1>4. \A i \in DOMAIN f : at(i) \in DOMAIN f
  BY <1>3
<1>5. Len(f) <= 2 => \A i \in DOMAIN f : at(i) = i
  BY <1>3
<1>6. {f[at(i)] : i \in DOMAIN f} \subseteq Listed(f)
  BY <1>4 DEF Listed
<1>7. Len(f) <= 2 => {f[at(i)] : i \in DOMAIN f} = Listed(f)
  <2>1. ASSUME Len(f) <= 2
        PROVE  {f[at(i)] : i \in DOMAIN f} = {f[i] : i \in DOMAIN f}
    BY <1>5, <2>1, Zenon
  <2>2. QED
    BY <2>1 DEF Listed
<1>8. QED
  BY <1>2, <1>6, <1>7 DEF f

LEMMA DestroySubsurfaceLocal ==
    ASSUME Typed, Typed', NEW s \in Subs, DestroySubsurface(s), NEW d \in Surfaces
    PROVE  LocalStep(d, Local(d), Local(d)')
<1> DEFINE more == IF Kept(cache[s].attach) THEN {<<s, cache[s].from>>} ELSE {}
           gone == Walked(s)
<1>1. /\ lost' = lost \cup Of(s, gone) /\ Become(surf, more)
      /\ cache' = [cache EXCEPT ![s] = NoUpdate]
  BY DEF DestroySubsurface
<1>2. UNCHANGED <<last, queue, unready, frame, given, fired, alive>>
  BY DEF DestroySubsurface, points, loop
<1>3. /\ surf \in [Surfaces -> Surface] /\ cache \in [Surfaces -> Update] /\ s \in Surfaces
      /\ cache[s] \in Update
  BY DEF Typed, Subs
<1>4. cache[s].from \in Nat /\ cache[s].frames \in Seq(Nat)
  BY <1>3 DEF Update
<1>5. gone \in SUBSET Listed(cache[s].frames)
      /\ (Len(cache[s].frames) <= 2 \/ s \notin alive => gone = Listed(cache[s].frames))
  BY <1>3, WalkedAll
<1> HIDE DEF gone
<1>6. gone \in SUBSET Nat
  BY <1>4, <1>5 DEF Listed
<1>7. more = Of(s, KeptBy(cache[s])) /\ KeptBy(cache[s]) \in SUBSET Nat
  BY <1>4 DEF KeptBy, Of
<1> HIDE DEF more
<1>8. At(more, d) = IF d = s THEN KeptBy(cache[s]) ELSE {}
  BY <1>7, AtOf
<1>9. surf' = surf
      /\ At(returned', d) = At(returned, d) \cup At(more, d) \cup Freed(Local(d), surf[d])
  BY <1>1, <1>3, Becomes
<1>10. At(returned', d) = IF d = s THEN At(returned, d) \cup KeptBy(cache[s]) ELSE At(returned, d)
  BY <1>8, <1>9, FreedNone
<1>11. At(lost', d) = IF d = s THEN At(lost, d) \cup gone ELSE At(lost, d)
  <2>1. At(lost \cup Of(s, gone), d)
          = IF d = s THEN At(lost, d) \cup (gone \cap Nat) ELSE At(lost, d)
    BY DEF At, Of
  <2>2. QED
    BY <1>1, <1>6, <2>1
<1>12. cache'[d] = IF d = s THEN NoUpdate ELSE cache[d]
  BY <1>1, <1>3
<1>13. CASE d # s
  <2>1. Local(d)' = Local(d)
    BY <1>2, <1>9, <1>10, <1>11, <1>12, <1>13 DEF Local
  <2>2. QED
    BY <2>1 DEF LocalStep
<1>14. CASE d = s
  <2> DEFINE z == Local(d)
             y == Local(d)'
  <2>1. z \in LocalSet /\ y \in LocalSet
    BY LocalFields
  <2>2. /\ y.last = z.last /\ y.surf = z.surf /\ y.queue = z.queue
        /\ y.cache = NoUpdate /\ y.given = z.given
        /\ y.back = z.back \cup KeptBy(z.cache) /\ y.gpu = z.gpu
        /\ y.done = z.done /\ y.lost = z.lost \cup gone /\ y.late = z.late /\ y.alive = z.alive
    BY <1>2, <1>9, <1>10, <1>11, <1>12, <1>14, LocalFields
  <2>3. /\ gone \in SUBSET Listed(z.cache.frames)
        /\ Len(z.cache.frames) <= 2 \/ ~z.alive => gone = Listed(z.cache.frames)
    BY <1>5, <1>14, Zenon DEF Local
  <2> HIDE DEF z, y
  <2>4. y = [z EXCEPT !.cache = NoUpdate, !.back = @ \cup KeptBy(z.cache), !.lost = @ \cup gone]
    BY <2>1, <2>2 DEF LocalSet
  <2>5. SubDieL(z, y)
    BY <2>3, <2>4, Zenon DEF SubDieL
  <2>6. QED
    BY <2>5, Zenon DEF LocalStep, z, y
<1>15. QED
  BY <1>13, <1>14

LEMMA RenderFrameLocal ==
    ASSUME Typed, Typed', RenderFrame, NEW d \in Surfaces
    PROVE  LocalStep(d, Local(d), Local(d)')
<1>1. UNCHANGED <<last, queue, cache, alive, unready, given, returned, fired, lost>>
  BY DEF RenderFrame, points
<1>2. /\ frame' = [flip |-> TRUE, fence |-> TRUE,
                   held |-> {<<s, surf[s].from>> : s \in Copied \cup Sampled}]
      /\ surf' = [s \in Surfaces |-> IF s \in Copied THEN [surf[s] EXCEPT !.held = FALSE] ELSE surf[s]]
      /\ frame.held = {}
  BY DEF RenderFrame, Typed
<1>3. surf \in [Surfaces -> Surface] /\ surf[d] \in Surface
  BY DEF Typed
<1>4. surf[d].from \in Nat /\ surf[d].held \in BOOLEAN
  BY <1>3 DEF Surface
<1> DEFINE f == IF d \in Copied THEN [surf[d] EXCEPT !.held = FALSE] ELSE surf[d]
           gpu == IF d \in Copied \cup Sampled THEN {surf[d].from} ELSE {}
<1>5. surf'[d] = f
  BY <1>2
<1>6. At(frame.held', d) = gpu
  <2>1. frame.held' = {<<s, surf[s].from>> : s \in Copied \cup Sampled}
    BY <1>2
  <2>2. QED
    BY <1>4, <2>1 DEF At
<1>7. d \in Copied \cup Sampled => surf[d].held
  BY DEF Copied, Sampled
<1>8. HeldBy(surf[d]) = IF surf[d].held THEN {surf[d].from} ELSE {}
  BY DEF HeldBy
<1>9. gpu \in SUBSET HeldBy(surf[d])
  BY <1>7, <1>8
<1>10. f \in Surface
  BY <1>3 DEF Surface
<1>11. f = surf[d] \/ (f = [surf[d] EXCEPT !.held = FALSE] /\ gpu = HeldBy(surf[d]))
  BY <1>7, <1>8
<1>12. At(frame.held, d) = {}
  BY <1>2 DEF At
<1> HIDE DEF f, gpu
<1> DEFINE z == Local(d)
           y == Local(d)'
<1>13. z \in LocalSet /\ y \in LocalSet
  BY LocalFields
<1>14. /\ y.last = z.last /\ y.surf = f /\ y.queue = z.queue /\ y.cache = z.cache
       /\ y.given = z.given /\ y.back = z.back /\ y.gpu = gpu
       /\ y.done = z.done /\ y.lost = z.lost /\ y.late = z.late /\ y.alive = z.alive
  BY <1>1, <1>5, <1>6, LocalFields
<1>18. z.gpu = {} /\ z.surf = surf[d]
  BY <1>12, LocalFields
<1> HIDE DEF z, y
<1>15. y = [z EXCEPT !.surf = f, !.gpu = gpu]
  BY <1>13, <1>14 DEF LocalSet
<1>16. FrameL(z, y)
  BY <1>9, <1>10, <1>11, <1>15, <1>18, Zenon DEF FrameL
<1>17. QED
  BY <1>16, Zenon DEF LocalStep, z, y

LEMMA FenceRetiresLocal ==
    ASSUME Typed, Typed', FenceRetires, NEW d \in Surfaces
    PROVE  LocalStep(d, Local(d), Local(d)')
<1>1. UNCHANGED <<last, surf, queue, cache, alive, unready, given, fired, lost>>
  BY DEF FenceRetires, points
<1>2. frame' = [frame EXCEPT !.fence = FALSE, !.held = {}]
      /\ returned' = returned \cup (frame.held \ Held(surf))
  BY DEF FenceRetires
<1>3. frame.held' = {}
  BY <1>2 DEF Typed
<1>4. At(frame.held', d) = {}
  BY <1>3 DEF At
<1>5. At(Held(surf), d) = HeldBy(surf[d])
  BY AtHeld DEF Typed
<1>6. At(returned', d) = At(returned, d) \cup (At(frame.held, d) \ HeldBy(surf[d]))
  <2>1. At(returned', d) = At(returned, d) \cup (At(frame.held, d) \ At(Held(surf), d))
    BY <1>2 DEF At
  <2>2. QED
    BY <1>5, <2>1
<1> DEFINE z == Local(d)
           y == Local(d)'
<1>7. z \in LocalSet /\ y \in LocalSet
  BY LocalFields
<1>8. /\ y.last = z.last /\ y.surf = z.surf /\ y.queue = z.queue /\ y.cache = z.cache
      /\ y.given = z.given /\ y.back = z.back \cup (z.gpu \ HeldBy(z.surf)) /\ y.gpu = {}
      /\ y.done = z.done /\ y.lost = z.lost /\ y.late = z.late /\ y.alive = z.alive
  BY <1>1, <1>4, <1>6, LocalFields
<1> HIDE DEF z, y
<1>9. y = [z EXCEPT !.gpu = {}, !.back = @ \cup (z.gpu \ HeldBy(z.surf))]
  BY <1>7, <1>8 DEF LocalSet
<1>10. QED
  BY <1>9, Zenon DEF LocalStep, FenceL, z, y

LEMMA FlipDoneLocal ==
    ASSUME Typed, Typed', FlipDone, NEW d \in Surfaces
    PROVE  LocalStep(d, Local(d), Local(d)')
<1>1. UNCHANGED <<last, queue, cache, alive, unready, given, returned, lost>>
  BY DEF FlipDone, points
<1>2. /\ frame' = [frame EXCEPT !.flip = FALSE]
      /\ fired' = fired \cup UNION {Of(s, surf[s].owed) : s \in {s \in Surfaces : Presented(s)}}
      /\ surf' = [s \in Surfaces |-> IF Presented(s) THEN [surf[s] EXCEPT !.owed = {}] ELSE surf[s]]
  BY DEF FlipDone
<1>3. frame.held' = frame.held
  BY <1>2 DEF Typed
<1>4. surf \in [Surfaces -> Surface] /\ surf[d] \in Surface
  BY DEF Typed
<1>5. surf[d].owed \in SUBSET Nat
  BY <1>4 DEF Surface
<1>6. ASSUME NEW n
      PROVE  n \in At(fired', d) <=> n \in At(fired, d) \/ (Presented(d) /\ n \in surf[d].owed)
  BY <1>2, <1>5 DEF At, Of
<1>7. CASE ~Presented(d)
  <2>1. At(fired', d) = At(fired, d)
    BY <1>6, <1>7
  <2>2. surf'[d] = surf[d]
    BY <1>2, <1>7
  <2>3. Local(d)' = Local(d)
    BY <1>1, <1>3, <2>1, <2>2 DEF Local
  <2>4. QED
    BY <2>3 DEF LocalStep
<1>8. CASE Presented(d)
  <2> DEFINE f == [surf[d] EXCEPT !.owed = {}]
             z == Local(d)
             y == Local(d)'
  <2>1. At(fired', d) = At(fired, d) \cup surf[d].owed
    BY <1>6, <1>8
  <2>2. surf'[d] = f
    BY <1>2, <1>8
  <2>3. f \in Surface
    BY <1>4 DEF Surface
  <2> HIDE DEF f
  <2>4. z \in LocalSet /\ y \in LocalSet
    BY LocalFields
  <2>5. /\ y.last = z.last /\ y.surf = f /\ y.queue = z.queue /\ y.cache = z.cache
        /\ y.given = z.given /\ y.back = z.back /\ y.gpu = z.gpu
        /\ y.done = z.done \cup z.surf.owed /\ y.lost = z.lost /\ y.late = z.late
        /\ y.alive = z.alive
    BY <1>1, <1>3, <2>1, <2>2, LocalFields
  <2>6. f = [z.surf EXCEPT !.owed = {}]
    BY LocalFields DEF f
  <2> HIDE DEF z, y
  <2>7. y = [z EXCEPT !.surf = f, !.done = @ \cup z.surf.owed]
    BY <2>4, <2>5 DEF LocalSet
  <2>8. FlipL(z, y)
    BY <2>3, <2>6, <2>7, Zenon DEF FlipL
  <2>9. QED
    BY <2>8, Zenon DEF LocalStep, z, y
<1>9. QED
  BY <1>7, <1>8

LEMMA AdmitLocal ==
    ASSUME Typed, Typed', Draining \in Surfaces, Admit, NEW d \in Surfaces
    PROVE  LocalStep(d, Local(d), Local(d)')
<1>1. PICK s \in Surfaces : s = Draining
  OBVIOUS
<1> DEFINE q == queue[s]
           u == Head(q).u
<1>2. /\ q # <<>> /\ ~HeldOnAcquire(s) /\ ApplyAll(s, u, SyncTree(s), {})
      /\ queue' = [queue EXCEPT ![s] = Tail(q)]
  BY <1>1, Zenon DEF Admit, MayAdmit, Blocked
<1>3. UNCHANGED <<last, alive, unready, frame, given, fired, lost>>
  BY DEF Admit, points
<1>4. queue \in [Surfaces -> Seq(Entry)] /\ q \in Seq(Entry)
  BY DEF Typed
<1>5. Head(q) \in Entry
  BY <1>2, <1>4
<1>6. u \in Update
  BY <1>5 DEF Entry
<1>7. u.n \notin At(unready, s)
  BY <1>2 DEF HeldOnAcquire, At
<1>8. s \notin SyncTree(s) /\ queue'[d] = IF d = s THEN Tail(q) ELSE queue[d]
  BY <1>2, <1>4 DEF SyncTree
<1> HIDE DEF u
<1>9. /\ surf'[d] = IF d = s THEN Onto(surf[s], u)
                    ELSE IF d \in SyncTree(s) THEN Onto(surf[d], cache[d]) ELSE surf[d]
      /\ cache'[d] = IF d \in SyncTree(s) THEN NoUpdate ELSE cache[d]
      /\ At(returned', d) = At(returned, d) \cup At({}, d) \cup Freed(Local(d), surf'[d])
  BY <1>2, <1>6, ApplyAllStep DEF Applied
<1>10. CASE d # s /\ d \notin SyncTree(s)
  <2>1. surf'[d] = surf[d] /\ cache'[d] = cache[d] /\ queue'[d] = queue[d]
        /\ At(returned', d) = At(returned, d)
    BY <1>8, <1>9, <1>10, FreedNone, AtSets
  <2>2. Local(d)' = Local(d)
    BY <1>3, <2>1 DEF Local
  <2>3. QED
    BY <2>2 DEF LocalStep
<1>11. CASE d # s /\ d \in SyncTree(s)
  <2>1. /\ surf'[d] = Onto(surf[d], cache[d]) /\ cache'[d] = NoUpdate
        /\ At(returned', d) = At(returned, d) \cup Freed(Local(d), surf'[d])
    BY <1>9, <1>11, AtSets
  <2>2. queue'[d] = queue[d]
    BY <1>8, <1>11
  <2>3. QED
    BY <1>3, <2>1, <2>2, CacheApplied
<1>12. CASE d = s
  <2> DEFINE z == Local(d)
             y == Local(d)'
  <2>1. z \in LocalSet /\ y \in LocalSet
    BY LocalFields
  <2>2. /\ y.last = z.last /\ y.surf = Onto(z.surf, u) /\ y.queue = Tail(z.queue)
        /\ y.cache = z.cache /\ y.given = z.given
        /\ y.back = z.back \cup Freed(z, Onto(z.surf, u)) /\ y.gpu = z.gpu
        /\ y.done = z.done /\ y.lost = z.lost /\ y.late = z.late /\ y.alive = z.alive
        /\ z.queue = q /\ z.late = At(unready, s)
    <3>1. surf'[d] = Onto(surf[d], u) /\ cache'[d] = cache[d]
          /\ At(returned', d) = At(returned, d) \cup Freed(Local(d), surf'[d])
      BY <1>8, <1>9, <1>12, AtSets
    <3>2. QED
      BY <1>3, <1>8, <1>12, <3>1, LocalFields
  <2> HIDE DEF z, y, q
  <2>3. u = Head(z.queue).u
    BY <2>2 DEF u
  <2>4. y = [z EXCEPT !.surf = Onto(@, u), !.queue = Tail(@),
                      !.back = @ \cup Freed(z, Onto(z.surf, u))]
    BY <2>1, <2>2 DEF LocalSet
  <2>5. AdmitL(z, y)
    BY <1>2, <1>7, <2>2, <2>3, <2>4, Zenon DEF AdmitL
  <2>6. QED
    BY <2>5, Zenon DEF LocalStep, z, y
<1>13. QED
  BY <1>10, <1>11, <1>12

LEMMA TimePassesLocal ==
    ASSUME Typed, Typed', NEW s \in Surfaces, NEW i \in DOMAIN queue[s], TimePasses(s, i),
           NEW d \in Surfaces
    PROVE  LocalStep(d, Local(d), Local(d)')
<1>1. UNCHANGED <<last, surf, cache, alive, unready, frame, given, returned, fired, lost>>
  BY DEF TimePasses, points, loop
<1>2. queue \in [Surfaces -> Seq(Entry)] /\ queue[s] \in Seq(Entry)
  BY DEF Typed
<1> DEFINE q == [queue[s] EXCEPT ![i].timed = FALSE]
           e == [queue[s][i] EXCEPT !.timed = FALSE]
<1>3. queue' = [queue EXCEPT ![s] = q]
  BY DEF TimePasses
<1>4. queue[s][i] \in Entry
  BY <1>2
<1>5. e \in Entry /\ e.u = queue[s][i].u
  BY <1>4 DEF Entry
<1>6. q = [queue[s] EXCEPT ![i] = e]
  BY <1>2
<1> HIDE DEF q, e
<1>7. q \in Seq(Entry) /\ DOMAIN q = DOMAIN queue[s]
      /\ \A j \in DOMAIN q : q[j] = IF j = i THEN e ELSE queue[s][j]
  BY <1>2, <1>5, <1>6
<1>8. queue'[d] = IF d = s THEN q ELSE queue[d]
  BY <1>2, <1>3
<1>9. CASE d # s
  <2>1. Local(d)' = Local(d)
    BY <1>1, <1>8, <1>9 DEF Local
  <2>2. QED
    BY <2>1 DEF LocalStep
<1>10. CASE d = s
  <2> DEFINE z == Local(d)
             y == Local(d)'
  <2>1. z \in LocalSet /\ y \in LocalSet
    BY LocalFields
  <2>2. /\ y.last = z.last /\ y.surf = z.surf /\ y.queue = q /\ y.cache = z.cache
        /\ y.given = z.given /\ y.back = z.back /\ y.gpu = z.gpu
        /\ y.done = z.done /\ y.lost = z.lost /\ y.late = z.late /\ y.alive = z.alive
    BY <1>1, <1>8, <1>10, LocalFields
  <2>3. DOMAIN q = DOMAIN z.queue /\ \A j \in DOMAIN q : q[j].u = z.queue[j].u
    BY <1>5, <1>7, <1>10, LocalFields
  <2> HIDE DEF z, y
  <2>4. y = [z EXCEPT !.queue = q]
    BY <2>1, <2>2 DEF LocalSet
  <2>5. TimeL(z, y)
    BY <1>7, <2>3, <2>4, Zenon DEF TimeL
  <2>6. QED
    BY <2>5, Zenon DEF LocalStep, z, y
<1>11. QED
  BY <1>9, <1>10

LEMMA MaterializeLocal ==
    ASSUME Typed, Typed', NEW b \in unready, Materialize(b), NEW d \in Surfaces
    PROVE  LocalStep(d, Local(d), Local(d)')
<1>1. UNCHANGED <<last, surf, queue, cache, alive, frame, given, returned, fired, lost>>
  BY DEF Materialize, loop
<1>2. unready' = unready \ {b} /\ b \in Names
  BY DEF Materialize, Typed
<1>3. PICK s \in Surfaces, n \in Nat : b = <<s, n>>
  BY <1>2 DEF Names
<1>4. At(unready', d) = IF d = s THEN At(unready, d) \ {n} ELSE At(unready, d)
  BY <1>2, <1>3 DEF At
<1>5. CASE d # s
  <2>1. Local(d)' = Local(d)
    BY <1>1, <1>4, <1>5 DEF Local
  <2>2. QED
    BY <2>1 DEF LocalStep
<1>6. CASE d = s
  <2> DEFINE z == Local(d)
             y == Local(d)'
  <2>1. z \in LocalSet /\ y \in LocalSet
    BY LocalFields
  <2>2. /\ y.last = z.last /\ y.surf = z.surf /\ y.queue = z.queue /\ y.cache = z.cache
        /\ y.given = z.given /\ y.back = z.back /\ y.gpu = z.gpu
        /\ y.done = z.done /\ y.lost = z.lost /\ y.late = z.late \ {n} /\ y.alive = z.alive
    BY <1>1, <1>4, <1>6, LocalFields
  <2> HIDE DEF z, y
  <2>3. y = [z EXCEPT !.late = @ \ {n}]
    BY <2>1, <2>2 DEF LocalSet
  <2>4. ReadyL(z, y)
    BY <1>3, <2>3, Zenon DEF ReadyL
  <2>5. QED
    BY <2>4, Zenon DEF LocalStep, z, y
<1>7. QED
  BY <1>5, <1>6
-----------------------------------------------------------------------------
(* Every step keeps the types *)

LEMMA Least ==
    ASSUME NEW T \in SUBSET Nat, T # {}
    PROVE  \E x \in T : \A y \in T : x <= y
<1> DEFINE R == {ss \in Nat \X Nat : ss[1] < ss[2]}
<1>1. R = OpToRel(<, Nat)
  BY DEF OpToRel
<1>2. IsWellFoundedOn(R, Nat)
  BY <1>1, NatLessThanWellFounded
<1>3. \A x, y \in Nat : x < y => <<x, y>> \in R
  OBVIOUS
<1> HIDE DEF R
<1>4. PICK x \in T : \A y \in T : ~(<<y, x>> \in R)
  BY <1>2, WFMin
<1>5. \A y \in T : ~(y < x)
  BY <1>3, <1>4
<1>6. \A y \in T : x <= y
  BY <1>4, <1>5
<1>7. QED
  BY <1>4, <1>6

LEMMA DrainingIsLeft ==
    ASSUME Typed, ~Idle
    PROVE  Draining \in drain.left /\ Draining \in Surfaces
<1>1. drain.left \in SUBSET Surfaces /\ drain.left # {}
  BY DEF Typed, Idle
<1>2. DOMAIN Order \in SUBSET Nat
  BY OrderAssumption
<1> DEFINE T == {i \in DOMAIN Order : Order[i] \in drain.left}
           First(i) == Order[i] \in drain.left /\ \A j \in 1 .. (i - 1) : Order[j] \notin drain.left
<1>3. T # {} /\ T \in SUBSET Nat
  BY <1>1, <1>2 DEF Surfaces
<1>4. PICK i \in T : \A j \in T : i <= j
  BY <1>3, Least
<1>5. First(i)
  <2>1. ASSUME NEW j \in 1 .. (i - 1) PROVE Order[j] \notin drain.left
    <3>1. j < i /\ j \in DOMAIN Order
      BY <1>3, <1>4, <2>1, OrderAssumption
    <3>2. j \notin T
      BY <1>3, <1>4, <2>1, <3>1
    <3>3. QED
      BY <3>1, <3>2
  <2>2. QED
    BY <1>4, <2>1
<1>6. \E k \in DOMAIN Order : First(k)
  BY <1>4, <1>5
<1>7. Draining = Order[CHOOSE k \in DOMAIN Order : First(k)]
  BY DEF Draining
<1> HIDE DEF First
<1>8. First(CHOOSE k \in DOMAIN Order : First(k))
  BY <1>6
<1>9. Order[CHOOSE k \in DOMAIN Order : First(k)] \in drain.left
  BY <1>8 DEF First
<1>10. QED
  BY <1>1, <1>7, <1>9

LEMMA QuietTyped ==
    ASSUME Typed,
           \/ \E r \in Roots : AckConfigure(r) \/ Minimize(r)
           \/ \E s \in Subs : SetSync(s)
           \/ FrameDeferred \/ SyncEvent
    PROVE  Typed'
<1>1. ASSUME NEW r \in Roots, AckConfigure(r) PROVE Typed'
  <2>1. xdg' \in [Roots -> [sent : BOOLEAN, acked : BOOLEAN, mapped : BOOLEAN]]
    BY <1>1 DEF Typed, AckConfigure
  <2>2. QED
    BY <1>1, <2>1 DEF Typed, AckConfigure, loop, points
<1>2. ASSUME NEW r \in Roots, Minimize(r) PROVE Typed'
  BY <1>2 DEF Typed, Minimize, points
<1>3. ASSUME NEW s \in Subs, SetSync(s) PROVE Typed'
  BY <1>3 DEF Typed, SetSync, loop, points
<1>4. ASSUME FrameDeferred PROVE Typed'
  BY <1>4 DEF Typed, FrameDeferred, points
<1>5. ASSUME SyncEvent PROVE Typed'
  BY <1>5 DEF Typed, SyncEvent
<1>6. QED
  BY <1>1, <1>2, <1>3, <1>4, <1>5

LEMMA HandledTyped ==
    ASSUME Typed, NEW s \in Surfaces, Handled(s)
    PROVE  xdg' \in [Roots -> [sent : BOOLEAN, acked : BOOLEAN, mapped : BOOLEAN]]
<1> DEFINE X == [sent : BOOLEAN, acked : BOOLEAN, mapped : BOOLEAN]
<1>1. xdg \in [Roots -> X]
  BY DEF Typed
<1>2. ASSUME s \in Roots PROVE HandleCommit(s) \in X
  <2> DEFINE content == Content(surf'[s].attach)
  <2>1. xdg[s] \in X
    BY <1>1, <1>2
  <2>2. content \in BOOLEAN
    <3>1. (surf'[s].attach \in {"dmabuf", "shm", "pixel"}) \in BOOLEAN
      OBVIOUS
    <3>2. QED
      BY <3>1, Zenon DEF Content
  <2>3. HandleCommit(s) =
          IF ~xdg[s].sent THEN [xdg[s] EXCEPT !.sent = TRUE]
          ELSE IF xdg[s].mapped /\ ~content THEN [sent |-> FALSE, acked |-> FALSE, mapped |-> FALSE]
          ELSE [xdg[s] EXCEPT !.mapped = content]
    BY Zenon DEF HandleCommit
  <2> HIDE DEF content
  <2>4. [xdg[s] EXCEPT !.sent = TRUE] \in X /\ [xdg[s] EXCEPT !.mapped = content] \in X
        /\ [sent |-> FALSE, acked |-> FALSE, mapped |-> FALSE] \in X
    BY <2>1, <2>2
  <2> HIDE DEF X
  <2>5. QED
    BY <2>3, <2>4, Zenon
<1>3. CASE s \in Roots
  BY <1>1, <1>2, <1>3 DEF Handled
<1>4. CASE s \notin Roots
  BY <1>1, <1>4 DEF Handled
<1>5. QED
  BY <1>3, <1>4

LEMMA CommitsTyped ==
    ASSUME Typed, NEW s \in Surfaces, NEW a,
           CommitCached(s, a) \/ CommitParked(s, a) \/ CommitApplied(s, a)
    PROVE  Typed'
<1> DEFINE u == Committed(s, a)
<1>1. Commits(s, a)
  BY DEF CommitCached, CommitParked, CommitApplied
<1>2. UNCHANGED <<sync, subs, alive, minimized, settle, frame, drain, wakeup, fired, lost>>
      /\ needsFrame' = TRUE /\ a \in Updates[s]
  BY <1>1 DEF Commits
<1>3. /\ u \in Update /\ AtOnce(s, a) \in SUBSET Names
      /\ last' \in [Surfaces -> Nat] /\ given' \in SUBSET Names
      /\ unready' \in SUBSET Names /\ unready \subseteq unready'
  BY <1>1, CommitFacts
<1> HIDE DEF u
<1>4. {a.set, a.wait, a.timed, a.late} \subseteq BOOLEAN
  BY <1>2, UpdatesAssumption
<1>5. /\ surf \in [Surfaces -> Surface] /\ cache \in [Surfaces -> Update] /\ cache[s] \in Update
      /\ queue \in [Surfaces -> Seq(Entry)] /\ barrier \in [Surfaces -> BOOLEAN]
      /\ armed \subseteq unready
  BY DEF Typed
<1>6. [barrier EXCEPT ![s] = @ \/ a.set] \in [Surfaces -> BOOLEAN]
  BY <1>5
<1>7. ASSUME CommitCached(s, a) PROVE Typed'
  <2>1. /\ cache' = [cache EXCEPT ![s] = Merge(cache[s], u)]
        /\ Become(surf, Superseded(s, cache[s], u) \cup AtOnce(s, a))
        /\ barrier' = [barrier EXCEPT ![s] = @ \/ a.set]
        /\ UNCHANGED <<queue, xdg, armed>>
    BY <1>7 DEF CommitCached, u
  <2>2. Merge(cache[s], u) \in Update
    <3>1. /\ cache[s].from \in Nat /\ cache[s].attach \in Attaches /\ cache[s].frames \in Seq(Nat)
          /\ u.n \in Nat /\ u.from \in Nat /\ u.attach \in Attaches /\ u.frames \in Seq(Nat)
      BY <1>3, <1>5 DEF Update
    <3>2. cache[s].frames \o u.frames \in Seq(Nat)
      BY <3>1
    <3>3. QED
      BY <3>1, <3>2 DEF Merge, Update
  <2>3. Superseded(s, cache[s], u) \in SUBSET Names
    BY <1>5 DEF Superseded, Names, Update
  <2>4. surf' \in [Surfaces -> Surface] /\ returned' \in SUBSET Names
    <3>1. Superseded(s, cache[s], u) \cup AtOnce(s, a) \in SUBSET Names
      BY <1>3, <2>3
    <3>2. QED
      BY <1>5, <2>1, <3>1, BecomeTyped
  <2>5. cache' \in [Surfaces -> Update]
    BY <1>5, <2>1, <2>2
  <2>6. armed' \in SUBSET unready' /\ barrier' \in [Surfaces -> BOOLEAN]
    BY <1>3, <1>5, <1>6, <2>1
  <2>7. QED
    BY <1>2, <1>3, <2>1, <2>4, <2>5, <2>6 DEF Typed
<1>8. ASSUME CommitParked(s, a) PROVE Typed'
  <2> DEFINE e == [u |-> u, set |-> a.set, wait |-> a.wait, timed |-> a.timed]
  <2>1. /\ queue' = [queue EXCEPT ![s] = Append(queue[s], e)]
        /\ Become(surf, AtOnce(s, a))
        /\ armed' = armed \cup (unready' \ unready)
        /\ UNCHANGED <<cache, barrier, xdg>>
    BY <1>8 DEF CommitParked, u
  <2>2. e \in Entry
    BY <1>3, <1>4 DEF Entry
  <2> HIDE DEF e
  <2>3. Append(queue[s], e) \in Seq(Entry)
    BY <1>5, <2>2
  <2>4. surf' \in [Surfaces -> Surface] /\ returned' \in SUBSET Names
    BY <1>3, <1>5, <2>1, BecomeTyped
  <2>5. queue' \in [Surfaces -> Seq(Entry)]
    BY <1>5, <2>1, <2>3
  <2>6. armed' \in SUBSET unready'
    BY <1>3, <1>5, <2>1
  <2>7. QED
    BY <1>2, <1>3, <2>1, <2>4, <2>5, <2>6 DEF Typed
<1>9. ASSUME CommitApplied(s, a) PROVE Typed'
  <2>1. /\ ApplyAll(s, u, SyncTree(s), AtOnce(s, a)) /\ Handled(s)
        /\ barrier' = [barrier EXCEPT ![s] = @ \/ a.set]
        /\ UNCHANGED <<queue, armed>>
    BY <1>9 DEF CommitApplied, u
  <2>2. /\ surf' \in [Surfaces -> Surface] /\ cache' \in [Surfaces -> Update]
        /\ returned' \in SUBSET Names
    BY <1>3, <2>1, ApplyAllTyped
  <2>3. xdg' \in [Roots -> [sent : BOOLEAN, acked : BOOLEAN, mapped : BOOLEAN]]
    BY <2>1, HandledTyped
  <2>4. armed' \in SUBSET unready' /\ barrier' \in [Surfaces -> BOOLEAN]
    BY <1>3, <1>5, <1>6, <2>1
  <2>5. QED
    BY <1>2, <1>3, <2>1, <2>2, <2>3, <2>4 DEF Typed
<1>10. QED
  BY <1>7, <1>8, <1>9

LEMMA SetDesyncTyped ==
    ASSUME Typed, NEW s \in Subs, SetDesync(s)
    PROVE  Typed'
<1>1. /\ sync' = [sync EXCEPT ![s] = FALSE]
      /\ UNCHANGED <<last, queue, barrier, subs, alive, xdg, minimized,
                     settle, frame, drain, unready, armed, wakeup, given, fired, lost>>
      /\ needsFrame' \in BOOLEAN
  BY DEF SetDesync, points, Typed
<1>2. sync' \in [Surfaces -> BOOLEAN]
  BY <1>1 DEF Typed
<1>3. CASE UNCHANGED <<surf, cache, returned>>
  BY <1>1, <1>2, <1>3 DEF Typed
<1>4. CASE ApplyAll(s, cache[s], SyncTree(s) \cup {s}, {})
  <2>1. cache[s] \in Update /\ s \in Surfaces /\ {} \in SUBSET Names
    BY DEF Typed, Subs
  <2>2. /\ surf' \in [Surfaces -> Surface] /\ cache' \in [Surfaces -> Update]
        /\ returned' \in SUBSET Names
    BY <1>4, <2>1, ApplyAllTyped
  <2>3. QED
    BY <1>1, <1>2, <2>2 DEF Typed
<1>5. QED
  BY <1>3, <1>4 DEF SetDesync

LEMMA DestroySurfaceTyped ==
    ASSUME Typed, NEW s \in Surfaces, DestroySurface(s)
    PROVE  Typed'
<1> DEFINE entries == {e.u : e \in Listed(queue[s])}
           sf == [surf EXCEPT ![s].attach = "null", ![s].held = FALSE, ![s].owed = {}]
           f == [surf[s] EXCEPT !.attach = "null", !.held = FALSE, !.owed = {}]
           more == {<<s, u.from>> : u \in {u \in entries : Kept(u.attach)}}
           gone == UNION {Listed(u.frames) : u \in entries}
<1>1. /\ alive' = alive \ {s} /\ Become(sf, more)
      /\ lost' = lost \cup Of(s, surf[s].owed) \cup Of(s, gone)
      /\ queue' = [queue EXCEPT ![s] = <<>>] /\ barrier' = [barrier EXCEPT ![s] = FALSE]
      /\ needsFrame' = TRUE
      /\ UNCHANGED <<last, cache, sync, subs, xdg, minimized, settle, frame, drain,
                     unready, armed, wakeup, given, fired>>
  BY DEF DestroySurface, points
<1>2. /\ surf \in [Surfaces -> Surface] /\ queue \in [Surfaces -> Seq(Entry)]
      /\ surf[s] \in Surface /\ queue[s] \in Seq(Entry)
  BY DEF Typed
<1>3. f \in Surface
  BY <1>2 DEF Surface, Attaches
<1>4. sf = [surf EXCEPT ![s] = f]
  BY <1>2
<1> HIDE DEF f
<1>5. sf \in [Surfaces -> Surface]
  BY <1>2, <1>3, <1>4
<1> HIDE DEF sf
<1>6. \A i \in DOMAIN queue[s] : queue[s][i] \in Entry
  BY <1>2
<1>7. \A i \in DOMAIN queue[s] : queue[s][i].u \in Update
  BY <1>6 DEF Entry
<1>8. entries \in SUBSET Update
  BY <1>7 DEF Listed
<1> HIDE DEF entries
<1>9. \A u \in entries : u.from \in Nat /\ u.frames \in Seq(Nat)
  BY <1>8 DEF Update
<1>10. more \in SUBSET Names /\ gone \in SUBSET Nat
  BY <1>9 DEF Names, Listed
<1> HIDE DEF more, gone
<1>11. surf' \in [Surfaces -> Surface] /\ returned' \in SUBSET Names
  BY <1>1, <1>5, <1>10, BecomeTyped
<1>12. lost' \in SUBSET Names
  <2>1. surf[s].owed \in SUBSET Nat
    BY <1>2 DEF Surface
  <2>2. Of(s, surf[s].owed) \in SUBSET Names /\ Of(s, gone) \in SUBSET Names
    BY <1>10, <2>1 DEF Of, Names
  <2>3. QED
    BY <1>1, <2>2 DEF Typed
<1>13. queue' \in [Surfaces -> Seq(Entry)]
  <2>1. <<>> \in Seq(Entry)
    OBVIOUS
  <2>2. QED
    BY <1>1, <1>2, <2>1
<1>14. QED
  BY <1>1, <1>11, <1>12, <1>13 DEF Typed

LEMMA DestroySubsurfaceTyped ==
    ASSUME Typed, NEW s \in Subs, DestroySubsurface(s)
    PROVE  Typed'
<1> DEFINE more == IF Kept(cache[s].attach) THEN {<<s, cache[s].from>>} ELSE {}
<1>1. /\ subs' = subs \ {s} /\ lost' = lost \cup Of(s, Walked(s)) /\ Become(surf, more)
      /\ cache' = [cache EXCEPT ![s] = NoUpdate]
      /\ UNCHANGED <<last, queue, barrier, sync, alive, xdg, minimized, needsFrame, settle,
                     frame, drain, unready, armed, wakeup, given, fired>>
  BY DEF DestroySubsurface, points, loop
<1>2. /\ surf \in [Surfaces -> Surface] /\ cache \in [Surfaces -> Update] /\ s \in Surfaces
      /\ cache[s] \in Update
  BY DEF Typed, Subs
<1>3. cache[s].from \in Nat /\ cache[s].frames \in Seq(Nat)
  BY <1>2 DEF Update
<1>4. more \in SUBSET Names
  BY <1>2, <1>3 DEF Names
<1> HIDE DEF more
<1>5. Walked(s) \subseteq Listed(cache[s].frames)
  BY <1>2, WalkedAll
<1>6. lost' \in SUBSET Names
  <2>1. Walked(s) \in SUBSET Nat
    BY <1>3, <1>5 DEF Listed
  <2>2. Of(s, Walked(s)) \in SUBSET Names
    BY <1>2, <2>1 DEF Of, Names
  <2>3. QED
    BY <1>1, <2>2 DEF Typed
<1>7. surf' \in [Surfaces -> Surface] /\ returned' \in SUBSET Names
  BY <1>1, <1>2, <1>4, BecomeTyped
<1>8. NoUpdate \in Update
  BY NoUpdateFits
<1>9. cache' \in [Surfaces -> Update]
  BY <1>1, <1>2, <1>8
<1>10. QED
  BY <1>1, <1>6, <1>7, <1>9 DEF Typed

LEMMA RenderFrameTyped ==
    ASSUME Typed, RenderFrame
    PROVE  Typed'
<1>1. /\ needsFrame' = FALSE /\ settle' = Settled /\ (needsFrame \/ settle > 0)
      /\ frame' = [flip |-> TRUE, fence |-> TRUE,
                   held |-> {<<s, surf[s].from>> : s \in Copied \cup Sampled}]
      /\ surf' = [s \in Surfaces |-> IF s \in Copied THEN [surf[s] EXCEPT !.held = FALSE] ELSE surf[s]]
      /\ UNCHANGED <<last, queue, cache, barrier, sync, subs, alive, xdg, minimized,
                     drain, unready, armed, wakeup, given, returned, fired, lost>>
  BY DEF RenderFrame, points, Wants
<1>2. settle' \in 0 .. (SettleFrames - 1)
  BY <1>1, BoundsAssumption DEF Settled, Typed
<1>3. \A s \in Surfaces : surf[s] \in Surface
  BY DEF Typed
<1>4. surf' \in [Surfaces -> Surface]
  <2>1. \A s \in Surfaces : [surf[s] EXCEPT !.held = FALSE] \in Surface
    BY <1>3 DEF Surface
  <2>2. QED
    BY <1>1, <1>3, <2>1
<1>5. {<<s, surf[s].from>> : s \in Copied \cup Sampled} \in SUBSET Names
  <2>1. Copied \cup Sampled \subseteq Surfaces
    BY DEF Typed, Copied, Sampled
  <2>2. \A s \in Surfaces : surf[s].from \in Nat
    BY <1>3 DEF Surface
  <2>3. QED
    BY <2>1, <2>2 DEF Names
<1>6. frame' \in [flip : BOOLEAN, fence : BOOLEAN, held : SUBSET Names] /\ frame.fence' = TRUE
  BY <1>1, <1>5
<1>7. QED
  BY <1>1, <1>2, <1>4, <1>6 DEF Typed

LEMMA FrameEndsTyped ==
    ASSUME Typed, FenceRetires \/ FlipDone
    PROVE  Typed'
<1>1. ASSUME FenceRetires PROVE Typed'
  <2>1. /\ frame' = [frame EXCEPT !.fence = FALSE, !.held = {}]
        /\ returned' = returned \cup (frame.held \ Held(surf))
        /\ UNCHANGED <<last, surf, queue, cache, barrier, sync, subs, alive, xdg, minimized,
                       needsFrame, settle, drain, unready, armed, wakeup, given, fired, lost>>
    BY <1>1 DEF FenceRetires, points
  <2>2. frame' \in [flip : BOOLEAN, fence : BOOLEAN, held : SUBSET Names] /\ frame.held' = {}
    BY <2>1 DEF Typed
  <2>3. returned' \in SUBSET Names
    BY <2>1 DEF Typed
  <2>4. QED
    BY <2>1, <2>2, <2>3 DEF Typed
<1>2. ASSUME FlipDone PROVE Typed'
  <2>1. /\ frame' = [frame EXCEPT !.flip = FALSE] /\ drain' = [drain EXCEPT !.left = alive]
        /\ fired' = fired \cup UNION {Of(s, surf[s].owed) : s \in {s \in Surfaces : Presented(s)}}
        /\ surf' = [s \in Surfaces |-> IF Presented(s) THEN [surf[s] EXCEPT !.owed = {}] ELSE surf[s]]
        /\ UNCHANGED <<last, queue, cache, barrier, sync, subs, alive, xdg, minimized,
                       needsFrame, settle, unready, armed, wakeup, given, returned, lost>>
    BY <1>2 DEF FlipDone, points
  <2>2. \A s \in Surfaces : surf[s] \in Surface
    BY DEF Typed
  <2>3. surf' \in [Surfaces -> Surface]
    <3>1. \A s \in Surfaces : [surf[s] EXCEPT !.owed = {}] \in Surface
      BY <2>2 DEF Surface
    <3>2. QED
      BY <2>1, <2>2, <3>1
  <2>4. fired' \in SUBSET Names
    <3>1. \A s \in Surfaces : surf[s].owed \in SUBSET Nat
      BY <2>2 DEF Surface
    <3>2. \A s \in Surfaces : Of(s, surf[s].owed) \in SUBSET Names
      BY <3>1 DEF Of, Names
    <3>3. QED
      BY <2>1, <3>2 DEF Typed
  <2>5. /\ frame' \in [flip : BOOLEAN, fence : BOOLEAN, held : SUBSET Names]
        /\ frame.held' = frame.held /\ frame.fence' = frame.fence
    BY <2>1 DEF Typed
  <2>6. drain' \in [left : SUBSET Surfaces, busy : BOOLEAN, presented : BOOLEAN]
    BY <2>1 DEF Typed
  <2>7. QED
    BY <2>1, <2>3, <2>4, <2>5, <2>6 DEF Typed
<1>3. QED
  BY <1>1, <1>2

LEMMA DrainTyped ==
    ASSUME Typed, Drain
    PROVE  Typed'
<1>1. ~Idle
  BY DEF Drain, BeginDrain, Admit, EndDrain
<1>2. PICK s \in Surfaces : s = Draining
  BY <1>1, DrainingIsLeft
<1>3. /\ barrier \in [Surfaces -> BOOLEAN] /\ queue \in [Surfaces -> Seq(Entry)]
      /\ drain \in [left : SUBSET Surfaces, busy : BOOLEAN, presented : BOOLEAN]
      /\ queue[s] \in Seq(Entry)
  BY DEF Typed
<1>4. ASSUME BeginDrain PROVE Typed'
  <2> DEFINE p == Shown(s)
  <2>1. p \in BOOLEAN
    BY DEF Shown
  <2>2. /\ drain' = [drain EXCEPT !.busy = TRUE, !.presented = p]
        /\ barrier' = [barrier EXCEPT ![s] = @ /\ ~p]
        /\ UNCHANGED <<last, surf, queue, cache, sync, subs, alive, xdg, minimized,
                       needsFrame, settle, frame, unready, armed, wakeup, given, returned,
                       fired, lost>>
    BY <1>2, <1>4 DEF BeginDrain, points
  <2> HIDE DEF p
  <2>3. drain' \in [left : SUBSET Surfaces, busy : BOOLEAN, presented : BOOLEAN]
    BY <1>3, <2>1, <2>2
  <2>4. barrier' \in [Surfaces -> BOOLEAN]
    BY <1>3, <2>2
  <2>5. QED
    BY <2>2, <2>3, <2>4 DEF Typed
<1>5. ASSUME Admit PROVE Typed'
  <2>1. /\ queue[s] # <<>> /\ ApplyAll(s, Head(queue[s]).u, SyncTree(s), {}) /\ Handled(s)
        /\ barrier' = [barrier EXCEPT ![s] = @ \/ Head(queue[s]).set]
        /\ queue' = [queue EXCEPT ![s] = Tail(queue[s])]
    BY <1>2, <1>5, Zenon DEF Admit, MayAdmit
  <2>2. /\ needsFrame' = TRUE
        /\ UNCHANGED <<last, sync, subs, alive, minimized, settle, frame, drain,
                       unready, armed, wakeup, given, fired, lost>>
    BY <1>5 DEF Admit, points
  <2>3. Head(queue[s]) \in Entry /\ Tail(queue[s]) \in Seq(Entry)
    BY <1>3, <2>1
  <2>4. Head(queue[s]).u \in Update /\ {} \in SUBSET Names
    BY <2>3 DEF Entry
  <2>5. /\ surf' \in [Surfaces -> Surface] /\ cache' \in [Surfaces -> Update]
        /\ returned' \in SUBSET Names
    BY <2>1, <2>4, ApplyAllTyped
  <2>6. xdg' \in [Roots -> [sent : BOOLEAN, acked : BOOLEAN, mapped : BOOLEAN]]
    BY <2>1, HandledTyped
  <2>7. queue' \in [Surfaces -> Seq(Entry)]
    BY <1>3, <2>1, <2>3
  <2>8. barrier' \in [Surfaces -> BOOLEAN]
    BY <1>3, <2>1
  <2>9. QED
    BY <2>2, <2>5, <2>6, <2>7, <2>8 DEF Typed
<1>6. ASSUME EndDrain PROVE Typed'
  <2>1. /\ drain' = [left |-> drain.left \ {s}, busy |-> FALSE, presented |-> FALSE]
        /\ UNCHANGED <<last, surf, queue, cache, barrier, sync, subs, alive, xdg, minimized,
                       settle, frame, unready, armed, wakeup, given, returned, fired, lost>>
    BY <1>2, <1>6 DEF EndDrain, points
  <2>2. needsFrame' \in BOOLEAN
    <3>1. needsFrame' = (needsFrame \/ NeedsFrameFor(s))
      BY <1>2, <1>6, Zenon DEF EndDrain
    <3>2. QED
      BY <3>1
  <2>3. drain' \in [left : SUBSET Surfaces, busy : BOOLEAN, presented : BOOLEAN]
    BY <1>3, <2>1
  <2>4. QED
    BY <2>1, <2>2, <2>3 DEF Typed
<1>7. QED
  BY <1>4, <1>5, <1>6 DEF Drain

LEMMA TimeAndGpuTyped ==
    ASSUME Typed,
           \/ \E s \in Surfaces : \E i \in DOMAIN queue[s] : TimePasses(s, i)
           \/ \E b \in unready : Materialize(b)
    PROVE  Typed'
<1>1. ASSUME NEW s \in Surfaces, NEW i \in DOMAIN queue[s], TimePasses(s, i) PROVE Typed'
  <2>1. UNCHANGED <<last, surf, cache, barrier, sync, subs, alive, xdg, minimized, needsFrame,
                    settle, frame, drain, unready, armed, wakeup, given, returned, fired, lost>>
    BY <1>1 DEF TimePasses, points, loop
  <2>2. queue \in [Surfaces -> Seq(Entry)] /\ queue[s] \in Seq(Entry)
    BY DEF Typed
  <2> DEFINE q == [queue[s] EXCEPT ![i].timed = FALSE]
             e == [queue[s][i] EXCEPT !.timed = FALSE]
  <2>3. queue' = [queue EXCEPT ![s] = q]
    BY <1>1 DEF TimePasses
  <2>4. queue[s][i] \in Entry
    BY <1>1, <2>2
  <2>5. e \in Entry
    BY <2>4 DEF Entry
  <2>6. q = [queue[s] EXCEPT ![i] = e]
    BY <2>2
  <2> HIDE DEF q, e
  <2>7. q \in Seq(Entry)
    BY <1>1, <2>2, <2>5, <2>6
  <2>8. queue' \in [Surfaces -> Seq(Entry)]
    BY <2>2, <2>3, <2>7
  <2>9. QED
    BY <2>1, <2>8 DEF Typed
<1>2. ASSUME NEW b \in unready, Materialize(b) PROVE Typed'
  BY <1>2 DEF Typed, Materialize, loop
<1>3. QED
  BY <1>1, <1>2

LEMMA NextTyped ==
    ASSUME Typed, [SCNext]_vars
    PROVE  Typed'
<1>1. CASE UNCHANGED vars
  BY <1>1 DEF Typed, vars, loop, points
<1>2. ASSUME NEW s \in Surfaces, Commit(s) \/ DestroySurface(s) PROVE Typed'
  BY <1>2, CommitsTyped, DestroySurfaceTyped, Zenon DEF Commit
<1>3. ASSUME NEW s \in Subs, SetSync(s) \/ SetDesync(s) \/ DestroySubsurface(s) PROVE Typed'
  BY <1>3, QuietTyped, SetDesyncTyped, DestroySubsurfaceTyped, Zenon
<1>4. ASSUME NEW r \in Roots, AckConfigure(r) \/ Minimize(r) PROVE Typed'
  BY <1>4, QuietTyped, Zenon
<1>5. QED
  BY <1>1, <1>2, <1>3, <1>4, QuietTyped, RenderFrameTyped, FrameEndsTyped, DrainTyped,
     TimeAndGpuTyped, Zenon DEF SCNext

LEMMA NextLocal ==
    ASSUME Typed, [SCNext]_vars, NEW d \in Surfaces
    PROVE  LocalStep(d, Local(d), Local(d)')
<1>0. Typed'
  BY NextTyped
<1>1. ASSUME Local(d)' = Local(d) PROVE LocalStep(d, Local(d), Local(d)')
  BY <1>1 DEF LocalStep
<1>2. CASE UNCHANGED vars
  <2>1. Local(d)' = Local(d)
    BY <1>2, LocalSame DEF vars, loop, points
  <2>2. QED
    BY <1>1, <2>1
<1>3. ASSUME NEW s \in Surfaces, Commit(s) \/ DestroySurface(s)
      PROVE  LocalStep(d, Local(d), Local(d)')
  BY <1>0, <1>3, CommitCachedLocal, CommitParkedLocal, CommitAppliedLocal,
     DestroySurfaceLocal, Zenon DEF Commit
<1>4. ASSUME NEW s \in Subs, SetSync(s) PROVE LocalStep(d, Local(d), Local(d)')
  <2>1. Local(d)' = Local(d)
    BY <1>4, LocalSame DEF SetSync, loop, points
  <2>2. QED
    BY <1>1, <2>1
<1>5. ASSUME NEW s \in Subs, SetDesync(s) \/ DestroySubsurface(s)
      PROVE  LocalStep(d, Local(d), Local(d)')
  BY <1>0, <1>5, SetDesyncLocal, DestroySubsurfaceLocal, Zenon
<1>6. ASSUME NEW r \in Roots, AckConfigure(r) \/ Minimize(r)
      PROVE  LocalStep(d, Local(d), Local(d)')
  <2>1. Local(d)' = Local(d)
    BY <1>6, LocalSame DEF AckConfigure, Minimize, loop, points
  <2>2. QED
    BY <1>1, <2>1
<1>7. ASSUME FrameDeferred \/ BeginDrain \/ EndDrain \/ SyncEvent
      PROVE  LocalStep(d, Local(d), Local(d)')
  <2>1. Local(d)' = Local(d)
    BY <1>7, LocalSame DEF FrameDeferred, BeginDrain, EndDrain, SyncEvent, points
  <2>2. QED
    BY <1>1, <2>1
<1>8. ASSUME Admit PROVE LocalStep(d, Local(d), Local(d)')
  <2>1. Draining \in Surfaces
    BY <1>8, DrainingIsLeft DEF Admit
  <2>2. QED
    BY <1>0, <1>8, <2>1, AdmitLocal
<1>9. ASSUME RenderFrame \/ FenceRetires \/ FlipDone PROVE LocalStep(d, Local(d), Local(d)')
  BY <1>0, <1>9, RenderFrameLocal, FenceRetiresLocal, FlipDoneLocal
<1>10. ASSUME NEW s \in Surfaces, NEW i \in DOMAIN queue[s], TimePasses(s, i)
       PROVE  LocalStep(d, Local(d), Local(d)')
  BY <1>0, <1>10, TimePassesLocal
<1>11. ASSUME NEW b \in unready, Materialize(b) PROVE LocalStep(d, Local(d), Local(d)')
  BY <1>0, <1>11, MaterializeLocal
<1>12. CASE SCNext
  BY <1>3, <1>4, <1>5, <1>6, <1>7, <1>8, <1>9, <1>10, <1>11, <1>12, Zenon DEF SCNext, Drain
<1>13. QED
  BY <1>2, <1>12
-----------------------------------------------------------------------------
(* The local invariant *)

LEMMA InitSound ==
    ASSUME SCInit
    PROVE  Typed /\ \A d \in Surfaces : Sound(Local(d)) /\ Accounted(Local(d))
<1> DEFINE f == [n |-> 0, from |-> 0, attach |-> "null", held |-> FALSE, owed |-> {}]
<1>1. f \in Surface
  BY DEF Surface, Attaches
<1>2. NoUpdate \in Update
  BY NoUpdateFits
<1>3. <<>> \in Seq(Entry)
  OBVIOUS
<1>4. Typed
  <2>1. last \in [Surfaces -> Nat] /\ surf \in [Surfaces -> Surface]
    BY <1>1 DEF SCInit
  <2>2. queue \in [Surfaces -> Seq(Entry)] /\ cache \in [Surfaces -> Update]
    BY <1>2, <1>3 DEF SCInit
  <2>3. barrier \in [Surfaces -> BOOLEAN]
    BY DEF SCInit
  <2>4. sync \in [Surfaces -> BOOLEAN]
    <3>1. \A s \in Surfaces : (s \in Subs) \in BOOLEAN
      OBVIOUS
    <3>2. QED
      BY <3>1 DEF SCInit
  <2>5. subs \in SUBSET Subs /\ alive \in SUBSET Surfaces /\ minimized \in SUBSET Roots
    BY DEF SCInit
  <2>6. xdg \in [Roots -> [sent : BOOLEAN, acked : BOOLEAN, mapped : BOOLEAN]]
    BY DEF SCInit
  <2>7. needsFrame \in BOOLEAN /\ settle \in 0 .. (SettleFrames - 1)
    <3>1. needsFrame \in BOOLEAN
      BY DEF SCInit
    <3>2. settle = 0
      BY DEF SCInit
    <3>3. SettleFrames \in Nat /\ SettleFrames # 0
      BY BoundsAssumption
    <3>4. QED
      BY <3>1, <3>2, <3>3
  <2>8. frame \in [flip : BOOLEAN, fence : BOOLEAN, held : SUBSET Names]
        /\ (frame.held # {} => frame.fence)
    BY DEF SCInit
  <2>9. drain \in [left : SUBSET Surfaces, busy : BOOLEAN, presented : BOOLEAN]
    BY DEF SCInit
  <2>10. /\ unready \in SUBSET Names /\ armed \in SUBSET unready /\ wakeup \in BOOLEAN
         /\ given \in SUBSET Names /\ returned \in SUBSET Names
         /\ fired \in SUBSET Names /\ lost \in SUBSET Names
    BY DEF SCInit
  <2>11. QED
    BY <2>1, <2>2, <2>3, <2>4, <2>5, <2>6, <2>7, <2>8, <2>9, <2>10 DEF Typed
<1>5. ASSUME NEW d \in Surfaces PROVE Sound(Local(d)) /\ Accounted(Local(d))
  <2> DEFINE z == Local(d)
  <2>1. z \in LocalSet
    BY <1>4, LocalTyped
  <2>2. /\ z.last = 0 /\ z.surf = f /\ z.queue = <<>> /\ z.cache = NoUpdate
        /\ z.given = {} /\ z.back = {} /\ z.gpu = {} /\ z.done = {} /\ z.lost = {} /\ z.late = {}
    BY DEF Local, SCInit, At
  <2> HIDE DEF z
  <2>3. /\ f.n = 0 /\ ~f.held /\ f.owed = {}
        /\ NoUpdate.frames = <<>>
    BY DEF NoUpdate
  <2> HIDE DEF f
  <2>4. /\ KeptBy(NoUpdate) = {} /\ Fits(NoUpdate, 0)
    BY NoUpdateFits
  <2>5. InOrder(<<>>, 0) /\ ParkedBuffers(<<>>) = {} /\ ParkedFrames(<<>>) = {}
    BY DEF InOrder, ParkedBuffers, ParkedFrames
  <2>6. Numbered(z)
    BY <2>2, <2>3, <2>4, <2>5 DEF Numbered
  <2>7. HeldBy(f) = {}
    BY <2>3 DEF HeldBy
  <2>8. Balanced(z)
    BY <2>2, <2>4, <2>5, <2>7 DEF Balanced, Split4
  <2>9. Listed(NoUpdate.frames) = {}
    BY <2>3 DEF Listed
  <2>10. Accounted(z)
    BY <2>2, <2>3, <2>5, <2>9 DEF Accounted, Split4
  <2>11. QED
    BY <2>1, <2>6, <2>8, <2>10 DEF Sound, z
<1>6. QED
  BY <1>4, <1>5

LocallyKept == Typed /\ \A d \in Surfaces : Sound(Local(d))

(* Every surface's local state stays sound: types, the numbers of updates, *)
(* and the account of its buffers; the invariant the theorems rest on.     *)
THEOREM LocallySound == SCSpec => []LocallyKept
<1>1. SCInit => LocallyKept
  BY InitSound DEF LocallyKept
<1>2. LocallyKept /\ [SCNext]_vars => LocallyKept'
  <2> SUFFICES ASSUME LocallyKept, [SCNext]_vars PROVE LocallyKept'
    OBVIOUS
  <2>1. Typed /\ Typed'
    BY NextTyped DEF LocallyKept
  <2>2. ASSUME NEW d \in Surfaces PROVE Sound(Local(d)')
    <3>1. Sound(Local(d)) /\ LocalStep(d, Local(d), Local(d)')
      BY <2>1, NextLocal DEF LocallyKept
    <3>2. QED
      BY <3>1, LocalSound
  <2>3. \A d \in Surfaces : Sound(Local(d))'
    BY <2>2 DEF Sound, Numbered, Balanced
  <2>4. QED
    BY <2>1, <2>3 DEF LocallyKept
<1>3. QED
  BY <1>1, <1>2, PTL DEF SCSpec

(* Every variable keeps its type, a surface owes callbacks of commits made *)
(* and shows one of them, what a frame holds has a fence, and registered   *)
(* acquire points have not materialized: in every tree of surfaces.        *)
THEOREM Types == SCSpec => []TypeOK
<1>1. ASSUME LocallyKept PROVE TypeOK
  <2>1. Typed
    BY <1>1 DEF LocallyKept
  <2>2. ASSUME NEW s \in Surfaces PROVE surf[s].owed \subseteq 1 .. last[s] /\ surf[s].n <= last[s]
    <3>1. Numbered(Local(s))
      BY <1>1 DEF LocallyKept, Sound
    <3>2. Local(s).surf = surf[s] /\ Local(s).last = last[s]
      BY DEF Local
    <3>3. QED
      BY <3>1, <3>2 DEF Numbered
  <2>3. QED
    BY <2>1, <2>2 DEF TypeOK, Typed
<1>2. QED
  BY <1>1, LocallySound, PTL
-----------------------------------------------------------------------------
(* Places *)

LEMMA WaitingParts ==
    ASSUME NEW d, queue[d] \in Seq(Entry), cache[d] \in Update
    PROVE  /\ Waiting(d) \in Seq(Update)
           /\ Len(Waiting(d)) = Len(queue[d]) + (IF cache[d].n = 0 THEN 0 ELSE 1)
           /\ \A i \in 1 .. Len(queue[d]) : Waiting(d)[i] = queue[d][i].u
           /\ cache[d].n # 0 => Waiting(d)[Len(queue[d]) + 1] = cache[d]
<1> DEFINE q == queue[d]
           Q == [i \in DOMAIN q |-> q[i].u]
           C == IF cache[d].n = 0 THEN <<>> ELSE <<cache[d]>>
<1>1. \A i \in DOMAIN q : q[i].u \in Update
  <2>1. \A i \in DOMAIN q : q[i] \in Entry
    OBVIOUS
  <2>2. QED
    BY <2>1 DEF Entry
<1>2. Len(q) \in Nat /\ DOMAIN q = 1 .. Len(q)
  OBVIOUS
<1>3. Q \in Seq(Update) /\ Len(Q) = Len(q) /\ \A i \in 1 .. Len(q) : Q[i] = q[i].u
  BY <1>1, <1>2
<1>4. C \in Seq(Update) /\ Len(C) = IF cache[d].n = 0 THEN 0 ELSE 1
  OBVIOUS
<1>5. cache[d].n # 0 => C[1] = cache[d]
  OBVIOUS
<1>6. Waiting(d) = Q \o C
  BY DEF Waiting
<1> HIDE DEF Q, C
<1>7. /\ Q \o C \in Seq(Update) /\ Len(Q \o C) = Len(Q) + Len(C)
      /\ \A i \in 1 .. Len(Q) : (Q \o C)[i] = Q[i]
      /\ \A i \in 1 .. Len(C) : (Q \o C)[Len(Q) + i] = C[i]
  <2>1. Q \in Seq(Update) /\ C \in Seq(Update)
    BY <1>3, <1>4
  <2>2. QED
    BY <2>1
<1>8. cache[d].n # 0 => Waiting(d)[Len(q) + 1] = cache[d]
  BY <1>3, <1>4, <1>5, <1>6, <1>7
<1>9. \A i \in 1 .. Len(q) : Waiting(d)[i] = q[i].u
  BY <1>3, <1>6, <1>7
<1>10. QED
  BY <1>3, <1>4, <1>6, <1>7, <1>8, <1>9

\* The index of the only place.
LEMMA OnePlace ==
    ASSUME NEW b, NEW F, NEW k \in DOMAIN F, b \in F[k], \A i \in DOMAIN F : b \in F[i] => i = k
    PROVE  Cardinality({i \in DOMAIN F : b \in F[i]}) = 1
<1>1. {i \in DOMAIN F : b \in F[i]} = {k}
  OBVIOUS
<1>2. QED
  BY <1>1, FS_Singleton

\* What waits of a surface, seen through a set for each update.
LEMMA WaitingPlaces ==
    ASSUME NEW d, queue[d] \in Seq(Entry), cache[d] \in Update,
           NEW T, NEW W \in Seq(T), DOMAIN W = DOMAIN Waiting(d)
    PROVE  /\ DOMAIN W = 1 .. Len(W) /\ Len(queue[d]) \in Nat
           /\ Len(W) = Len(queue[d]) + (IF cache[d].n = 0 THEN 0 ELSE 1)
<1>1. Waiting(d) \in Seq(Update)
  BY WaitingParts
<1>2. Len(W) = Len(Waiting(d)) /\ DOMAIN W = 1 .. Len(W) /\ Len(queue[d]) \in Nat
  BY <1>1
<1>3. Len(Waiting(d)) = Len(queue[d]) + (IF cache[d].n = 0 THEN 0 ELSE 1)
  BY WaitingParts
<1>4. QED
  BY <1>2, <1>3

\* Different parked updates have different buffers and callbacks.
LEMMA ParkedOnce ==
    ASSUME NEW q \in Seq(Entry), NEW k, InOrder(q, k), NEW i \in DOMAIN q, NEW j \in DOMAIN q, NEW x,
           \/ x \in KeptBy(q[i].u) /\ x \in KeptBy(q[j].u)
           \/ x \in Listed(q[i].u.frames) /\ x \in Listed(q[j].u.frames)
    PROVE  i = j
<1>1. /\ Fits(q[i].u, k) /\ Single(q[i].u) /\ Fits(q[j].u, k) /\ Single(q[j].u)
  BY DEF InOrder
<1>2. /\ Listed(q[i].u.frames) = {q[i].u.n} /\ KeptBy(q[i].u) \subseteq {q[i].u.n}
      /\ Listed(q[j].u.frames) = {q[j].u.n} /\ KeptBy(q[j].u) \subseteq {q[j].u.n}
  BY <1>1, SingleNames
<1>3. x = q[i].u.n /\ x = q[j].u.n
  BY <1>2
<1>4. q[i].u.n \in Nat /\ i \in Nat /\ j \in Nat
  <2>1. q[i] \in Entry
    OBVIOUS
  <2>2. q[i].u \in Update
    BY <2>1 DEF Entry
  <2>3. QED
    BY <2>2 DEF Update
<1>5. ~(i < j) /\ ~(j < i)
  <2>1. (i < j => q[i].u.n < q[j].u.n) /\ (j < i => q[j].u.n < q[i].u.n)
    BY DEF InOrder
  <2>2. QED
    BY <1>3, <1>4, <2>1
<1>6. QED
  BY <1>4, <1>5

LEMMA BufferPlacesAre ==
    ASSUME Typed, NEW d \in Surfaces, NEW n \in Nat, NEW P, P = BufferPlaces(d),
           NEW L, L = Len(queue[d])
    PROVE  /\ L \in Nat /\ DOMAIN queue[d] = 1 .. L
           /\ DOMAIN P = 1 .. (2 + L + (IF cache[d].n = 0 THEN 0 ELSE 1))
           /\ <<d, n>> \in P[1] <=> n \in HeldBy(surf[d]) \cup At(frame.held, d)
           /\ <<d, n>> \in P[2] <=> n \in At(returned, d)
           /\ \A i \in 1 .. L : <<d, n>> \in P[2 + i] <=> n \in KeptBy(queue[d][i].u)
           /\ cache[d].n # 0 => (<<d, n>> \in P[3 + L] <=> n \in KeptBy(cache[d]))
<1> DEFINE Taken(u) == IF Kept(u.attach) THEN {<<d, u.from>>} ELSE {}
           W == [i \in DOMAIN Waiting(d) |-> Taken(Waiting(d)[i])]
           A == Held(surf) \cup frame.held
<1>1. /\ surf \in [Surfaces -> Surface] /\ queue[d] \in Seq(Entry) /\ cache[d] \in Update
      /\ frame.held \in SUBSET Names /\ returned \in SUBSET Names
  BY DEF Typed
<1>2. At(Held(surf), d) = HeldBy(surf[d]) /\ Held(surf) \in SUBSET Names
  BY <1>1, AtHeld
<1>3. /\ Waiting(d) \in Seq(Update)
      /\ \A i \in 1 .. Len(queue[d]) : Waiting(d)[i] = queue[d][i].u
      /\ cache[d].n # 0 => Waiting(d)[Len(queue[d]) + 1] = cache[d]
      /\ Len(Waiting(d)) = Len(queue[d]) + (IF cache[d].n = 0 THEN 0 ELSE 1)
  BY <1>1, WaitingParts
<1>4. P = <<A, returned>> \o W
  BY DEF BufferPlaces
<1>5. \A u \in Update : Taken(u) \in SUBSET Names
  BY DEF Names, Update
<1>6. L \in Nat /\ DOMAIN queue[d] = 1 .. L
  BY <1>1
<1>7. W \in Seq(SUBSET Names) /\ Len(W) = Len(Waiting(d))
      /\ \A i \in 1 .. Len(W) : W[i] = Taken(Waiting(d)[i])
  <2> DEFINE V == Waiting(d)
  <2>0. V \in Seq(Update)
    BY <1>3
  <2> HIDE DEF V, Taken
  <2>1. /\ DOMAIN V = 1 .. Len(V) /\ Len(V) \in Nat
        /\ \A i \in DOMAIN V : V[i] \in Update
    BY <2>0
  <2>2. \A i \in DOMAIN V : Taken(V[i]) \in SUBSET Names
    BY <1>5, <2>1
  <2>3. W = [i \in 1 .. Len(V) |-> Taken(V[i])]
    BY <2>1 DEF V
  <2>4. W \in Seq(SUBSET Names) /\ Len(W) = Len(V)
        /\ \A i \in 1 .. Len(W) : W[i] = Taken(V[i])
    BY <2>1, <2>2, <2>3
  <2>5. QED
    BY <2>4 DEF V
<1>8. A \in SUBSET Names
  BY <1>1, <1>2
<1> HIDE DEF W, A
<1>9. <<A, returned>> \in Seq(SUBSET Names)
  BY <1>1, <1>8
<1>10. /\ DOMAIN P = 1 .. (2 + Len(W)) /\ P[1] = A /\ P[2] = returned
       /\ \A i \in 1 .. Len(W) : P[2 + i] = W[i]
  BY <1>4, <1>7, <1>9
<1>11. /\ DOMAIN P = 1 .. (2 + L + (IF cache[d].n = 0 THEN 0 ELSE 1))
       /\ \A i \in 1 .. L : P[2 + i] = Taken(queue[d][i].u)
       /\ cache[d].n # 0 => P[3 + L] = Taken(cache[d])
  <2> DEFINE e == IF cache[d].n = 0 THEN 0 ELSE 1
  <2>4. e \in {0, 1} /\ Len(W) = L + e
    BY <1>3, <1>7
  <2> HIDE DEF e, Taken
  <2>5. 2 + (L + e) = 2 + L + e
    BY <1>6, <2>4
  <2>1. DOMAIN P = 1 .. (2 + L + (IF cache[d].n = 0 THEN 0 ELSE 1))
    BY <1>10, <2>4, <2>5 DEF e
  <2>2. ASSUME NEW i \in 1 .. L PROVE P[2 + i] = Taken(queue[d][i].u)
    <3>1. i \in 1 .. Len(W)
      BY <1>6, <2>2, <2>4
    <3>2. P[2 + i] = Taken(Waiting(d)[i])
      BY <1>7, <1>10, <3>1
    <3>3. Waiting(d)[i] = queue[d][i].u
      BY <1>3, <2>2
    <3>4. QED
      BY <3>2, <3>3
  <2>3. ASSUME cache[d].n # 0 PROVE P[3 + L] = Taken(cache[d])
    <3>1. L + 1 \in 1 .. Len(W) /\ 2 + (L + 1) = 3 + L
      BY <1>6, <2>3, <2>4 DEF e
    <3>2. P[2 + (L + 1)] = Taken(Waiting(d)[L + 1])
      BY <1>7, <1>10, <3>1
    <3>3. QED
      BY <1>3, <2>3, <3>1, <3>2
  <2>6. QED
    BY <2>1, <2>2, <2>3
<1>12. ASSUME NEW u PROVE <<d, n>> \in Taken(u) <=> n \in KeptBy(u)
  BY DEF KeptBy
<1> HIDE DEF Taken
<1>13. <<d, n>> \in A <=> n \in HeldBy(surf[d]) \cup At(frame.held, d)
  <2>1. n \in At(Held(surf), d) <=> <<d, n>> \in Held(surf)
    BY DEF At
  <2>2. n \in At(frame.held, d) <=> <<d, n>> \in frame.held
    BY DEF At
  <2>3. QED
    BY <1>2, <2>1, <2>2 DEF A
<1>14. <<d, n>> \in returned <=> n \in At(returned, d)
  BY DEF At
<1>15. <<d, n>> \in P[1] <=> n \in HeldBy(surf[d]) \cup At(frame.held, d)
  BY <1>10, <1>13
<1>16. <<d, n>> \in P[2] <=> n \in At(returned, d)
  BY <1>10, <1>14
<1>17. \A i \in 1 .. L : <<d, n>> \in P[2 + i] <=> n \in KeptBy(queue[d][i].u)
  BY <1>11, <1>12, Zenon
<1>18. cache[d].n # 0 => (<<d, n>> \in P[3 + L] <=> n \in KeptBy(cache[d]))
  BY <1>11, <1>12, Zenon
<1>19. QED
  BY <1>6, <1>11, <1>15, <1>16, <1>17, <1>18

(* A client gets every buffer it committed back exactly once: until it is  *)
(* given back, one waiting update has it, or the surface and the frame in  *)
(* flight together.  Whatever is attached, merged, parked, applied and     *)
(* destroyed, and whenever fences retire.                                  *)
THEOREM BuffersAreAccounted == SCSpec => []BuffersAccounted
<1>1. ASSUME LocallyKept, NEW b \in given
      PROVE  Cardinality({i \in DOMAIN BufferPlaces(b[1]) : b \in BufferPlaces(b[1])[i]}) = 1
  <2>1. Typed
    BY <1>1 DEF LocallyKept
  <2>2. PICK d \in Surfaces, n \in Nat : b = <<d, n>>
    BY <1>1, <2>1 DEF Typed, Names
  <2> DEFINE P == BufferPlaces(d)
             L == Len(queue[d])
             q == queue[d]
             c == cache[d]
             z == Local(d)
  <2>3. /\ L \in Nat /\ DOMAIN q = 1 .. L
        /\ DOMAIN P = 1 .. (2 + L + (IF c.n = 0 THEN 0 ELSE 1))
        /\ <<d, n>> \in P[1] <=> n \in HeldBy(surf[d]) \cup At(frame.held, d)
        /\ <<d, n>> \in P[2] <=> n \in At(returned, d)
        /\ \A i \in 1 .. L : <<d, n>> \in P[2 + i] <=> n \in KeptBy(q[i].u)
        /\ c.n # 0 => (<<d, n>> \in P[3 + L] <=> n \in KeptBy(c))
    BY <2>1, BufferPlacesAre
  <2>4. Numbered(z) /\ Balanced(z)
    BY <1>1 DEF LocallyKept, Sound
  <2>5. /\ z.last = last[d] /\ z.surf = surf[d] /\ z.queue = q /\ z.cache = c
        /\ z.given = At(given, d) /\ z.back = At(returned, d) /\ z.gpu = At(frame.held, d)
    BY DEF Local
  <2>6. q \in Seq(Entry) /\ InOrder(q, last[d]) /\ (c.n = 0 => c = NoUpdate)
    BY <2>1, <2>4, <2>5 DEF Typed, Numbered
  <2> DEFINE H == HeldBy(surf[d]) \cup At(frame.held, d)
             R == At(returned, d)
             B == ParkedBuffers(q)
             K == KeptBy(c)
  <2>7. Split4(At(given, d), H, R, B, K)
    BY <2>4, <2>5, Zenon DEF Balanced
  <2>8. n \in At(given, d)
    BY <1>1, <2>2 DEF At
  <2>9. c.n = 0 => K = {}
    BY <2>6, NoUpdateFits
  <2>10. \A i \in 1 .. L : n \in KeptBy(q[i].u) => n \in B
    BY <2>3 DEF ParkedBuffers
  <2>11. n \in B => \E i \in 1 .. L : n \in KeptBy(q[i].u)
    BY <2>3 DEF ParkedBuffers
  <2>12. \A i, j \in 1 .. L : n \in KeptBy(q[i].u) /\ n \in KeptBy(q[j].u) => i = j
    BY <2>3, <2>6, ParkedOnce
  <2> HIDE DEF P, L, q, c, z, H, R, B, K
  <2>13. \E k \in DOMAIN P : b \in P[k] /\ \A i \in DOMAIN P : b \in P[i] => i = k
    <3>1. n \in H \/ n \in R \/ n \in B \/ n \in K
      BY <2>7, <2>8 DEF Split4
    <3>2. \A i \in DOMAIN P : i = 1 \/ i = 2 \/ (i - 2 \in 1 .. L /\ i = 2 + (i - 2)) \/ (c.n # 0 /\ i = 3 + L)
      BY <2>3
    <3>3. ASSUME NEW i \in DOMAIN P, b \in P[i]
          PROVE  \/ i = 1 /\ n \in H
                 \/ i = 2 /\ n \in R
                 \/ i - 2 \in 1 .. L /\ i = 2 + (i - 2) /\ n \in KeptBy(q[i - 2].u) /\ n \in B
                 \/ i = 3 + L /\ n \in K
      <4>1. CASE i = 1
        BY <2>2, <2>3, <3>3, <4>1 DEF H
      <4>2. CASE i = 2
        BY <2>2, <2>3, <3>3, <4>2 DEF R
      <4>3. CASE i - 2 \in 1 .. L /\ i = 2 + (i - 2)
        BY <2>2, <2>3, <2>10, <3>3, <4>3
      <4>4. CASE c.n # 0 /\ i = 3 + L
        BY <2>2, <2>3, <3>3, <4>4 DEF K
      <4>5. QED
        BY <3>2, <4>1, <4>2, <4>3, <4>4
    <3>4. CASE n \in H
      <4>1. 1 \in DOMAIN P /\ b \in P[1]
        BY <2>2, <2>3, <3>4 DEF H
      <4>2. n \notin R /\ n \notin B /\ n \notin K
        BY <2>7, <3>4 DEF Split4
      <4>3. QED
        BY <3>3, <4>1, <4>2
    <3>5. CASE n \in R
      <4>1. 2 \in DOMAIN P /\ b \in P[2]
        BY <2>2, <2>3, <3>5 DEF R
      <4>2. n \notin H /\ n \notin B /\ n \notin K
        BY <2>7, <3>5 DEF Split4
      <4>3. QED
        BY <3>3, <4>1, <4>2
    <3>6. CASE n \in B
      <4>1. PICK k \in 1 .. L : n \in KeptBy(q[k].u)
        BY <2>11, <3>6
      <4>6. 2 + k \in DOMAIN P
        BY <2>3, <4>1
      <4>7. b \in P[2 + k]
        BY <2>2, <2>3, <4>1
      <4>2. 2 + k \in DOMAIN P /\ b \in P[2 + k]
        BY <4>6, <4>7
      <4>3. n \notin H /\ n \notin R /\ n \notin K
        BY <2>7, <3>6 DEF Split4
      <4>4. ASSUME NEW i \in DOMAIN P, b \in P[i] PROVE i = 2 + k
        <5>1. i - 2 \in 1 .. L /\ i = 2 + (i - 2) /\ n \in KeptBy(q[i - 2].u)
          BY <3>3, <4>3, <4>4
        <5>2. i - 2 = k
          BY <2>12, <4>1, <5>1
        <5>3. QED
          BY <5>1, <5>2
      <4>5. QED
        BY <4>2, <4>4
    <3>7. CASE n \in K
      <4>1. c.n # 0
        BY <2>9, <3>7
      <4>2. 3 + L \in DOMAIN P /\ b \in P[3 + L]
        BY <2>2, <2>3, <3>7, <4>1 DEF K
      <4>3. n \notin H /\ n \notin R /\ n \notin B
        BY <2>7, <3>7 DEF Split4
      <4>4. QED
        BY <3>3, <4>2, <4>3
    <3>8. QED
      BY <3>1, <3>4, <3>5, <3>6, <3>7
  <2>14. b[1] = d
    BY <2>2
  <2>15. QED
    BY <2>13, <2>14, OnePlace DEF P
<1>2. LocallyKept => BuffersAccounted
  BY <1>1 DEF BuffersAccounted
<1>3. QED
  BY <1>2, LocallySound, PTL
-----------------------------------------------------------------------------
(* Frame callbacks *)

\* What the bookkeeping of callbacks reads of a local state.
LEMMA AccountedBy ==
    ASSUME NEW y, NEW k, NEW F, NEW A, NEW B, NEW C, NEW D,
           y.last = k, Listed(y.cache.frames) = F, y.surf.owed = A, y.done = B, y.lost = C,
           ParkedFrames(y.queue) = D, Split4((1 .. k) \ F, A, B, C, D)
    PROVE  Accounted(y)
BY Zenon DEF Accounted

LEMMA CacheAccounted ==
    ASSUME NEW d \in Surfaces, NEW z, Sound(z), Accounted(z), NEW y, CacheL(d, z, y)
    PROVE  Accounted(y)
<1>1. z \in LocalSet /\ Numbered(z)
  BY Zenon DEF Sound
<1>2. PICK u \in Update, late \in SUBSET {z.last + 1} :
        /\ NewUpdate(d, z, u, late)
        /\ y = [z EXCEPT !.last = @ + 1, !.given = @ \cup Brought(u), !.late = @ \cup late,
                         !.cache = Merge(@, u),
                         !.back = @ \cup Replaced(z.cache, u) \cup Spared(u)]
  BY Zenon DEF CacheL
<1>3. /\ z.last \in Nat /\ z.cache \in Update
  BY <1>1 DEF LocalSet
<1>4. u.n = z.last + 1 /\ Fits(u, z.last + 1) /\ Single(u)
  BY <1>1, <1>2, NewNumber, Zenon
<1>5. Listed(Merge(z.cache, u).frames) = Listed(z.cache.frames) \cup {z.last + 1}
  <2>1. Fits(z.cache, z.last)
    BY <1>1, Zenon DEF Numbered
  <2>2. QED
    BY <1>3, <1>4, <2>1, MergeFits
<1>6. /\ y.last = z.last + 1 /\ y.surf = z.surf /\ y.queue = z.queue
      /\ y.cache = Merge(z.cache, u) /\ y.done = z.done /\ y.lost = z.lost
  BY <1>1, <1>2 DEF LocalSet
<1> DEFINE F == Listed(z.cache.frames)
<1>7. (1 .. z.last + 1) \ (F \cup {z.last + 1}) = (1 .. z.last) \ F
  BY <1>3
<1>8. Split4((1 .. z.last + 1) \ (F \cup {z.last + 1}),
             z.surf.owed, z.done, z.lost, ParkedFrames(z.queue))
  BY <1>7, Zenon DEF Accounted
<1>9. QED
  BY <1>5, <1>6, <1>8, AccountedBy, Zenon

LEMMA ParkAccounted ==
    ASSUME NEW d \in Surfaces, NEW z, Sound(z), Accounted(z), NEW y, ParkL(d, z, y)
    PROVE  Accounted(y)
<1>1. z \in LocalSet /\ Numbered(z)
  BY Zenon DEF Sound
<1>2. PICK u \in Update, e \in Entry, late \in SUBSET {z.last + 1} :
        /\ NewUpdate(d, z, u, late) /\ e.u = u
        /\ y = [z EXCEPT !.last = @ + 1, !.given = @ \cup Brought(u), !.late = @ \cup late,
                         !.queue = Append(@, e), !.back = @ \cup Spared(u)]
  BY Zenon DEF ParkL
<1> DEFINE k == z.last
           F == Listed(z.cache.frames)
           P == ParkedFrames(z.queue)
<1>3. k \in Nat /\ z.queue \in Seq(Entry)
  BY <1>1 DEF LocalSet
<1>4. u.n = k + 1 /\ Fits(u, k + 1) /\ Single(u)
  BY <1>1, <1>2, NewNumber, Zenon
<1>5. ParkedFrames(Append(z.queue, e)) = P \cup {k + 1}
  <2>1. Listed(e.u.frames) = {k + 1}
    BY <1>2, <1>4, SingleNames
  <2>2. QED
    BY <1>2, <1>3, <2>1, AppendParked
<1>6. /\ y.last = k + 1 /\ y.surf = z.surf /\ y.queue = Append(z.queue, e)
      /\ y.cache = z.cache /\ y.done = z.done /\ y.lost = z.lost
  BY <1>1, <1>2 DEF LocalSet
<1>7. F \subseteq 1 .. k
  BY <1>1 DEF Numbered, Fits
<1>8. Split4((1 .. k) \ F, z.surf.owed, z.done, z.lost, P)
  BY Zenon DEF Accounted
<1> HIDE DEF F, P
<1>9. (1 .. k + 1) \ F = ((1 .. k) \ F) \cup {k + 1} /\ k + 1 \notin (1 .. k) \ F
  BY <1>3, <1>7
<1>10. Split4((1 .. k + 1) \ F, z.surf.owed, z.done, z.lost, P \cup {k + 1})
  BY <1>8, <1>9 DEF Split4
<1>11. QED
  BY <1>5, <1>6, <1>10, AccountedBy, Zenon DEF F

\* An update is applied: its callbacks are now owed.
LEMMA TakeAccounted ==
    ASSUME NEW z \in LocalSet, NEW u \in Update, NEW k, NEW F, NEW D,
           Split4((1 .. k) \ F, z.surf.owed, z.done, z.lost, D \cup Listed(u.frames)),
           D \cap Listed(u.frames) = {},
           NEW y, y.last = k, Listed(y.cache.frames) = F, y.surf = Onto(z.surf, u),
           y.done = z.done, y.lost = z.lost, ParkedFrames(y.queue) = D
    PROVE  Accounted(y)
<1>1. y.surf.owed = z.surf.owed \cup Listed(u.frames)
  <2>1. z.surf \in Surface
    BY DEF LocalSet
  <2>2. QED
    BY <2>1, OntoType
<1>2. Split4((1 .. k) \ F, z.surf.owed \cup Listed(u.frames), z.done, z.lost, D)
  BY DEF Split4
<1>3. QED
  BY <1>1, <1>2, AccountedBy, Zenon

LEMMA NowAccounted ==
    ASSUME NEW d \in Surfaces, NEW z, Sound(z), Accounted(z), NEW y, NowL(d, z, y)
    PROVE  Accounted(y)
<1>1. z \in LocalSet /\ Numbered(z)
  BY Zenon DEF Sound
<1>2. PICK u \in Update :
        /\ NewUpdate(d, z, u, {}) /\ z.queue = <<>>
        /\ y = [z EXCEPT !.last = @ + 1, !.given = @ \cup Brought(u),
                         !.surf = Onto(@, u),
                         !.back = @ \cup Spared(u) \cup Freed(z, Onto(z.surf, u))]
  BY Zenon DEF NowL
<1> DEFINE k == z.last
           F == Listed(z.cache.frames)
<1>3. k \in Nat
  BY <1>1 DEF LocalSet
<1>4. u.n = k + 1 /\ Fits(u, k + 1) /\ Single(u)
  BY <1>1, <1>2, NewNumber, Zenon
<1>5. Listed(u.frames) = {k + 1}
  BY <1>4, SingleNames
<1>6. /\ y.last = k + 1 /\ y.surf = Onto(z.surf, u) /\ y.queue = <<>>
      /\ y.cache = z.cache /\ y.done = z.done /\ y.lost = z.lost
  BY <1>1, <1>2 DEF LocalSet
<1>7. F \subseteq 1 .. k
  BY <1>1 DEF Numbered, Fits
<1>8. ParkedFrames(<<>>) = {}
  BY DEF ParkedFrames
<1>9. Split4((1 .. k) \ F, z.surf.owed, z.done, z.lost, {})
  BY <1>2, <1>8, Zenon DEF Accounted
<1> HIDE DEF F
<1>10. (1 .. k + 1) \ F = ((1 .. k) \ F) \cup {k + 1} /\ k + 1 \notin (1 .. k) \ F
  BY <1>3, <1>7
<1>11. Split4((1 .. k + 1) \ F, z.surf.owed, z.done, z.lost, {} \cup Listed(u.frames))
  BY <1>5, <1>9, <1>10 DEF Split4
<1>12. {} \cap Listed(u.frames) = {}
  OBVIOUS
<1>13. ParkedFrames(y.queue) = {} /\ Listed(y.cache.frames) = F
  BY <1>6, <1>8 DEF F
<1> HIDE DEF k
<1>14. QED
  BY <1>1, <1>6, <1>11, <1>12, <1>13, TakeAccounted, Zenon

LEMMA ApplyCacheAccounted ==
    ASSUME NEW z, Sound(z), Accounted(z), NEW y, ApplyCacheL(z, y)
    PROVE  Accounted(y)
<1>1. z \in LocalSet /\ Numbered(z)
  BY Zenon DEF Sound
<1>2. z.last \in Nat /\ z.cache \in Update
  BY <1>1 DEF LocalSet
<1>3. /\ y.last = z.last /\ y.surf = Onto(z.surf, z.cache) /\ y.queue = z.queue
      /\ y.cache = NoUpdate /\ y.done = z.done /\ y.lost = z.lost
  BY <1>1 DEF ApplyCacheL, LocalSet
<1>4. Listed(NoUpdate.frames) = {}
  BY DEF NoUpdate, Listed
<1> DEFINE F == Listed(z.cache.frames)
           P == ParkedFrames(z.queue)
<1>5. F \subseteq 1 .. z.last
  BY <1>1 DEF Numbered, Fits
<1>6. Split4((1 .. z.last) \ F, z.surf.owed, z.done, z.lost, P)
  BY Zenon DEF Accounted
<1> HIDE DEF F, P
<1>7. /\ Split4((1 .. z.last) \ {}, z.surf.owed, z.done, z.lost, P \cup F)
      /\ P \cap F = {}
  BY <1>5, <1>6 DEF Split4
<1>8. Listed(y.cache.frames) = {} /\ ParkedFrames(y.queue) = P
  BY <1>3, <1>4 DEF P
<1>9. QED
  BY <1>1, <1>2, <1>3, <1>7, <1>8, TakeAccounted, Zenon DEF F

LEMMA AdmitAccounted ==
    ASSUME NEW z, Sound(z), Accounted(z), NEW y, AdmitL(z, y)
    PROVE  Accounted(y)
<1>1. z \in LocalSet /\ Numbered(z)
  BY Zenon DEF Sound
<1>2. z.last \in Nat /\ z.queue \in Seq(Entry) /\ z.queue # <<>>
  BY <1>1 DEF LocalSet, AdmitL
<1> DEFINE u == Head(z.queue).u
           q == Tail(z.queue)
<1>3. InOrder(z.queue, z.last)
  BY <1>1, Zenon DEF Numbered
<1>4. Head(z.queue) \in Entry
  BY <1>2
<1>5. u \in Update
  BY <1>4 DEF Entry
<1>6. ParkedFrames(q) \cap Listed(u.frames) = {}
  BY <1>2, <1>3, HeadParked
<1>7. ParkedFrames(z.queue) = ParkedFrames(q) \cup Listed(u.frames)
  BY <1>2, TailParked
<1>8. /\ y.last = z.last /\ y.surf = Onto(z.surf, u) /\ y.queue = q
      /\ y.cache = z.cache /\ y.done = z.done /\ y.lost = z.lost
  BY <1>1 DEF AdmitL, LocalSet
<1>9. Split4((1 .. z.last) \ Listed(z.cache.frames), z.surf.owed, z.done, z.lost,
             ParkedFrames(q) \cup Listed(u.frames))
  BY <1>7, Zenon DEF Accounted
<1> HIDE DEF u, q
<1>10. QED
  BY <1>1, <1>5, <1>6, <1>8, <1>9, TakeAccounted, Zenon

LEMMA DieAccounted ==
    ASSUME NEW z, Sound(z), Accounted(z), NEW y, DieL(z, y)
    PROVE  Accounted(y)
<1>1. z \in LocalSet
  BY Zenon DEF Sound
<1>2. PICK f \in Surface :
        /\ f = [z.surf EXCEPT !.attach = "null", !.held = FALSE, !.owed = {}]
        /\ y = [z EXCEPT !.alive = FALSE, !.surf = f, !.queue = <<>>,
                         !.back = @ \cup ParkedBuffers(z.queue) \cup Freed(z, f),
                         !.lost = @ \cup z.surf.owed \cup ParkedFrames(z.queue)]
  BY Zenon DEF DieL
<1>3. z.surf \in Surface
  BY <1>1 DEF LocalSet
<1>4. f.owed = {}
  BY <1>2, <1>3 DEF Surface
<1> DEFINE P == ParkedFrames(z.queue)
           l == z.lost \cup z.surf.owed \cup P
<1>5. /\ y.last = z.last /\ y.surf = f /\ y.queue = <<>>
      /\ y.cache = z.cache /\ y.done = z.done /\ y.lost = l
  BY <1>1, <1>2 DEF LocalSet
<1>6. ParkedFrames(<<>>) = {}
  BY DEF ParkedFrames
<1>7. Split4((1 .. z.last) \ Listed(z.cache.frames), z.surf.owed, z.done, z.lost, P)
  BY Zenon DEF Accounted
<1>8. Split4((1 .. z.last) \ Listed(z.cache.frames), {}, z.done, l, {})
  BY <1>7 DEF Split4
<1> HIDE DEF P, l
<1>9. QED
  BY <1>4, <1>5, <1>6, <1>8, AccountedBy, Zenon

LEMMA SubDieAccounted ==
    ASSUME NEW z, Sound(z), Accounted(z), Len(z.cache.frames) <= 2 \/ ~z.alive,
           NEW y, SubDieL(z, y)
    PROVE  Accounted(y)
<1>1. z \in LocalSet /\ Numbered(z)
  BY Zenon DEF Sound
<1>2. y = [z EXCEPT !.cache = NoUpdate, !.back = @ \cup KeptBy(z.cache),
                    !.lost = @ \cup Listed(z.cache.frames)]
  BY Zenon DEF SubDieL
<1> DEFINE F == Listed(z.cache.frames)
           l == z.lost \cup F
<1>3. /\ y.last = z.last /\ y.surf = z.surf /\ y.queue = z.queue
      /\ y.cache = NoUpdate /\ y.done = z.done /\ y.lost = l
  BY <1>1, <1>2 DEF LocalSet
<1>4. Listed(NoUpdate.frames) = {}
  BY DEF NoUpdate, Listed
<1>5. F \subseteq 1 .. z.last
  BY <1>1 DEF Numbered, Fits
<1>6. Split4((1 .. z.last) \ F, z.surf.owed, z.done, z.lost, ParkedFrames(z.queue))
  BY Zenon DEF Accounted
<1> HIDE DEF F
<1>7. Split4((1 .. z.last) \ {}, z.surf.owed, z.done, l, ParkedFrames(z.queue))
  BY <1>5, <1>6 DEF Split4
<1> HIDE DEF l
<1>8. QED
  BY <1>3, <1>4, <1>7, AccountedBy, Zenon

LEMMA FlipAccounted ==
    ASSUME NEW z, Sound(z), Accounted(z), NEW y, FlipL(z, y)
    PROVE  Accounted(y)
<1>1. z \in LocalSet
  BY Zenon DEF Sound
<1>2. PICK f \in Surface :
        f = [z.surf EXCEPT !.owed = {}] /\ y = [z EXCEPT !.surf = f, !.done = @ \cup z.surf.owed]
  BY Zenon DEF FlipL
<1>3. z.surf \in Surface
  BY <1>1 DEF LocalSet
<1>4. f.owed = {}
  BY <1>2, <1>3 DEF Surface
<1> DEFINE o == z.done \cup z.surf.owed
<1>5. /\ y.last = z.last /\ y.surf = f /\ y.queue = z.queue
      /\ y.cache = z.cache /\ y.done = o /\ y.lost = z.lost
  BY <1>1, <1>2 DEF LocalSet
<1>6. Split4((1 .. z.last) \ Listed(z.cache.frames), {}, o, z.lost, ParkedFrames(z.queue))
  BY DEF Accounted, Split4
<1> HIDE DEF o
<1>7. QED
  BY <1>4, <1>5, <1>6, AccountedBy, Zenon

\* What touches no callback: time, the frame, its fence, an acquire point.
LEMMA OtherAccounted ==
    ASSUME NEW z, Sound(z), Accounted(z), NEW y,
           z = y \/ TimeL(z, y) \/ FrameL(z, y) \/ FenceL(z, y) \/ ReadyL(z, y)
    PROVE  Accounted(y)
<1>1. z \in LocalSet
  BY Zenon DEF Sound
<1>2. ASSUME y.last = z.last, y.surf.owed = z.surf.owed, y.done = z.done, y.lost = z.lost,
             y.cache = z.cache, ParkedFrames(y.queue) = ParkedFrames(z.queue)
      PROVE  Accounted(y)
  BY <1>2, Zenon DEF Accounted
<1>3. CASE z = y
  BY <1>3, Zenon
<1>4. CASE TimeL(z, y)
  <2>1. PICK q \in Seq(Entry) :
          /\ DOMAIN q = DOMAIN z.queue /\ \A i \in DOMAIN q : q[i].u = z.queue[i].u
          /\ y = [z EXCEPT !.queue = q]
    BY <1>4, Zenon DEF TimeL
  <2>2. ParkedFrames(q) = ParkedFrames(z.queue)
    BY <2>1 DEF ParkedFrames
  <2>3. /\ y.last = z.last /\ y.surf = z.surf /\ y.queue = q
        /\ y.cache = z.cache /\ y.done = z.done /\ y.lost = z.lost
    BY <1>1, <2>1 DEF LocalSet
  <2>4. QED
    BY <1>2, <2>2, <2>3, Zenon
<1>5. CASE FrameL(z, y)
  <2>1. PICK f \in Surface, gpu \in SUBSET HeldBy(z.surf) :
          /\ f = z.surf \/ f = [z.surf EXCEPT !.held = FALSE]
          /\ y = [z EXCEPT !.surf = f, !.gpu = gpu]
    BY <1>5, Zenon DEF FrameL
  <2>2. z.surf \in Surface
    BY <1>1 DEF LocalSet
  <2>3. f.owed = z.surf.owed
    BY <2>1, <2>2 DEF Surface
  <2>4. /\ y.last = z.last /\ y.surf = f /\ y.queue = z.queue
        /\ y.cache = z.cache /\ y.done = z.done /\ y.lost = z.lost
    BY <1>1, <2>1 DEF LocalSet
  <2>5. QED
    BY <1>2, <2>3, <2>4, Zenon
<1>6. CASE FenceL(z, y) \/ ReadyL(z, y)
  <2>1. /\ y.last = z.last /\ y.surf = z.surf /\ y.queue = z.queue
        /\ y.cache = z.cache /\ y.done = z.done /\ y.lost = z.lost
    BY <1>1, <1>6 DEF LocalSet, FenceL, ReadyL
  <2>2. QED
    BY <1>2, <2>1, Zenon
<1>7. QED
  BY <1>3, <1>4, <1>5, <1>6

LEMMA LocalAccounted ==
    ASSUME NEW d \in Surfaces, NEW z, Sound(z), Accounted(z),
           Len(z.cache.frames) <= 2 \/ ~z.alive, NEW y, LocalStep(d, z, y)
    PROVE  Accounted(y)
BY CacheAccounted, ParkAccounted, NowAccounted, ApplyCacheAccounted, AdmitAccounted,
   DieAccounted, SubDieAccounted, FlipAccounted, OtherAccounted, Zenon DEF LocalStep

LEMMA CallbackPlacesAre ==
    ASSUME Typed, NEW d \in Surfaces, NEW n \in Nat, NEW P, P = CallbackPlaces(d),
           NEW L, L = Len(queue[d])
    PROVE  /\ L \in Nat /\ DOMAIN queue[d] = 1 .. L
           /\ DOMAIN P = 1 .. (3 + L + (IF cache[d].n = 0 THEN 0 ELSE 1))
           /\ <<d, n>> \in P[1] <=> n \in surf[d].owed
           /\ <<d, n>> \in P[2] <=> n \in At(fired, d)
           /\ <<d, n>> \in P[3] <=> n \in At(lost, d)
           /\ \A i \in 1 .. L : <<d, n>> \in P[3 + i] <=> n \in Listed(queue[d][i].u.frames)
           /\ cache[d].n # 0 => (<<d, n>> \in P[4 + L] <=> n \in Listed(cache[d].frames))
<1> DEFINE Taken(u) == Of(d, Listed(u.frames))
           W == [i \in DOMAIN Waiting(d) |-> Taken(Waiting(d)[i])]
           A == Of(d, surf[d].owed)
<1>1. /\ surf \in [Surfaces -> Surface] /\ queue[d] \in Seq(Entry) /\ cache[d] \in Update
      /\ fired \in SUBSET Names /\ lost \in SUBSET Names
  BY DEF Typed
<1>2. surf[d].owed \in SUBSET Nat
  BY <1>1 DEF Surface
<1>3. /\ Waiting(d) \in Seq(Update)
      /\ \A i \in 1 .. Len(queue[d]) : Waiting(d)[i] = queue[d][i].u
      /\ cache[d].n # 0 => Waiting(d)[Len(queue[d]) + 1] = cache[d]
      /\ Len(Waiting(d)) = Len(queue[d]) + (IF cache[d].n = 0 THEN 0 ELSE 1)
  BY <1>1, WaitingParts
<1>4. P = <<A, fired, lost>> \o W
  BY DEF CallbackPlaces
<1>5. ASSUME NEW u \in Update PROVE Taken(u) \in SUBSET Names
  <2>1. Listed(u.frames) \in SUBSET Nat
    BY DEF Listed, Update
  <2>2. QED
    BY <2>1 DEF Of, Names
<1>6. L \in Nat /\ DOMAIN queue[d] = 1 .. L
  BY <1>1
<1>7. W \in Seq(SUBSET Names) /\ Len(W) = Len(Waiting(d))
      /\ \A i \in 1 .. Len(W) : W[i] = Taken(Waiting(d)[i])
  <2> DEFINE V == Waiting(d)
  <2>0. V \in Seq(Update)
    BY <1>3
  <2> HIDE DEF V, Taken
  <2>1. /\ DOMAIN V = 1 .. Len(V) /\ Len(V) \in Nat
        /\ \A i \in DOMAIN V : V[i] \in Update
    BY <2>0
  <2>2. \A i \in DOMAIN V : Taken(V[i]) \in SUBSET Names
    BY <1>5, <2>1
  <2>3. W = [i \in 1 .. Len(V) |-> Taken(V[i])]
    BY <2>1 DEF V
  <2>4. W \in Seq(SUBSET Names) /\ Len(W) = Len(V)
        /\ \A i \in 1 .. Len(W) : W[i] = Taken(V[i])
    BY <2>1, <2>2, <2>3
  <2>5. QED
    BY <2>4 DEF V
<1>8. A \in SUBSET Names
  BY <1>2 DEF Of, Names
<1> HIDE DEF W, A
<1>9. <<A, fired, lost>> \in Seq(SUBSET Names)
  BY <1>1, <1>8
<1>10. /\ DOMAIN P = 1 .. (3 + Len(W)) /\ P[1] = A /\ P[2] = fired /\ P[3] = lost
       /\ \A i \in 1 .. Len(W) : P[3 + i] = W[i]
  BY <1>4, <1>7, <1>9
<1>11. /\ DOMAIN P = 1 .. (3 + L + (IF cache[d].n = 0 THEN 0 ELSE 1))
       /\ \A i \in 1 .. L : P[3 + i] = Taken(queue[d][i].u)
       /\ cache[d].n # 0 => P[4 + L] = Taken(cache[d])
  <2> DEFINE e == IF cache[d].n = 0 THEN 0 ELSE 1
  <2>4. e \in {0, 1} /\ Len(W) = L + e
    BY <1>3, <1>7
  <2> HIDE DEF e, Taken
  <2>5. 3 + (L + e) = 3 + L + e
    BY <1>6, <2>4
  <2>1. DOMAIN P = 1 .. (3 + L + (IF cache[d].n = 0 THEN 0 ELSE 1))
    BY <1>10, <2>4, <2>5 DEF e
  <2>2. ASSUME NEW i \in 1 .. L PROVE P[3 + i] = Taken(queue[d][i].u)
    <3>1. i \in 1 .. Len(W)
      BY <1>6, <2>2, <2>4
    <3>2. P[3 + i] = Taken(Waiting(d)[i])
      BY <1>7, <1>10, <3>1
    <3>3. Waiting(d)[i] = queue[d][i].u
      BY <1>3, <2>2
    <3>4. QED
      BY <3>2, <3>3
  <2>3. ASSUME cache[d].n # 0 PROVE P[4 + L] = Taken(cache[d])
    <3>1. L + 1 \in 1 .. Len(W) /\ 3 + (L + 1) = 4 + L
      BY <1>6, <2>3, <2>4 DEF e
    <3>2. P[3 + (L + 1)] = Taken(Waiting(d)[L + 1])
      BY <1>7, <1>10, <3>1
    <3>3. QED
      BY <1>3, <2>3, <3>1, <3>2
  <2>6. QED
    BY <2>1, <2>2, <2>3
<1>12. ASSUME NEW u PROVE <<d, n>> \in Taken(u) <=> n \in Listed(u.frames)
  BY DEF Of
<1> HIDE DEF Taken
<1>13. <<d, n>> \in P[1] <=> n \in surf[d].owed
  <2>1. <<d, n>> \in A <=> n \in surf[d].owed
    BY DEF A, Of
  <2>2. QED
    BY <1>10, <2>1
<1>14. <<d, n>> \in P[2] <=> n \in At(fired, d)
  BY <1>10 DEF At
<1>15. <<d, n>> \in P[3] <=> n \in At(lost, d)
  BY <1>10 DEF At
<1>16. \A i \in 1 .. L : <<d, n>> \in P[3 + i] <=> n \in Listed(queue[d][i].u.frames)
  BY <1>11, <1>12, Zenon
<1>17. cache[d].n # 0 => (<<d, n>> \in P[4 + L] <=> n \in Listed(cache[d].frames))
  BY <1>11, <1>12, Zenon
<1>18. QED
  BY <1>6, <1>11, <1>13, <1>14, <1>15, <1>16, <1>17

(* No synchronized subsurface waits with more than two callbacks.          *)
FewCached == \A s \in alive : Len(cache[s].frames) <= 2

LEMMA NextAccounted ==
    ASSUME LocallyKept, FewCached, [SCNext]_vars, NEW d \in Surfaces, Accounted(Local(d))
    PROVE  Accounted(Local(d)')
<1>1. Typed /\ Sound(Local(d))
  BY DEF LocallyKept
<1>2. LocalStep(d, Local(d), Local(d)')
  BY <1>1, NextLocal
<1>3. Len(Local(d).cache.frames) <= 2 \/ ~Local(d).alive
  <2>1. Local(d).cache = cache[d] /\ (Local(d).alive <=> d \in alive)
    BY DEF Local
  <2>2. QED
    BY <2>1 DEF FewCached
<1>4. QED
  BY <1>1, <1>2, <1>3, LocalAccounted, Zenon

(* Every frame callback is in one place: with one update that waits, with  *)
(* the surface that owes it, done, or given up.  It holds as long as no    *)
(* cache has more than two callbacks: with three, the walk that destroys   *)
(* them with the wl_subsurface skips one.                                  *)
THEOREM CallbacksAreAccounted == SCSpec /\ []FewCached => []CallbacksAccounted
<1> DEFINE Acc == \A d \in Surfaces : Accounted(Local(d))
<1>1. SCInit => Acc
  BY InitSound
<1>2. LocallyKept /\ FewCached /\ Acc /\ [SCNext]_vars => Acc'
  <2> SUFFICES ASSUME LocallyKept, FewCached, Acc, [SCNext]_vars PROVE Acc'
    OBVIOUS
  <2>1. \A d \in Surfaces : Accounted(Local(d)')
    BY NextAccounted
  <2>2. QED
    BY <2>1 DEF Accounted
<1>3. ASSUME LocallyKept, Acc, NEW d \in Surfaces, NEW n \in 1 .. last[d]
      PROVE  Cardinality({i \in DOMAIN CallbackPlaces(d) : <<d, n>> \in CallbackPlaces(d)[i]}) = 1
  <2>1. Typed
    BY <1>3 DEF LocallyKept
  <2> DEFINE P == CallbackPlaces(d)
             L == Len(queue[d])
             q == queue[d]
             c == cache[d]
             z == Local(d)
  <2>2. n \in Nat
    BY <2>1, <1>3 DEF Typed
  <2>3. /\ L \in Nat /\ DOMAIN q = 1 .. L
        /\ DOMAIN P = 1 .. (3 + L + (IF c.n = 0 THEN 0 ELSE 1))
        /\ <<d, n>> \in P[1] <=> n \in surf[d].owed
        /\ <<d, n>> \in P[2] <=> n \in At(fired, d)
        /\ <<d, n>> \in P[3] <=> n \in At(lost, d)
        /\ \A i \in 1 .. L : <<d, n>> \in P[3 + i] <=> n \in Listed(q[i].u.frames)
        /\ c.n # 0 => (<<d, n>> \in P[4 + L] <=> n \in Listed(c.frames))
    BY <2>1, <2>2, CallbackPlacesAre
  <2>4. Numbered(z) /\ Accounted(z)
    BY <1>3 DEF LocallyKept, Sound
  <2>5. /\ z.last = last[d] /\ z.surf = surf[d] /\ z.queue = q /\ z.cache = c
        /\ z.done = At(fired, d) /\ z.lost = At(lost, d)
    BY DEF Local
  <2>6. q \in Seq(Entry) /\ InOrder(q, last[d]) /\ (c.n = 0 => c = NoUpdate)
    BY <2>1, <2>4, <2>5 DEF Typed, Numbered
  <2> DEFINE O == surf[d].owed
             D == At(fired, d)
             G == At(lost, d)
             B == ParkedFrames(q)
             K == Listed(c.frames)
  <2>7. Split4((1 .. last[d]) \ K, O, D, G, B)
    BY <2>4, <2>5, Zenon DEF Accounted
  <2>8. n \in 1 .. last[d]
    BY <1>3
  <2>9. c.n = 0 => K = {}
    BY <2>6 DEF NoUpdate, Listed
  <2>10. \A i \in 1 .. L : n \in Listed(q[i].u.frames) => n \in B
    BY <2>3 DEF ParkedFrames
  <2>11. n \in B => \E i \in 1 .. L : n \in Listed(q[i].u.frames)
    BY <2>3 DEF ParkedFrames
  <2>12. \A i, j \in 1 .. L :
           n \in Listed(q[i].u.frames) /\ n \in Listed(q[j].u.frames) => i = j
    BY <2>3, <2>6, ParkedOnce
  <2> DEFINE b == <<d, n>>
  <2> HIDE DEF P, L, q, c, z, O, D, G, B, K, b
  <2>13. \E k \in DOMAIN P : b \in P[k] /\ \A i \in DOMAIN P : b \in P[i] => i = k
    <3>1. n \in O \/ n \in D \/ n \in G \/ n \in B \/ n \in K
      BY <2>7, <2>8 DEF Split4
    <3>2. \A i \in DOMAIN P :
            \/ i = 1 \/ i = 2 \/ i = 3
            \/ i - 3 \in 1 .. L /\ i = 3 + (i - 3)
            \/ c.n # 0 /\ i = 4 + L
      <4>1. L \in Nat /\ DOMAIN P = 1 .. (3 + L + (IF c.n = 0 THEN 0 ELSE 1))
        BY <2>3
      <4> TAKE i \in DOMAIN P
      <4>2. /\ i \in Nat /\ 1 <= i /\ i <= 4 + L
            /\ c.n = 0 => i <= 3 + L
        BY <4>1
      <4>3. CASE i <= 3
        BY <4>2, <4>3
      <4>4. CASE 3 < i /\ i <= 3 + L
        BY <4>1, <4>2, <4>4
      <4>5. CASE i = 4 + L
        BY <4>1, <4>2, <4>5
      <4>6. QED
        BY <4>1, <4>2, <4>3, <4>4, <4>5
    <3>3. ASSUME NEW i \in DOMAIN P, b \in P[i]
          PROVE  \/ i = 1 /\ n \in O
                 \/ i = 2 /\ n \in D
                 \/ i = 3 /\ n \in G
                 \/ i - 3 \in 1 .. L /\ i = 3 + (i - 3) /\ n \in Listed(q[i - 3].u.frames)
                    /\ n \in B
                 \/ i = 4 + L /\ n \in K
      <4>1. CASE i = 1
        BY <2>3, <3>3, <4>1 DEF O, b
      <4>2. CASE i = 2
        BY <2>3, <3>3, <4>2 DEF D, b
      <4>3. CASE i = 3
        BY <2>3, <3>3, <4>3 DEF G, b
      <4>4. CASE i - 3 \in 1 .. L /\ i = 3 + (i - 3)
        BY <2>3, <2>10, <3>3, <4>4 DEF b
      <4>5. CASE c.n # 0 /\ i = 4 + L
        BY <2>3, <3>3, <4>5 DEF K, b
      <4>6. QED
        BY <3>2, <4>1, <4>2, <4>3, <4>4, <4>5
    <3>4. CASE n \in O
      <4>1. 1 \in DOMAIN P /\ b \in P[1]
        BY <2>3, <3>4 DEF O, b
      <4>2. n \notin D /\ n \notin G /\ n \notin B /\ n \notin K
        BY <2>7, <3>4 DEF Split4
      <4>3. QED
        BY <3>3, <4>1, <4>2
    <3>5. CASE n \in D
      <4>1. 2 \in DOMAIN P /\ b \in P[2]
        BY <2>3, <3>5 DEF D, b
      <4>2. n \notin O /\ n \notin G /\ n \notin B /\ n \notin K
        BY <2>7, <3>5 DEF Split4
      <4>3. QED
        BY <3>3, <4>1, <4>2
    <3>6. CASE n \in G
      <4>1. 3 \in DOMAIN P /\ b \in P[3]
        BY <2>3, <3>6 DEF G, b
      <4>2. n \notin O /\ n \notin D /\ n \notin B /\ n \notin K
        BY <2>7, <3>6 DEF Split4
      <4>3. QED
        BY <3>3, <4>1, <4>2
    <3>7. CASE n \in B
      <4>1. PICK k \in 1 .. L : n \in Listed(q[k].u.frames)
        BY <2>11, <3>7
      <4>2. 3 + k \in DOMAIN P
        BY <2>3, <4>1
      <4>3. b \in P[3 + k]
        BY <2>3, <4>1 DEF b
      <4>4. n \notin O /\ n \notin D /\ n \notin G /\ n \notin K
        BY <2>7, <3>7 DEF Split4
      <4>5. ASSUME NEW i \in DOMAIN P, b \in P[i] PROVE i = 3 + k
        <5>1. i - 3 \in 1 .. L /\ i = 3 + (i - 3) /\ n \in Listed(q[i - 3].u.frames)
          BY <3>3, <4>4, <4>5
        <5>2. i - 3 = k
          BY <2>12, <4>1, <5>1
        <5>3. QED
          BY <5>1, <5>2
      <4>6. QED
        BY <4>2, <4>3, <4>5
    <3>8. CASE n \in K
      <4>1. c.n # 0
        BY <2>9, <3>8
      <4>2. 4 + L \in DOMAIN P /\ b \in P[4 + L]
        BY <2>3, <3>8, <4>1 DEF K, b
      <4>3. n \notin O /\ n \notin D /\ n \notin G /\ n \notin B
        BY <2>7, <3>8 DEF Split4
      <4>4. QED
        BY <3>3, <4>2, <4>3
    <3>9. QED
      BY <3>1, <3>4, <3>5, <3>6, <3>7, <3>8
  <2>14. QED
    BY <2>13, OnePlace DEF P, b
<1>4. LocallyKept /\ Acc => CallbacksAccounted
  BY <1>3 DEF CallbacksAccounted
<1> HIDE DEF Acc
<1>5. QED
  BY <1>1, <1>2, <1>4, LocallySound, PTL DEF SCSpec
-----------------------------------------------------------------------------
(* Acquire points *)

(* A surface that has no cache holds nothing that has not materialized,    *)
(* nor does the frame in flight of it.                                     *)
Ripe(z) == z.cache = NoUpdate /\ (HeldBy(z.surf) \cup z.gpu) \cap z.late = {}

\* What is held has been committed.
LEMMA HeldGiven ==
    ASSUME NEW z, Sound(z)
    PROVE  /\ z.last \in Nat /\ HeldBy(z.surf) \cup z.gpu \subseteq 0 .. z.last
           /\ z.late \subseteq 0 .. z.last
<1>1. z \in LocalSet /\ Numbered(z) /\ Balanced(z)
  BY Zenon DEF Sound
<1>2. z.given \subseteq 0 .. z.last /\ z.late \subseteq 0 .. z.last
  BY <1>1 DEF Numbered
<1>3. HeldBy(z.surf) \cup z.gpu \subseteq z.given
  BY <1>1 DEF Balanced, Split4
<1>4. z.last \in Nat
  BY <1>1 DEF LocalSet
<1>5. QED
  BY <1>2, <1>3, <1>4

LEMMA ParkRipe ==
    ASSUME NEW d \in Surfaces, NEW z, Sound(z), Ripe(z), NEW y, ParkL(d, z, y)
    PROVE  Ripe(y)
<1>1. z \in LocalSet
  BY Zenon DEF Sound
<1>2. PICK u \in Update, e \in Entry, late \in SUBSET {z.last + 1} :
        y = [z EXCEPT !.last = @ + 1, !.given = @ \cup Brought(u), !.late = @ \cup late,
                      !.queue = Append(@, e), !.back = @ \cup Spared(u)]
  BY Zenon DEF ParkL
<1>3. y.cache = z.cache /\ y.surf = z.surf /\ y.gpu = z.gpu /\ y.late = z.late \cup late
  BY <1>1, <1>2 DEF LocalSet
<1> DEFINE H == HeldBy(z.surf) \cup z.gpu
<1>4. z.last \in Nat /\ H \subseteq 0 .. z.last
  BY HeldGiven
<1>5. z.cache = NoUpdate /\ H \cap z.late = {}
  BY DEF Ripe
<1> HIDE DEF H
<1>6. H \cap (z.late \cup late) = {}
  BY <1>2, <1>4, <1>5
<1>7. QED
  BY <1>3, <1>5, <1>6, Zenon DEF Ripe, H

\* An update whose buffer has materialized is applied.
LEMMA TakeRipe ==
    ASSUME NEW z, Sound(z), Ripe(z), NEW u \in Update, KeptBy(u) \cap z.late = {},
           NEW y, y.cache = NoUpdate, y.surf = Onto(z.surf, u), y.gpu = z.gpu, y.late = z.late
    PROVE  Ripe(y)
<1>1. z.surf \in Surface
  BY Zenon DEF Sound, LocalSet
<1>2. HeldBy(Onto(z.surf, u)) = IF u.from = 0 THEN HeldBy(z.surf) ELSE KeptBy(u)
  BY <1>1, OntoType
<1>3. (HeldBy(Onto(z.surf, u)) \cup z.gpu) \cap z.late = {}
  BY <1>2 DEF Ripe
<1>4. QED
  BY <1>3, Zenon DEF Ripe

LEMMA NowRipe ==
    ASSUME NEW d \in Surfaces, NEW z, Sound(z), Ripe(z), NEW y, NowL(d, z, y)
    PROVE  Ripe(y)
<1>1. z \in LocalSet
  BY Zenon DEF Sound
<1>2. PICK u \in Update :
        /\ NewUpdate(d, z, u, {})
        /\ y = [z EXCEPT !.last = @ + 1, !.given = @ \cup Brought(u),
                         !.surf = Onto(@, u),
                         !.back = @ \cup Spared(u) \cup Freed(z, Onto(z.surf, u))]
  BY Zenon DEF NowL
<1>3. KeptBy(u) \subseteq {z.last + 1}
  BY <1>1, <1>2, NewNumber
<1>4. z.last \in Nat /\ z.late \subseteq 0 .. z.last
  BY HeldGiven
<1>5. KeptBy(u) \cap z.late = {}
  BY <1>3, <1>4
<1>6. y.cache = z.cache /\ y.surf = Onto(z.surf, u) /\ y.gpu = z.gpu /\ y.late = z.late
  BY <1>1, <1>2 DEF LocalSet
<1>7. z.cache = NoUpdate
  BY DEF Ripe
<1>8. QED
  BY <1>5, <1>6, <1>7, TakeRipe

LEMMA AdmitRipe ==
    ASSUME NEW z, Sound(z), Ripe(z), NEW y, AdmitL(z, y)
    PROVE  Ripe(y)
<1>1. z \in LocalSet /\ Numbered(z)
  BY Zenon DEF Sound
<1> DEFINE u == Head(z.queue).u
<1>2. z.queue \in Seq(Entry) /\ z.queue # <<>> /\ InOrder(z.queue, z.last) /\ u.n \notin z.late
  BY <1>1 DEF LocalSet, AdmitL, Numbered
<1>3. Fits(u, z.last) /\ Single(u)
  BY <1>2, HeadParked
<1>4. KeptBy(u) \subseteq {u.n}
  BY <1>3, SingleNames
<1>5. y.cache = z.cache /\ y.surf = Onto(z.surf, u) /\ y.gpu = z.gpu /\ y.late = z.late
  BY <1>1 DEF LocalSet, AdmitL
<1>6. Head(z.queue) \in Entry
  BY <1>2
<1>7. u \in Update
  BY <1>6 DEF Entry
<1>8. z.cache = NoUpdate
  BY DEF Ripe
<1> HIDE DEF u
<1>9. KeptBy(u) \cap z.late = {}
  BY <1>2, <1>4
<1>10. QED
  BY <1>5, <1>7, <1>8, <1>9, TakeRipe

LEMMA ApplyCacheRipe ==
    ASSUME NEW z, Sound(z), Ripe(z), NEW y, ApplyCacheL(z, y)
    PROVE  Ripe(y)
<1>1. z \in LocalSet
  BY Zenon DEF Sound
<1>2. z.cache = NoUpdate
  BY DEF Ripe
<1>3. y.cache = NoUpdate /\ y.surf = Onto(z.surf, NoUpdate) /\ y.gpu = z.gpu /\ y.late = z.late
  BY <1>1, <1>2 DEF LocalSet, ApplyCacheL
<1>4. NoUpdate \in Update /\ KeptBy(NoUpdate) \cap z.late = {}
  BY NoUpdateFits
<1>5. QED
  BY <1>3, <1>4, TakeRipe

\* Steps after which no more is held than before, and no more is late.
LEMMA LessRipe ==
    ASSUME NEW z, Sound(z), Ripe(z), NEW y,
           \/ z = y \/ TimeL(z, y) \/ DieL(z, y) \/ SubDieL(z, y)
           \/ FrameL(z, y) \/ FenceL(z, y) \/ FlipL(z, y) \/ ReadyL(z, y)
    PROVE  Ripe(y)
<1>1. z \in LocalSet
  BY Zenon DEF Sound
<1>2. z.surf \in Surface
  BY <1>1 DEF LocalSet
<1>3. ASSUME y.cache = NoUpdate, y.late \subseteq z.late,
             HeldBy(y.surf) \cup y.gpu \subseteq HeldBy(z.surf) \cup z.gpu
      PROVE  Ripe(y)
  BY <1>3 DEF Ripe
<1>4. z.cache = NoUpdate
  BY DEF Ripe
<1>5. CASE z = y
  BY <1>5, Zenon
<1>6. CASE TimeL(z, y)
  <2>1. y.cache = z.cache /\ y.surf = z.surf /\ y.gpu = z.gpu /\ y.late = z.late
    BY <1>1, <1>6 DEF LocalSet, TimeL
  <2>2. QED
    BY <1>3, <1>4, <2>1
<1>7. CASE DieL(z, y)
  <2>1. PICK f \in Surface :
          /\ f = [z.surf EXCEPT !.attach = "null", !.held = FALSE, !.owed = {}]
          /\ y = [z EXCEPT !.alive = FALSE, !.surf = f, !.queue = <<>>,
                           !.back = @ \cup ParkedBuffers(z.queue) \cup Freed(z, f),
                           !.lost = @ \cup z.surf.owed \cup ParkedFrames(z.queue)]
    BY <1>7, Zenon DEF DieL
  <2>2. f.held = FALSE
    BY <1>2, <2>1 DEF Surface
  <2>3. HeldBy(f) = {}
    BY <2>2, Zenon DEF HeldBy
  <2>4. y.cache = z.cache /\ y.surf = f /\ y.gpu = z.gpu /\ y.late = z.late
    BY <1>1, <2>1 DEF LocalSet
  <2>5. QED
    BY <1>3, <1>4, <2>3, <2>4
<1>8. CASE SubDieL(z, y)
  <2>1. y.cache = NoUpdate /\ y.surf = z.surf /\ y.gpu = z.gpu /\ y.late = z.late
    BY <1>1, <1>8 DEF LocalSet, SubDieL
  <2>2. QED
    BY <1>3, <2>1
<1>9. CASE FrameL(z, y)
  <2>1. PICK f \in Surface, gpu \in SUBSET HeldBy(z.surf) :
          /\ f = z.surf \/ f = [z.surf EXCEPT !.held = FALSE]
          /\ y = [z EXCEPT !.surf = f, !.gpu = gpu]
    BY <1>9, Zenon DEF FrameL
  <2>2. HeldBy(f) \subseteq HeldBy(z.surf)
    <3>1. CASE f = z.surf
      BY <3>1
    <3>2. CASE f = [z.surf EXCEPT !.held = FALSE]
      <4>1. f.held = FALSE
        BY <1>2, <3>2 DEF Surface
      <4>2. HeldBy(f) = {}
        BY <4>1, Zenon DEF HeldBy
      <4>3. QED
        BY <4>2
    <3>3. QED
      BY <2>1, <3>1, <3>2
  <2>3. y.cache = z.cache /\ y.surf = f /\ y.gpu = gpu /\ y.late = z.late
    BY <1>1, <2>1 DEF LocalSet
  <2>4. QED
    BY <1>3, <1>4, <2>1, <2>2, <2>3
<1>10. CASE FenceL(z, y)
  <2>1. y.cache = z.cache /\ y.surf = z.surf /\ y.gpu = {} /\ y.late = z.late
    BY <1>1, <1>10 DEF LocalSet, FenceL
  <2>2. QED
    BY <1>3, <1>4, <2>1
<1>11. CASE FlipL(z, y)
  <2>1. PICK f \in Surface :
          f = [z.surf EXCEPT !.owed = {}] /\ y = [z EXCEPT !.surf = f, !.done = @ \cup z.surf.owed]
    BY <1>11, Zenon DEF FlipL
  <2>2. f.held = z.surf.held /\ f.from = z.surf.from
    BY <1>2, <2>1 DEF Surface
  <2>3. HeldBy(f) = HeldBy(z.surf)
    BY <2>2, Zenon DEF HeldBy
  <2>4. y.cache = z.cache /\ y.surf = f /\ y.gpu = z.gpu /\ y.late = z.late
    BY <1>1, <2>1 DEF LocalSet
  <2>5. QED
    BY <1>3, <1>4, <2>3, <2>4
<1>12. CASE ReadyL(z, y)
  <2>1. PICK n \in Nat : y = [z EXCEPT !.late = @ \ {n}]
    BY <1>12, Zenon DEF ReadyL
  <2>2. y.cache = z.cache /\ y.surf = z.surf /\ y.gpu = z.gpu /\ y.late = z.late \ {n}
    BY <1>1, <2>1 DEF LocalSet
  <2>3. QED
    BY <1>3, <1>4, <2>2
<1>13. QED
  BY <1>5, <1>6, <1>7, <1>8, <1>9, <1>10, <1>11, <1>12

LEMMA LocalRipe ==
    ASSUME NEW d \in Surfaces, d \notin Subs, NEW z, Sound(z), Ripe(z), NEW y, LocalStep(d, z, y)
    PROVE  Ripe(y)
<1>1. ~CacheL(d, z, y)
  BY Zenon DEF CacheL
<1>2. QED
  BY <1>1, ParkRipe, NowRipe, AdmitRipe, ApplyCacheRipe, LessRipe, Zenon DEF LocalStep

\* Only a commit with an acquire point makes a buffer late.
LEMMA LocalPrompt ==
    ASSUME NEW d \in Surfaces, \A a \in Updates[d] : ~a.late,
           NEW z \in LocalSet, z.late = {}, NEW y, LocalStep(d, z, y)
    PROVE  y.late = {}
<1>1. ASSUME NEW u, NEW late, NewUpdate(d, z, u, late) PROVE late = {}
  BY <1>1, Zenon DEF NewUpdate
<1>2. CASE CacheL(d, z, y)
  <2>1. PICK u \in Update, late \in SUBSET {z.last + 1} :
          NewUpdate(d, z, u, late) /\ y.late = z.late \cup late
    BY <1>2 DEF CacheL, LocalSet
  <2>2. QED
    BY <1>1, <2>1
<1>3. CASE ParkL(d, z, y)
  <2>1. PICK u \in Update, e \in Entry, late \in SUBSET {z.last + 1} :
          NewUpdate(d, z, u, late) /\ y.late = z.late \cup late
    BY <1>3 DEF ParkL, LocalSet
  <2>2. QED
    BY <1>1, <2>1
<1>4. CASE NowL(d, z, y) \/ ApplyCacheL(z, y) \/ AdmitL(z, y) \/ TimeL(z, y)
  BY <1>4 DEF NowL, ApplyCacheL, AdmitL, TimeL, LocalSet
<1>5. CASE DieL(z, y) \/ SubDieL(z, y) \/ FrameL(z, y)
  BY <1>5 DEF DieL, SubDieL, FrameL, LocalSet
<1>6. CASE FenceL(z, y) \/ FlipL(z, y) \/ ReadyL(z, y)
  BY <1>6 DEF FenceL, FlipL, ReadyL, LocalSet
<1>7. QED
  BY <1>2, <1>3, <1>4, <1>5, <1>6, Zenon DEF LocalStep

LEMMA InitRipe ==
    ASSUME SCInit, NEW d \in Surfaces
    PROVE  Ripe(Local(d)) /\ Local(d).late = {}
<1>1. Local(d).surf = surf[d] /\ Local(d).cache = NoUpdate
      /\ Local(d).gpu = {} /\ Local(d).late = {}
  BY DEF Local, SCInit, At
<1>2. QED
  BY <1>1 DEF Ripe

\* What a frame samples before its time, by the surfaces it is of.
LEMMA EarlySamples ==
    ASSUME Typed, NEW b \in frame.held \cap unready
    PROVE  b[1] \in Surfaces /\ b[2] \in Local(b[1]).gpu /\ b[2] \in Local(b[1]).late
<1>1. PICK d \in Surfaces, n \in Nat : b = <<d, n>>
  BY DEF Typed, Names
<1>2. n \in At(frame.held, d) /\ n \in At(unready, d)
  BY <1>1 DEF At
<1>3. Local(d).gpu = At(frame.held, d) /\ Local(d).late = At(unready, d)
  BY DEF Local
<1>4. QED
  BY <1>1, <1>2, <1>3

RootsRipe == \A r \in Roots : Ripe(Local(r))

(* The frame in flight samples no buffer of a window's own surface before  *)
(* its acquire point has materialized: what it may sample early is only of *)
(* subsurfaces, whose commits do not wait while they are synchronized.     *)
THEOREM RootSamplesAreReady == SCSpec => [](\A b \in frame.held \cap unready : b[1] \in Subs)
<1>1. SCInit => RootsRipe
  BY InitRipe DEF RootsRipe, Roots
<1>2. LocallyKept /\ RootsRipe /\ [SCNext]_vars => RootsRipe'
  <2> SUFFICES ASSUME LocallyKept, RootsRipe, [SCNext]_vars PROVE RootsRipe'
    OBVIOUS
  <2>1. ASSUME NEW r \in Roots PROVE Ripe(Local(r)')
    <3>1. r \in Surfaces /\ r \notin Subs
      BY <2>1 DEF Roots
    <3>2. Typed /\ Sound(Local(r)) /\ Ripe(Local(r))
      BY <2>1, <3>1 DEF LocallyKept, RootsRipe
    <3>3. LocalStep(r, Local(r), Local(r)')
      BY <3>1, <3>2, NextLocal
    <3>4. QED
      BY <3>1, <3>2, <3>3, LocalRipe
  <2>2. QED
    BY <2>1 DEF RootsRipe, Ripe
<1>3. ASSUME LocallyKept, RootsRipe, NEW b \in frame.held \cap unready PROVE b[1] \in Subs
  <2>1. b[1] \in Surfaces /\ b[2] \in Local(b[1]).gpu /\ b[2] \in Local(b[1]).late
    BY <1>3, EarlySamples DEF LocallyKept
  <2>2. ~Ripe(Local(b[1]))
    BY <2>1 DEF Ripe
  <2>3. QED
    BY <1>3, <2>1, <2>2 DEF RootsRipe, Roots
<1>4. LocallyKept /\ RootsRipe => \A b \in frame.held \cap unready : b[1] \in Subs
  BY <1>3
<1>5. QED
  BY <1>1, <1>2, <1>4, LocallySound, PTL DEF SCSpec

NoSubIsLate == \A s \in Subs : Local(s).late = {}

(* The GPU samples no buffer before its acquire point has materialized     *)
(* when clients use explicit synchronization for windows only, as a commit *)
(* into the cache of a subsurface does not wait.                           *)
THEOREM SamplesAreReady ==
    ASSUME \A s \in Subs : \A a \in Updates[s] : ~a.late
    PROVE  SCSpec => []SampledReady
<1>1. SCInit => NoSubIsLate
  BY InitRipe DEF NoSubIsLate, Subs
<1>2. LocallyKept /\ NoSubIsLate /\ [SCNext]_vars => NoSubIsLate'
  <2> SUFFICES ASSUME LocallyKept, NoSubIsLate, [SCNext]_vars PROVE NoSubIsLate'
    OBVIOUS
  <2>1. ASSUME NEW s \in Subs PROVE Local(s)'.late = {}
    <3>1. s \in Surfaces /\ \A a \in Updates[s] : ~a.late
      BY <2>1 DEF Subs
    <3>2. Typed /\ Local(s) \in LocalSet /\ Local(s).late = {}
      BY <2>1, <3>1 DEF LocallyKept, Sound, NoSubIsLate
    <3>3. LocalStep(s, Local(s), Local(s)')
      BY <3>1, <3>2, NextLocal
    <3>4. QED
      BY <3>1, <3>2, <3>3, LocalPrompt
  <2>2. QED
    BY <2>1 DEF NoSubIsLate
<1>3. ASSUME LocallyKept, NoSubIsLate, NEW b \in frame.held \cap unready PROVE b[1] \notin Subs
  <2>1. b[2] \in Local(b[1]).late
    BY <1>3, EarlySamples DEF LocallyKept
  <2>2. QED
    BY <1>3, <2>1 DEF NoSubIsLate
<1>4. LocallyKept /\ NoSubIsLate => \A b \in frame.held \cap unready : b[1] \notin Subs
  BY <1>3
<1>5. SCSpec => [](\A b \in frame.held \cap unready : b[1] \notin Subs)
  BY <1>1, <1>2, <1>4, LocallySound, PTL DEF SCSpec
<1>6. /\ \A b \in frame.held \cap unready : b[1] \notin Subs
      /\ \A b \in frame.held \cap unready : b[1] \in Subs
      => SampledReady
  BY DEF SampledReady
<1>7. QED
  BY <1>5, <1>6, RootSamplesAreReady, PTL
-----------------------------------------------------------------------------
(* One level of subsurfaces *)

(* Subsurfaces of windows, none of subsurfaces.                            *)
TwoLevels == \A s \in Subs : Parent[s] \in Roots

LEMMA TwoLong ==
    ASSUME NEW x, NEW p
    PROVE  <<x>> \o <<p>> = <<x, p>>
<1>1. <<x>> \in Seq({x, p}) /\ p \in {x, p}
  OBVIOUS
<1>2. <<x>> \o <<p>> = Append(<<x>>, p)
  BY <1>1, AppendIsConcat
<1>3. Append(<<x>>, p) = <<x, p>>
  <2>1. /\ Append(<<x>>, p) \in Seq({x, p}) /\ <<x, p>> \in Seq({x, p})
        /\ Len(Append(<<x>>, p)) = 2 /\ Len(<<x, p>>) = 2
        /\ Append(<<x>>, p)[1] = x /\ Append(<<x>>, p)[2] = p
    BY <1>1, AppendProperties
  <2>2. \A i \in 1 .. Len(<<x, p>>) : Append(<<x>>, p)[i] = <<x, p>>[i]
    BY <2>1
  <2>3. QED
    BY <2>1, <2>2, SeqEqual
<1>4. QED
  BY <1>2, <1>3

LEMMA LineIs ==
    ASSUME TwoLevels, NEW s \in Surfaces
    PROVE  Line[s] = IF Parent[s] = NoParent THEN <<s>> ELSE <<s, Parent[s]>>
<1> DEFINE Eq(f) == f = [x \in Surfaces |-> IF Parent[x] = NoParent THEN <<x>>
                                            ELSE <<x>> \o f[Parent[x]]]
           g == [x \in Surfaces |-> IF Parent[x] = NoParent THEN <<x>> ELSE <<x, Parent[x]>>]
<1>1. \A x \in Surfaces : Parent[x] # NoParent =>
         Parent[x] \in Surfaces /\ Parent[Parent[x]] = NoParent
  BY DEF TwoLevels, Subs, Roots
<1>2. ASSUME NEW x \in Surfaces, Parent[x] # NoParent PROVE <<x>> \o g[Parent[x]] = <<x, Parent[x]>>
  <2>1. g[Parent[x]] = <<Parent[x]>>
    BY <1>1, <1>2
  <2> HIDE DEF g
  <2>2. QED
    BY <2>1, TwoLong, Zenon
<1>3. Eq(g)
  BY <1>2
<1>4. Line = CHOOSE f : Eq(f)
  BY DEF Line
<1> HIDE DEF Eq
<1>5. Eq(Line)
  BY <1>3, <1>4
<1>6. \A x \in Surfaces : Line[x] = IF Parent[x] = NoParent THEN <<x>> ELSE <<x>> \o Line[Parent[x]]
  BY <1>5 DEF Eq
<1>7. CASE Parent[s] = NoParent
  BY <1>6, <1>7
<1>8. CASE Parent[s] # NoParent
  <2>1. Line[Parent[s]] = <<Parent[s]>>
    BY <1>1, <1>6, <1>8
  <2>2. Line[s] = <<s>> \o Line[Parent[s]]
    BY <1>6, <1>8
  <2>3. Line[s] = <<s, Parent[s]>>
    BY <2>1, <2>2, TwoLong
  <2>4. QED
    BY <1>8, <2>3
<1>9. QED
  BY <1>7, <1>8

LEMMA ChainIs ==
    ASSUME TwoLevels, NEW s \in Surfaces
    PROVE  Chain(s) = IF s \in Subs /\ Linked(s) THEN {s, Parent[s]} ELSE {s}
<1>1. CASE s \notin Subs
  <2>1. Line[s] = <<s>>
    BY <1>1, LineIs DEF Subs
  <2>2. Chain(s) = {s}
    BY <2>1 DEF Chain
  <2>3. QED
    BY <1>1, <2>2
<1>2. CASE s \in Subs
  <2>1. Line[s] = <<s, Parent[s]>>
    BY <1>2, LineIs DEF Subs
  <2> DEFINE L == Line[s]
             I == {i \in DOMAIN L : \A j \in 1 .. (i - 1) : Linked(L[j])}
  <2>2. DOMAIN L = {1, 2} /\ L[1] = s /\ L[2] = Parent[s]
    BY <2>1
  <2>3. Chain(s) = {L[i] : i \in I}
    BY DEF Chain
  <2> HIDE DEF L
  <2>4. 1 \in I /\ (2 \in I <=> Linked(s))
    BY <2>2
  <2>5. I \subseteq {1, 2}
    BY <2>2
  <2> HIDE DEF I
  <2>6. QED
    BY <1>2, <2>2, <2>3, <2>4, <2>5
<1>3. QED
  BY <1>1, <1>2

\* A subsurface is synchronized by its own flag, and a window's commit
\* takes along its synchronized subsurfaces.
LEMMA TreeIs ==
    ASSUME TwoLevels, Typed, NEW s \in Surfaces
    PROVE  /\ s \in Chain(s)
           /\ EffectiveSync(s) <=> s \in subs /\ sync[s]
           /\ ToCache(s) <=> s \in subs /\ sync[s]
           /\ \A d \in Surfaces : d \in SyncTree(s) <=>
                 d \in Subs /\ Linked(d) /\ Parent[d] = s /\ sync[d]
<1>1. \A d \in Surfaces : Chain(d) = IF d \in Subs /\ Linked(d) THEN {d, Parent[d]} ELSE {d}
  BY ChainIs
<1>2. subs \subseteq Subs /\ \A d \in Subs : Parent[d] \notin Subs /\ Parent[d] \in Surfaces
  BY DEF Typed, TwoLevels, Roots
<1>3. s \in Chain(s)
  BY <1>1
<1>4. EffectiveSync(s) <=> s \in subs /\ sync[s]
  <2>1. Chain(s) \cap subs = {s} \cap subs
    BY <1>1, <1>2
  <2>2. QED
    BY <2>1 DEF EffectiveSync
<1>5. ASSUME NEW d \in Surfaces
      PROVE  d \in SyncTree(s) <=> d \in Subs /\ Linked(d) /\ Parent[d] = s /\ sync[d]
  <2>1. ASSUME d \in SyncTree(s) PROVE d \in Subs /\ Linked(d) /\ Parent[d] = s /\ sync[d]
    <3>1. d # s /\ s \in Chain(d) /\ \A m \in Chain(d) \ Chain(s) : sync[m]
      BY <2>1 DEF SyncTree
    <3>2. d \in Subs /\ Linked(d) /\ Parent[d] = s
      BY <1>1, <3>1
    <3>3. Chain(s) = {s}
      BY <1>1, <1>2, <3>2
    <3>4. d \in Chain(d) \ Chain(s)
      BY <1>1, <3>1, <3>3
    <3>5. QED
      BY <3>1, <3>2, <3>4
  <2>2. ASSUME d \in Subs, Linked(d), Parent[d] = s, sync[d] PROVE d \in SyncTree(s)
    <3>1. Chain(d) = {d, s} /\ Chain(s) = {s} /\ d # s
      BY <1>1, <1>2, <2>2
    <3>2. QED
      BY <2>2, <3>1 DEF SyncTree
  <2>3. QED
    BY <2>1, <2>2
<1>6. QED
  BY <1>3, <1>4, <1>5 DEF ToCache
-----------------------------------------------------------------------------
(* Caches *)

Tidy == \A s \in Surfaces : cache[s].n # 0 => s \in subs /\ sync[s]

LEMMA ClearTidy ==
    ASSUME Typed, Tidy, NEW s \in Surfaces, NEW u \in Update, NEW ds, NEW more,
           ApplyAll(s, u, ds, more), subs' = subs, sync' = sync
    PROVE  Tidy'
<1>1. ASSUME NEW d \in Surfaces, cache'[d].n # 0 PROVE d \in subs' /\ sync'[d]
  <2>1. cache'[d] = IF d \in ds THEN NoUpdate ELSE cache[d]
    BY <1>1, ApplyAllStep
  <2>2. NoUpdate.n = 0
    BY DEF NoUpdate
  <2>3. cache[d].n # 0
    BY <1>1, <2>1, <2>2
  <2>4. QED
    BY <1>1, <2>3 DEF Tidy
<1>2. QED
  BY <1>1 DEF Tidy

LEMMA QuietTidy ==
    ASSUME Tidy, cache' = cache, subs' = subs, sync' = sync
    PROVE  Tidy'
BY DEF Tidy

LEMMA NextTidy ==
    ASSUME TwoLevels, Typed, Tidy, [SCNext]_vars
    PROVE  Tidy'
<1>1. CASE UNCHANGED vars
  BY <1>1, QuietTidy DEF vars
<1>2. ASSUME NEW s \in Surfaces, NEW a, CommitCached(s, a) PROVE Tidy'
  <2>1. /\ ToCache(s) /\ cache' = [cache EXCEPT ![s] = Merge(cache[s], Committed(s, a))]
        /\ subs' = subs /\ sync' = sync
    BY <1>2 DEF CommitCached, Commits
  <2>2. s \in subs /\ sync[s]
    BY <2>1, TreeIs
  <2>3. cache \in [Surfaces -> Update]
    BY DEF Typed
  <2>4. \A d \in Surfaces : d # s => cache'[d] = cache[d]
    BY <2>1, <2>3
  <2>5. QED
    BY <2>1, <2>2, <2>4 DEF Tidy
<1>3. ASSUME NEW s \in Surfaces, NEW a, CommitParked(s, a) PROVE Tidy'
  BY <1>3, QuietTidy DEF CommitParked, Commits
<1>4. ASSUME NEW s \in Surfaces, NEW a, CommitApplied(s, a) PROVE Tidy'
  <2>1. /\ ApplyAll(s, Committed(s, a), SyncTree(s), AtOnce(s, a)) /\ Commits(s, a)
        /\ subs' = subs /\ sync' = sync
    BY <1>4 DEF CommitApplied, Commits
  <2>2. Committed(s, a) \in Update
    BY <2>1, CommitFacts
  <2>3. QED
    BY <2>1, <2>2, ClearTidy
<1>5. ASSUME NEW s \in Surfaces, DestroySurface(s) PROVE Tidy'
  BY <1>5, QuietTidy DEF DestroySurface
<1>6. ASSUME NEW s \in Subs, SetSync(s) PROVE Tidy'
  <2>1. cache' = cache /\ subs' = subs /\ sync' = [sync EXCEPT ![s] = TRUE]
    BY <1>6 DEF SetSync
  <2>2. \A d \in Surfaces : sync[d] => sync'[d]
    BY <2>1 DEF Typed
  <2>3. QED
    BY <2>1, <2>2 DEF Tidy
<1>7. ASSUME NEW s \in Subs, SetDesync(s) PROVE Tidy'
  <2>1. s \in Surfaces /\ s \in subs /\ subs' = subs /\ sync' = [sync EXCEPT ![s] = FALSE]
    BY <1>7 DEF SetDesync, Subs
  <2>2. ~ \E m \in (Chain(s) \cap subs) \ {s} : sync[m]
    <3>1. Chain(s) \subseteq {s, Parent[s]} /\ Parent[s] \notin subs
      BY <1>7, <2>1, ChainIs DEF Typed, TwoLevels, Roots
    <3>2. QED
      BY <3>1
  <2>3. ApplyAll(s, cache[s], SyncTree(s) \cup {s}, {})
    BY <1>7, <2>2 DEF SetDesync
  <2>4. cache[s] \in Update
    BY <2>1 DEF Typed
  <2>5. ASSUME NEW d \in Surfaces, cache'[d].n # 0 PROVE d \in subs' /\ sync'[d]
    <3>1. cache'[d] = IF d \in SyncTree(s) \cup {s} THEN NoUpdate ELSE cache[d]
      BY <2>1, <2>3, <2>4, ApplyAllStep
    <3>2. d # s /\ cache[d].n # 0
      BY <2>5, <3>1 DEF NoUpdate
    <3>3. sync'[d] = sync[d]
      BY <2>1, <3>2 DEF Typed
    <3>4. QED
      BY <2>1, <3>2, <3>3 DEF Tidy
  <2>6. QED
    BY <2>5 DEF Tidy
<1>8. ASSUME NEW s \in Subs, DestroySubsurface(s) PROVE Tidy'
  <2>1. subs' = subs \ {s} /\ sync' = sync /\ cache' = [cache EXCEPT ![s] = NoUpdate]
    BY <1>8 DEF DestroySubsurface
  <2>2. \A d \in Surfaces : cache'[d] = IF d = s THEN NoUpdate ELSE cache[d]
    BY <2>1 DEF Typed
  <2>3. NoUpdate.n = 0
    BY DEF NoUpdate
  <2>4. QED
    BY <2>1, <2>2, <2>3 DEF Tidy
<1>9. ASSUME NEW r \in Roots, AckConfigure(r) \/ Minimize(r) PROVE Tidy'
  BY <1>9, QuietTidy DEF AckConfigure, Minimize
<1>10. ASSUME RenderFrame \/ FrameDeferred \/ FenceRetires \/ FlipDone PROVE Tidy'
  BY <1>10, QuietTidy DEF RenderFrame, FrameDeferred, FenceRetires, FlipDone
<1>11. ASSUME BeginDrain \/ EndDrain \/ SyncEvent PROVE Tidy'
  BY <1>11, QuietTidy DEF BeginDrain, EndDrain, SyncEvent
<1>12. ASSUME Admit PROVE Tidy'
  <2>1. PICK s \in Surfaces : s = Draining
    BY <1>12, DrainingIsLeft DEF Admit
  <2>2. /\ queue[s] # <<>> /\ ApplyAll(s, Head(queue[s]).u, SyncTree(s), {})
        /\ subs' = subs /\ sync' = sync
    BY <1>12, <2>1, Zenon DEF Admit, MayAdmit
  <2>3. queue[s] \in Seq(Entry)
    BY DEF Typed
  <2>4. Head(queue[s]) \in Entry
    BY <2>2, <2>3
  <2>5. Head(queue[s]).u \in Update
    BY <2>4 DEF Entry
  <2>6. QED
    BY <2>2, <2>5, ClearTidy
<1>13. ASSUME NEW s \in Surfaces, NEW i \in DOMAIN queue[s], TimePasses(s, i) PROVE Tidy'
  BY <1>13, QuietTidy DEF TimePasses
<1>14. ASSUME NEW b \in unready, Materialize(b) PROVE Tidy'
  BY <1>14, QuietTidy DEF Materialize
<1>15. QED
  BY <1>1, <1>2, <1>3, <1>4, <1>5, <1>6, <1>7, <1>8, <1>9, <1>10, <1>11, <1>12, <1>13, <1>14,
     Zenon DEF SCNext, Commit, Drain

(* With one level of subsurfaces an update is kept in a cache only while   *)
(* the subsurface is synchronized, so that its parent's next commit, or    *)
(* set_desync, applies it: whatever is committed, parked and destroyed     *)
(* meanwhile.                                                              *)
THEOREM NoCacheIsStranded == ASSUME TwoLevels PROVE SCSpec => []NoStrandedCache
<1>1. SCInit => Tidy
  BY DEF SCInit, Tidy, NoUpdate
<1>2. Typed /\ Tidy /\ [SCNext]_vars => Tidy'
  BY NextTidy
<1>3. ASSUME Typed, Tidy PROVE NoStrandedCache
  <2>1. ASSUME NEW s \in alive, cache[s].n # 0 PROVE ToCache(s)
    <3>1. s \in Surfaces
      BY <1>3, <2>1 DEF Typed
    <3>2. QED
      BY <1>3, <2>1, <3>1, TreeIs DEF Tidy
  <2>2. QED
    BY <2>1 DEF NoStrandedCache
<1>4. LocallyKept => Typed
  BY DEF LocallyKept
<1>5. QED
  BY <1>1, <1>2, <1>3, <1>4, LocallySound, PTL DEF SCSpec
-----------------------------------------------------------------------------
(* Parked updates, as long as set_sync waits for them *)

Parted == \A s \in Surfaces : s \in subs /\ sync[s] => queue[s] = <<>>

LEMMA QuietParted ==
    ASSUME Parted, queue' = queue, subs' = subs, sync' = sync
    PROVE  Parted'
BY DEF Parted

LEMMA NextParted ==
    ASSUME TwoLevels, ~SyncWhileParked, Typed, Parted, [SCNext]_vars
    PROVE  Parted'
<1>0. queue \in [Surfaces -> Seq(Entry)]
  BY DEF Typed
<1>1. CASE UNCHANGED vars
  BY <1>1, QuietParted DEF vars
<1>2. ASSUME NEW s \in Surfaces, NEW a, CommitCached(s, a) \/ CommitApplied(s, a) PROVE Parted'
  BY <1>2, QuietParted DEF CommitCached, CommitApplied, Commits
<1>3. ASSUME NEW s \in Surfaces, NEW a, CommitParked(s, a) PROVE Parted'
  <2> DEFINE e == [u |-> Committed(s, a), set |-> a.set, wait |-> a.wait, timed |-> a.timed]
  <2>1. ~ToCache(s) /\ queue' = [queue EXCEPT ![s] = Append(@, e)] /\ subs' = subs /\ sync' = sync
    BY <1>3 DEF CommitParked, Commits
  <2>2. ~(s \in subs /\ sync[s])
    BY <2>1, TreeIs
  <2> HIDE DEF e
  <2>3. \A d \in Surfaces : d # s => queue'[d] = queue[d]
    BY <1>0, <2>1
  <2>4. QED
    BY <2>1, <2>2, <2>3 DEF Parted
<1>4. ASSUME NEW s \in Surfaces, DestroySurface(s) PROVE Parted'
  <2>1. queue' = [queue EXCEPT ![s] = <<>>] /\ subs' = subs /\ sync' = sync
    BY <1>4 DEF DestroySurface
  <2>2. \A d \in Surfaces : queue'[d] = IF d = s THEN <<>> ELSE queue[d]
    BY <1>0, <2>1
  <2>3. QED
    BY <2>1, <2>2 DEF Parted
<1>5. ASSUME NEW s \in Subs, SetSync(s) PROVE Parted'
  <2>1. /\ queue' = queue /\ subs' = subs /\ sync' = [sync EXCEPT ![s] = TRUE]
        /\ \A d \in Surfaces : s \in Chain(d) => queue[d] = <<>>
    BY <1>5 DEF SetSync
  <2>2. queue[s] = <<>>
    BY <1>5, <2>1, TreeIs DEF Subs
  <2>3. \A d \in Surfaces : d # s => sync'[d] = sync[d]
    BY <2>1 DEF Typed
  <2>4. QED
    BY <2>1, <2>2, <2>3 DEF Parted
<1>6. ASSUME NEW s \in Subs, SetDesync(s) PROVE Parted'
  <2>1. queue' = queue /\ subs' = subs /\ sync' = [sync EXCEPT ![s] = FALSE]
    BY <1>6 DEF SetDesync
  <2>2. \A d \in Surfaces : sync'[d] => sync[d]
    BY <2>1 DEF Typed
  <2>3. QED
    BY <2>1, <2>2 DEF Parted
<1>7. ASSUME NEW s \in Subs, DestroySubsurface(s) PROVE Parted'
  BY <1>7 DEF DestroySubsurface, Parted
<1>8. ASSUME NEW r \in Roots, AckConfigure(r) \/ Minimize(r) PROVE Parted'
  BY <1>8, QuietParted DEF AckConfigure, Minimize
<1>9. ASSUME RenderFrame \/ FrameDeferred \/ FenceRetires \/ FlipDone PROVE Parted'
  BY <1>9, QuietParted DEF RenderFrame, FrameDeferred, FenceRetires, FlipDone
<1>10. ASSUME BeginDrain \/ EndDrain \/ SyncEvent PROVE Parted'
  BY <1>10, QuietParted DEF BeginDrain, EndDrain, SyncEvent
<1>11. ASSUME Admit PROVE Parted'
  <2>1. PICK s \in Surfaces : s = Draining
    BY <1>11, DrainingIsLeft DEF Admit
  <2>2. /\ queue[s] # <<>> /\ queue' = [queue EXCEPT ![s] = Tail(queue[s])]
        /\ subs' = subs /\ sync' = sync
    BY <1>11, <2>1, Zenon DEF Admit, MayAdmit
  <2>3. \A d \in Surfaces : d # s => queue'[d] = queue[d]
    BY <1>0, <2>2
  <2>4. QED
    BY <2>2, <2>3 DEF Parted
<1>12. ASSUME NEW s \in Surfaces, NEW i \in DOMAIN queue[s], TimePasses(s, i) PROVE Parted'
  <2>1. queue' = [queue EXCEPT ![s] = [queue[s] EXCEPT ![i].timed = FALSE]]
        /\ subs' = subs /\ sync' = sync
    BY <1>12 DEF TimePasses
  <2>2. queue[s] # <<>>
    BY <1>12
  <2>3. \A d \in Surfaces : d # s => queue'[d] = queue[d]
    BY <1>0, <2>1
  <2>4. QED
    BY <2>1, <2>2, <2>3 DEF Parted
<1>13. ASSUME NEW b \in unready, Materialize(b) PROVE Parted'
  BY <1>13, QuietParted DEF Materialize
<1>14. QED
  BY <1>1, <1>2, <1>3, <1>4, <1>5, <1>6, <1>7, <1>8, <1>9, <1>10, <1>11, <1>12, <1>13,
     Zenon DEF SCNext, Commit, Drain

(* Parked updates are newer than the surface's state.                      *)
Ahead(z) == \A i \in DOMAIN z.queue : z.surf.n < z.queue[i].u.n

Free(z) == z.queue = <<>> \/ z.cache.n = 0

LEMMA FreeNow ==
    ASSUME Tidy, Parted, NEW d \in Surfaces
    PROVE  Free(Local(d))
<1>1. Local(d).queue = queue[d] /\ Local(d).cache = cache[d]
  BY DEF Local
<1>2. queue[d] = <<>> \/ cache[d].n = 0
  BY DEF Tidy, Parted
<1>3. QED
  BY <1>1, <1>2 DEF Free

LEMMA LocalAhead ==
    ASSUME NEW d \in Surfaces, NEW z, Sound(z), Ahead(z), Free(z), NEW y, LocalStep(d, z, y)
    PROVE  Ahead(y)
<1>1. z \in LocalSet /\ Numbered(z)
  BY Zenon DEF Sound
<1>2. /\ z.last \in Nat /\ z.surf \in Surface /\ z.queue \in Seq(Entry) /\ z.cache \in Update
      /\ InOrder(z.queue, z.last)
  BY <1>1 DEF LocalSet, Numbered
<1>3. z.surf.n \in Nat /\ z.surf.n <= z.last
  BY <1>1, <1>2 DEF Surface, Numbered
<1>4. ASSUME y.surf.n = z.surf.n, y.queue = z.queue PROVE Ahead(y)
  BY <1>4 DEF Ahead
<1>5. ASSUME y.queue = <<>> PROVE Ahead(y)
  BY <1>5 DEF Ahead
<1>6. CASE z = y
  BY <1>6
<1>7. CASE CacheL(d, z, y)
  <2>1. y.surf = z.surf /\ y.queue = z.queue
    BY <1>1, <1>7 DEF CacheL, LocalSet
  <2>2. QED
    BY <1>4, <2>1
<1>8. CASE ParkL(d, z, y)
  <2>1. PICK u \in Update, e \in Entry, late \in SUBSET {z.last + 1} :
          /\ NewUpdate(d, z, u, late) /\ e.u = u
          /\ y = [z EXCEPT !.last = @ + 1, !.given = @ \cup Brought(u), !.late = @ \cup late,
                           !.queue = Append(@, e), !.back = @ \cup Spared(u)]
    BY <1>8, Zenon DEF ParkL
  <2>2. y.surf = z.surf /\ y.queue = Append(z.queue, e)
    BY <1>1, <2>1 DEF LocalSet
  <2>3. e.u.n = z.last + 1
    BY <1>1, <2>1, NewNumber
  <2>4. /\ DOMAIN Append(z.queue, e) = DOMAIN z.queue \cup {Len(z.queue) + 1}
        /\ \A i \in DOMAIN z.queue : Append(z.queue, e)[i] = z.queue[i]
        /\ Append(z.queue, e)[Len(z.queue) + 1] = e
    BY <1>2, AppendProperties
  <2>5. z.surf.n < e.u.n
    BY <1>2, <1>3, <2>3
  <2>6. QED
    BY <2>2, <2>4, <2>5 DEF Ahead
<1>9. CASE NowL(d, z, y)
  <2>1. y.queue = <<>>
    BY <1>1, <1>9 DEF NowL, LocalSet
  <2>2. QED
    BY <1>5, <2>1
<1>10. CASE ApplyCacheL(z, y)
  <2>1. y.surf = Onto(z.surf, z.cache) /\ y.queue = z.queue
    BY <1>1, <1>10 DEF ApplyCacheL, LocalSet
  <2>2. Onto(z.surf, z.cache).n = IF z.cache.n = 0 THEN z.surf.n ELSE z.cache.n
    BY <1>2, OntoType
  <2>3. CASE z.queue = <<>>
    BY <1>5, <2>1, <2>3
  <2>4. CASE z.cache.n = 0
    BY <1>4, <2>1, <2>2, <2>4
  <2>5. QED
    BY <2>3, <2>4 DEF Free
<1>11. CASE AdmitL(z, y)
  <2> DEFINE q == z.queue
             u == Head(q).u
  <2>1. q # <<>> /\ y.surf = Onto(z.surf, u) /\ y.queue = Tail(q)
    BY <1>1, <1>11 DEF AdmitL, LocalSet
  <2>2. /\ Len(q) \in Nat /\ Len(q) > 0 /\ Head(q) = q[1]
        /\ DOMAIN q = 1 .. Len(q) /\ DOMAIN Tail(q) = 1 .. (Len(q) - 1)
        /\ \A i \in DOMAIN Tail(q) : Tail(q)[i] = q[i + 1]
    BY <1>2, <2>1
  <2>3. q[1] \in Entry
    BY <1>2, <2>2
  <2>4. u \in Update
    BY <2>2, <2>3 DEF Entry
  <2>5. Single(u)
    BY <1>2, <2>1, HeadParked
  <2>6. u.n \in Nat /\ u.n # 0
    BY <2>4, <2>5 DEF Update, Single
  <2>7. Onto(z.surf, u).n = u.n
    <3> HIDE DEF u
    <3>1. Onto(z.surf, u).n = IF u.n = 0 THEN z.surf.n ELSE u.n
      BY <1>2, <2>4, OntoType
    <3>2. QED
      BY <2>6, <3>1
  <2>8. ASSUME NEW i \in DOMAIN Tail(q) PROVE y.surf.n < Tail(q)[i].u.n
    <3>1. 1 \in DOMAIN q /\ i + 1 \in DOMAIN q /\ 1 < i + 1
      BY <2>2, <2>8
    <3>2. q[1].u.n < q[i + 1].u.n
      BY <1>2, <3>1 DEF InOrder
    <3>3. QED
      BY <2>1, <2>2, <2>7, <2>8, <3>2
  <2>9. QED
    BY <2>1, <2>8 DEF Ahead
<1>12. CASE TimeL(z, y)
  <2>1. PICK q \in Seq(Entry) :
          /\ DOMAIN q = DOMAIN z.queue /\ \A i \in DOMAIN q : q[i].u = z.queue[i].u
          /\ y = [z EXCEPT !.queue = q]
    BY <1>12, Zenon DEF TimeL
  <2>2. y.surf = z.surf /\ y.queue = q
    BY <1>1, <2>1 DEF LocalSet
  <2>3. QED
    BY <2>1, <2>2 DEF Ahead
<1>13. CASE DieL(z, y)
  <2>1. y.queue = <<>>
    BY <1>1, <1>13 DEF DieL, LocalSet
  <2>2. QED
    BY <1>5, <2>1
<1>14. CASE FrameL(z, y)
  <2>1. PICK f \in Surface, gpu \in SUBSET HeldBy(z.surf) :
          /\ f = z.surf \/ f = [z.surf EXCEPT !.held = FALSE]
          /\ y = [z EXCEPT !.surf = f, !.gpu = gpu]
    BY <1>14, Zenon DEF FrameL
  <2>2. f.n = z.surf.n
    BY <1>2, <2>1 DEF Surface
  <2>3. y.surf = f /\ y.queue = z.queue
    BY <1>1, <2>1 DEF LocalSet
  <2>4. QED
    BY <1>4, <2>2, <2>3
<1>15. CASE FlipL(z, y)
  <2>1. PICK f \in Surface :
          f = [z.surf EXCEPT !.owed = {}] /\ y = [z EXCEPT !.surf = f, !.done = @ \cup z.surf.owed]
    BY <1>15, Zenon DEF FlipL
  <2>2. f.n = z.surf.n
    BY <1>2, <2>1 DEF Surface
  <2>3. y.surf = f /\ y.queue = z.queue
    BY <1>1, <2>1 DEF LocalSet
  <2>4. QED
    BY <1>4, <2>2, <2>3
<1>16. CASE SubDieL(z, y) \/ FenceL(z, y) \/ ReadyL(z, y)
  <2>1. y.surf = z.surf /\ y.queue = z.queue
    BY <1>1, <1>16 DEF SubDieL, FenceL, ReadyL, LocalSet
  <2>2. QED
    BY <1>4, <2>1
<1>17. QED
  BY <1>6, <1>7, <1>8, <1>9, <1>10, <1>11, <1>12, <1>13, <1>14, <1>15, <1>16, Zenon DEF LocalStep

Orderly == LocallyKept /\ Tidy /\ Parted /\ \A d \in Surfaces : Ahead(Local(d))

LEMMA OrderlyKept ==
    ASSUME TwoLevels, ~SyncWhileParked
    PROVE  SCSpec => []Orderly
<1> DEFINE All == \A d \in Surfaces : Ahead(Local(d))
<1>1. SCInit => Tidy /\ Parted
  BY DEF SCInit, Tidy, Parted, NoUpdate
<1>2. SCInit => All
  <2>1. ASSUME SCInit, NEW d \in Surfaces PROVE Ahead(Local(d))
    <3>1. Local(d).queue = <<>>
      BY <2>1 DEF Local, SCInit
    <3>2. QED
      BY <3>1 DEF Ahead
  <2>2. QED
    BY <2>1
<1>3. LocallyKept /\ Tidy /\ Parted /\ [SCNext]_vars => Tidy' /\ Parted'
  BY NextTidy, NextParted DEF LocallyKept
<1>4. LocallyKept /\ Tidy /\ Parted /\ All /\ [SCNext]_vars => All'
  <2> SUFFICES ASSUME LocallyKept, Tidy, Parted, All, [SCNext]_vars PROVE All'
    OBVIOUS
  <2>1. ASSUME NEW d \in Surfaces PROVE Ahead(Local(d)')
    <3>1. Typed /\ Sound(Local(d)) /\ Ahead(Local(d))
      BY <2>1 DEF LocallyKept
    <3>2. LocalStep(d, Local(d), Local(d)') /\ Free(Local(d))
      BY <2>1, <3>1, NextLocal, FreeNow
    <3>3. QED
      BY <3>1, <3>2, LocalAhead
  <2>2. QED
    BY <2>1 DEF Ahead
<1>5. LocallyKept /\ Tidy /\ Parted /\ All => Orderly
  BY DEF Orderly
<1> HIDE DEF All
<1>6. QED
  BY <1>1, <1>2, <1>3, <1>4, <1>5, LocallySound, PTL DEF SCSpec

LEMMA SyncLater ==
    ASSUME TwoLevels, Typed', NEW s \in Subs, ~sync'[s]
    PROVE  ~EffectiveSync(s)'
<1>1. Line[s] = <<s, Parent[s]>>
  BY LineIs DEF Subs
<1>2. Chain(s)' \subseteq {s, Parent[s]}
  BY <1>1 DEF Chain
<1>3. Parent[s] \notin subs'
  BY DEF Typed, TwoLevels, Roots
<1>4. QED
  BY <1>2, <1>3 DEF EffectiveSync

\* Applying the update of a window and the caches of its subsurfaces.
LEMMA Together ==
    ASSUME TwoLevels, Typed, NEW s \in Subs, NEW x \in Surfaces, x # s, NEW u \in Update, u.n # 0,
           u.n # surf[x].n, NEW more, ApplyAll(x, u, SyncTree(x), more), surf'[s].n # surf[s].n
    PROVE  surf'[Parent[s]].n # surf[Parent[s]].n
<1>1. s \in Surfaces /\ surf[x] \in Surface
  BY DEF Subs, Typed
<1>2. surf'[s] = Applied(x, u, SyncTree(x), s) /\ surf'[x] = Applied(x, u, SyncTree(x), x)
  BY <1>1, ApplyAllStep
<1>3. s \in SyncTree(x)
  BY <1>2 DEF Applied
<1>4. Parent[s] = x
  BY <1>1, <1>3, TreeIs
<1>5. surf'[x] = Onto(surf[x], u)
  BY <1>2 DEF Applied
<1>6. surf'[x].n = u.n
  BY <1>1, <1>5, OntoType
<1>7. QED
  BY <1>4, <1>6

LEMMA NextTogether ==
    ASSUME TwoLevels, Orderly, [SCNext]_vars,
           NEW s \in Subs, EffectiveSync(s), Linked(s), surf'[s].n # surf[s].n
    PROVE  surf'[Parent[s]].n # surf[Parent[s]].n \/ ~EffectiveSync(s)'
<1>1. Typed /\ Typed' /\ s \in Surfaces
  BY NextTyped DEF Orderly, LocallyKept, Subs
<1>2. s \in subs /\ sync[s] /\ ToCache(s) /\ queue[s] = <<>>
  BY <1>1, TreeIs DEF Linked, Orderly, Parted
<1>3. surf \in [Surfaces -> Surface] /\ surf' # surf
  BY <1>1 DEF Typed
<1>4. CASE UNCHANGED vars
  BY <1>3, <1>4 DEF vars
<1>5. ASSUME NEW x \in Surfaces, NEW a, CommitCached(x, a) \/ CommitParked(x, a) PROVE FALSE
  BY <1>3, <1>5 DEF CommitCached, CommitParked, Become
<1>6. ASSUME NEW x \in Surfaces, NEW a, CommitApplied(x, a)
      PROVE  surf'[Parent[s]].n # surf[Parent[s]].n
  <2> DEFINE u == Committed(x, a)
  <2>1. ApplyAll(x, u, SyncTree(x), AtOnce(x, a)) /\ Commits(x, a) /\ ~ToCache(x)
    BY <1>6 DEF CommitApplied
  <2>2. u \in Update /\ u.n = last[x] + 1
    BY <1>1, <2>1, CommitFacts
  <2>3. last[x] \in Nat /\ surf[x].n <= last[x] /\ surf[x].n \in Nat
    <3>1. Numbered(Local(x)) /\ Local(x).surf = surf[x] /\ Local(x).last = last[x]
      BY DEF Local, Orderly, LocallyKept, Sound
    <3>2. last[x] \in Nat /\ surf[x].n \in Nat
      BY <1>1 DEF Typed, Surface
    <3>3. QED
      BY <3>1, <3>2 DEF Numbered
  <2>4. x # s
    BY <1>2, <2>1
  <2> HIDE DEF u
  <2>5. u.n # 0 /\ u.n # surf[x].n
    BY <2>2, <2>3
  <2>6. QED
    BY <1>1, <2>1, <2>2, <2>4, <2>5, Together
<1>7. ASSUME NEW x \in Surfaces, DestroySurface(x) PROVE FALSE
  <2>1. surf' = [surf EXCEPT ![x].attach = "null", ![x].held = FALSE, ![x].owed = {}]
    BY <1>7 DEF DestroySurface, Become
  <2>2. surf[s] \in Surface /\ surf[x] \in Surface
    BY <1>1, <1>3
  <2>3. surf'[s].n = surf[s].n
    BY <1>1, <1>3, <2>1, <2>2 DEF Surface
  <2>4. QED
    BY <2>3
<1>8. ASSUME NEW x \in Subs, SetDesync(x) PROVE ~EffectiveSync(s)'
  <2>1. /\ sync' = [sync EXCEPT ![x] = FALSE]
        /\ surf' = surf \/ ApplyAll(x, cache[x], SyncTree(x) \cup {x}, {})
    BY <1>8 DEF SetDesync
  <2>2. x \in Surfaces /\ cache[x] \in Update
    BY <1>1 DEF Subs, Typed
  <2>3. ApplyAll(x, cache[x], SyncTree(x) \cup {x}, {})
    BY <1>3, <2>1
  <2>4. surf'[s] = Applied(x, cache[x], SyncTree(x) \cup {x}, s)
    BY <1>1, <2>2, <2>3, ApplyAllStep
  <2>5. s = x \/ s \in SyncTree(x)
    BY <2>4 DEF Applied
  <2>6. s \notin SyncTree(x)
    BY <1>1, <2>2, TreeIs DEF TwoLevels, Roots
  <2>7. s = x
    BY <2>5, <2>6
  <2>8. ~sync'[s]
    BY <1>1, <2>1, <2>7 DEF Typed
  <2>9. QED
    BY <1>1, <2>8, SyncLater
<1>9. ASSUME NEW x \in Subs, SetSync(x) \/ DestroySubsurface(x) PROVE FALSE
  BY <1>3, <1>9 DEF SetSync, DestroySubsurface, Become
<1>10. ASSUME NEW r \in Roots, AckConfigure(r) \/ Minimize(r) PROVE FALSE
  BY <1>3, <1>10 DEF AckConfigure, Minimize
<1>11. ASSUME RenderFrame PROVE FALSE
  <2>1. surf' = [x \in Surfaces |-> IF x \in Copied THEN [surf[x] EXCEPT !.held = FALSE] ELSE surf[x]]
    BY <1>11 DEF RenderFrame
  <2>2. surf[s] \in Surface
    BY <1>1, <1>3
  <2>3. surf'[s].n = surf[s].n
    BY <1>1, <2>1, <2>2 DEF Surface
  <2>4. QED
    BY <2>3
<1>12. ASSUME FlipDone PROVE FALSE
  <2>1. surf' = [x \in Surfaces |-> IF Presented(x) THEN [surf[x] EXCEPT !.owed = {}] ELSE surf[x]]
    BY <1>12 DEF FlipDone
  <2>2. surf[s] \in Surface
    BY <1>1, <1>3
  <2>3. surf'[s].n = surf[s].n
    BY <1>1, <2>1, <2>2 DEF Surface
  <2>4. QED
    BY <2>3
<1>13. ASSUME FrameDeferred \/ FenceRetires \/ BeginDrain \/ EndDrain \/ SyncEvent PROVE FALSE
  BY <1>3, <1>13 DEF FrameDeferred, FenceRetires, BeginDrain, EndDrain, SyncEvent
<1>14. ASSUME Admit PROVE surf'[Parent[s]].n # surf[Parent[s]].n
  <2>1. PICK x \in Surfaces : x = Draining
    BY <1>1, <1>14, DrainingIsLeft DEF Admit
  <2> DEFINE q == queue[x]
             u == Head(q).u
  <2>2. q # <<>> /\ ApplyAll(x, u, SyncTree(x), {})
    BY <1>14, <2>1, Zenon DEF Admit, MayAdmit
  <2>3. q \in Seq(Entry)
    BY <1>1 DEF Typed
  <2>4. 1 \in DOMAIN q /\ Head(q) = q[1] /\ q[1] \in Entry
    BY <2>2, <2>3
  <2>5. u \in Update
    BY <2>4 DEF Entry
  <2>6. surf[x].n < q[1].u.n
    <3>1. Ahead(Local(x)) /\ Local(x).surf = surf[x] /\ Local(x).queue = q
      BY DEF Orderly, Local
    <3>2. QED
      BY <2>4, <3>1 DEF Ahead
  <2>7. surf[x].n \in Nat /\ q[1].u.n \in Nat
    <3>1. q[1].u \in Update /\ surf[x] \in Surface
      BY <1>1, <2>4 DEF Entry, Typed
    <3>2. QED
      BY <3>1 DEF Update, Surface
  <2>8. u.n # 0 /\ u.n # surf[x].n
    BY <2>4, <2>6, <2>7
  <2>9. x # s
    BY <1>2, <2>2
  <2> HIDE DEF u
  <2>10. QED
    BY <1>1, <2>2, <2>5, <2>8, <2>9, Together
<1>15. ASSUME NEW x \in Surfaces, NEW i \in DOMAIN queue[x], TimePasses(x, i) PROVE FALSE
  BY <1>3, <1>15 DEF TimePasses
<1>16. ASSUME NEW b \in unready, Materialize(b) PROVE FALSE
  BY <1>3, <1>16 DEF Materialize
<1>17. QED
  BY <1>4, <1>5, <1>6, <1>7, <1>8, <1>9, <1>10, <1>11, <1>12, <1>13, <1>14, <1>15, <1>16,
     Zenon DEF SCNext, Commit, Drain

(* The state of a synchronized subsurface changes only together with its   *)
(* parent's, or when set_desync releases it: in trees of one level, as     *)
(* long as set_sync does not come while updates are parked (then a later   *)
(* frame admits them on their own).                                        *)
THEOREM SubsurfacesAreSynchronized ==
    ASSUME TwoLevels, ~SyncWhileParked
    PROVE  SCSpec => SyncedTogether
<1> DEFINE Holds(s) == EffectiveSync(s) /\ Linked(s) /\ surf'[s].n # surf[s].n =>
                         surf'[Parent[s]].n # surf[Parent[s]].n \/ ~EffectiveSync(s)'
<1>1. Orderly /\ [SCNext]_vars => [\A s \in Subs : Holds(s)]_vars
  BY NextTogether
<1>2. SCSpec => []Orderly
  BY OrderlyKept
<1>3. Orderly /\ [SCNext]_vars =>
        [\A s \in Subs : EffectiveSync(s) /\ Linked(s) /\ surf'[s].n # surf[s].n =>
           surf'[Parent[s]].n # surf[Parent[s]].n \/ ~EffectiveSync(s)']_vars
  BY <1>1
<1>4. QED
  BY <1>2, <1>3, PTL DEF SCSpec, SyncedTogether
-----------------------------------------------------------------------------
(* Order *)

(* What ContentUpdates sees of a local state: the update applied last and  *)
(* the attach that shows, and the updates that wait.                       *)
Shape(u) == [n |-> u.n, from |-> u.from]
WaitingIn(q, c) == [i \in DOMAIN q |-> q[i].u] \o IF c.n = 0 THEN <<>> ELSE <<c>>
Shapes(w) == [i \in DOMAIN w |-> [n |-> w[i].n, from |-> w[i].from]]
PendingIn(z) == IF ~z.alive THEN <<>> ELSE Shapes(WaitingIn(z.queue, z.cache))
InQueue(q) == [i \in DOMAIN q |-> Shape(q[i].u)]

LEMMA PendingIs ==
    ASSUME NEW z \in LocalSet
    PROVE  /\ ~z.alive => PendingIn(z) = <<>>
           /\ z.alive /\ z.cache.n = 0 => PendingIn(z) = InQueue(z.queue)
           /\ z.alive /\ z.cache.n # 0 /\ z.queue = <<>> => PendingIn(z) = <<Shape(z.cache)>>
<1>1. z.queue \in Seq(Entry) /\ z.cache \in Update
  BY DEF LocalSet
<1> DEFINE q == z.queue
           Q == [i \in DOMAIN q |-> q[i].u]
<1>2. \A i \in DOMAIN q : q[i].u \in Update
  <2>1. \A i \in DOMAIN q : q[i] \in Entry
    BY <1>1
  <2>2. QED
    BY <2>1 DEF Entry
<1>3. Q \in Seq(Update) /\ DOMAIN Q = DOMAIN q /\ \A i \in DOMAIN q : Q[i] = q[i].u
  <2>1. DOMAIN q = 1 .. Len(q) /\ Len(q) \in Nat
    BY <1>1
  <2>2. QED
    BY <1>2, <2>1
<1>4. ASSUME z.alive, z.cache.n = 0 PROVE PendingIn(z) = InQueue(q)
  <2>1. PendingIn(z) = Shapes(Q \o <<>>)
    BY <1>4, Zenon DEF PendingIn, WaitingIn
  <2>2. Q \o <<>> = Q
    BY <1>3, ConcatEmptySeq
  <2>3. Shapes(Q) = InQueue(q)
    BY <1>3 DEF Shapes, InQueue, Shape
  <2>4. QED
    BY <2>1, <2>2, <2>3
<1>5. ASSUME z.alive, z.cache.n # 0, q = <<>> PROVE PendingIn(z) = <<Shape(z.cache)>>
  <2>1. PendingIn(z) = Shapes(Q \o <<z.cache>>)
    BY <1>5, Zenon DEF PendingIn, WaitingIn
  <2>2. Q = <<>>
    BY <1>5
  <2>3. <<>> \o <<z.cache>> = <<z.cache>>
    BY <1>1, ConcatEmptySeq
  <2>4. Shapes(<<z.cache>>) = <<Shape(z.cache)>>
    BY DEF Shapes, Shape
  <2>5. QED
    BY <2>1, <2>2, <2>3, <2>4
<1>6. QED
  BY <1>4, <1>5 DEF PendingIn

\* The state with an update on top, as ContentUpdates sees it.
LEMMA OntoShape ==
    ASSUME NEW f \in Surface, NEW u \in Update, u.n # 0
    PROVE  Shape(Onto(f, u)) = CU!Over(Shape(f), Shape(u))
<1>1. /\ Onto(f, u).n = IF u.n = 0 THEN f.n ELSE u.n
      /\ Onto(f, u).from = IF u.from = 0 THEN f.from ELSE u.from
  BY OntoType
<1>2. QED
  BY <1>1 DEF Shape, CU!Over

LEMMA SamePending ==
    ASSUME NEW z, NEW y, y.queue = z.queue, y.cache = z.cache, y.alive = z.alive
    PROVE  PendingIn(y) = PendingIn(z)
BY DEF PendingIn

\* A queue as ContentUpdates sees it.
LEMMA ParkedShapes ==
    ASSUME NEW q \in Seq(Entry)
    PROVE  /\ InQueue(<<>>) = <<>>
           /\ \A e \in Entry : InQueue(Append(q, e)) = Append(InQueue(q), Shape(e.u))
           /\ q # <<>> => /\ InQueue(q) # <<>> /\ Head(InQueue(q)) = Shape(Head(q).u)
                          /\ InQueue(Tail(q)) = Tail(InQueue(q))
<1>1. InQueue(<<>>) = <<>>
  BY DEF InQueue
<1> DEFINE S == {Shape(x.u) : x \in Entry}
<1>2. \A x \in Entry : Shape(x.u) \in S
  OBVIOUS
<1> HIDE DEF S
<1>3. ASSUME NEW p \in Seq(Entry)
      PROVE  /\ InQueue(p) \in Seq(S) /\ Len(InQueue(p)) = Len(p) /\ DOMAIN InQueue(p) = 1 .. Len(p)
             /\ \A i \in 1 .. Len(p) : InQueue(p)[i] = Shape(p[i].u)
  <2>1. DOMAIN p = 1 .. Len(p) /\ Len(p) \in Nat /\ \A i \in 1 .. Len(p) : p[i] \in Entry
    OBVIOUS
  <2>2. InQueue(p) = [i \in 1 .. Len(p) |-> Shape(p[i].u)]
    BY <2>1 DEF InQueue
  <2>3. \A i \in 1 .. Len(p) : Shape(p[i].u) \in S
    BY <1>2, <2>1
  <2>4. QED
    BY <2>1, <2>2, <2>3
<1>4. ASSUME NEW e \in Entry PROVE InQueue(Append(q, e)) = Append(InQueue(q), Shape(e.u))
  <2> DEFINE p == Append(q, e)
             w == Append(InQueue(q), Shape(e.u))
  <2>1. /\ p \in Seq(Entry) /\ Len(p) = Len(q) + 1 /\ Len(q) \in Nat /\ p[Len(q) + 1] = e
        /\ \A i \in 1 .. Len(q) : p[i] = q[i]
    OBVIOUS
  <2>2. InQueue(q) \in Seq(S) /\ Len(InQueue(q)) = Len(q)
        /\ \A i \in 1 .. Len(q) : InQueue(q)[i] = Shape(q[i].u)
    BY <1>3
  <2>3. Shape(e.u) \in S
    BY <1>2
  <2>4. /\ w \in Seq(S) /\ Len(w) = Len(q) + 1 /\ w[Len(q) + 1] = Shape(e.u)
        /\ \A i \in 1 .. Len(q) : w[i] = InQueue(q)[i]
    BY <2>1, <2>2, <2>3
  <2> HIDE DEF p, w
  <2>5. InQueue(p) \in Seq(S) /\ Len(InQueue(p)) = Len(q) + 1
        /\ \A i \in 1 .. (Len(q) + 1) : InQueue(p)[i] = Shape(p[i].u)
    BY <1>3, <2>1
  <2>6. \A i \in 1 .. (Len(q) + 1) : InQueue(p)[i] = w[i]
    <3>1. ASSUME NEW i \in 1 .. Len(q) PROVE InQueue(p)[i] = w[i]
      BY <2>1, <2>2, <2>4, <2>5
    <3>2. InQueue(p)[Len(q) + 1] = w[Len(q) + 1]
      BY <2>1, <2>4, <2>5
    <3>3. QED
      BY <2>1, <3>1, <3>2
  <2>7. InQueue(p) = w
    BY <2>4, <2>5, <2>6, SeqEqual
  <2>8. QED
    BY <2>7 DEF p, w
<1>5. ASSUME q # <<>>
      PROVE  /\ InQueue(q) # <<>> /\ Head(InQueue(q)) = Shape(Head(q).u)
             /\ InQueue(Tail(q)) = Tail(InQueue(q))
  <2>1. Len(q) \in Nat /\ Len(q) > 0 /\ Tail(q) \in Seq(Entry) /\ Len(Tail(q)) = Len(q) - 1
        /\ Head(q) = q[1] /\ \A i \in 1 .. (Len(q) - 1) : Tail(q)[i] = q[i + 1]
    BY <1>5
  <2> DEFINE w == InQueue(q)
  <2>2. w \in Seq(S) /\ Len(w) = Len(q) /\ \A i \in 1 .. Len(q) : w[i] = Shape(q[i].u)
    BY <1>3
  <2> HIDE DEF w
  <2>3. w # <<>> /\ Head(w) = w[1]
    BY <2>1, <2>2
  <2>4. Head(w) = Shape(Head(q).u)
    BY <2>1, <2>2, <2>3
  <2>5. Tail(w) \in Seq(S) /\ Len(Tail(w)) = Len(q) - 1
        /\ \A i \in 1 .. (Len(q) - 1) : Tail(w)[i] = w[i + 1]
    BY <2>1, <2>2
  <2>6. InQueue(Tail(q)) \in Seq(S) /\ Len(InQueue(Tail(q))) = Len(q) - 1
        /\ \A i \in 1 .. (Len(q) - 1) : InQueue(Tail(q))[i] = Shape(Tail(q)[i].u)
    BY <1>3, <2>1
  <2>7. \A i \in 1 .. (Len(q) - 1) : InQueue(Tail(q))[i] = Tail(w)[i]
    BY <2>1, <2>2, <2>5, <2>6
  <2>8. InQueue(Tail(q)) = Tail(w)
    BY <2>1, <2>5, <2>6, <2>7, SeqEqual
  <2>9. QED
    BY <2>3, <2>4, <2>8 DEF w
<1>6. QED
  BY <1>1, <1>4, <1>5

(* A surface that is gone has nothing parked.                              *)
Gone(z) == ~z.alive => z.queue = <<>>

LEMMA LocalGone ==
    ASSUME NEW d \in Surfaces, NEW z \in LocalSet, Gone(z), NEW y, LocalStep(d, z, y)
    PROVE  Gone(y)
<1>1. z.queue \in Seq(Entry)
  BY DEF LocalSet
<1>2. ASSUME y.alive = z.alive, y.queue = z.queue PROVE Gone(y)
  BY <1>2 DEF Gone
<1>3. CASE z = y
  BY <1>3
<1>4. CASE CacheL(d, z, y) \/ NowL(d, z, y) \/ ApplyCacheL(z, y) \/ SubDieL(z, y)
           \/ FrameL(z, y) \/ FenceL(z, y) \/ FlipL(z, y) \/ ReadyL(z, y)
  <2>1. y.alive = z.alive /\ y.queue = z.queue
    BY <1>4 DEF CacheL, NowL, ApplyCacheL, SubDieL, FrameL, FenceL, FlipL, ReadyL, LocalSet
  <2>2. QED
    BY <1>2, <2>1
<1>5. CASE ParkL(d, z, y)
  <2>1. y.alive = z.alive /\ z.alive
    BY <1>5 DEF ParkL, NewUpdate, LocalSet
  <2>2. QED
    BY <2>1, Zenon DEF Gone
<1>6. CASE AdmitL(z, y)
  <2>1. y.alive = z.alive /\ z.queue # <<>>
    BY <1>6 DEF AdmitL, LocalSet
  <2>2. QED
    BY <2>1, Zenon DEF Gone
<1>7. CASE TimeL(z, y)
  <2>1. PICK q \in Seq(Entry) : DOMAIN q = DOMAIN z.queue /\ y = [z EXCEPT !.queue = q]
    BY <1>7, Zenon DEF TimeL
  <2>2. y.alive = z.alive /\ y.queue = q
    BY <2>1 DEF LocalSet
  <2>3. z.queue = <<>> => q = <<>>
    BY <1>1, <2>1
  <2>4. QED
    BY <2>2, <2>3, Zenon DEF Gone
<1>8. CASE DieL(z, y)
  <2>1. y.queue = <<>>
    BY <1>8 DEF DieL, LocalSet
  <2>2. QED
    BY <2>1, Zenon DEF Gone
<1>9. QED
  BY <1>3, <1>4, <1>5, <1>6, <1>7, <1>8, Zenon DEF LocalStep

AllGone == \A d \in Surfaces : Gone(Local(d))

LEMMA AllGoneKept == SCSpec => []AllGone
<1>1. SCInit => AllGone
  <2>1. ASSUME SCInit, NEW d \in Surfaces PROVE Gone(Local(d))
    <3>1. Local(d).queue = <<>>
      BY <2>1 DEF Local, SCInit
    <3>2. QED
      BY <3>1, Zenon DEF Gone
  <2>2. QED
    BY <2>1 DEF AllGone
<1>2. LocallyKept /\ AllGone /\ [SCNext]_vars => AllGone'
  <2> SUFFICES ASSUME LocallyKept, AllGone, [SCNext]_vars PROVE AllGone'
    OBVIOUS
  <2>1. ASSUME NEW d \in Surfaces PROVE Gone(Local(d)')
    <3>1. Typed /\ Gone(Local(d))
      BY DEF LocallyKept, AllGone
    <3>2. LocalStep(d, Local(d), Local(d)') /\ Local(d) \in LocalSet
      BY <3>1, NextLocal, LocalTyped
    <3>3. QED
      BY <3>1, <3>2, LocalGone
  <2>2. QED
    BY <2>1 DEF AllGone, Gone
<1>3. QED
  BY <1>1, <1>2, LocallySound, PTL DEF SCSpec

\* A surface that is gone keeps what it shows; a commit applied at once finds
\* no cache.
LEMMA GoneIsStill ==
    ASSUME TwoLevels, Orderly, AllGone, [SCNext]_vars, NEW d \in Surfaces
    PROVE  /\ d \notin alive => Shape(surf'[d]) = Shape(surf[d])
           /\ last'[d] = last[d] + 1 /\ queue'[d] = <<>> /\ cache'[d] = cache[d] => cache[d].n = 0
<1> DEFINE Still == surf'[d].n = surf[d].n /\ surf'[d].from = surf[d].from
           Taken == last'[d] = last[d] + 1 /\ queue'[d] = <<>> /\ cache'[d] = cache[d]
           Goal == (d \notin alive => Still) /\ (Taken => cache[d].n = 0)
<1>1. Typed /\ Sound(Local(d))
  BY DEF Orderly, LocallyKept
<1>2. /\ last[d] \in Nat /\ queue[d] \in Seq(Entry) /\ cache[d] \in Update /\ surf[d] \in Surface
      /\ surf \in [Surfaces -> Surface] /\ last \in [Surfaces -> Nat]
      /\ queue \in [Surfaces -> Seq(Entry)] /\ cache \in [Surfaces -> Update]
  BY <1>1 DEF Typed
<1>3. last[d] + 1 # last[d]
  BY <1>2
<1>4. ASSUME surf' = surf, last' = last PROVE Goal
  BY <1>3, <1>4
<1>5. ASSUME Still, last' = last PROVE Goal
  BY <1>3, <1>5
<1>6. ASSUME NEW x \in Surfaces, x \in alive, NEW u \in Update, NEW ds, NEW more,
             ApplyAll(x, u, ds, more), ds \subseteq {x} \cup SyncTree(x), d \notin alive
      PROVE  Still
  <2>1. surf'[d] = Applied(x, u, ds, d)
    BY <1>1, <1>6, ApplyAllStep
  <2>2. d # x
    BY <1>6
  <2>3. d \notin SyncTree(x)
    <3>1. d \in SyncTree(x) => Linked(d)
      BY <1>1, <1>6, TreeIs
    <3>2. QED
      BY <1>6, <3>1 DEF Linked
  <2>4. d \notin ds
    BY <1>6, <2>2, <2>3
  <2>5. QED
    BY <2>1, <2>2, <2>4 DEF Applied
<1>7. ASSUME UNCHANGED vars PROVE Goal
  BY <1>4, <1>7 DEF vars
<1>8. ASSUME NEW x \in Surfaces, NEW a, CommitCached(x, a) PROVE Goal
  <2>1. Commits(x, a) /\ surf' = surf /\ cache' = [cache EXCEPT ![x] = Merge(@, Committed(x, a))]
    BY <1>8 DEF CommitCached, Become
  <2>2. Committed(x, a).n = last[x] + 1 /\ last'[d] = IF d = x THEN last[d] + 1 ELSE last[d]
    BY <1>1, <1>8, <2>1, CommitFacts
  <2>3. ASSUME Taken PROVE FALSE
    <3>1. d = x
      BY <1>3, <2>2, <2>3
    <3>2. cache'[d].n = last[d] + 1
      BY <1>2, <2>1, <2>2, <3>1 DEF Merge
    <3>3. cache[d].n <= last[d]
      <4>1. Local(d).cache = cache[d] /\ Local(d).last = last[d] /\ Fits(Local(d).cache, Local(d).last)
        BY <1>1 DEF Local, Sound, Numbered
      <4>2. QED
        BY <4>1 DEF Fits
    <3>4. cache[d].n \in Nat
      BY <1>2 DEF Update
    <3>5. QED
      BY <1>2, <2>3, <3>2, <3>3, <3>4
  <2>4. QED
    BY <2>1, <2>3
<1>9. ASSUME NEW x \in Surfaces, NEW a, CommitParked(x, a) PROVE Goal
  <2> DEFINE e == [u |-> Committed(x, a), set |-> a.set, wait |-> a.wait, timed |-> a.timed]
  <2>1. Commits(x, a) /\ surf' = surf /\ queue' = [queue EXCEPT ![x] = Append(@, e)]
    BY <1>9 DEF CommitParked, Become
  <2>2. last'[d] = IF d = x THEN last[d] + 1 ELSE last[d]
    BY <1>1, <1>9, <2>1, CommitFacts
  <2> HIDE DEF e
  <2>3. ASSUME Taken PROVE FALSE
    <3>1. d = x
      BY <1>3, <2>2, <2>3
    <3>2. queue'[d] = Append(queue[d], e)
      BY <1>2, <2>1, <3>1
    <3>3. Len(Append(queue[d], e)) = Len(queue[d]) + 1 /\ Len(queue[d]) \in Nat
      BY <1>2, AppendProperties
    <3>4. QED
      BY <2>3, <3>2, <3>3
  <2>4. QED
    BY <2>1, <2>3
<1>10. ASSUME NEW x \in Surfaces, NEW a, CommitApplied(x, a) PROVE Goal
  <2>1. /\ Commits(x, a) /\ x \in alive /\ ~ToCache(x)
        /\ ApplyAll(x, Committed(x, a), SyncTree(x), AtOnce(x, a))
    BY <1>10 DEF CommitApplied, Commits
  <2>2. Committed(x, a) \in Update /\ last'[d] = IF d = x THEN last[d] + 1 ELSE last[d]
    BY <1>1, <1>10, <2>1, CommitFacts
  <2>3. d \notin alive => Still
    BY <1>6, <1>10, <2>1, <2>2
  <2>4. ASSUME Taken PROVE cache[d].n = 0
    <3>1. d = x
      BY <1>3, <2>2, <2>4
    <3>2. ~(d \in subs /\ sync[d])
      BY <1>1, <2>1, <3>1, TreeIs
    <3>3. QED
      BY <3>2 DEF Orderly, Tidy
  <2>5. QED
    BY <2>3, <2>4
<1>11. ASSUME NEW x \in Surfaces, DestroySurface(x) PROVE Goal
  <2>1. /\ surf' = [surf EXCEPT ![x].attach = "null", ![x].held = FALSE, ![x].owed = {}]
        /\ last' = last
    BY <1>11 DEF DestroySurface, Become
  <2>2. surf[x] \in Surface
    BY <1>2
  <2>3. Still
    BY <1>2, <2>1, <2>2 DEF Surface
  <2>4. QED
    BY <1>5, <2>1, <2>3
<1>12. ASSUME NEW x \in Subs, SetDesync(x) PROVE Goal
  <2>1. /\ last' = last /\ x \in alive
        /\ surf' = surf \/ ApplyAll(x, cache[x], SyncTree(x) \cup {x}, {})
    BY <1>12 DEF SetDesync
  <2>2. x \in Surfaces /\ cache[x] \in Update
    BY <1>2 DEF Subs
  <2>3. CASE surf' = surf
    BY <1>4, <2>1, <2>3
  <2>4. CASE ApplyAll(x, cache[x], SyncTree(x) \cup {x}, {})
    <3>1. d \notin alive => Still
      BY <1>6, <2>1, <2>2, <2>4
    <3>2. QED
      BY <1>3, <2>1, <3>1
  <2>5. QED
    BY <2>1, <2>3, <2>4
<1>13. ASSUME NEW x \in Subs, SetSync(x) \/ DestroySubsurface(x) PROVE Goal
  BY <1>4, <1>13 DEF SetSync, DestroySubsurface, Become
<1>14. ASSUME NEW r \in Roots, AckConfigure(r) \/ Minimize(r) PROVE Goal
  BY <1>4, <1>14 DEF AckConfigure, Minimize
<1>15. ASSUME RenderFrame PROVE Goal
  <2>1. /\ surf' = [x \in Surfaces |-> IF x \in Copied THEN [surf[x] EXCEPT !.held = FALSE] ELSE surf[x]]
        /\ last' = last
    BY <1>15 DEF RenderFrame
  <2>2. Still
    BY <1>2, <2>1 DEF Surface
  <2>3. QED
    BY <1>5, <2>1, <2>2
<1>16. ASSUME FlipDone PROVE Goal
  <2>1. /\ surf' = [x \in Surfaces |-> IF Presented(x) THEN [surf[x] EXCEPT !.owed = {}] ELSE surf[x]]
        /\ last' = last
    BY <1>16 DEF FlipDone
  <2>2. Still
    BY <1>2, <2>1 DEF Surface
  <2>3. QED
    BY <1>5, <2>1, <2>2
<1>17. ASSUME FrameDeferred \/ FenceRetires \/ BeginDrain \/ EndDrain \/ SyncEvent PROVE Goal
  BY <1>4, <1>17 DEF FrameDeferred, FenceRetires, BeginDrain, EndDrain, SyncEvent
<1>18. ASSUME Admit PROVE Goal
  <2>1. PICK x \in Surfaces : x = Draining
    BY <1>1, <1>18, DrainingIsLeft DEF Admit
  <2> DEFINE q == queue[x]
             u == Head(q).u
  <2>2. q # <<>> /\ ApplyAll(x, u, SyncTree(x), {}) /\ last' = last
    BY <1>18, <2>1, Zenon DEF Admit, MayAdmit
  <2>3. q \in Seq(Entry)
    BY <1>2
  <2>4. Head(q) \in Entry
    BY <2>2, <2>3
  <2>5. u \in Update
    BY <2>4 DEF Entry
  <2>6. x \in alive
    <3>1. Gone(Local(x)) /\ Local(x).queue = q /\ Local(x).alive = (x \in alive)
      BY DEF AllGone, Local
    <3>2. QED
      BY <2>2, <3>1, Zenon DEF Gone
  <2> HIDE DEF u
  <2>7. d \notin alive => Still
    BY <1>6, <2>2, <2>5, <2>6
  <2>8. QED
    BY <1>3, <2>2, <2>7
<1>19. ASSUME NEW x \in Surfaces, NEW i \in DOMAIN queue[x], TimePasses(x, i) PROVE Goal
  BY <1>4, <1>19 DEF TimePasses
<1>20. ASSUME NEW b \in unready, Materialize(b) PROVE Goal
  BY <1>4, <1>20 DEF Materialize
<1> HIDE DEF Goal
<1>21. Goal
  BY <1>7, <1>8, <1>9, <1>10, <1>11, <1>12, <1>13, <1>14, <1>15, <1>16, <1>17, <1>18, <1>19,
     <1>20, Zenon DEF SCNext, Commit, Drain
<1>22. QED
  BY <1>21 DEF Goal, Shape

(* A step of ContentUpdates from m updates made, f shown and w waiting.    *)
Ordered(m, f, w, m2, f2, w2) ==
    \/ \E from \in {0, m + 1} :
          LET u == [n |-> m + 1, from |-> from] IN
          \/ w = <<>> /\ m2 = m + 1 /\ f2 = CU!Over(f, u) /\ w2 = <<>>
          \/ m2 = m + 1 /\ f2 = f /\ w2 = Append(w, u)
          \/ w # <<>> /\ m2 = m + 1 /\ f2 = f /\ w2 = [w EXCEPT ![Len(w)] = CU!Over(@, u)]
    \/ w # <<>> /\ m2 = m /\ f2 = CU!Over(f, Head(w)) /\ w2 = Tail(w)
    \/ w # <<>> /\ m2 = m /\ f2 = f /\ w2 = <<>>
    \/ m2 = m /\ f2 = f /\ w2 = w

OrderStep(z, y) ==
    Ordered(z.last, Shape(z.surf), PendingIn(z), y.last, Shape(y.surf), PendingIn(y))

\* The possible steps, one lemma each.
LEMMA OrderRests ==
    ASSUME NEW z, NEW y, y.last = z.last, Shape(y.surf) = Shape(z.surf), PendingIn(y) = PendingIn(z)
    PROVE  OrderStep(z, y)
BY DEF OrderStep, Ordered

LEMMA OrderDrops ==
    ASSUME NEW z, NEW y, y.last = z.last, Shape(y.surf) = Shape(z.surf), PendingIn(y) = <<>>
    PROVE  OrderStep(z, y)
<1>1. CASE PendingIn(z) = <<>>
  BY <1>1, OrderRests
<1>2. CASE PendingIn(z) # <<>>
  BY <1>2 DEF OrderStep, Ordered
<1>3. QED
  BY <1>1, <1>2

LEMMA OrderApplies ==
    ASSUME NEW z, NEW y, NEW w, PendingIn(z) = w, w # <<>>, y.last = z.last,
           Shape(y.surf) = CU!Over(Shape(z.surf), Head(w)), PendingIn(y) = Tail(w)
    PROVE  OrderStep(z, y)
BY DEF OrderStep, Ordered

LEMMA CacheOrder ==
    ASSUME NEW d \in Surfaces, NEW z, Sound(z), Free(z), NEW y, Sound(y), Free(y), CacheL(d, z, y)
    PROVE  OrderStep(z, y)
<1>1. z \in LocalSet /\ Numbered(z) /\ y \in LocalSet
  BY Zenon DEF Sound
<1>2. z.last \in Nat /\ z.queue \in Seq(Entry) /\ z.cache \in Update
  BY <1>1 DEF LocalSet
<1>3. PICK u \in Update, late \in SUBSET {z.last + 1} :
        /\ NewUpdate(d, z, u, late)
        /\ y = [z EXCEPT !.last = @ + 1, !.given = @ \cup Brought(u), !.late = @ \cup late,
                         !.cache = Merge(@, u),
                         !.back = @ \cup Replaced(z.cache, u) \cup Spared(u)]
  BY Zenon DEF CacheL
<1>4. /\ y.last = z.last + 1 /\ y.surf = z.surf /\ y.queue = z.queue /\ y.alive = z.alive
      /\ y.cache = Merge(z.cache, u)
  BY <1>1, <1>3 DEF LocalSet
<1>5. u.n = z.last + 1 /\ Single(u)
  BY <1>1, <1>3, NewNumber
<1>6. /\ z.alive /\ u.n \in Nat /\ u.n # 0 /\ u.from \in {0, z.last + 1}
  BY <1>2, <1>3, <1>5 DEF NewUpdate, Single
<1> DEFINE c == z.cache
<1>7. Merge(c, u).n = u.n /\ Merge(c, u).from = IF u.from = 0 THEN c.from ELSE u.from
  BY DEF Merge
<1>8. z.queue = <<>>
  BY <1>4, <1>6, <1>7 DEF Free
<1>9. PendingIn(y) = <<Shape(Merge(c, u))>>
  BY <1>1, <1>4, <1>6, <1>7, <1>8, PendingIs
<1>10. Shape(u) = [n |-> z.last + 1, from |-> u.from]
  BY <1>5 DEF Shape
<1>11. CASE c.n = 0
  <2>1. PendingIn(z) = <<>>
    <3>1. PendingIn(z) = InQueue(<<>>)
      BY <1>1, <1>6, <1>8, <1>11, PendingIs
    <3>2. QED
      BY <1>2, <3>1, ParkedShapes
  <2>2. c.from = 0
    BY <1>1, <1>11 DEF Numbered, NoUpdate
  <2>3. Shape(Merge(c, u)) = Shape(u)
    BY <1>7, <2>2 DEF Shape
  <2>4. PendingIn(y) = Append(PendingIn(z), [n |-> z.last + 1, from |-> u.from])
    BY <1>9, <1>10, <2>1, <2>3
  <2>5. QED
    BY <1>4, <1>6, <2>4 DEF OrderStep, Ordered
<1>12. CASE c.n # 0
  <2>1. PendingIn(z) = <<Shape(c)>>
    BY <1>1, <1>6, <1>8, <1>12, PendingIs
  <2>2. Shape(Merge(c, u)) = CU!Over(Shape(c), Shape(u))
    BY <1>7 DEF Shape, CU!Over
  <2> DEFINE w == PendingIn(z)
             v == [n |-> z.last + 1, from |-> u.from]
  <2>3. w # <<>> /\ Len(w) = 1
    BY <2>1
  <2>4. PendingIn(y) = [w EXCEPT ![Len(w)] = CU!Over(@, v)]
    <3>1. \A x, o : [<<x>> EXCEPT ![Len(<<x>>)] = o] = <<o>>
      OBVIOUS
    <3>2. QED
      BY <1>9, <1>10, <2>1, <2>2, <3>1
  <2>5. QED
    BY <1>4, <1>6, <2>3, <2>4 DEF OrderStep, Ordered
<1>13. QED
  BY <1>11, <1>12

LEMMA ParkOrder ==
    ASSUME NEW d \in Surfaces, NEW z, Sound(z), NEW y, Sound(y), Free(y), ParkL(d, z, y)
    PROVE  OrderStep(z, y)
<1>1. z \in LocalSet /\ y \in LocalSet
  BY Zenon DEF Sound
<1>2. z.last \in Nat /\ z.queue \in Seq(Entry)
  BY <1>1 DEF LocalSet
<1>3. PICK u \in Update, e \in Entry, late \in SUBSET {z.last + 1} :
        /\ NewUpdate(d, z, u, late) /\ e.u = u
        /\ y = [z EXCEPT !.last = @ + 1, !.given = @ \cup Brought(u), !.late = @ \cup late,
                         !.queue = Append(@, e), !.back = @ \cup Spared(u)]
  BY Zenon DEF ParkL
<1>4. /\ y.last = z.last + 1 /\ y.surf = z.surf /\ y.cache = z.cache /\ y.alive = z.alive
      /\ y.queue = Append(z.queue, e)
  BY <1>1, <1>3 DEF LocalSet
<1>5. u.n = z.last + 1 /\ Single(u)
  BY <1>1, <1>3, NewNumber
<1>6. z.alive /\ u.from \in {0, z.last + 1}
  BY <1>3, <1>5 DEF NewUpdate, Single
<1>7. z.cache.n = 0
  <2>1. Append(z.queue, e) # <<>>
    BY <1>2
  <2>2. QED
    BY <1>4, <2>1 DEF Free
<1>8. PendingIn(z) = InQueue(z.queue) /\ PendingIn(y) = InQueue(y.queue)
  BY <1>1, <1>4, <1>6, <1>7, PendingIs
<1>9. InQueue(y.queue) = Append(InQueue(z.queue), Shape(u))
  BY <1>2, <1>3, <1>4, ParkedShapes
<1>10. Shape(u) = [n |-> z.last + 1, from |-> u.from]
  BY <1>5 DEF Shape
<1>11. QED
  BY <1>4, <1>6, <1>8, <1>9, <1>10 DEF OrderStep, Ordered

LEMMA NowOrder ==
    ASSUME NEW d \in Surfaces, NEW z, Sound(z), z.cache.n = 0, NEW y, Sound(y), NowL(d, z, y)
    PROVE  OrderStep(z, y)
<1>1. z \in LocalSet /\ y \in LocalSet
  BY Zenon DEF Sound
<1>2. z.last \in Nat /\ z.surf \in Surface /\ z.queue \in Seq(Entry)
  BY <1>1 DEF LocalSet
<1>3. PICK u \in Update :
        /\ NewUpdate(d, z, u, {}) /\ z.queue = <<>>
        /\ y = [z EXCEPT !.last = @ + 1, !.given = @ \cup Brought(u),
                         !.surf = Onto(@, u),
                         !.back = @ \cup Spared(u) \cup Freed(z, Onto(z.surf, u))]
  BY Zenon DEF NowL
<1>4. /\ y.last = z.last + 1 /\ y.surf = Onto(z.surf, u) /\ y.cache = z.cache
      /\ y.alive = z.alive /\ y.queue = <<>>
  BY <1>1, <1>3 DEF LocalSet
<1>5. u.n = z.last + 1 /\ Single(u)
  BY <1>1, <1>3, NewNumber
<1>6. z.alive /\ u.from \in {0, z.last + 1} /\ u.n # 0
  BY <1>2, <1>3, <1>5 DEF NewUpdate, Single
<1>7. PendingIn(z) = <<>> /\ PendingIn(y) = <<>>
  <2>1. PendingIn(z) = InQueue(<<>>) /\ PendingIn(y) = InQueue(<<>>)
    BY <1>1, <1>3, <1>4, <1>6, PendingIs
  <2>2. QED
    BY <1>2, <2>1, ParkedShapes
<1>8. Shape(u) = [n |-> z.last + 1, from |-> u.from]
  BY <1>5 DEF Shape
<1>9. Shape(y.surf) = CU!Over(Shape(z.surf), Shape(u))
  BY <1>2, <1>4, <1>6, OntoShape
<1>10. QED
  BY <1>4, <1>6, <1>7, <1>8, <1>9 DEF OrderStep, Ordered

LEMMA ApplyCacheOrder ==
    ASSUME NEW z, Sound(z), Free(z), NEW y, Sound(y), ApplyCacheL(z, y),
           ~z.alive => Shape(y.surf) = Shape(z.surf)
    PROVE  OrderStep(z, y)
<1>1. z \in LocalSet /\ Numbered(z) /\ y \in LocalSet
  BY Zenon DEF Sound
<1>2. z.surf \in Surface /\ z.queue \in Seq(Entry) /\ z.cache \in Update
  BY <1>1 DEF LocalSet
<1>3. /\ y.last = z.last /\ y.surf = Onto(z.surf, z.cache) /\ y.cache = NoUpdate
      /\ y.alive = z.alive /\ y.queue = z.queue
  BY <1>1 DEF LocalSet, ApplyCacheL
<1>4. NoUpdate.n = 0
  BY DEF NoUpdate
<1>5. CASE ~z.alive
  <2>1. PendingIn(z) = <<>> /\ PendingIn(y) = <<>>
    BY <1>3, <1>5, Zenon DEF PendingIn
  <2>2. QED
    BY <1>3, <1>5, <2>1, OrderRests
<1>6. CASE z.alive /\ z.cache.n = 0
  <2>1. z.cache.from = 0
    BY <1>1, <1>6 DEF Numbered, NoUpdate
  <2>2. Shape(y.surf) = Shape(z.surf)
    <3>1. Onto(z.surf, z.cache).n = z.surf.n /\ Onto(z.surf, z.cache).from = z.surf.from
      BY <1>2, <1>6, <2>1, OntoType
    <3>2. QED
      BY <1>3, <3>1 DEF Shape
  <2>3. PendingIn(y) = PendingIn(z)
    BY <1>1, <1>3, <1>4, <1>6, PendingIs
  <2>4. QED
    BY <1>3, <2>2, <2>3, OrderRests
<1>7. CASE z.alive /\ z.cache.n # 0
  <2>1. z.queue = <<>>
    BY <1>7 DEF Free
  <2>2. PendingIn(z) = <<Shape(z.cache)>>
    BY <1>1, <1>7, <2>1, PendingIs
  <2>3. PendingIn(y) = <<>>
    <3>1. PendingIn(y) = InQueue(<<>>)
      BY <1>1, <1>3, <1>4, <1>7, <2>1, PendingIs
    <3>2. QED
      BY <1>2, <3>1, ParkedShapes
  <2>4. Shape(y.surf) = CU!Over(Shape(z.surf), Shape(z.cache))
    BY <1>2, <1>3, <1>7, OntoShape
  <2>5. \A x : <<x>> # <<>> /\ Head(<<x>>) = x /\ Tail(<<x>>) = <<>>
    OBVIOUS
  <2>6. QED
    BY <1>3, <2>2, <2>3, <2>4, <2>5, OrderApplies
<1>8. QED
  BY <1>5, <1>6, <1>7

LEMMA AdmitOrder ==
    ASSUME NEW z, Sound(z), Free(z), Gone(z), NEW y, Sound(y), AdmitL(z, y)
    PROVE  OrderStep(z, y)
<1>1. z \in LocalSet /\ Numbered(z) /\ y \in LocalSet
  BY Zenon DEF Sound
<1>2. z.surf \in Surface /\ z.queue \in Seq(Entry) /\ InOrder(z.queue, z.last)
  BY <1>1 DEF LocalSet, Numbered
<1> DEFINE q == z.queue
           u == Head(q).u
<1>3. /\ q # <<>> /\ y.last = z.last /\ y.surf = Onto(z.surf, u) /\ y.cache = z.cache
      /\ y.alive = z.alive /\ y.queue = Tail(q)
  BY <1>1 DEF LocalSet, AdmitL
<1>4. z.alive
  BY <1>3, Zenon DEF Gone
<1>5. z.cache.n = 0
  BY <1>3 DEF Free
<1>6. Head(q) \in Entry
  BY <1>2, <1>3
<1>7. u \in Update
  BY <1>6 DEF Entry
<1>8. u.n \in Nat /\ u.n # 0
  <2>1. Single(u)
    BY <1>2, <1>3, HeadParked
  <2>2. QED
    BY <1>7, <2>1 DEF Single, Update
<1>9. PendingIn(z) = InQueue(q) /\ PendingIn(y) = InQueue(Tail(q))
  BY <1>1, <1>3, <1>4, <1>5, PendingIs
<1>10. InQueue(q) # <<>> /\ Head(InQueue(q)) = Shape(u) /\ InQueue(Tail(q)) = Tail(InQueue(q))
  BY <1>2, <1>3, ParkedShapes
<1> HIDE DEF u
<1>11. Shape(y.surf) = CU!Over(Shape(z.surf), Shape(u))
  BY <1>2, <1>3, <1>7, <1>8, OntoShape
<1>12. QED
  BY <1>3, <1>9, <1>10, <1>11, OrderApplies

LEMMA TimeOrder ==
    ASSUME NEW z, Sound(z), Free(z), NEW y, Sound(y), TimeL(z, y)
    PROVE  OrderStep(z, y)
<1>1. z \in LocalSet /\ y \in LocalSet
  BY Zenon DEF Sound
<1>2. PICK q \in Seq(Entry) :
        /\ DOMAIN q = DOMAIN z.queue /\ \A i \in DOMAIN q : q[i].u = z.queue[i].u
        /\ y = [z EXCEPT !.queue = q]
  BY Zenon DEF TimeL
<1>3. y.last = z.last /\ y.surf = z.surf /\ y.cache = z.cache /\ y.alive = z.alive /\ y.queue = q
  BY <1>1, <1>2 DEF LocalSet
<1>4. z.queue \in Seq(Entry)
  BY <1>1 DEF LocalSet
<1>5. z.queue = <<>> => q = <<>>
  BY <1>2, <1>4
<1>6. InQueue(q) = InQueue(z.queue)
  BY <1>2 DEF InQueue
<1>7. PendingIn(y) = PendingIn(z)
  <2>1. CASE ~z.alive
    BY <1>3, <2>1, Zenon DEF PendingIn
  <2>2. CASE z.alive /\ z.cache.n = 0
    BY <1>1, <1>3, <1>6, <2>2, PendingIs
  <2>3. CASE z.alive /\ z.cache.n # 0
    <3>1. z.queue = <<>> /\ q = <<>>
      BY <1>5, <2>3 DEF Free
    <3>2. QED
      BY <1>3, <3>1, SamePending
  <2>4. QED
    BY <2>1, <2>2, <2>3
<1>8. QED
  BY <1>3, <1>7, OrderRests

LEMMA DieOrder ==
    ASSUME NEW z, Sound(z), NEW y, Sound(y), DieL(z, y)
    PROVE  OrderStep(z, y)
<1>1. z \in LocalSet /\ y \in LocalSet
  BY Zenon DEF Sound
<1>2. PICK f \in Surface :
        /\ f = [z.surf EXCEPT !.attach = "null", !.held = FALSE, !.owed = {}]
        /\ y = [z EXCEPT !.alive = FALSE, !.surf = f, !.queue = <<>>,
                         !.back = @ \cup ParkedBuffers(z.queue) \cup Freed(z, f),
                         !.lost = @ \cup z.surf.owed \cup ParkedFrames(z.queue)]
  BY Zenon DEF DieL
<1>3. y.last = z.last /\ y.surf = f /\ ~y.alive
  BY <1>1, <1>2 DEF LocalSet
<1>4. z.surf \in Surface
  BY <1>1 DEF LocalSet
<1>5. f.n = z.surf.n /\ f.from = z.surf.from
  BY <1>2, <1>4 DEF Surface
<1>6. Shape(y.surf) = Shape(z.surf)
  BY <1>3, <1>5 DEF Shape
<1>7. PendingIn(y) = <<>>
  BY <1>1, <1>3, PendingIs
<1>8. QED
  BY <1>3, <1>6, <1>7, OrderDrops

LEMMA SubDieOrder ==
    ASSUME NEW z, Sound(z), Free(z), NEW y, Sound(y), SubDieL(z, y)
    PROVE  OrderStep(z, y)
<1>1. z \in LocalSet /\ y \in LocalSet
  BY Zenon DEF Sound
<1>2. /\ y.last = z.last /\ y.surf = z.surf /\ y.cache = NoUpdate
      /\ y.alive = z.alive /\ y.queue = z.queue
  BY <1>1 DEF LocalSet, SubDieL
<1>3. NoUpdate.n = 0 /\ z.queue \in Seq(Entry)
  BY <1>1 DEF NoUpdate, LocalSet
<1>4. CASE ~z.alive
  <2>1. PendingIn(z) = <<>> /\ PendingIn(y) = <<>>
    BY <1>2, <1>4, Zenon DEF PendingIn
  <2>2. QED
    BY <1>2, <2>1, OrderRests
<1>5. CASE z.alive /\ z.cache.n = 0
  <2>1. PendingIn(y) = PendingIn(z)
    BY <1>1, <1>2, <1>3, <1>5, PendingIs
  <2>2. QED
    BY <1>2, <2>1, OrderRests
<1>6. CASE z.alive /\ z.cache.n # 0
  <2>1. z.queue = <<>>
    BY <1>6 DEF Free
  <2>2. PendingIn(y) = InQueue(<<>>)
    BY <1>1, <1>2, <1>3, <1>6, <2>1, PendingIs
  <2>3. PendingIn(y) = <<>>
    BY <1>3, <2>2, ParkedShapes
  <2>4. QED
    BY <1>2, <2>3, OrderDrops
<1>7. QED
  BY <1>4, <1>5, <1>6

LEMMA OtherOrder ==
    ASSUME NEW z, Sound(z), NEW y, Sound(y),
           FrameL(z, y) \/ FenceL(z, y) \/ FlipL(z, y) \/ ReadyL(z, y)
    PROVE  OrderStep(z, y)
<1>1. z \in LocalSet /\ z.surf \in Surface
  BY Zenon DEF Sound, LocalSet
<1>2. y.last = z.last /\ y.queue = z.queue /\ y.cache = z.cache /\ y.alive = z.alive
  BY <1>1 DEF FrameL, FenceL, FlipL, ReadyL, LocalSet
<1>3. y.surf.n = z.surf.n /\ y.surf.from = z.surf.from
  <2>1. CASE FrameL(z, y)
    <3>1. PICK f \in Surface, gpu \in SUBSET HeldBy(z.surf) :
            /\ f = z.surf \/ f = [z.surf EXCEPT !.held = FALSE]
            /\ y = [z EXCEPT !.surf = f, !.gpu = gpu]
      BY <2>1, Zenon DEF FrameL
    <3>2. f.n = z.surf.n /\ f.from = z.surf.from
      BY <1>1, <3>1 DEF Surface
    <3>3. y.surf = f
      BY <1>1, <3>1 DEF LocalSet
    <3>4. QED
      BY <3>2, <3>3
  <2>2. CASE FlipL(z, y)
    <3>1. PICK f \in Surface :
            f = [z.surf EXCEPT !.owed = {}] /\ y = [z EXCEPT !.surf = f, !.done = @ \cup z.surf.owed]
      BY <2>2, Zenon DEF FlipL
    <3>2. f.n = z.surf.n /\ f.from = z.surf.from
      BY <1>1, <3>1 DEF Surface
    <3>3. y.surf = f
      BY <1>1, <3>1 DEF LocalSet
    <3>4. QED
      BY <3>2, <3>3
  <2>3. CASE FenceL(z, y) \/ ReadyL(z, y)
    BY <1>1, <2>3 DEF FenceL, ReadyL, LocalSet
  <2>4. QED
    BY <2>1, <2>2, <2>3
<1>4. Shape(y.surf) = Shape(z.surf)
  BY <1>3 DEF Shape
<1>5. PendingIn(y) = PendingIn(z)
  BY <1>2, SamePending
<1>6. QED
  BY <1>2, <1>4, <1>5, OrderRests

\* Every step of a surface is a step of ContentUpdates, or none of it.
LEMMA LocalOrder ==
    ASSUME NEW d \in Surfaces, NEW z, Sound(z), Free(z), Gone(z),
           NEW y, Sound(y), Free(y), LocalStep(d, z, y),
           ~z.alive => Shape(y.surf) = Shape(z.surf), NowL(d, z, y) => z.cache.n = 0
    PROVE  OrderStep(z, y)
<1>1. CASE z = y
  BY <1>1, OrderRests
<1>2. CASE CacheL(d, z, y)
  BY <1>2, CacheOrder
<1>3. CASE ParkL(d, z, y)
  BY <1>3, ParkOrder
<1>4. CASE NowL(d, z, y)
  BY <1>4, NowOrder
<1>5. CASE ApplyCacheL(z, y)
  BY <1>5, ApplyCacheOrder
<1>6. CASE AdmitL(z, y)
  BY <1>6, AdmitOrder
<1>7. CASE TimeL(z, y)
  BY <1>7, TimeOrder
<1>8. CASE DieL(z, y)
  BY <1>8, DieOrder
<1>9. CASE SubDieL(z, y)
  BY <1>9, SubDieOrder
<1>10. CASE FrameL(z, y) \/ FenceL(z, y) \/ FlipL(z, y) \/ ReadyL(z, y)
  BY <1>10, OtherOrder
<1>11. QED
  BY <1>1, <1>2, <1>3, <1>4, <1>5, <1>6, <1>7, <1>8, <1>9, <1>10, Zenon DEF LocalStep

LEMMA PendingLocal ==
    ASSUME NEW d \in Surfaces
    PROVE  PendingIn(Local(d)) = Pending(d)
<1>1. /\ Local(d).queue = queue[d] /\ Local(d).cache = cache[d]
      /\ Local(d).alive <=> d \in alive
  BY DEF Local
<1>2. WaitingIn(Local(d).queue, Local(d).cache) = Waiting(d)
  BY <1>1 DEF WaitingIn, Waiting
<1>3. QED
  BY <1>1, <1>2 DEF PendingIn, Pending, Shapes

LEMMA NextOrder ==
    ASSUME TwoLevels, Orderly, AllGone, Orderly', [SCNext]_vars, NEW d \in Surfaces
    PROVE  OrderStep(Local(d), Local(d)')
<1>1. Typed /\ Sound(Local(d)) /\ Tidy /\ Parted /\ Gone(Local(d))
  BY DEF Orderly, LocallyKept, AllGone
<1>2. Sound(Local(d)') /\ Free(Local(d)')
  <2>1. LocallyKept' /\ Tidy' /\ Parted'
    BY DEF Orderly
  <2>2. Sound(Local(d))'
    BY <2>1 DEF LocallyKept
  <2>3. Free(Local(d))'
    BY <2>1, FreeNow, PTL
  <2>4. QED
    BY <2>2, <2>3 DEF Sound, Free
<1>3. LocalStep(d, Local(d), Local(d)') /\ Free(Local(d))
  BY <1>1, NextLocal, FreeNow
<1>4. /\ Local(d).alive = (d \in alive) /\ Local(d).surf = surf[d] /\ Local(d)'.surf = surf'[d]
      /\ Local(d).last = last[d] /\ Local(d)'.last = last'[d] /\ Local(d).queue = queue[d]
      /\ Local(d)'.queue = queue'[d] /\ Local(d).cache = cache[d] /\ Local(d)'.cache = cache'[d]
  BY DEF Local
<1>5. ~Local(d).alive => Shape(Local(d)'.surf) = Shape(Local(d).surf)
  BY <1>4, GoneIsStill
<1>6. ASSUME NowL(d, Local(d), Local(d)') PROVE Local(d).cache.n = 0
  <2>1. Local(d) \in LocalSet
    BY <1>1, LocalTyped
  <2> DEFINE z == Local(d)
             y == Local(d)'
  <2>2. y.last = z.last + 1 /\ y.queue = <<>> /\ y.cache = z.cache
    <3> HIDE DEF z, y
    <3>1. z \in LocalSet /\ NowL(d, z, y)
      BY <1>6, <2>1 DEF z, y
    <3>2. QED
      BY <3>1 DEF NowL, LocalSet
  <2>3. QED
    BY <1>4, <2>2, GoneIsStill
<1>7. QED
  BY <1>1, <1>2, <1>3, <1>5, <1>6, LocalOrder

LEMMA OrderMaps ==
    ASSUME NEW d \in Surfaces, OrderStep(Local(d), Local(d)')
    PROVE  CU!SurfaceStep(d) \/ CU!Rests(d)
<1> DEFINE m == last[d]
           f == Shape(surf[d])
           w == Pending(d)
           m2 == last'[d]
           f2 == Shape(surf'[d])
           w2 == Pending(d)'
<1>1. Ordered(m, f, w, m2, f2, w2)
  <2>1. PendingIn(Local(d)) = w /\ PendingIn(Local(d))' = w2
    <3>1. PendingIn(Local(d)) = Pending(d)
      BY PendingLocal
    <3>2. (PendingIn(Local(d)) = Pending(d))'
      BY PendingLocal, PTL
    <3>3. QED
      BY <3>1, <3>2
  <2>2. PendingIn(Local(d)') = w2
    BY <2>1 DEF PendingIn
  <2>3. Local(d).last = m /\ Local(d).surf = surf[d] /\ Local(d)'.last = m2 /\ Local(d)'.surf = surf'[d]
    BY DEF Local
  <2>4. QED
    BY <2>1, <2>2, <2>3 DEF OrderStep
<1> DEFINE S(s) == [n |-> surf[s].n, from |-> surf[s].from]
           shown == [s \in Surfaces |-> S(s)]
           waiting == [s \in Surfaces |-> Pending(s)]
<1>2. shown[d] = f /\ shown'[d] = f2 /\ waiting[d] = w /\ waiting'[d] = w2
  BY DEF Shape
<1> HIDE DEF w, w2, f, f2
<1>3. QED
  BY <1>1, <1>2 DEF Ordered, CU!SurfaceStep, CU!CommitNow, CU!CommitWaits, CU!CommitFolds,
     CU!Fresh, CU!Apply, CU!Drop, CU!Rests

(* Each surface's updates are applied in the order of their commits, each  *)
(* whole, and its content is the newest applied attach: what ContentUpdates *)
(* promises is kept through caches, queues, drains and destruction, in     *)
(* trees of one level and as long as set_sync does not come while updates  *)
(* are parked (then a later commit, in the cache, overtakes them).         *)
THEOREM UpdatesKeepOrder ==
    ASSUME TwoLevels, ~SyncWhileParked
    PROVE  SCSpec => KeepsOrder
<1>1. SCInit => CU!CUInit
  <2>1. ASSUME SCInit PROVE CU!CUInit
    <3>1. last = [s \in Surfaces |-> 0]
      BY <2>1 DEF SCInit
    <3>2. ASSUME NEW s \in Surfaces PROVE [n |-> surf[s].n, from |-> surf[s].from] = CU!Blank
      BY <2>1, <3>2 DEF SCInit, CU!Blank
    <3>3. ASSUME NEW s \in Surfaces PROVE Pending(s) = <<>>
      <4>1. Waiting(s) = <<>>
        <5>1. queue[s] = <<>> /\ cache[s].n = 0
          BY <2>1, <3>3 DEF SCInit, NoUpdate
        <5>2. Waiting(s) = <<>> \o <<>>
          BY <5>1 DEF Waiting
        <5>3. QED
          BY <5>2
      <4>2. QED
        BY <4>1 DEF Pending
    <3>4. QED
      BY <3>1, <3>2, <3>3 DEF CU!CUInit
  <2>2. QED
    BY <2>1
<1>2. Orderly /\ AllGone /\ Orderly' /\ [SCNext]_vars => [CU!CUNext]_CU!cuVars
  <2> SUFFICES ASSUME Orderly, AllGone, Orderly', [SCNext]_vars PROVE CU!CUNext
    OBVIOUS
  <2>1. ASSUME NEW d \in Surfaces PROVE CU!SurfaceStep(d) \/ CU!Rests(d)
    BY <2>1, NextOrder, OrderMaps
  <2>2. QED
    BY <2>1 DEF CU!CUNext
<1>3. SCSpec => []Orderly
  BY OrderlyKept
<1>4. QED
  BY <1>1, <1>2, <1>3, AllGoneKept, PTL DEF SCSpec, KeepsOrder, CU!CUSpec
=============================================================================
