-------------------------- MODULE ShmUploadsProofs --------------------------
(***************************************************************************)
(* Proofs about ShmUploads for any surfaces, buffers, cells and behaviour  *)
(* of the clients.                                                         *)
(***************************************************************************)
EXTENDS ShmUploads, FiniteSetTheorems, SequenceTheorems, TLAPS

SurfType == [buf : Buffers \cup {NoBuf}, has : BOOLEAN, dirty : BOOLEAN, alive : BOOLEAN,
             damage : SUBSET Cells, owed : BOOLEAN]
ContentType == [damage : SUBSET Cells, stale : SUBSET Cells,
                copy : {"new", "prepared", "ready", "failed"}]
StagedType == [init : BOOLEAN, stale : SUBSET Cells]
TexType == [there : BOOLEAN, pend : BOOLEAN, src : Buffers \cup {NoBuf}, gone : BOOLEAN,
            rect : SUBSET Cells, stale : SUBSET Cells]
GpuType == [busy : BOOLEAN, reads : SUBSET Buffers, held : SUBSET Buffers, gone : BOOLEAN]
TaskType == [s : Surfaces, b : Buffers]

Typed ==
    /\ surf \in [Surfaces -> SurfType]
    /\ refs \in [Buffers -> Int]
    /\ content \in [Buffers -> ContentType]
    /\ staged \in [Buffers -> StagedType]
    /\ tex \in [Surfaces -> TexType]
    /\ tasks \in Seq(TaskType)
    /\ gpu \in GpuType

Flags ==
    /\ worker \in {"idle", "copying", "copied", "failed"}
    /\ {flip, needsFrame} \subseteq BOOLEAN
    /\ forced \in {"no", "before", "after"}

-----------------------------------------------------------------------------
(* The operators.                                                          *)

LEMMA CountIs ==
    ASSUME Typed, NEW plus, NEW minus
    PROVE  /\ Count(plus, minus) \in [Buffers -> Int]
           /\ \A b \in Buffers :
                Count(plus, minus)[b]
                    = refs[b] + (IF b \in plus THEN 1 ELSE 0) - (IF b \in minus THEN 1 ELSE 0)
BY DEF Typed, Count, One

\* A note whose source has no reference left is a note of a content that is gone.
LEMMA OrphanedIs ==
    ASSUME NEW t \in [Surfaces -> TexType], NEW r \in [Buffers -> Int]
    PROVE  /\ Orphaned(t, r) \in [Surfaces -> TexType]
           /\ \A s \in Surfaces :
                /\ Orphaned(t, r)[s].there = t[s].there
                /\ Orphaned(t, r)[s].pend = t[s].pend
                /\ Orphaned(t, r)[s].src = t[s].src
                /\ Orphaned(t, r)[s].rect = t[s].rect
                /\ Orphaned(t, r)[s].stale = t[s].stale
                /\ t[s].src # NoBuf /\ r[t[s].src] = 0 => Orphaned(t, r)[s].gone = TRUE
                /\ ~(t[s].src # NoBuf /\ r[t[s].src] = 0)
                     => Orphaned(t, r)[s].gone = t[s].gone
BY DEF Orphaned, TexType

LEMMA KeptIs ==
    ASSUME NEW c \in [Buffers -> ContentType], NEW r \in [Buffers -> Int]
    PROVE  /\ Kept(c, r) \in [Buffers -> ContentType]
           /\ \A b \in Buffers : Kept(c, r)[b] = IF r[b] = 0 THEN NoContent ELSE c[b]
BY DEF Kept, ContentType, NoContent

\* What Become makes of textures t and contents c.
TexAfter(t) ==
    /\ tex' \in [Surfaces -> TexType]
    /\ \A s \in Surfaces :
        /\ tex'[s].there = t[s].there
        /\ tex'[s].pend = t[s].pend
        /\ tex'[s].src = t[s].src
        /\ tex'[s].rect = t[s].rect
        /\ tex'[s].stale = t[s].stale
        /\ t[s].src # NoBuf /\ refs'[t[s].src] = 0 => tex'[s].gone = TRUE
        /\ ~(t[s].src # NoBuf /\ refs'[t[s].src] = 0) => tex'[s].gone = t[s].gone

ContentAfter(c) ==
    /\ content' \in [Buffers -> ContentType]
    /\ \A b \in Buffers : content'[b] = IF refs'[b] = 0 THEN NoContent ELSE c[b]

LEMMA BecomeIs ==
    ASSUME NEW t \in [Surfaces -> TexType], NEW c \in [Buffers -> ContentType],
           NEW r \in [Buffers -> Int], Become(t, c, r)
    PROVE  TexAfter(t) /\ ContentAfter(c) /\ refs' = r
<1>1. tex' = Orphaned(t, r) /\ content' = Kept(c, r) /\ refs' = r
  BY DEF Become
<1>2. TexAfter(t)
  <2>1. tex' \in [Surfaces -> TexType]
    BY <1>1, OrphanedIs
  <2>2. ASSUME NEW s \in Surfaces
        PROVE  /\ tex'[s].there = t[s].there
               /\ tex'[s].pend = t[s].pend
               /\ tex'[s].src = t[s].src
               /\ tex'[s].rect = t[s].rect
               /\ tex'[s].stale = t[s].stale
               /\ t[s].src # NoBuf /\ refs'[t[s].src] = 0 => tex'[s].gone = TRUE
               /\ ~(t[s].src # NoBuf /\ refs'[t[s].src] = 0) => tex'[s].gone = t[s].gone
    BY <1>1, OrphanedIs
  <2>3. QED
    BY <2>1, <2>2, Zenon DEF TexAfter
<1>3. ContentAfter(c)
  <2>1. content' \in [Buffers -> ContentType]
    BY <1>1, KeptIs
  <2>2. \A b \in Buffers : content'[b] = IF refs'[b] = 0 THEN NoContent ELSE c[b]
    BY <1>1, KeptIs
  <2>3. QED
    BY <2>1, <2>2, Zenon DEF ContentAfter
<1>4. QED
  BY <1>1, <1>2, <1>3

\* References are counted in Count's terms.
LEMMA BecomeCounts ==
    ASSUME Typed, NEW t \in [Surfaces -> TexType], NEW c \in [Buffers -> ContentType],
           NEW plus, NEW minus, Become(t, c, Count(plus, minus))
    PROVE  /\ TexAfter(t) /\ ContentAfter(c)
           /\ refs' \in [Buffers -> Int]
           /\ \A b \in Buffers :
                refs'[b] = refs[b] + (IF b \in plus THEN 1 ELSE 0) - (IF b \in minus THEN 1 ELSE 0)
<1> DEFINE r == Count(plus, minus)
<1>1. /\ r \in [Buffers -> Int]
      /\ \A b \in Buffers :
            r[b] = refs[b] + (IF b \in plus THEN 1 ELSE 0) - (IF b \in minus THEN 1 ELSE 0)
  BY CountIs
<1> HIDE DEF r
<1>2. Become(t, c, r)
  BY DEF r
<1>3. TexAfter(t) /\ ContentAfter(c) /\ refs' = r
  BY <1>1, <1>2, BecomeIs
<1>4. QED
  BY <1>1, <1>3

-----------------------------------------------------------------------------
(* What each operation does, one field at a time.                          *)

\* The surface's buffer, if it has one.
Had(s) == {surf[s].buf} \ {NoBuf}

LEMMA CommitSurf ==
    ASSUME Typed, NEW s \in Surfaces, NEW b \in Buffers, NEW d \in SUBSET Cells,
           Commit(s, b, d)
    PROVE  /\ surf' \in [Surfaces -> SurfType]
           /\ surf'[s].buf = b /\ surf'[s].has = TRUE /\ surf'[s].dirty = TRUE
           /\ surf'[s].damage = d
           /\ \A t \in Surfaces : t # s => surf'[t] = surf[t]
<1>1. surf' = [surf EXCEPT ![s].buf = b, ![s].has = TRUE, ![s].dirty = TRUE,
                          ![s].damage = d, ![s].owed = TRUE]
  BY Zenon DEF Commit
<1>2. surf \in [Surfaces -> SurfType]
  BY DEF Typed
<1>3. surf' = [surf EXCEPT ![s] = [@ EXCEPT !.buf = b, !.has = TRUE, !.dirty = TRUE,
                                            !.damage = d, !.owed = TRUE]]
  BY <1>1, <1>2 DEF SurfType
<1>4. surf' \in [Surfaces -> SurfType]
  BY <1>2, <1>3 DEF SurfType
<1>5. surf'[s].buf = b /\ surf'[s].damage = d
  BY <1>2, <1>3 DEF SurfType
<1>6. surf'[s].has = TRUE /\ surf'[s].dirty = TRUE
  BY <1>2, <1>3 DEF SurfType
<1>7. \A t \in Surfaces : t # s => surf'[t] = surf[t]
  BY <1>2, <1>3
<1>8. QED
  BY <1>4, <1>5, <1>6, <1>7

\* A surface loses its buffer.
LEMMA CommitNullSurf ==
    ASSUME Typed, NEW s \in Surfaces, CommitNull(s)
    PROVE  /\ surf' \in [Surfaces -> SurfType]
           /\ surf'[s].buf = NoBuf /\ surf'[s].has = FALSE
           /\ \A t \in Surfaces : t # s => surf'[t] = surf[t]
<1>1. surf' = [surf EXCEPT ![s].buf = NoBuf, ![s].has = FALSE, ![s].damage = {}]
  BY Zenon DEF CommitNull
<1>2. surf \in [Surfaces -> SurfType]
  BY DEF Typed
<1>3. surf' = [surf EXCEPT ![s] = [@ EXCEPT !.buf = NoBuf, !.has = FALSE, !.damage = {}]]
  BY <1>1, <1>2 DEF SurfType
<1>4. surf' \in [Surfaces -> SurfType]
  BY <1>2, <1>3 DEF SurfType
<1>5. surf'[s].buf = NoBuf /\ surf'[s].has = FALSE
  BY <1>2, <1>3 DEF SurfType
<1>6. \A t \in Surfaces : t # s => surf'[t] = surf[t]
  BY <1>2, <1>3
<1>7. QED
  BY <1>4, <1>5, <1>6

LEMMA DestroySurf ==
    ASSUME Typed, NEW s \in Surfaces, DestroySurface(s)
    PROVE  /\ surf' \in [Surfaces -> SurfType]
           /\ surf'[s].buf = NoBuf /\ surf'[s].has = FALSE
           /\ \A t \in Surfaces : t # s => surf'[t] = surf[t]
<1>1. surf' = [surf EXCEPT ![s].alive = FALSE, ![s].buf = NoBuf, ![s].has = FALSE,
                          ![s].dirty = FALSE, ![s].damage = {}, ![s].owed = FALSE]
  BY Zenon DEF DestroySurface
<1>2. surf \in [Surfaces -> SurfType]
  BY DEF Typed
<1>3. surf' = [surf EXCEPT ![s] =
                  [@ EXCEPT !.alive = FALSE, !.buf = NoBuf, !.has = FALSE,
                            !.dirty = FALSE, !.damage = {}, !.owed = FALSE]]
  BY <1>1, <1>2 DEF SurfType
<1>4. surf' \in [Surfaces -> SurfType]
  BY <1>2, <1>3 DEF SurfType
<1>5. surf'[s].buf = NoBuf /\ surf'[s].has = FALSE
  BY <1>2, <1>3 DEF SurfType
<1>6. \A t \in Surfaces : t # s => surf'[t] = surf[t]
  BY <1>2, <1>3
<1>7. QED
  BY <1>4, <1>5, <1>6

\* A commit takes a reference and drops the surface's last one.
LEMMA CommitRefs ==
    ASSUME Typed, NEW s \in Surfaces, NEW b \in Buffers, NEW d \in SUBSET Cells,
           Commit(s, b, d)
    PROVE  \A c \in Buffers :
                refs'[c] = refs[c] + (IF c = b THEN 1 ELSE 0)
                             - (IF c = surf[s].buf THEN 1 ELSE 0)
<1> DEFINE gone == IF surf[s].buf = NoBuf THEN {} ELSE {surf[s].buf}
           r1 == Count({b}, gone)
<1>1. refs' = r1
  BY Zenon DEF Commit, Become
<1>2. \A c \in Buffers : c \in gone <=> c = surf[s].buf
  BY BuffersAssumption
<1> HIDE DEF gone
<1>3. \A c \in Buffers : r1[c] = refs[c] + (IF c \in {b} THEN 1 ELSE 0)
                                   - (IF c \in gone THEN 1 ELSE 0)
  BY CountIs
<1> HIDE DEF r1
<1>4. QED
  BY <1>1, <1>2, <1>3

\* What a commit damages is stale in the texture, in the buffer's older
\* contents and in their copies.
DamagedTex(s, d) == [tex EXCEPT ![s].stale = @ \cup d]
DamagedContent(s, b, d) ==
    [c \in Buffers |->
        IF c = b THEN [NoContent EXCEPT !.damage = d]
        ELSE [content[c] EXCEPT !.stale = @ \cup (IF c \in Bufs[s] THEN d ELSE {})]]

LEMMA DamagedIs ==
    ASSUME Typed, NEW s \in Surfaces, NEW b \in Buffers, NEW d \in SUBSET Cells
    PROVE  /\ DamagedTex(s, d) \in [Surfaces -> TexType]
           /\ DamagedContent(s, b, d) \in [Buffers -> ContentType]
<1>t. tex \in [Surfaces -> TexType] /\ content \in [Buffers -> ContentType]
  BY DEF Typed
<1>1. DamagedTex(s, d) \in [Surfaces -> TexType]
  BY <1>t DEF TexType, DamagedTex
<1>2. DamagedContent(s, b, d) \in [Buffers -> ContentType]
  BY <1>t DEF ContentType, NoContent, DamagedContent
<1>3. QED
  BY <1>1, <1>2

LEMMA CommitBecomes ==
    ASSUME Typed, NEW s \in Surfaces, NEW b \in Buffers, NEW d \in SUBSET Cells,
           Commit(s, b, d)
    PROVE  /\ TexAfter(DamagedTex(s, d)) /\ ContentAfter(DamagedContent(s, b, d))
           /\ refs' \in [Buffers -> Int]
<1> DEFINE gone == IF surf[s].buf = NoBuf THEN {} ELSE {surf[s].buf}
           t1 == DamagedTex(s, d)
           c1 == DamagedContent(s, b, d)
<1>1. Become(t1, c1, Count({b}, gone))
  BY Zenon DEF Commit, DamagedTex, DamagedContent
<1>2. t1 \in [Surfaces -> TexType] /\ c1 \in [Buffers -> ContentType]
  BY DamagedIs
<1> HIDE DEF t1, c1, gone
<1>3. TexAfter(t1) /\ ContentAfter(c1) /\ refs' \in [Buffers -> Int]
  BY <1>1, <1>2, BecomeCounts
<1>4. QED
  BY <1>3 DEF t1, c1

LEMMA CommitTex ==
    ASSUME Typed, NEW s \in Surfaces, NEW b \in Buffers, NEW d \in SUBSET Cells,
           Commit(s, b, d)
    PROVE  \A t \in Surfaces :
              /\ tex'[t].there = tex[t].there
              /\ tex'[t].pend = tex[t].pend
              /\ tex'[t].src = tex[t].src
              /\ tex'[t].rect = tex[t].rect
              /\ t # s => tex'[t].stale = tex[t].stale
              /\ t = s => tex'[t].stale = tex[t].stale \cup d
              /\ tex[t].src # NoBuf /\ refs'[tex[t].src] = 0 => tex'[t].gone = TRUE
              /\ ~(tex[t].src # NoBuf /\ refs'[tex[t].src] = 0)
                   => tex'[t].gone = tex[t].gone
<1> DEFINE t1 == DamagedTex(s, d)
<1> SUFFICES ASSUME NEW t \in Surfaces
             PROVE  /\ tex'[t].there = tex[t].there
                    /\ tex'[t].pend = tex[t].pend
                    /\ tex'[t].src = tex[t].src
                    /\ tex'[t].rect = tex[t].rect
                    /\ t # s => tex'[t].stale = tex[t].stale
                    /\ t = s => tex'[t].stale = tex[t].stale \cup d
                    /\ tex[t].src # NoBuf /\ refs'[tex[t].src] = 0 => tex'[t].gone = TRUE
                    /\ ~(tex[t].src # NoBuf /\ refs'[tex[t].src] = 0)
                          => tex'[t].gone = tex[t].gone
  OBVIOUS
<1>1. TexAfter(t1)
  BY CommitBecomes
<1>2. /\ t1[t].there = tex[t].there
      /\ t1[t].pend = tex[t].pend /\ t1[t].src = tex[t].src
      /\ t1[t].rect = tex[t].rect /\ t1[t].gone = tex[t].gone
      /\ t # s => t1[t].stale = tex[t].stale
      /\ t = s => t1[t].stale = tex[t].stale \cup d
  BY DEF Typed, TexType, DamagedTex
<1> HIDE DEF t1
<1>3. /\ tex'[t].there = t1[t].there
      /\ tex'[t].pend = t1[t].pend /\ tex'[t].src = t1[t].src
      /\ tex'[t].rect = t1[t].rect /\ tex'[t].stale = t1[t].stale
  BY <1>1, Zenon DEF TexAfter
<1>4. /\ t1[t].src # NoBuf /\ refs'[t1[t].src] = 0 => tex'[t].gone = TRUE
      /\ ~(t1[t].src # NoBuf /\ refs'[t1[t].src] = 0) => tex'[t].gone = t1[t].gone
  BY <1>1, Zenon DEF TexAfter
<1>5. QED
  BY <1>2, <1>3, <1>4, Zenon

LEMMA CommitContent ==
    ASSUME Typed, NEW s \in Surfaces, NEW b \in Buffers, NEW d \in SUBSET Cells,
           Commit(s, b, d)
    PROVE  \A c \in Buffers :
              /\ refs'[c] # 0 /\ c = b =>
                  /\ content'[c].damage = d
                  /\ content'[c].stale = {}
                  /\ content'[c].copy = "new"
              /\ refs'[c] # 0 /\ c # b =>
                  /\ content'[c].damage = content[c].damage
                  /\ c \in Bufs[s] => content'[c].stale = content[c].stale \cup d
                  /\ c \notin Bufs[s] => content'[c].stale = content[c].stale
                  /\ content'[c].copy = content[c].copy
              /\ refs'[c] = 0 => content'[c] = NoContent
<1> DEFINE c1 == DamagedContent(s, b, d)
<1>1. ContentAfter(c1)
  BY CommitBecomes
<1>2. \A c \in Buffers :
        /\ c = b => c1[c].damage = d /\ c1[c].stale = {} /\ c1[c].copy = "new"
        /\ c # b => /\ c1[c].damage = content[c].damage
                    /\ c \in Bufs[s] => c1[c].stale = content[c].stale \cup d
                    /\ c \notin Bufs[s] => c1[c].stale = content[c].stale
                    /\ c1[c].copy = content[c].copy
  BY DEF Typed, ContentType, NoContent, DamagedContent
<1> HIDE DEF c1
<1>3. \A c \in Buffers : refs'[c] = 0 => content'[c] = NoContent
  BY <1>1, Zenon DEF ContentAfter
<1>4. \A c \in Buffers : refs'[c] # 0 => content'[c] = c1[c]
  BY <1>1, Zenon DEF ContentAfter
<1>5. ASSUME NEW c \in Buffers, refs'[c] # 0, c = b
      PROVE  content'[c].damage = d /\ content'[c].stale = {} /\ content'[c].copy = "new"
  BY <1>2, <1>4, <1>5
<1>6. ASSUME NEW c \in Buffers, refs'[c] # 0, c # b
      PROVE  /\ content'[c].damage = content[c].damage
             /\ c \in Bufs[s] => content'[c].stale = content[c].stale \cup d
             /\ c \notin Bufs[s] => content'[c].stale = content[c].stale
             /\ content'[c].copy = content[c].copy
  BY <1>2, <1>4, <1>6
<1>7. QED
  BY <1>3, <1>5, <1>6, Zenon

LEMMA CommitStaged ==
    ASSUME Typed, NEW s \in Surfaces, NEW b \in Buffers, NEW d \in SUBSET Cells,
           Commit(s, b, d)
    PROVE  /\ staged' \in [Buffers -> StagedType]
           /\ \A c \in Buffers :
                /\ c \in Bufs[s] => staged'[c].stale = staged[c].stale \cup d
                /\ c \notin Bufs[s] => staged'[c].stale = staged[c].stale
<1> DEFINE Older(c) == IF c \in Bufs[s] THEN d ELSE {}
<1>1. staged' = [c \in Buffers |-> [staged[c] EXCEPT !.stale = @ \cup Older(c)]]
  BY Zenon DEF Commit
<1>2. QED
  BY <1>1 DEF Typed, StagedType

\* The surface's buffer loses a reference.
LEMMA CommitNullRest ==
    ASSUME Typed, NEW s \in Surfaces, CommitNull(s)
    PROVE  /\ TexAfter(tex) /\ ContentAfter(content)
           /\ refs' \in [Buffers -> Int]
           /\ \A c \in Buffers : refs'[c] = refs[c] - (IF c = surf[s].buf THEN 1 ELSE 0)
<1> DEFINE gone == IF surf[s].buf = NoBuf THEN {} ELSE {surf[s].buf}
<1>1. Become(tex, content, Count({}, gone))
  BY Zenon DEF CommitNull
<1>2. \A c \in Buffers : c \in gone <=> c = surf[s].buf
  BY BuffersAssumption
<1> HIDE DEF gone
<1>3. tex \in [Surfaces -> TexType] /\ content \in [Buffers -> ContentType]
  BY DEF Typed
<1>4. /\ TexAfter(tex) /\ ContentAfter(content) /\ refs' \in [Buffers -> Int]
      /\ \A c \in Buffers : refs'[c] = refs[c] + (IF c \in {} THEN 1 ELSE 0)
                                       - (IF c \in gone THEN 1 ELSE 0)
  BY <1>1, <1>3, BecomeCounts
<1>5. refs \in [Buffers -> Int]
  BY DEF Typed
<1>6. \A c \in Buffers : refs'[c] = refs[c] - (IF c = surf[s].buf THEN 1 ELSE 0)
  BY <1>2, <1>4, <1>5
<1>7. QED
  BY <1>4, <1>6

\* The texture starts over, too.
LEMMA DestroyRest ==
    ASSUME Typed, NEW s \in Surfaces, DestroySurface(s)
    PROVE  /\ tex' \in [Surfaces -> TexType] /\ ContentAfter(content)
           /\ tex'[s].pend = FALSE /\ tex'[s].src = NoBuf /\ tex'[s].stale = Cells
           /\ \A t \in Surfaces : t # s =>
                /\ tex'[t].there = tex[t].there
                /\ tex'[t].pend = tex[t].pend
                /\ tex'[t].src = tex[t].src
                /\ tex'[t].rect = tex[t].rect
                /\ tex'[t].stale = tex[t].stale
                /\ tex[t].src # NoBuf /\ refs'[tex[t].src] = 0 => tex'[t].gone = TRUE
                /\ ~(tex[t].src # NoBuf /\ refs'[tex[t].src] = 0)
                     => tex'[t].gone = tex[t].gone
           /\ refs' \in [Buffers -> Int]
           /\ \A c \in Buffers : refs'[c] = refs[c] - (IF c = surf[s].buf THEN 1 ELSE 0)
<1> DEFINE gone == IF surf[s].buf = NoBuf THEN {} ELSE {surf[s].buf}
           t1 == [tex EXCEPT ![s] = NoTex]
<1>1. Become(t1, content, Count({}, gone))
  BY Zenon DEF DestroySurface
<1>2. \A c \in Buffers : c \in gone <=> c = surf[s].buf
  BY BuffersAssumption
<1>3. content \in [Buffers -> ContentType] /\ tex \in [Surfaces -> TexType]
  BY DEF Typed
<1>4. /\ t1 \in [Surfaces -> TexType]
      /\ t1[s].pend = FALSE /\ t1[s].src = NoBuf /\ t1[s].stale = Cells
      /\ \A t \in Surfaces : t # s => t1[t] = tex[t]
  BY <1>3 DEF NoTex, TexType
<1> HIDE DEF gone, t1
<1>5. /\ TexAfter(t1) /\ ContentAfter(content) /\ refs' \in [Buffers -> Int]
      /\ \A c \in Buffers : refs'[c] = refs[c] + (IF c \in {} THEN 1 ELSE 0)
                                       - (IF c \in gone THEN 1 ELSE 0)
  BY <1>1, <1>3, <1>4, BecomeCounts
<1>6. refs \in [Buffers -> Int]
  BY DEF Typed
<1>7. \A c \in Buffers : refs'[c] = refs[c] - (IF c = surf[s].buf THEN 1 ELSE 0)
  BY <1>2, <1>5, <1>6
<1>8. /\ tex' \in [Surfaces -> TexType]
      /\ tex'[s].pend = FALSE /\ tex'[s].src = NoBuf /\ tex'[s].stale = Cells
      /\ \A t \in Surfaces : t # s =>
            /\ tex'[t].there = tex[t].there
            /\ tex'[t].pend = tex[t].pend
            /\ tex'[t].src = tex[t].src
            /\ tex'[t].rect = tex[t].rect
            /\ tex'[t].stale = tex[t].stale
            /\ tex[t].src # NoBuf /\ refs'[tex[t].src] = 0 => tex'[t].gone = TRUE
            /\ ~(tex[t].src # NoBuf /\ refs'[tex[t].src] = 0) => tex'[t].gone = tex[t].gone
  <2>1. /\ tex' \in [Surfaces -> TexType]
        /\ tex'[s].pend = t1[s].pend /\ tex'[s].src = t1[s].src
        /\ tex'[s].stale = t1[s].stale
    BY <1>5, Zenon DEF TexAfter
  <2>2. \A t \in Surfaces :
            /\ tex'[t].there = t1[t].there
            /\ tex'[t].pend = t1[t].pend
            /\ tex'[t].src = t1[t].src
            /\ tex'[t].rect = t1[t].rect
            /\ tex'[t].stale = t1[t].stale
            /\ t1[t].src # NoBuf /\ refs'[t1[t].src] = 0 => tex'[t].gone = TRUE
            /\ ~(t1[t].src # NoBuf /\ refs'[t1[t].src] = 0) => tex'[t].gone = t1[t].gone
    BY <1>5, Zenon DEF TexAfter
  <2>3. QED
    BY <1>4, <2>1, <2>2
<1>9. QED
  BY <1>5, <1>7, <1>8

LEMMA FenceRest ==
    ASSUME Typed, Fence
    PROVE  /\ TexAfter(tex) /\ ContentAfter(content)
           /\ refs' \in [Buffers -> Int]
           /\ \A c \in Buffers : refs'[c] = refs[c] - (IF c \in gpu.held THEN 1 ELSE 0)
<1>1. Become(tex, content, Count({}, gpu.held))
  BY Zenon DEF Fence
<1>2. tex \in [Surfaces -> TexType] /\ content \in [Buffers -> ContentType]
  BY DEF Typed
<1>3. /\ TexAfter(tex) /\ ContentAfter(content) /\ refs' \in [Buffers -> Int]
      /\ \A c \in Buffers : refs'[c] = refs[c] + (IF c \in {} THEN 1 ELSE 0)
                                       - (IF c \in gpu.held THEN 1 ELSE 0)
  BY <1>1, <1>2, BecomeCounts
<1>4. refs \in [Buffers -> Int]
  BY DEF Typed
<1>5. \A c \in Buffers : refs'[c] = refs[c] - (IF c \in gpu.held THEN 1 ELSE 0)
  BY <1>3, <1>4
<1>6. QED
  BY <1>3, <1>5

\* The task's copy is over: its content is ready or failed and loses the
\* reference of the queue.
LEMMA CopyDoneRest ==
    ASSUME Typed, CopyDone, NEW h \in TaskType, h = Head(tasks)
    PROVE  /\ TexAfter(tex)
           /\ refs' \in [Buffers -> Int]
           /\ \A c \in Buffers : refs'[c] = refs[c] - (IF c = h.b THEN 1 ELSE 0)
           /\ content' \in [Buffers -> ContentType]
           /\ \A c \in Buffers :
                /\ refs'[c] = 0 => content'[c] = NoContent
                /\ refs'[c] # 0 => /\ content'[c].damage = content[c].damage
                                   /\ content'[c].stale = content[c].stale
                /\ refs'[c] # 0 /\ c # h.b => content'[c].copy = content[c].copy
                /\ refs'[c] # 0 /\ c = h.b =>
                     content'[c].copy = IF worker = "copied" THEN "ready" ELSE "failed"
           /\ staged' \in [Buffers -> StagedType]
           /\ \A c \in Buffers : staged'[c].stale = staged[c].stale
           /\ tasks' = Tail(tasks)
<1>t. /\ tex \in [Surfaces -> TexType]
      /\ content \in [Buffers -> ContentType] /\ staged \in [Buffers -> StagedType]
      /\ h.b \in Buffers /\ refs \in [Buffers -> Int]
  BY DEF Typed, TaskType
<1> DEFINE how == IF worker = "copied" THEN "ready" ELSE "failed"
           c1 == [content EXCEPT ![h.b].copy = how]
<1>1. Become(tex, c1, Count({}, {h.b}))
  BY Zenon DEF CopyDone
<1>2. staged' = [staged EXCEPT ![h.b].init = @ \/ worker = "copied"]
  BY Zenon DEF CopyDone
<1>3. how \in {"ready", "failed"}
  OBVIOUS
<1> HIDE DEF how
<1>4. /\ c1 \in [Buffers -> ContentType]
      /\ \A c \in Buffers :
            /\ c1[c].damage = content[c].damage
            /\ c1[c].stale = content[c].stale
            /\ c # h.b => c1[c].copy = content[c].copy
            /\ c = h.b => c1[c].copy = how
  BY <1>t, <1>3 DEF ContentType
<1>5. /\ staged' \in [Buffers -> StagedType]
      /\ \A c \in Buffers : staged'[c].stale = staged[c].stale
  <2>1. staged' \in [Buffers -> StagedType]
    <3> DEFINE x == staged[h.b].init \/ worker = "copied"
    <3>1. x \in BOOLEAN
      OBVIOUS
    <3>2. staged' = [staged EXCEPT ![h.b] = [@ EXCEPT !.init = x]]
      BY <1>t, <1>2, Zenon
    <3> HIDE DEF x
    <3>3. QED
      BY <1>t, <3>1, <3>2 DEF StagedType
  <2>2. \A c \in Buffers : staged'[c].stale = staged[c].stale
    BY <1>t, <1>2 DEF StagedType
  <2>3. QED
    BY <2>1, <2>2
<1> HIDE DEF c1
<1>6. /\ TexAfter(tex) /\ ContentAfter(c1) /\ refs' \in [Buffers -> Int]
      /\ \A c \in Buffers : refs'[c] = refs[c] + (IF c \in {} THEN 1 ELSE 0)
                                       - (IF c \in {h.b} THEN 1 ELSE 0)
  BY <1>1, <1>4, <1>t, BecomeCounts
<1>7. \A c \in Buffers : refs'[c] = refs[c] - (IF c = h.b THEN 1 ELSE 0)
  BY <1>6, <1>t
<1>8. \A c \in Buffers :
        /\ refs'[c] = 0 => content'[c] = NoContent
        /\ refs'[c] # 0 => /\ content'[c].damage = content[c].damage
                           /\ content'[c].stale = content[c].stale
        /\ refs'[c] # 0 /\ c # h.b => content'[c].copy = content[c].copy
        /\ refs'[c] # 0 /\ c = h.b => content'[c].copy = how
  <2>1. \A c \in Buffers : refs'[c] = 0 => content'[c] = NoContent
    BY <1>6, Zenon DEF ContentAfter
  <2>2. \A c \in Buffers : refs'[c] # 0 => content'[c] = c1[c]
    BY <1>6, Zenon DEF ContentAfter
  <2>3. ASSUME NEW c \in Buffers, refs'[c] # 0
        PROVE  /\ content'[c].damage = content[c].damage
               /\ content'[c].stale = content[c].stale
               /\ c # h.b => content'[c].copy = content[c].copy
               /\ c = h.b => content'[c].copy = how
    <3>1. content'[c] = c1[c]
      BY <2>2, <2>3
    <3>2. QED
      BY <2>3, <1>4, <3>1
  <2>4. QED
    BY <2>1, <2>3, Zenon
<1>9. content' \in [Buffers -> ContentType] /\ tasks' = Tail(tasks)
  BY <1>6, Zenon DEF ContentAfter, CopyDone
<1>10. QED
  BY <1>5, <1>6, <1>7, <1>8, <1>9, Zenon DEF how

LEMMA CopyDoneSurf ==
    ASSUME Typed, CopyDone, NEW h \in TaskType, h = Head(tasks)
    PROVE  /\ surf' \in [Surfaces -> SurfType]
           /\ \A s \in Surfaces :
                /\ surf'[s].buf = surf[s].buf /\ surf'[s].has = surf[s].has
                /\ surf'[s].damage = surf[s].damage
                /\ surf'[s].dirty => surf[s].dirty \/ (s = h.s /\ surf[s].buf = h.b)
                /\ surf[s].dirty => surf'[s].dirty
<1>t. surf \in [Surfaces -> SurfType] /\ h.s \in Surfaces
  BY DEF Typed, TaskType
<1>1. IF surf[h.s].buf = h.b THEN surf' = [surf EXCEPT ![h.s].dirty = TRUE]
      ELSE surf' = surf
  BY Zenon DEF CopyDone, StillShows
<1>2. CASE surf[h.s].buf = h.b
  <2>1. surf' = [surf EXCEPT ![h.s].dirty = TRUE]
    BY <1>1, <1>2
  <2>2. surf' \in [Surfaces -> SurfType]
    <3> DEFINE v == [surf[h.s] EXCEPT !.dirty = TRUE]
    <3>1. surf' = [surf EXCEPT ![h.s] = v]
      BY <2>1, Zenon
    <3>2. surf[h.s] \in SurfType
      BY <1>t
    <3>3. v \in SurfType
      BY <3>2 DEF SurfType
    <3> HIDE DEF v
    <3>4. QED
      BY <1>t, <3>1, <3>3
  <2>3. \A s \in Surfaces : /\ surf'[s].buf = surf[s].buf /\ surf'[s].has = surf[s].has
                            /\ surf'[s].damage = surf[s].damage
    BY <2>1, <1>t DEF SurfType
  <2>4. surf'[h.s].dirty = TRUE /\ \A s \in Surfaces : s # h.s => surf'[s] = surf[s]
    BY <2>1, <1>t DEF SurfType
  <2>5. ASSUME NEW s \in Surfaces
        PROVE  /\ surf'[s].dirty => surf[s].dirty \/ (s = h.s /\ surf[s].buf = h.b)
               /\ surf[s].dirty => surf'[s].dirty
    <3>1. CASE s = h.s
      BY <2>4, <3>1, <1>2, Zenon
    <3>2. CASE s # h.s
      BY <2>4, <3>2, Zenon
    <3>3. QED
      BY <3>1, <3>2
  <2>6. QED
    BY <2>2, <2>3, <2>5, Zenon
<1>3. CASE surf[h.s].buf # h.b
  <2>1. surf' = surf
    BY <1>1, <1>3, Zenon
  <2> SUFFICES ASSUME NEW s \in Surfaces
               PROVE  surf'[s] = surf[s]
    BY <2>1, <1>t
  <2>2. QED
    BY <2>1
<1>4. QED
  BY <1>2, <1>3, Zenon

\* The worker writes only the staging memory of the first task's buffer.
LEMMA EndCopyStaged ==
    ASSUME Typed, EndCopy, NEW h \in TaskType, h = Head(tasks)
    PROVE  /\ staged' \in [Buffers -> StagedType]
           /\ \A c \in Buffers : c # h.b => staged'[c] = staged[c]
           /\ worker' \in {"copied", "failed"}
           /\ worker' = "copied" =>
                staged'[h.b].stale = (staged[h.b].stale \ content[h.b].damage)
                                        \cup (content[h.b].stale \cap content[h.b].damage)
           /\ worker' = "failed" =>
                staged'[h.b].stale = staged[h.b].stale \cup content[h.b].damage
           /\ UNCHANGED <<surf, refs, content, tex, tasks, gpu, flip, needsFrame, forced>>
<1>t. /\ content \in [Buffers -> ContentType] /\ staged \in [Buffers -> StagedType]
      /\ h.b \in Buffers
  BY DEF Typed, TaskType
<1> DEFINE d == content[h.b].damage
           x == (staged[h.b].stale \ d) \cup (content[h.b].stale \cap d)
           y == staged[h.b].stale \cup d
<1>1. \/ worker' = "copied" /\ staged' = [staged EXCEPT ![h.b].stale =
                                            (@ \ d) \cup (content[h.b].stale \cap d)]
      \/ worker' = "failed" /\ staged' = [staged EXCEPT ![h.b].stale = @ \cup d]
  BY Zenon DEF EndCopy
<1>2. UNCHANGED <<surf, refs, content, tex, tasks, gpu, flip, needsFrame, forced>>
  BY Zenon DEF EndCopy
<1>3. x \in SUBSET Cells /\ y \in SUBSET Cells
  BY <1>t DEF ContentType, StagedType
<1>4. \/ worker' = "copied" /\ staged' = [staged EXCEPT ![h.b].stale = x]
      \/ worker' = "failed" /\ staged' = [staged EXCEPT ![h.b].stale = y]
  BY <1>1, <1>t DEF StagedType
<1> HIDE DEF x, y
<1>5. CASE worker' = "copied" /\ staged' = [staged EXCEPT ![h.b].stale = x]
  <2>1. staged' \in [Buffers -> StagedType] /\ staged'[h.b].stale = x
    BY <1>5, <1>t, <1>3 DEF StagedType
  <2>2. \A c \in Buffers : c # h.b => staged'[c] = staged[c]
    BY <1>5, <1>t
  <2>3. QED
    BY <2>1, <2>2, <1>2, <1>5 DEF x
<1>6. CASE worker' = "failed" /\ staged' = [staged EXCEPT ![h.b].stale = y]
  <2>1. staged' \in [Buffers -> StagedType] /\ staged'[h.b].stale = y
    BY <1>6, <1>t, <1>3 DEF StagedType
  <2>2. \A c \in Buffers : c # h.b => staged'[c] = staged[c]
    BY <1>6, <1>t
  <2>3. QED
    BY <2>1, <2>2, <1>2, <1>6 DEF y
<1>7. QED
  BY <1>4, <1>5, <1>6

-----------------------------------------------------------------------------
(* The frame.                                                              *)

\* A surface shows and notes buffers of its own; one that is to be looked at
\* has a buffer, and a noted upload has a source.
Showing ==
    /\ \A s \in Surfaces : surf[s].buf \in Bufs[s] \cup {NoBuf}
    /\ \A s \in Surfaces : surf[s].buf # NoBuf => surf[s].has
    /\ \A s \in Surfaces : surf[s].has /\ surf[s].dirty => surf[s].buf # NoBuf
    /\ \A s \in Surfaces : tex[s].src \in Bufs[s] \cup {NoBuf}
    /\ \A s \in Surfaces : tex[s].pend => tex[s].src # NoBuf

LEMMA OwnBuffers ==
    ASSUME NEW s \in Surfaces, NEW b \in Bufs[s]
    PROVE  /\ b \in Buffers /\ b # NoBuf
           /\ \A t \in Surfaces : b \in Bufs[t] => t = s
BY BuffersAssumption DEF Buffers

LEMMA DirtyHas ==
    ASSUME Showing, NEW s \in Dirty
    PROVE  /\ s \in Surfaces /\ surf[s].buf \in Bufs[s] /\ surf[s].buf \in Buffers
           /\ \A t \in Surfaces : surf[t].buf = surf[s].buf => t = s
<1>1. s \in Surfaces /\ surf[s].dirty /\ surf[s].has
  BY DEF Dirty
<1>2. surf[s].buf \in Bufs[s]
  BY <1>1 DEF Showing
<1>3. \A t \in Surfaces : surf[t].buf \in Bufs[t] \cup {NoBuf}
  BY DEF Showing
<1>4. QED
  BY <1>1, <1>2, <1>3, OwnBuffers

\* A look at the dirty surfaces changes contents that are new, no pixels and
\* never less damage; a copied content becomes ready only by its copy.
LEMMA LookedIs ==
    ASSUME Typed, Showing, NEW bad \in SUBSET MayFail
    PROVE  /\ Looked(bad) \in [Buffers -> ContentType]
           /\ \A b \in Buffers :
                /\ Looked(bad)[b].stale = content[b].stale
                /\ content[b].damage \subseteq Looked(bad)[b].damage
                /\ content[b].copy # "new" => Looked(bad)[b] = content[b]
                /\ b \notin Copied => Looked(bad)[b].damage = content[b].damage
                /\ b \in Copied /\ Looked(bad)[b].copy = "ready" => content[b].copy = "ready"
<1>t. /\ content \in [Buffers -> ContentType] /\ staged \in [Buffers -> StagedType]
      /\ surf \in [Surfaces -> SurfType]
  BY DEF Typed
<1>1. \A b \in Buffers :
        \/ /\ Looked(bad)[b] = [content[b] EXCEPT !.copy = "failed"]
           /\ content[b].copy = "new"
        \/ Looked(bad)[b] = Prepared(content[b], b)
        \/ Looked(bad)[b] = content[b]
  <2> SUFFICES ASSUME NEW b \in Buffers
               PROVE  \/ /\ Looked(bad)[b] = [content[b] EXCEPT !.copy = "failed"]
                         /\ content[b].copy = "new"
                      \/ Looked(bad)[b] = Prepared(content[b], b)
                      \/ Looked(bad)[b] = content[b]
    OBVIOUS
  <2>1. Looked(bad)[b] =
            IF \E s \in bad : surf[s].buf = b THEN [content[b] EXCEPT !.copy = "failed"]
            ELSE IF \E s \in Dirty : surf[s].buf = b THEN Prepared(content[b], b)
            ELSE content[b]
    BY Zenon DEF Looked
  <2>2. (\E s \in bad : surf[s].buf = b) => content[b].copy = "new"
    BY DEF MayFail
  <2>3. QED
    BY <2>1, <2>2, Zenon
<1>2. Looked(bad) = [b \in Buffers |-> Looked(bad)[b]]
  BY Zenon DEF Looked
<1>3. ASSUME NEW b \in Buffers
      PROVE  /\ Prepared(content[b], b) \in ContentType
             /\ Prepared(content[b], b).stale = content[b].stale
             /\ content[b].damage \subseteq Prepared(content[b], b).damage
             /\ content[b].copy # "new" => Prepared(content[b], b) = content[b]
             /\ b \notin Copied => Prepared(content[b], b).damage = content[b].damage
             /\ b \in Copied /\ content[b].copy = "new" =>
                  Prepared(content[b], b).copy = "prepared"
  <2>t. content[b] \in ContentType
    BY <1>t
  <2>1. CASE content[b].copy # "new"
    BY <2>1, <2>t, Zenon DEF Prepared, ContentType
  <2>2. CASE content[b].copy = "new" /\ b \in Copied /\ staged[b].init
    <3>1. Prepared(content[b], b) = [content[b] EXCEPT !.copy = "prepared"]
      BY <2>2, <2>t DEF Prepared, ContentType
    <3>2. QED
      BY <3>1, <2>2, <2>t DEF ContentType
  <2>3. CASE content[b].copy = "new" /\ b \in Copied /\ ~staged[b].init
    <3>1. Prepared(content[b], b) = [content[b] EXCEPT !.copy = "prepared", !.damage = Cells]
      BY <2>3, <2>t DEF Prepared, ContentType
    <3>2. QED
      BY <3>1, <2>3, <2>t DEF ContentType
  <2>4. CASE content[b].copy = "new" /\ b \notin Copied
    <3>1. Prepared(content[b], b) = [content[b] EXCEPT !.copy = "ready"]
      BY <2>4, <2>t DEF Prepared, ContentType
    <3>2. QED
      BY <3>1, <2>4, <2>t DEF ContentType
  <2>5. QED
    BY <2>1, <2>2, <2>3, <2>4
<1>4. ASSUME NEW b \in Buffers
      PROVE  /\ Looked(bad)[b] \in ContentType
             /\ Looked(bad)[b].stale = content[b].stale
             /\ content[b].damage \subseteq Looked(bad)[b].damage
             /\ content[b].copy # "new" => Looked(bad)[b] = content[b]
             /\ b \notin Copied => Looked(bad)[b].damage = content[b].damage
             /\ b \in Copied /\ Looked(bad)[b].copy = "ready" => content[b].copy = "ready"
  <2>t. content[b] \in ContentType
    BY <1>t
  <2>1. CASE /\ Looked(bad)[b] = [content[b] EXCEPT !.copy = "failed"]
             /\ content[b].copy = "new"
    BY <2>1, <2>t DEF ContentType
  <2>2. CASE Looked(bad)[b] = Prepared(content[b], b)
    BY <1>3, <2>2, Zenon
  <2>3. CASE Looked(bad)[b] = content[b]
    BY <2>3, <2>t DEF ContentType
  <2>4. QED
    BY <1>1, <2>1, <2>2, <2>3, Zenon
<1>5. Looked(bad) \in [Buffers -> ContentType]
  <2> DEFINE f == Looked(bad)
  <2>1. \A b \in Buffers : f[b] \in ContentType
    BY <1>4, Zenon
  <2>2. f = [b \in Buffers |-> f[b]]
    BY <1>2, Zenon
  <2> HIDE DEF f
  <2>3. f \in [Buffers -> ContentType]
    BY <2>1, <2>2
  <2>4. QED
    BY <2>3 DEF f
<1>6. QED
  BY <1>4, <1>5, Zenon

\* A surface whose frame waits has a buffer whose copy is prepared.
LEMMA WaitingIs ==
    ASSUME Typed, Showing, NEW bad \in SUBSET MayFail, NEW s \in Waiting(bad)
    PROVE  /\ s \in Dirty /\ surf[s].buf \in Copied
           /\ Looked(bad)[surf[s].buf].copy = "prepared"
<1> DEFINE b == surf[s].buf
<1>1. s \in Dirty /\ s \notin bad /\ b \in Copied
      /\ content[b].copy # "failed" /\ content[b].copy # "ready"
  BY DEF Waiting, Failed, OnCpu
<1>2. /\ s \in Surfaces /\ b \in Buffers
      /\ \A t \in Surfaces : surf[t].buf = b => t = s
  BY <1>1, DirtyHas
<1>3. ~ \E t \in bad : surf[t].buf = b
  BY <1>1, <1>2 DEF MayFail, Dirty
<1>4. content[b] \in ContentType
  BY <1>2 DEF Typed
<1>5. Looked(bad)[b] = Prepared(content[b], b)
  BY <1>1, <1>2, <1>3, Zenon DEF Looked
<1>6. content[b].copy \in {"new", "prepared"}
  BY <1>1, <1>4 DEF ContentType
<1>7. Prepared(content[b], b).copy = "prepared"
  BY <1>1, <1>4, <1>6 DEF Prepared, ContentType
<1>8. QED
  BY <1>1, <1>5, <1>7

\* What uploadShm notes for a content that is ready.
LEMMA NotedIs ==
    ASSUME Typed, Showing, NEW bad \in SUBSET MayFail
    PROVE  /\ WithNotes(bad) \in [Surfaces -> TexType]
           /\ \A s \in Surfaces :
                /\ s \notin Noting(bad) => WithNotes(bad)[s] = tex[s]
                /\ s \in Noting(bad) =>
                     /\ s \in Dirty
                     /\ WithNotes(bad)[s].there = TRUE
                     /\ WithNotes(bad)[s].pend = TRUE
                     /\ WithNotes(bad)[s].src = surf[s].buf
                     /\ WithNotes(bad)[s].gone = FALSE
                     /\ content[surf[s].buf].damage \subseteq WithNotes(bad)[s].rect
                     /\ tex[s].there => WithNotes(bad)[s].stale = tex[s].stale
                     /\ ~tex[s].there => /\ WithNotes(bad)[s].rect = Cells
                                         /\ WithNotes(bad)[s].stale = Cells
                     /\ surf[s].buf \in Copied => content[surf[s].buf].copy = "ready"
<1>t. /\ content \in [Buffers -> ContentType] /\ tex \in [Surfaces -> TexType]
  BY DEF Typed
<1>1. ASSUME NEW s \in Noting(bad)
      PROVE  /\ s \in Dirty /\ s \in Surfaces /\ surf[s].buf \in Buffers
             /\ surf[s].buf \in Copied => content[surf[s].buf].copy = "ready"
  <2>1. s \in Dirty /\ s \notin Failed(bad) /\ s \notin Waiting(bad)
    BY DEF Noting
  <2>2. s \in Surfaces /\ surf[s].buf \in Buffers
    BY <2>1, DirtyHas
  <2>3. QED
    BY <2>1, <2>2 DEF Waiting, OnCpu
<1>2. ASSUME NEW s \in Noting(bad)
      PROVE  /\ Noted(s) \in TexType
             /\ Noted(s).there = TRUE /\ Noted(s).pend = TRUE /\ Noted(s).gone = FALSE
             /\ Noted(s).src = surf[s].buf
             /\ content[surf[s].buf].damage \subseteq Noted(s).rect
             /\ tex[s].there => Noted(s).stale = tex[s].stale
             /\ ~tex[s].there => Noted(s).rect = Cells /\ Noted(s).stale = Cells
  <2> DEFINE b == surf[s].buf
  <2>t. /\ content[b].damage \in SUBSET Cells /\ tex[s] \in TexType
        /\ b \in Buffers /\ s \in Surfaces
    BY <1>1, <1>t DEF ContentType
  <2> HIDE DEF b
  <2>1. CASE tex[s].there
    <3>1. Noted(s) = [tex[s] EXCEPT !.pend = TRUE, !.src = b, !.gone = FALSE,
                                    !.rect = tex[s].rect \cup content[b].damage]
      BY <2>1, <2>t DEF Noted, b, TexType
    <3>0. Noted(s).there = TRUE
      BY <2>1, <2>t, <3>1 DEF TexType
    <3>2. Noted(s) \in TexType
      BY <2>t, <3>1 DEF TexType
    <3>3. Noted(s).pend = TRUE /\ Noted(s).gone = FALSE
      BY <2>t, <3>1 DEF TexType
    <3>4. /\ Noted(s).src = b /\ Noted(s).stale = tex[s].stale
          /\ Noted(s).rect = tex[s].rect \cup content[b].damage
      BY <2>t, <3>1 DEF TexType
    <3>5. QED
      BY <2>1, <3>0, <3>2, <3>3, <3>4 DEF b
  <2>2. CASE ~tex[s].there
    <3>1. Noted(s) = [NoTex EXCEPT !.there = TRUE, !.pend = TRUE, !.src = b, !.gone = FALSE,
                                   !.rect = {} \cup Cells]
      BY <2>2 DEF Noted, NoTex, b
    <3>2. Noted(s) = [there |-> TRUE, pend |-> TRUE, src |-> b, gone |-> FALSE,
                      rect |-> Cells, stale |-> Cells]
      BY <3>1 DEF NoTex
    <3>3. Noted(s) \in TexType
      BY <2>t, <3>2 DEF TexType
    <3>4. Noted(s).there = TRUE /\ Noted(s).pend = TRUE /\ Noted(s).gone = FALSE
      BY <3>2
    <3>5. Noted(s).src = b /\ Noted(s).rect = Cells /\ Noted(s).stale = Cells
      BY <3>2
    <3>6. QED
      BY <2>2, <2>t, <3>3, <3>4, <3>5 DEF b
  <2>3. QED
    BY <2>1, <2>2
<1>3. \A s \in Surfaces : WithNotes(bad)[s] = IF s \in Noting(bad) THEN Noted(s) ELSE tex[s]
  BY Zenon DEF WithNotes
<1>4. WithNotes(bad) \in [Surfaces -> TexType]
  BY <1>2, <1>t DEF WithNotes
<1>5. QED
  BY <1>1, <1>2, <1>3, <1>4, Zenon

\* The waiting surfaces of a scene can be listed, each once.
LEMMA QueuedIs ==
    ASSUME NEW S \in SUBSET Surfaces, NEW q \in InOrder(S)
    PROVE  /\ q \in Seq(S)
           /\ {q[i] : i \in DOMAIN q} = S
           /\ \A i, j \in DOMAIN q : q[i] = q[j] => i = j
<1>1. IsFiniteSet(Surfaces)
  <2>1. DOMAIN Order = 1 .. Len(Order) /\ Len(Order) \in Nat
    BY OrderAssumption
  <2>2. Order \in [1 .. Len(Order) -> Surfaces]
    BY OrderAssumption
  <2>3. \A s \in Surfaces : \E i \in 1 .. Len(Order) : Order[i] = s
    BY <2>1 DEF Surfaces
  <2>4. Order \in Surjection(1 .. Len(Order), Surfaces)
    BY <2>2, <2>3 DEF Surjection
  <2>5. IsFiniteSet(1 .. Len(Order))
    BY <2>1, FS_Interval
  <2>6. QED
    BY <2>4, <2>5, FS_Surjection
<1>2. Cardinality(S) \in Nat
  BY <1>1, FS_Subset, FS_CardinalityType
<1>3. /\ q \in [1 .. Cardinality(S) -> S] /\ Listed(q) = S
      /\ \A i, j \in DOMAIN q : i < j => Before(q[i], q[j])
  BY Zenon DEF InOrder
<1>4. \A s : ~Before(s, s)
  BY OrderAssumption DEF Before
<1>5. ASSUME NEW i \in DOMAIN q, NEW j \in DOMAIN q, q[i] = q[j]
      PROVE  i = j
  <2>1. i \in Nat /\ j \in Nat
    BY <1>2, <1>3
  <2>2. CASE i < j
    BY <1>3, <1>4, <1>5, <2>2
  <2>3. CASE j < i
    BY <1>3, <1>4, <1>5, <2>3
  <2>4. QED
    BY <2>1, <2>2, <2>3
<1>6. q \in Seq(S)
  BY <1>2, <1>3
<1>7. QED
  BY <1>3, <1>5, <1>6 DEF Listed

\* The tasks that a frame which waits queues: one for each surface it waits
\* for.
LEMMA HoldTasks ==
    ASSUME Typed, Showing, ~Active, NEW bad \in SUBSET MayFail, Hold(bad)
    PROVE  /\ tasks' \in Seq(TaskType)
           /\ \A i \in DOMAIN tasks' : /\ tasks'[i].s \in Waiting(bad)
                                       /\ tasks'[i].b = surf[tasks'[i].s].buf
           /\ \A s \in Waiting(bad) : \E i \in DOMAIN tasks' : tasks'[i].b = surf[s].buf
           /\ \A i, j \in DOMAIN tasks' : tasks'[i].b = tasks'[j].b => i = j
<1> DEFINE W == Waiting(bad)
<1>1. PICK q \in InOrder(W) :
        tasks' = tasks \o [i \in DOMAIN q |-> [s |-> q[i], b |-> surf[q[i]].buf]]
  BY Zenon DEF Hold
<1>2. \A s \in W : s \in Dirty
  BY DEF Waiting
<1>3. W \in SUBSET Surfaces
  BY <1>2 DEF Dirty
<1> HIDE DEF W
<1>4. /\ q \in Seq(W) /\ {q[i] : i \in DOMAIN q} = W
      /\ \A i, j \in DOMAIN q : q[i] = q[j] => i = j
  BY <1>1, <1>3, QueuedIs
<1>5. \A s \in W : s \in Surfaces /\ surf[s].buf \in Buffers
                   /\ \A t \in Surfaces : surf[t].buf = surf[s].buf => t = s
  BY <1>2, DirtyHas
<1> DEFINE f == [i \in DOMAIN q |-> [s |-> q[i], b |-> surf[q[i]].buf]]
<1>6. \A i \in DOMAIN q : q[i] \in W
  BY <1>4
<1>7. f \in Seq(TaskType)
  <2>1. \A i \in DOMAIN q : [s |-> q[i], b |-> surf[q[i]].buf] \in TaskType
    BY <1>5, <1>6 DEF TaskType
  <2>2. DOMAIN q = 1 .. Len(q) /\ Len(q) \in Nat
    BY <1>4
  <2>3. QED
    BY <2>1, <2>2
<1>8. \A i \in DOMAIN q : f[i].s = q[i] /\ f[i].b = surf[q[i]].buf
  OBVIOUS
<1>9. DOMAIN f = DOMAIN q
  OBVIOUS
<1>10. tasks' = <<>> \o f
  BY <1>1 DEF Active
<1> HIDE DEF f
<1>11. tasks' = f
  BY <1>7, <1>10, ConcatEmptySeq
<1>12. \A i \in DOMAIN f : f[i].s \in W /\ f[i].b = surf[f[i].s].buf
  BY <1>6, <1>8, <1>9
<1>13. \A s \in W : \E i \in DOMAIN f : f[i].b = surf[s].buf
  BY <1>4, <1>8, <1>9
<1>14. ASSUME NEW i \in DOMAIN f, NEW j \in DOMAIN f, f[i].b = f[j].b
       PROVE  i = j
  <2>1. q[i] \in W /\ q[j] \in W /\ surf[q[i]].buf = surf[q[j]].buf
    BY <1>6, <1>8, <1>9, <1>14
  <2>2. q[i] = q[j]
    BY <1>5, <2>1
  <2>3. QED
    BY <1>4, <1>9, <2>2
<1>15. QED
  BY <1>7, <1>11, <1>12, <1>13, <1>14 DEF W

\* The surfaces after a look at the dirty ones; still(s): stays dirty.
LookedAt(s, t) ==
    /\ surf'[s].has = surf[s].has /\ surf'[s].damage = surf[s].damage
    /\ surf'[s].dirty => surf[s].dirty /\ t

LEMMA LooksBecome ==
    ASSUME Typed, Showing, NEW bad \in SUBSET MayFail, NEW plus, NEW minus,
           NEW t \in [Surfaces -> TexType],
           Become(t, Looked(bad), Count(plus, minus))
    PROVE  /\ TexAfter(t) /\ ContentAfter(Looked(bad))
           /\ refs' \in [Buffers -> Int]
           /\ \A b \in Buffers :
                refs'[b] = refs[b] + (IF b \in plus THEN 1 ELSE 0) - (IF b \in minus THEN 1 ELSE 0)
BY LookedIs, BecomeCounts

LEMMA HoldRest ==
    ASSUME Typed, Showing, NEW bad \in SUBSET MayFail, Hold(bad)
    PROVE  /\ TexAfter(WithNotes(bad)) /\ ContentAfter(Looked(bad))
           /\ refs' \in [Buffers -> Int]
           /\ \A b \in Buffers :
                refs'[b] = refs[b] + (IF \E s \in Waiting(bad) : surf[s].buf = b THEN 1 ELSE 0)
           /\ surf' \in [Surfaces -> SurfType]
           /\ \A s \in Surfaces : /\ LookedAt(s, s \in Waiting(bad) \cup (Surfaces \ Dirty))
                                  /\ surf'[s].buf = surf[s].buf
           /\ gpu' = gpu
<1> DEFINE plus == {surf[s].buf : s \in Waiting(bad)}
           still(s) == s \in Waiting(bad) \cup (Surfaces \ Dirty)
<1>t. surf \in [Surfaces -> SurfType] /\ refs \in [Buffers -> Int]
  BY DEF Typed
<1>1. Become(WithNotes(bad), Looked(bad), Count(plus, {}))
  BY Zenon DEF Hold
<1>2. WithNotes(bad) \in [Surfaces -> TexType]
  BY NotedIs
<1>3. \A b : b \in plus <=> \E s \in Waiting(bad) : surf[s].buf = b
  OBVIOUS
<1>4. surf' = [s \in Surfaces |-> [surf[s] EXCEPT !.dirty = @ /\ still(s)]]
  BY Zenon DEF Hold
<1> HIDE DEF plus, still
<1>5. /\ TexAfter(WithNotes(bad)) /\ ContentAfter(Looked(bad)) /\ refs' \in [Buffers -> Int]
      /\ \A b \in Buffers :
            refs'[b] = refs[b] + (IF b \in plus THEN 1 ELSE 0) - (IF b \in {} THEN 1 ELSE 0)
  BY <1>1, <1>2, LooksBecome
<1>6. \A b \in Buffers :
        refs'[b] = refs[b] + (IF \E s \in Waiting(bad) : surf[s].buf = b THEN 1 ELSE 0)
  BY <1>3, <1>5, <1>t
<1>7. surf' \in [Surfaces -> SurfType]
  BY <1>4, <1>t DEF SurfType
<1>8. \A s \in Surfaces : /\ surf'[s].has = surf[s].has /\ surf'[s].damage = surf[s].damage
                          /\ surf'[s].buf = surf[s].buf
                          /\ surf'[s].dirty = (surf[s].dirty /\ still(s))
  BY <1>4, <1>t DEF SurfType
<1>9. gpu' = gpu
  BY Zenon DEF Hold
<1>10. \A s \in Surfaces : LookedAt(s, still(s)) /\ surf'[s].buf = surf[s].buf
  BY <1>8, Zenon DEF LookedAt
<1>11. QED
  BY <1>5, <1>6, <1>7, <1>9, <1>10, Zenon DEF still

LEMMA ScanRest ==
    ASSUME Typed, Showing, NEW bad \in SUBSET MayFail, Scan(bad)
    PROVE  /\ TexAfter(WithNotes(bad)) /\ ContentAfter(Looked(bad))
           /\ refs' = refs
           /\ surf' \in [Surfaces -> SurfType]
           /\ \A s \in Surfaces : /\ LookedAt(s, s \notin Dirty)
                                  /\ surf'[s].buf = surf[s].buf
           /\ tasks' = tasks /\ gpu' = gpu
<1>t. surf \in [Surfaces -> SurfType] /\ refs \in [Buffers -> Int]
  BY DEF Typed
<1> DEFINE still(s) == s \notin Dirty
<1>1. Become(WithNotes(bad), Looked(bad), refs)
  BY Zenon DEF Scan
<1>2. TexAfter(WithNotes(bad)) /\ ContentAfter(Looked(bad)) /\ refs' = refs
  <2>1. WithNotes(bad) \in [Surfaces -> TexType] /\ Looked(bad) \in [Buffers -> ContentType]
    BY NotedIs, LookedIs
  <2>2. QED
    BY <1>1, <1>t, <2>1, BecomeIs
<1>3. surf' = [s \in Surfaces |-> [surf[s] EXCEPT !.dirty = @ /\ still(s)]]
  BY Zenon DEF Scan
<1> HIDE DEF still
<1>4. surf' \in [Surfaces -> SurfType]
  BY <1>3, <1>t DEF SurfType
<1>5. \A s \in Surfaces : /\ surf'[s].has = surf[s].has /\ surf'[s].damage = surf[s].damage
                          /\ surf'[s].buf = surf[s].buf
                          /\ surf'[s].dirty = (surf[s].dirty /\ still(s))
  BY <1>3, <1>t DEF SurfType
<1>6. \A s \in Surfaces : LookedAt(s, still(s)) /\ surf'[s].buf = surf[s].buf
  BY <1>5, Zenon DEF LookedAt
<1>7. tasks' = tasks /\ gpu' = gpu
  BY Zenon DEF Scan
<1>8. QED
  BY <1>2, <1>4, <1>6, <1>7, Zenon DEF still

\* What a frame that waits for nothing reads and makes of the textures.
Pending(bad) == {s \in Surfaces : WithNotes(bad)[s].pend}
Reads(bad) == {WithNotes(bad)[s].src : s \in {s \in Pending(bad) : ~WithNotes(bad)[s].gone}}
TexRendered(bad) ==
    [s \in Surfaces |-> IF s \in Pending(bad) THEN Uploaded(WithNotes(bad)[s]) ELSE WithNotes(bad)[s]]

LEMMA ReadsIs ==
    ASSUME Typed, Showing, NEW bad \in SUBSET MayFail
    PROVE  /\ \A s \in Surfaces : WithNotes(bad)[s].src \in Bufs[s] \cup {NoBuf}
           /\ \A s \in Pending(bad) : WithNotes(bad)[s].src \in Bufs[s]
           /\ Reads(bad) \in SUBSET Buffers
<1>1. \A s \in Surfaces : s \notin Noting(bad) =>
        WithNotes(bad)[s].src \in Bufs[s] \cup {NoBuf}
        /\ (WithNotes(bad)[s].pend => WithNotes(bad)[s].src # NoBuf)
  <2>1. \A s \in Surfaces : s \notin Noting(bad) => WithNotes(bad)[s] = tex[s]
    BY NotedIs, Zenon
  <2>2. QED
    BY <2>1 DEF Showing
<1>2. \A s \in Surfaces : s \in Noting(bad) => WithNotes(bad)[s].src \in Bufs[s]
  <2> SUFFICES ASSUME NEW s \in Surfaces, s \in Noting(bad)
               PROVE  WithNotes(bad)[s].src \in Bufs[s]
    OBVIOUS
  <2>1. s \in Dirty /\ WithNotes(bad)[s].src = surf[s].buf
    BY NotedIs, Zenon
  <2>2. QED
    BY <2>1, DirtyHas
<1>3. \A s \in Pending(bad) : s \in Surfaces /\ WithNotes(bad)[s].src \in Bufs[s]
  BY <1>1, <1>2 DEF Pending
<1>4. \A s \in Surfaces : Bufs[s] \subseteq Buffers
  BY OwnBuffers
<1>5. Reads(bad) \in SUBSET Buffers
  BY <1>3, <1>4 DEF Reads
<1>6. QED
  BY <1>1, <1>2, <1>3, <1>5

LEMMA RenderedIs ==
    ASSUME Typed, Showing, NEW bad \in SUBSET MayFail
    PROVE  /\ TexRendered(bad) \in [Surfaces -> TexType]
           /\ \A s \in Surfaces :
                /\ s \notin Pending(bad) => TexRendered(bad)[s] = WithNotes(bad)[s]
                /\ s \in Pending(bad) =>
                     LET n == WithNotes(bad)[s] IN
                     /\ TexRendered(bad)[s].there = n.there
                     /\ TexRendered(bad)[s].pend = FALSE
                     /\ TexRendered(bad)[s].src = NoBuf
                     /\ TexRendered(bad)[s].stale =
                          (n.stale \ n.rect)
                            \cup (IF n.gone THEN n.rect ELSE n.rect \cap SourceStale(n.src))
<1>1. WithNotes(bad) \in [Surfaces -> TexType]
  BY NotedIs
<1>2. ASSUME NEW s \in Surfaces
      PROVE  LET n == WithNotes(bad)[s] IN
             /\ Uploaded(n) \in TexType
             /\ Uploaded(n).there = n.there
             /\ Uploaded(n).pend = FALSE
             /\ Uploaded(n).src = NoBuf
             /\ Uploaded(n).stale =
                  (n.stale \ n.rect)
                     \cup (IF n.gone THEN n.rect ELSE n.rect \cap SourceStale(n.src))
  <2> DEFINE n == WithNotes(bad)[s]
             x == IF n.gone THEN n.rect ELSE n.rect \cap SourceStale(n.src)
             y == (n.stale \ n.rect) \cup x
  <2>1. n \in TexType
    BY <1>1
  <2>2. x \in SUBSET Cells
    BY <2>1 DEF TexType
  <2> HIDE DEF x
  <2>3. y \in SUBSET Cells
    BY <2>1, <2>2 DEF TexType
  <2> HIDE DEF n
  <2>4. Uploaded(n) = [n EXCEPT !.pend = FALSE, !.src = NoBuf, !.gone = FALSE, !.rect = {},
                                !.stale = y]
    BY <2>1, Zenon DEF Uploaded, x, TexType
  <2> HIDE DEF y
  <2>5. Uploaded(n) \in TexType
    BY <2>1, <2>3, <2>4 DEF TexType
  <2>6. Uploaded(n).pend = FALSE /\ Uploaded(n).src = NoBuf
    BY <2>1, <2>4 DEF TexType
  <2>7. Uploaded(n).stale = y
    BY <2>1, <2>4 DEF TexType
  <2>8. Uploaded(n).there = n.there
    BY <2>1, <2>4 DEF TexType
  <2>9. QED
    BY <2>5, <2>6, <2>7, <2>8, Zenon DEF y, x, n
<1>3. \A s \in Surfaces : TexRendered(bad)[s] = IF s \in Pending(bad) THEN Uploaded(WithNotes(bad)[s])
                                               ELSE WithNotes(bad)[s]
  BY Zenon DEF TexRendered
<1>4. TexRendered(bad) \in [Surfaces -> TexType]
  BY <1>1, <1>2 DEF TexRendered
<1>5. QED
  BY <1>2, <1>3, <1>4, Zenon

LEMMA RenderRest ==
    ASSUME Typed, Showing, NEW bad \in SUBSET MayFail, Render(bad)
    PROVE  /\ TexAfter(TexRendered(bad)) /\ ContentAfter(Looked(bad))
           /\ refs' \in [Buffers -> Int]
           /\ \A b \in Buffers :
                refs'[b] = refs[b] + (IF b \in Reads(bad) THEN 1 ELSE 0)
                             - (IF b \in Reads(bad) /\ (\E s \in Surfaces : surf[s].buf = b)
                                THEN 1 ELSE 0)
           /\ surf' \in [Surfaces -> SurfType]
           /\ \A s \in Surfaces :
                /\ LookedAt(s, s \notin Dirty)
                /\ surf[s].buf \in Reads(bad) => surf'[s].buf = NoBuf
                /\ surf[s].buf \notin Reads(bad) => surf'[s].buf = surf[s].buf
           /\ gpu' \in GpuType /\ gpu'.busy = TRUE
           /\ gpu'.reads = Reads(bad) /\ gpu'.held = Reads(bad)
           /\ tasks' = tasks
<1> DEFINE noted == WithNotes(bad)
           pend == {s \in Surfaces : noted[s].pend}
           reads == {noted[s].src : s \in {s \in pend : ~noted[s].gone}}
           shown == {s \in Surfaces : surf[s].buf \in reads}
           minus == {surf[s].buf : s \in shown}
           gone == \E s \in pend : noted[s].gone
<1>t. surf \in [Surfaces -> SurfType] /\ refs \in [Buffers -> Int]
  BY DEF Typed
<1>1. /\ Become([s \in Surfaces |-> IF s \in pend THEN Uploaded(noted[s]) ELSE noted[s]],
                Looked(bad), Count(reads, minus))
      /\ gpu' = [busy |-> TRUE, reads |-> reads, held |-> reads, gone |-> gone]
      /\ surf' = [s \in Surfaces |->
                    [surf[s] EXCEPT !.dirty = @ /\ s \notin Dirty,
                                    !.buf = IF s \in shown THEN NoBuf ELSE @]]
      /\ tasks' = tasks
  BY Zenon DEF Render, HeldBy
<1>2. pend = Pending(bad) /\ reads = Reads(bad)
  BY Zenon DEF Pending, Reads
<1> DEFINE R == Reads(bad)
<1>3. /\ Become(TexRendered(bad), Looked(bad), Count(R, minus))
      /\ gpu' = [busy |-> TRUE, reads |-> R, held |-> R, gone |-> gone]
  BY <1>1, <1>2, Zenon DEF TexRendered
<1>4. R \in SUBSET Buffers /\ TexRendered(bad) \in [Surfaces -> TexType]
  BY ReadsIs, RenderedIs
<1>5. \A s \in Surfaces : s \in shown <=> surf[s].buf \in R
  BY <1>2, Zenon
<1>6. \A b : b \in minus <=> b \in R /\ \E s \in Surfaces : surf[s].buf = b
  BY <1>2, Zenon
<1>g. gone \in BOOLEAN
  OBVIOUS
<1>s. shown \in SUBSET Surfaces
  OBVIOUS
<1> HIDE DEF R, minus, shown, gone
<1>7. /\ TexAfter(TexRendered(bad)) /\ ContentAfter(Looked(bad))
      /\ refs' \in [Buffers -> Int]
      /\ \A b \in Buffers :
            refs'[b] = refs[b] + (IF b \in R THEN 1 ELSE 0) - (IF b \in minus THEN 1 ELSE 0)
  BY <1>3, <1>4, LooksBecome
<1>8. surf' = [s \in Surfaces |-> [surf[s] EXCEPT !.dirty = surf[s].dirty /\ s \notin Dirty,
                                  !.buf = IF s \in shown THEN NoBuf ELSE surf[s].buf]]
  BY <1>1, <1>t DEF SurfType
<1>9. surf' \in [Surfaces -> SurfType]
  <2>1. \A s \in Surfaces : (IF s \in shown THEN NoBuf ELSE surf[s].buf) \in Buffers \cup {NoBuf}
    BY <1>t DEF SurfType
  <2>2. \A s \in Surfaces : (surf[s].dirty /\ s \notin Dirty) \in BOOLEAN
    OBVIOUS
  <2> DEFINE dirty(s) == surf[s].dirty /\ s \notin Dirty
             buf(s) == IF s \in shown THEN NoBuf ELSE surf[s].buf
  <2>3. surf' = [s \in Surfaces |-> [surf[s] EXCEPT !.dirty = dirty(s), !.buf = buf(s)]]
    BY <1>8, Zenon
  <2>4. (\A s \in Surfaces : dirty(s) \in BOOLEAN)
        /\ (\A s \in Surfaces : buf(s) \in Buffers \cup {NoBuf})
    BY <2>1, <2>2
  <2> HIDE DEF dirty, buf
  <2>5. \A s \in Surfaces : [surf[s] EXCEPT !.dirty = dirty(s), !.buf = buf(s)] \in SurfType
    BY <2>4, <1>t DEF SurfType
  <2>6. QED
    BY <2>3, <2>5
<1>10. \A s \in Surfaces : /\ surf'[s].has = surf[s].has /\ surf'[s].damage = surf[s].damage
                           /\ surf'[s].dirty = (surf[s].dirty /\ s \notin Dirty)
  BY <1>8, <1>t DEF SurfType
<1>11. \A s \in Surfaces : surf'[s].buf = IF s \in shown THEN NoBuf ELSE surf[s].buf
  BY <1>8, <1>t DEF SurfType
<1>12. \A s \in Surfaces : LookedAt(s, s \notin Dirty)
  BY <1>10, Zenon DEF LookedAt
<1>13. gpu' \in GpuType
  BY <1>3, <1>4, <1>g DEF GpuType
<1>14. gpu'.busy = TRUE
  BY <1>3, Zenon
<1>15. gpu'.reads = R /\ gpu'.held = R
  BY <1>3
<1>16. \A s \in Surfaces : /\ surf[s].buf \in R => surf'[s].buf = NoBuf
                           /\ surf[s].buf \notin R => surf'[s].buf = surf[s].buf
  BY <1>5, <1>11, Zenon
<1>17. \A b \in Buffers :
         refs'[b] = refs[b] + (IF b \in R THEN 1 ELSE 0)
                      - (IF b \in R /\ (\E s \in Surfaces : surf[s].buf = b) THEN 1 ELSE 0)
  BY <1>6, <1>7, Zenon
<1>18. QED
  BY <1>1, <1>7, <1>9, <1>12, <1>13, <1>14, <1>15, <1>16, <1>17, Zenon DEF R

-----------------------------------------------------------------------------
(* The kinds of steps.                                                     *)

\* A step that changes no pixel, reference, buffer or queue.
Quiet ==
    /\ UNCHANGED <<refs, content, staged, tex, tasks, gpu>>
    /\ surf' \in [Surfaces -> SurfType]
    /\ \A s \in Surfaces : /\ surf'[s].buf = surf[s].buf /\ surf'[s].has = surf[s].has
                           /\ surf'[s].dirty = surf[s].dirty
                           /\ surf'[s].damage = surf[s].damage
    /\ worker' = worker \/ (Active /\ worker' = "copying")

\* The loop makes a frame or fails to.
Composes(bad) ==
    /\ ~Active /\ ~gpu.busy
    /\ Hold(bad) \/ Scan(bad) \/ Render(bad)
    /\ UNCHANGED <<staged, worker>>

Client ==
    \E s \in Surfaces :
       \/ \E b \in Bufs[s] : \E d \in SUBSET Cells : Commit(s, b, d)
       \/ CommitNull(s) \/ DestroySurface(s)

LEMMA FrameComposes ==
    ASSUME Frame \/ DirectFrame \/ Compose
    PROVE  \E bad \in SUBSET MayFail : Composes(bad)
<1>1. CASE Frame
  BY <1>1, Zenon DEF Frame, WantFrame, FrameNow, Composes
<1>2. CASE DirectFrame
  BY <1>2, Zenon DEF DirectFrame, WantFrame, Composes
<1>3. CASE Compose
  BY <1>3, Zenon DEF Compose, FrameNow, Composes
<1>4. QED
  BY <1>1, <1>2, <1>3

LEMMA Kinds ==
    ASSUME Typed, [Next]_vars
    PROVE  \/ Client \/ EndCopy \/ CopyDone \/ Fence \/ Quiet
           \/ \E bad \in SUBSET MayFail : Composes(bad)
<1>t. surf \in [Surfaces -> SurfType]
  BY DEF Typed
<1>0. ASSUME UNCHANGED <<surf, refs, content, staged, tex, tasks, gpu>>,
             worker' = worker \/ (Active /\ worker' = "copying")
      PROVE  Quiet
  <2>1. \A s \in Surfaces : surf'[s] = surf[s]
    BY <1>0
  <2>2. surf' \in [Surfaces -> SurfType]
    BY <1>0, <1>t
  <2>3. QED
    BY <1>0, <2>1, <2>2, Zenon DEF Quiet
<1>1. CASE BeginCopy
  BY <1>0, <1>1, Zenon DEF BeginCopy
<1>2. CASE Poke
  BY <1>0, <1>2, Zenon DEF Poke
<1>3. CASE ComposeNow
  BY <1>0, <1>3, Zenon DEF ComposeNow
<1>4. CASE FrameEvent
  <2>1. /\ surf' = [s \in Surfaces |->
                      IF surf[s].has THEN [surf[s] EXCEPT !.owed = FALSE] ELSE surf[s]]
        /\ UNCHANGED <<refs, content, staged, tex, tasks, gpu, worker>>
    BY <1>4, Zenon DEF FrameEvent
  <2>2. surf' \in [Surfaces -> SurfType]
    BY <2>1, <1>t DEF SurfType
  <2>3. \A s \in Surfaces : /\ surf'[s].buf = surf[s].buf /\ surf'[s].has = surf[s].has
                            /\ surf'[s].dirty = surf[s].dirty
                            /\ surf'[s].damage = surf[s].damage
    BY <2>1, <1>t DEF SurfType
  <2>4. QED
    BY <2>1, <2>2, <2>3, Zenon DEF Quiet
<1>5. CASE vars' = vars
  BY <1>0, <1>5, Zenon DEF vars
<1>6. CASE Frame \/ DirectFrame \/ Compose
  BY <1>6, FrameComposes
<1>7. CASE Client
  BY <1>7
<1>8. \/ Client \/ Poke \/ ComposeNow \/ BeginCopy \/ EndCopy \/ CopyDone
      \/ Frame \/ DirectFrame \/ Fence \/ FrameEvent \/ Compose \/ vars' = vars
  BY Zenon DEF Next, Serve, Client
<1>9. QED
  BY <1>1, <1>2, <1>3, <1>4, <1>5, <1>6, <1>7, <1>8, Zenon

-----------------------------------------------------------------------------
(* Types.                                                                  *)

\* What Hold, Scan and Render make of contents, references and textures is
\* typed.
LEMMA ComposesTyped ==
    ASSUME Typed, Showing, NEW bad \in SUBSET MayFail, Composes(bad)
    PROVE  Typed'
<1>1. staged' \in [Buffers -> StagedType]
  BY Zenon DEF Typed, Composes
<1>2. CASE Hold(bad)
  <2>1. ~Active
    BY Zenon DEF Composes
  <2>2. /\ TexAfter(WithNotes(bad)) /\ ContentAfter(Looked(bad))
        /\ refs' \in [Buffers -> Int] /\ surf' \in [Surfaces -> SurfType]
        /\ gpu' = gpu /\ tasks' \in Seq(TaskType)
    BY <1>2, <2>1, HoldRest, HoldTasks, Zenon
  <2>3. QED
    BY <1>1, <2>2, Zenon DEF Typed, TexAfter, ContentAfter
<1>3. CASE Scan(bad)
  <2>1. /\ TexAfter(WithNotes(bad)) /\ ContentAfter(Looked(bad))
        /\ refs' = refs /\ surf' \in [Surfaces -> SurfType]
        /\ tasks' = tasks /\ gpu' = gpu
    BY <1>3, ScanRest, Zenon
  <2>2. QED
    BY <1>1, <2>1, Zenon DEF Typed, TexAfter, ContentAfter
<1>4. CASE Render(bad)
  <2>1. /\ TexAfter(TexRendered(bad)) /\ ContentAfter(Looked(bad))
        /\ refs' \in [Buffers -> Int] /\ surf' \in [Surfaces -> SurfType]
        /\ tasks' = tasks /\ gpu' \in GpuType
    BY <1>4, RenderRest, Zenon
  <2>2. QED
    BY <1>1, <2>1, Zenon DEF Typed, TexAfter, ContentAfter
<1>5. QED
  BY <1>2, <1>3, <1>4, Zenon DEF Composes

\* The copies run while no frame is read; each content is queued once.
Queue ==
    /\ gpu.busy => ~Active
    /\ gpu.reads = gpu.held
    /\ ~gpu.busy => gpu.held = {}
    /\ \A i \in DOMAIN tasks : tasks[i].b \in Bufs[tasks[i].s]
    /\ \A i, j \in DOMAIN tasks : tasks[i].b = tasks[j].b => i = j
    /\ worker # "idle" => Active

LEMMA FirstTask ==
    ASSUME Typed, Queue, worker # "idle"
    PROVE  /\ tasks # <<>> /\ Head(tasks) \in TaskType /\ Head(tasks) = tasks[1]
           /\ 1 \in DOMAIN tasks
           /\ DOMAIN Tail(tasks) = 1 .. (Len(tasks) - 1) /\ DOMAIN tasks = 1 .. Len(tasks)
           /\ Len(tasks) \in Nat \ {0}
           /\ Tail(tasks) \in Seq(TaskType)
           /\ \A i \in 1 .. (Len(tasks) - 1) : Tail(tasks)[i] = tasks[i + 1]
<1>1. tasks # <<>> /\ tasks \in Seq(TaskType)
  BY DEF Typed, Queue, Active
<1>2. QED
  BY <1>1, HeadTailProperties

LEMMA CommitIs ==
    ASSUME NEW s \in Surfaces, NEW b \in Bufs[s], NEW d \in SUBSET Cells, Commit(s, b, d)
    PROVE  /\ b \in Buffers /\ ~Alive(b) /\ d # {}
           /\ ~surf[s].has => d = Cells
           /\ UNCHANGED <<tasks, worker, gpu>>
<1>1. b \in Buffers
  BY OwnBuffers
<1>2. /\ ~Alive(b) /\ d # {} /\ (~surf[s].has \/ s \in Whole => d = Cells)
      /\ UNCHANGED <<tasks, worker, gpu>>
  BY Zenon DEF Commit
<1>3. QED
  BY <1>1, <1>2, Zenon

LEMMA TypedNext ==
    ASSUME Typed, Showing, Queue, [Next]_vars
    PROVE  Typed'
<1>1. ASSUME NEW s \in Surfaces, NEW b \in Bufs[s], NEW d \in SUBSET Cells, Commit(s, b, d)
      PROVE  Typed'
  <2>1. b \in Buffers /\ UNCHANGED <<tasks, worker, gpu>>
    BY <1>1, CommitIs, Zenon
  <2>2. surf' \in [Surfaces -> SurfType]
    BY <1>1, <2>1, CommitSurf, Zenon
  <2>3. /\ TexAfter(DamagedTex(s, d)) /\ ContentAfter(DamagedContent(s, b, d))
        /\ refs' \in [Buffers -> Int] /\ staged' \in [Buffers -> StagedType]
    BY <1>1, <2>1, CommitBecomes, CommitStaged, Zenon
  <2>4. QED
    BY <2>1, <2>2, <2>3, Zenon DEF Typed, TexAfter, ContentAfter
<1>2. ASSUME NEW s \in Surfaces, CommitNull(s)
      PROVE  Typed'
  <2>1. surf' \in [Surfaces -> SurfType]
    BY <1>2, CommitNullSurf, Zenon
  <2>2. TexAfter(tex) /\ ContentAfter(content) /\ refs' \in [Buffers -> Int]
    BY <1>2, CommitNullRest, Zenon
  <2>3. UNCHANGED <<staged, tasks, gpu>>
    BY <1>2, Zenon DEF CommitNull
  <2>4. QED
    BY <2>1, <2>2, <2>3, Zenon DEF Typed, TexAfter, ContentAfter
<1>3. ASSUME NEW s \in Surfaces, DestroySurface(s)
      PROVE  Typed'
  <2>1. surf' \in [Surfaces -> SurfType]
    BY <1>3, DestroySurf, Zenon
  <2>2. tex' \in [Surfaces -> TexType] /\ ContentAfter(content) /\ refs' \in [Buffers -> Int]
    BY <1>3, DestroyRest, Zenon
  <2>3. UNCHANGED <<staged, tasks, gpu>>
    BY <1>3, Zenon DEF DestroySurface
  <2>4. QED
    BY <2>1, <2>2, <2>3, Zenon DEF Typed, ContentAfter
<1>4. CASE EndCopy
  <2>1. worker # "idle"
    BY <1>4, Zenon DEF EndCopy
  <2>2. PICK h \in TaskType : h = Head(tasks)
    BY <2>1, FirstTask, Zenon
  <2>3. /\ staged' \in [Buffers -> StagedType]
        /\ UNCHANGED <<surf, refs, content, tex, tasks, gpu, flip, needsFrame, forced>>
    BY <1>4, <2>2, EndCopyStaged, Zenon
  <2>4. QED
    BY <2>3, Zenon DEF Typed
<1>5. CASE CopyDone
  <2>1. worker # "idle" /\ UNCHANGED gpu
    BY <1>5, Zenon DEF CopyDone
  <2>2. PICK h \in TaskType : h = Head(tasks)
    BY <2>1, FirstTask, Zenon
  <2>3. /\ TexAfter(tex) /\ refs' \in [Buffers -> Int]
        /\ content' \in [Buffers -> ContentType] /\ staged' \in [Buffers -> StagedType]
        /\ tasks' = Tail(tasks)
    BY <1>5, <2>2, CopyDoneRest, Zenon
  <2>4. surf' \in [Surfaces -> SurfType]
    BY <1>5, <2>2, CopyDoneSurf, Zenon
  <2>5. tasks' \in Seq(TaskType)
    BY <2>1, <2>3, FirstTask, Zenon
  <2>6. QED
    BY <2>1, <2>3, <2>4, <2>5, Zenon DEF Typed, TexAfter
<1>6. CASE Fence
  <2>1. TexAfter(tex) /\ ContentAfter(content) /\ refs' \in [Buffers -> Int]
    BY <1>6, FenceRest, Zenon
  <2>2. gpu' = NoGpu /\ UNCHANGED <<surf, staged, tasks>>
    BY <1>6, Zenon DEF Fence
  <2>3. NoGpu \in GpuType
    BY DEF NoGpu, GpuType
  <2>4. QED
    BY <2>1, <2>2, <2>3, Zenon DEF Typed, TexAfter, ContentAfter
<1>7. CASE Quiet
  BY <1>7, Zenon DEF Typed, Quiet
<1>8. QED
  BY <1>1, <1>2, <1>3, <1>4, <1>5, <1>6, <1>7, Kinds, ComposesTyped, Zenon DEF Client

LEMMA FlagsNext ==
    ASSUME Flags, [Next]_vars
    PROVE  Flags'
<1>1. ASSUME NEW bad, Hold(bad) \/ Render(bad)
      PROVE  flip' \in BOOLEAN /\ needsFrame' \in BOOLEAN
  BY <1>1, Zenon DEF Flags, Hold, Render
<1>2. CASE Frame
  <2>1. flip' \in BOOLEAN /\ needsFrame' \in BOOLEAN
    BY <1>1, <1>2, Zenon DEF Frame, FrameNow
  <2>2. UNCHANGED <<worker, forced>>
    BY <1>2, Zenon DEF Frame
  <2>3. QED
    BY <2>1, <2>2 DEF Flags
<1>3. CASE Compose
  <2>1. flip' \in BOOLEAN /\ needsFrame' \in BOOLEAN
    BY <1>1, <1>3, Zenon DEF Compose, FrameNow
  <2>2. UNCHANGED worker /\ forced' \in {"no", "before", "after"}
    BY <1>3, Zenon DEF Compose
  <2>3. QED
    BY <2>1, <2>2 DEF Flags
<1>4. CASE DirectFrame
  <2>1. flip' = TRUE /\ needsFrame' = FALSE
    BY <1>4, Zenon DEF DirectFrame, Scan
  <2>2. UNCHANGED <<worker, forced>>
    BY <1>4, Zenon DEF DirectFrame
  <2>3. QED
    BY <2>1, <2>2 DEF Flags
<1>5. CASE Client
  <2>a. ASSUME NEW s, NEW b, NEW d, Commit(s, b, d)
        PROVE  needsFrame' = TRUE /\ UNCHANGED <<worker, flip, forced>>
    BY <2>a, Zenon DEF Commit
  <2>b. \A s : CommitNull(s) => needsFrame' = TRUE /\ UNCHANGED <<worker, flip, forced>>
    BY Zenon DEF CommitNull
  <2>c. \A s : DestroySurface(s) => needsFrame' = TRUE /\ UNCHANGED <<worker, flip, forced>>
    BY Zenon DEF DestroySurface
  <2>1. needsFrame' = TRUE /\ UNCHANGED <<worker, flip, forced>>
    BY <1>5, <2>a, <2>b, <2>c, Zenon DEF Client
  <2>2. QED
    BY <2>1 DEF Flags
<1>6. CASE CopyDone
  <2>1. needsFrame' = TRUE \/ needsFrame' = needsFrame
    <3>1. IF StillShows(Head(tasks))
          THEN surf' = [surf EXCEPT ![Head(tasks).s].dirty = TRUE] /\ needsFrame' = TRUE
          ELSE UNCHANGED <<surf, needsFrame>>
      BY <1>6, Zenon DEF CopyDone
    <3>2. QED
      BY <3>1, Zenon
  <2>2. worker' = "idle" /\ UNCHANGED <<flip, forced>>
    BY <1>6, Zenon DEF CopyDone
  <2>3. QED
    BY <2>1, <2>2 DEF Flags
<1>7. CASE EndCopy
  <2>1. worker' \in {"copied", "failed"} /\ UNCHANGED <<flip, needsFrame, forced>>
    BY <1>7, Zenon DEF EndCopy
  <2>2. QED
    BY <2>1 DEF Flags
<1>8. CASE Fence
  <2>1. UNCHANGED <<worker, flip, needsFrame>> /\ (forced' = "no" \/ forced' = forced)
    BY <1>8, Zenon DEF Fence
  <2>2. QED
    BY <2>1 DEF Flags
<1>9. CASE BeginCopy
  <2>1. worker' = "copying" /\ UNCHANGED <<flip, needsFrame, forced>>
    BY <1>9, Zenon DEF BeginCopy
  <2>2. QED
    BY <2>1 DEF Flags
<1>10. CASE Poke
  <2>1. needsFrame' = TRUE /\ UNCHANGED <<worker, flip, forced>>
    BY <1>10, Zenon DEF Poke
  <2>2. QED
    BY <2>1 DEF Flags
<1>11. CASE FrameEvent
  <2>1. flip' = FALSE /\ UNCHANGED <<worker, needsFrame, forced>>
    BY <1>11, Zenon DEF FrameEvent
  <2>2. QED
    BY <2>1 DEF Flags
<1>12. CASE ComposeNow
  <2>1. forced' = "before" /\ UNCHANGED <<worker, flip, needsFrame>>
    BY <1>12, Zenon DEF ComposeNow
  <2>2. QED
    BY <2>1 DEF Flags
<1>13. CASE vars' = vars
  BY <1>13 DEF Flags, vars
<1>14. QED
  BY <1>2, <1>3, <1>4, <1>5, <1>6, <1>7, <1>8, <1>9, <1>10, <1>11, <1>12, <1>13, Zenon
     DEF Next, Serve, Client

-----------------------------------------------------------------------------
(* Buffers stay with their surfaces.                                       *)

LEMMA ShowingNext ==
    ASSUME Typed, Showing, Queue, [Next]_vars
    PROVE  Showing'
<1>0. ASSUME \A s \in Surfaces :
                /\ surf'[s].buf \in Bufs[s] \cup {NoBuf}
                /\ surf'[s].buf # NoBuf => surf'[s].has
                /\ surf'[s].has /\ surf'[s].dirty => surf'[s].buf # NoBuf,
             \A s \in Surfaces :
                /\ tex'[s].src \in Bufs[s] \cup {NoBuf}
                /\ tex'[s].pend => tex'[s].src # NoBuf
      PROVE  Showing'
  BY <1>0, Zenon DEF Showing
<1>s. \A s \in Surfaces :
         /\ surf[s].buf \in Bufs[s] \cup {NoBuf}
         /\ surf[s].buf # NoBuf => surf[s].has
         /\ surf[s].has /\ surf[s].dirty => surf[s].buf # NoBuf
  BY Zenon DEF Showing
<1>t. \A s \in Surfaces :
         /\ tex[s].src \in Bufs[s] \cup {NoBuf}
         /\ tex[s].pend => tex[s].src # NoBuf
  BY Zenon DEF Showing
<1>a. TexAfter(tex) => \A s \in Surfaces :
         /\ tex'[s].src \in Bufs[s] \cup {NoBuf}
         /\ tex'[s].pend => tex'[s].src # NoBuf
  BY <1>t DEF TexAfter
<1>1. ASSUME NEW s \in Surfaces, NEW b \in Bufs[s], NEW d \in SUBSET Cells, Commit(s, b, d)
      PROVE  Showing'
  <2>1. b \in Buffers /\ b # NoBuf
    BY OwnBuffers
  <2>2. /\ surf'[s].buf = b /\ surf'[s].has = TRUE
        /\ \A t \in Surfaces : t # s => surf'[t] = surf[t]
    BY <1>1, <2>1, CommitSurf, Zenon
  <2>3. \A t \in Surfaces : tex'[t].src = tex[t].src /\ tex'[t].pend = tex[t].pend
    BY <1>1, <2>1, CommitTex, Zenon
  <2>4. \A t \in Surfaces :
         /\ surf'[t].buf \in Bufs[t] \cup {NoBuf}
         /\ surf'[t].buf # NoBuf => surf'[t].has
         /\ surf'[t].has /\ surf'[t].dirty => surf'[t].buf # NoBuf
    BY <1>s, <2>1, <2>2
  <2>5. \A t \in Surfaces :
         /\ tex'[t].src \in Bufs[t] \cup {NoBuf}
         /\ tex'[t].pend => tex'[t].src # NoBuf
    BY <1>t, <2>3
  <2>6. QED
    BY <1>0, <2>4, <2>5
<1>2. ASSUME NEW s \in Surfaces, CommitNull(s) \/ DestroySurface(s)
      PROVE  Showing'
  <2>1. /\ surf'[s].buf = NoBuf /\ surf'[s].has = FALSE
        /\ \A t \in Surfaces : t # s => surf'[t] = surf[t]
    BY <1>2, CommitNullSurf, DestroySurf, Zenon
  <2>2. \A t \in Surfaces :
         /\ surf'[t].buf \in Bufs[t] \cup {NoBuf}
         /\ surf'[t].buf # NoBuf => surf'[t].has
         /\ surf'[t].has /\ surf'[t].dirty => surf'[t].buf # NoBuf
    BY <1>s, <2>1
  <2>3. CASE CommitNull(s)
    <3>1. TexAfter(tex)
      BY <2>3, CommitNullRest, Zenon
    <3>2. QED
      BY <1>0, <1>a, <2>2, <3>1
  <2>4. CASE DestroySurface(s)
    <3>1. /\ tex'[s].src = NoBuf /\ tex'[s].pend = FALSE
          /\ \A t \in Surfaces : t # s =>
               tex'[t].src = tex[t].src /\ tex'[t].pend = tex[t].pend
      BY <2>4, DestroyRest, Zenon
    <3>2. \A t \in Surfaces :
            /\ tex'[t].src \in Bufs[t] \cup {NoBuf}
            /\ tex'[t].pend => tex'[t].src # NoBuf
      BY <1>t, <3>1
    <3>3. QED
      BY <1>0, <2>2, <3>2
  <2>5. QED
    BY <1>2, <2>3, <2>4
<1>4. CASE EndCopy
  <2>1. UNCHANGED <<surf, tex>>
    BY <1>4, Zenon DEF EndCopy
  <2>2. QED
    BY <2>1, Zenon DEF Showing
<1>5. CASE CopyDone
  <2>1. worker # "idle"
    BY <1>5, Zenon DEF CopyDone
  <2>2. PICK h \in TaskType : h = Head(tasks)
    BY <2>1, FirstTask, Zenon
  <2>3. TexAfter(tex)
    BY <1>5, <2>2, CopyDoneRest, Zenon
  <2>4. h.b # NoBuf
    <3>1. h.b \in Bufs[h.s] /\ h.s \in Surfaces
      BY <2>1, <2>2, FirstTask DEF Queue, TaskType
    <3>2. QED
      BY <3>1, OwnBuffers
  <2>5. \A s \in Surfaces :
           /\ surf'[s].buf = surf[s].buf /\ surf'[s].has = surf[s].has
           /\ surf'[s].dirty => surf[s].dirty \/ (s = h.s /\ surf[s].buf = h.b)
    BY <1>5, <2>2, CopyDoneSurf, Zenon
  <2>6. \A s \in Surfaces :
           /\ surf'[s].buf \in Bufs[s] \cup {NoBuf}
           /\ surf'[s].buf # NoBuf => surf'[s].has
           /\ surf'[s].has /\ surf'[s].dirty => surf'[s].buf # NoBuf
    BY <1>s, <2>4, <2>5
  <2>7. QED
    BY <1>0, <1>a, <2>3, <2>6
<1>6. CASE Fence
  <2>1. TexAfter(tex) /\ surf' = surf
    BY <1>6, FenceRest, Zenon DEF Fence
  <2>2. QED
    BY <1>0, <1>a, <1>s, <2>1
<1>7. CASE Quiet
  <2>1. /\ tex' = tex
        /\ \A s \in Surfaces : /\ surf'[s].buf = surf[s].buf /\ surf'[s].has = surf[s].has
                               /\ surf'[s].dirty = surf[s].dirty
    BY <1>7, Zenon DEF Quiet
  <2>2. \A s \in Surfaces :
           /\ surf'[s].buf \in Bufs[s] \cup {NoBuf}
           /\ surf'[s].buf # NoBuf => surf'[s].has
           /\ surf'[s].has /\ surf'[s].dirty => surf'[s].buf # NoBuf
    BY <1>s, <2>1
  <2>3. QED
    BY <1>0, <1>t, <2>1, <2>2
<1>8. ASSUME NEW bad \in SUBSET MayFail, Composes(bad)
      PROVE  Showing'
  <2>n. \A s \in Surfaces :
          /\ WithNotes(bad)[s].src \in Bufs[s] \cup {NoBuf}
          /\ WithNotes(bad)[s].pend => WithNotes(bad)[s].src # NoBuf
    BY ReadsIs, OwnBuffers DEF Pending
  <2>1. CASE Hold(bad) \/ Scan(bad)
    <3>1. /\ TexAfter(WithNotes(bad))
          /\ \A s \in Surfaces : /\ surf'[s].buf = surf[s].buf /\ surf'[s].has = surf[s].has
                                 /\ surf'[s].dirty => surf[s].dirty
      BY <2>1, HoldRest, ScanRest, Zenon DEF LookedAt
    <3>2. \A s \in Surfaces :
             /\ surf'[s].buf \in Bufs[s] \cup {NoBuf}
             /\ surf'[s].buf # NoBuf => surf'[s].has
             /\ surf'[s].has /\ surf'[s].dirty => surf'[s].buf # NoBuf
      BY <1>s, <3>1
    <3>3. \A s \in Surfaces : /\ tex'[s].src \in Bufs[s] \cup {NoBuf}
                              /\ tex'[s].pend => tex'[s].src # NoBuf
      BY <2>n, <3>1 DEF TexAfter
    <3>4. QED
      BY <1>0, <3>2, <3>3
  <2>2. CASE Render(bad)
    <3>1. /\ TexAfter(TexRendered(bad))
          /\ \A s \in Surfaces : /\ surf'[s].buf \in {surf[s].buf, NoBuf}
                                 /\ surf'[s].has = surf[s].has
                                 /\ surf'[s].dirty => surf[s].dirty /\ s \notin Dirty
      BY <2>2, RenderRest, Zenon DEF LookedAt
    <3>2. \A s \in Surfaces :
             /\ surf'[s].buf \in Bufs[s] \cup {NoBuf}
             /\ surf'[s].buf # NoBuf => surf'[s].has
             /\ surf'[s].has /\ surf'[s].dirty => surf'[s].buf # NoBuf
      BY <1>s, <3>1 DEF Dirty
    <3>3. \A s \in Surfaces : /\ TexRendered(bad)[s].src \in Bufs[s] \cup {NoBuf}
                              /\ TexRendered(bad)[s].pend => TexRendered(bad)[s].src # NoBuf
      BY <2>n, RenderedIs
    <3>4. \A s \in Surfaces : /\ tex'[s].src \in Bufs[s] \cup {NoBuf}
                              /\ tex'[s].pend => tex'[s].src # NoBuf
      BY <3>1, <3>3 DEF TexAfter
    <3>5. QED
      BY <1>0, <3>2, <3>4
  <2>3. QED
    BY <1>8, <2>1, <2>2, Zenon DEF Composes
<1>9. QED
  BY <1>1, <1>2, <1>4, <1>5, <1>6, <1>7, <1>8, Kinds, Zenon DEF Client

-----------------------------------------------------------------------------
(* The queue and the frame in flight.                                      *)

LEMMA QueueNext ==
    ASSUME Typed, Showing, Queue, [Next]_vars
    PROVE  Queue'
<1>0. ASSUME UNCHANGED <<tasks, gpu>>, worker' # "idle" => Active
      PROVE  Queue'
  <2>1. Active' <=> Active
    BY <1>0, Zenon DEF Active
  <2>2. QED
    BY <1>0, <2>1, Zenon DEF Queue
<1>w. worker # "idle" => Active
  BY DEF Queue
<1>1. ASSUME NEW s \in Surfaces, NEW b \in Bufs[s], NEW d \in SUBSET Cells, Commit(s, b, d)
      PROVE  Queue'
  BY <1>0, <1>1, <1>w, CommitIs, Zenon
<1>2. ASSUME NEW s \in Surfaces, CommitNull(s) \/ DestroySurface(s)
      PROVE  Queue'
  <2>1. UNCHANGED <<tasks, gpu, worker>>
    BY <1>2, Zenon DEF CommitNull, DestroySurface
  <2>2. QED
    BY <1>0, <1>w, <2>1, Zenon
<1>4. CASE EndCopy
  <2>1. UNCHANGED <<tasks, gpu>> /\ worker = "copying"
    BY <1>4, Zenon DEF EndCopy
  <2>2. Active
    BY <1>w, <2>1
  <2>3. QED
    BY <1>0, <2>1, <2>2, Zenon
<1>5. CASE CopyDone
  <2>1. /\ worker # "idle" /\ worker' = "idle" /\ gpu' = gpu /\ tasks' = Tail(tasks)
    BY <1>5, Zenon DEF CopyDone
  <2>2. ~gpu.busy
    BY <1>w, <2>1 DEF Queue
  <2>3. /\ Len(tasks) \in Nat \ {0} /\ DOMAIN tasks = 1 .. Len(tasks)
        /\ DOMAIN tasks' = 1 .. (Len(tasks) - 1)
        /\ \A i \in 1 .. (Len(tasks) - 1) : tasks'[i] = tasks[i + 1]
    BY <2>1, FirstTask
  <2>4. \A i \in DOMAIN tasks' : tasks'[i].b \in Bufs[tasks'[i].s]
    BY <2>3, SMTT(30) DEF Queue
  <2>5. ASSUME NEW i \in DOMAIN tasks', NEW j \in DOMAIN tasks', tasks'[i].b = tasks'[j].b
        PROVE  i = j
    <3>1. i + 1 \in DOMAIN tasks /\ j + 1 \in DOMAIN tasks /\ i \in Int /\ j \in Int
      BY <2>3
    <3>2. tasks[i + 1].b = tasks[j + 1].b
      BY <2>3, <2>5
    <3>3. i + 1 = j + 1
      BY <3>1, <3>2 DEF Queue
    <3>4. QED
      BY <3>1, <3>3
  <2>6. gpu'.reads = gpu'.held /\ (~gpu'.busy => gpu'.held = {}) /\ ~gpu'.busy
    BY <2>1, <2>2, Zenon DEF Queue
  <2>7. QED
    BY <2>1, <2>4, <2>5, <2>6, Zenon DEF Queue
<1>6. CASE Fence
  <2>1. gpu' = NoGpu /\ UNCHANGED <<tasks, worker>>
    BY <1>6, Zenon DEF Fence
  <2>2. gpu'.busy = FALSE
    BY <2>1 DEF NoGpu
  <2>3. gpu'.reads = {} /\ gpu'.held = {}
    BY <2>1 DEF NoGpu
  <2>4. Active' <=> Active
    BY <2>1, Zenon DEF Active
  <2>5. QED
    BY <2>1, <2>2, <2>3, <2>4, Zenon DEF Queue
<1>7. CASE Quiet
  BY <1>0, <1>7, <1>w, Zenon DEF Quiet
<1>8. ASSUME NEW bad \in SUBSET MayFail, Composes(bad)
      PROVE  Queue'
  <2>0. ~Active /\ ~gpu.busy /\ worker' = worker
    BY <1>8, Zenon DEF Composes
  <2>w. worker' = "idle"
    BY <1>w, <2>0
  <2>1. CASE Hold(bad)
    <3>1. /\ \A i \in DOMAIN tasks' : tasks'[i].s \in Waiting(bad)
                                      /\ tasks'[i].b = surf[tasks'[i].s].buf
          /\ \A i, j \in DOMAIN tasks' : tasks'[i].b = tasks'[j].b => i = j
      BY <2>0, <2>1, HoldTasks, Zenon
    <3>2. \A s \in Waiting(bad) : surf[s].buf \in Bufs[s]
      BY WaitingIs, DirtyHas
    <3>3. \A i \in DOMAIN tasks' : tasks'[i].b \in Bufs[tasks'[i].s]
      BY <3>1, <3>2
    <3>4. gpu' = gpu
      BY <2>1, Zenon DEF Hold
    <3>5. QED
      BY <2>0, <2>w, <3>1, <3>3, <3>4, Zenon DEF Queue
  <2>2. CASE Scan(bad)
    <3>1. UNCHANGED <<tasks, gpu>>
      BY <2>2, Zenon DEF Scan
    <3>2. QED
      BY <1>0, <2>w, <3>1, Zenon
  <2>3. CASE Render(bad)
    <3>1. /\ gpu'.busy = TRUE /\ tasks' = tasks
          /\ gpu'.reads = Reads(bad) /\ gpu'.held = Reads(bad)
      BY <2>3, RenderRest, Zenon
    <3>2. ~Active'
      BY <2>0, <3>1, Zenon DEF Active
    <3>3. QED
      BY <2>w, <3>1, <3>2, Zenon DEF Queue
  <2>4. QED
    BY <1>8, <2>1, <2>2, <2>3, Zenon DEF Composes
<1>9. QED
  BY <1>1, <1>2, <1>4, <1>5, <1>6, <1>7, <1>8, Kinds, Zenon DEF Client

-----------------------------------------------------------------------------
(* References.                                                             *)

\* Who refers to a content: a surface that shows it, a copy, a frame.
Shown(b) == \E s \in Surfaces : surf[s].buf = b
Queued(b) == \E i \in DOMAIN tasks : tasks[i].b = b

Counted ==
    \A b \in Buffers :
       refs[b] = (IF Shown(b) THEN 1 ELSE 0) + (IF Queued(b) THEN 1 ELSE 0)
                 + (IF b \in gpu.held THEN 1 ELSE 0)

LEMMA CountedIsAgreed == Counted <=> RefsAgree
<1>1. \A b : b \in {surf[s].buf : s \in Surfaces} <=> Shown(b)
  BY Zenon DEF Shown
<1>2. \A b : b \in {t.b : t \in Listed(tasks)} <=> Queued(b)
  BY Zenon DEF Queued, Listed
<1>3. QED
  BY <1>1, <1>2, Zenon DEF Counted, RefsAgree, One

\* Only one surface shows a buffer.
LEMMA ShownOnce ==
    ASSUME Showing, NEW s \in Surfaces, surf[s].buf # NoBuf
    PROVE  /\ surf[s].buf \in Bufs[s] /\ surf[s].buf \in Buffers
           /\ \A t \in Surfaces : surf[t].buf = surf[s].buf => t = s
<1>1. surf[s].buf \in Bufs[s]
  BY DEF Showing
<1>2. \A t \in Surfaces : surf[t].buf \in Bufs[t] \cup {NoBuf}
  BY DEF Showing
<1>3. QED
  BY <1>1, <1>2, OwnBuffers

LEMMA CountedNext ==
    ASSUME Typed, Showing, Queue, Counted, [Next]_vars
    PROVE  Counted'
<1>r. refs \in [Buffers -> Int]
  BY DEF Typed
<1>c. \A b \in Buffers :
         refs[b] = (IF Shown(b) THEN 1 ELSE 0) + (IF Queued(b) THEN 1 ELSE 0)
                    + (IF b \in gpu.held THEN 1 ELSE 0)
  BY Zenon DEF Counted
<1>q. tasks' = tasks => \A b : Queued(b)' <=> Queued(b)
  BY Zenon DEF Queued
<1>s. (\A s \in Surfaces : surf'[s].buf = surf[s].buf) => \A b : Shown(b)' <=> Shown(b)
  BY Zenon DEF Shown
<1>0. ASSUME \A b \in Buffers :
                refs'[b] = (IF Shown(b)' THEN 1 ELSE 0) + (IF Queued(b)' THEN 1 ELSE 0)
                            + (IF b \in gpu'.held THEN 1 ELSE 0)
      PROVE  Counted'
  BY <1>0, Zenon DEF Counted
<1>1. ASSUME NEW s \in Surfaces, NEW b \in Bufs[s], NEW d \in SUBSET Cells, Commit(s, b, d)
      PROVE  Counted'
  <2>1. b \in Buffers /\ ~(refs[b] > 0) /\ UNCHANGED <<tasks, gpu>>
    BY <1>1, CommitIs DEF Alive
  <2>2. ~Shown(b) /\ ~Queued(b) /\ b \notin gpu.held /\ refs[b] = 0
    <3>1. refs[b] = (IF Shown(b) THEN 1 ELSE 0) + (IF Queued(b) THEN 1 ELSE 0)
                    + (IF b \in gpu.held THEN 1 ELSE 0)
      BY <1>c, <2>1, Zenon
    <3>2. refs[b] \in Int /\ ~(refs[b] > 0)
      BY <1>r, <2>1
    <3>3. ~Shown(b) /\ ~Queued(b) /\ b \notin gpu.held
      BY <3>1, <3>2
    <3>4. QED
      BY <3>1, <3>3
  <2>b. b \in Buffers
    BY <2>1
  <2>3. \A c \in Buffers : refs'[c] = refs[c] + (IF c = b THEN 1 ELSE 0)
                                      - (IF c = surf[s].buf THEN 1 ELSE 0)
    BY <1>1, <2>b, CommitRefs
  <2>4. surf'[s].buf = b /\ \A t \in Surfaces : t # s => surf'[t] = surf[t]
    BY <1>1, <2>1, CommitSurf, Zenon
  <2>5. ASSUME NEW c \in Buffers
        PROVE  Shown(c)' <=> c = b \/ (Shown(c) /\ c # surf[s].buf)
    <3>0. NoBuf \notin Buffers
      BY BuffersAssumption
    <3>1. c = surf[s].buf => \A t \in Surfaces : surf[t].buf = c => t = s
      BY <3>0, ShownOnce
    <3>2. QED
      BY <2>4, <3>1 DEF Shown
  <2>6. \A c \in Buffers : c = surf[s].buf => Shown(c)
    BY DEF Shown
  <2>7. \A c \in Buffers : Queued(c)' <=> Queued(c)
    BY <1>q, <2>1
  <2>8. ASSUME NEW c \in Buffers
        PROVE  refs'[c] = (IF Shown(c)' THEN 1 ELSE 0) + (IF Queued(c)' THEN 1 ELSE 0)
                            + (IF c \in gpu'.held THEN 1 ELSE 0)
    <3>1. CASE c = b
      BY <1>r, <1>c, <2>1, <2>2, <2>3, <2>5, <2>6, <2>7, <3>1
    <3>2. CASE c # b
      BY <1>r, <1>c, <2>1, <2>3, <2>5, <2>6, <2>7, <3>2
    <3>3. QED
      BY <3>1, <3>2
  <2>9. QED
    BY <1>0, <2>8
<1>2. ASSUME NEW s \in Surfaces, CommitNull(s) \/ DestroySurface(s)
      PROVE  Counted'
  <2>1. UNCHANGED <<tasks, gpu>>
    BY <1>2, Zenon DEF CommitNull, DestroySurface
  <2>2. /\ surf'[s].buf = NoBuf
        /\ \A t \in Surfaces : t # s => surf'[t] = surf[t]
    BY <1>2, CommitNullSurf, DestroySurf, Zenon
  <2>3. \A c \in Buffers : refs'[c] = refs[c] - (IF c = surf[s].buf THEN 1 ELSE 0)
    BY <1>2, CommitNullRest, DestroyRest, Zenon
  <2>5. ASSUME NEW c \in Buffers
        PROVE  Shown(c)' <=> Shown(c) /\ c # surf[s].buf
    <3>0. NoBuf \notin Buffers
      BY BuffersAssumption
    <3>1. c = surf[s].buf => \A t \in Surfaces : surf[t].buf = c => t = s
      BY <3>0, ShownOnce
    <3>2. QED
      BY <2>2, <3>0, <3>1 DEF Shown
  <2>6. \A c \in Buffers : c = surf[s].buf => Shown(c)
    BY DEF Shown
  <2>7. \A c \in Buffers : Queued(c)' <=> Queued(c)
    BY <1>q, <2>1
  <2>8. QED
    BY <1>0, <1>r, <1>c, <2>1, <2>3, <2>5, <2>6, <2>7
<1>4. CASE EndCopy
  <2>1. UNCHANGED <<surf, refs, tasks, gpu>>
    BY <1>4, Zenon DEF EndCopy
  <2>2. QED
    BY <1>0, <1>c, <1>q, <1>s, <2>1, Zenon
<1>5. CASE CopyDone
  <2>1. worker # "idle" /\ gpu' = gpu /\ tasks' = Tail(tasks)
    BY <1>5, Zenon DEF CopyDone
  <2>2. PICK h \in TaskType : h = Head(tasks)
    BY <2>1, FirstTask, Zenon
  <2>3. \A c \in Buffers : refs'[c] = refs[c] - (IF c = h.b THEN 1 ELSE 0)
    BY <1>5, <2>2, CopyDoneRest, Zenon
  <2>4. \A s \in Surfaces : surf'[s].buf = surf[s].buf
    BY <1>5, <2>2, CopyDoneSurf, Zenon
  <2>5. /\ Len(tasks) \in Nat \ {0} /\ DOMAIN tasks = 1 .. Len(tasks) /\ 1 \in DOMAIN tasks
        /\ DOMAIN tasks' = 1 .. (Len(tasks) - 1) /\ h = tasks[1]
        /\ \A i \in 1 .. (Len(tasks) - 1) : tasks'[i] = tasks[i + 1]
    BY <2>1, <2>2, FirstTask
  <2>6. \A i \in DOMAIN tasks : i # 1 => tasks[i].b # h.b
    BY <2>5 DEF Queue
  <2>7. ASSUME NEW c \in Buffers
        PROVE  Queued(c)' <=> Queued(c) /\ c # h.b
    <3>1. ASSUME NEW i \in DOMAIN tasks', tasks'[i].b = c
          PROVE  Queued(c) /\ c # h.b
      <4>1. i + 1 \in DOMAIN tasks /\ i + 1 # 1 /\ tasks[i + 1].b = c
        BY <2>5, <3>1
      <4>2. QED
        BY <2>6, <4>1 DEF Queued
    <3>2. ASSUME NEW i \in DOMAIN tasks, tasks[i].b = c, c # h.b
          PROVE  \E j \in DOMAIN tasks' : tasks'[j].b = c
      <4>1. i # 1
        BY <2>5, <3>2
      <4>2. i - 1 \in DOMAIN tasks' /\ tasks'[i - 1] = tasks[i]
        BY <2>5, <4>1
      <4>3. QED
        BY <3>2, <4>2
    <3>3. QED
      BY <3>1, <3>2, Zenon DEF Queued
  <2>8. Queued(h.b)
    BY <2>5, Zenon DEF Queued
  <2>9. \A c \in Buffers : Shown(c)' <=> Shown(c)
    BY <1>s, <2>4
  <2>10. QED
    BY <1>0, <1>r, <1>c, <2>1, <2>3, <2>7, <2>8, <2>9
<1>6. CASE Fence
  <2>1. \A c \in Buffers : refs'[c] = refs[c] - (IF c \in gpu.held THEN 1 ELSE 0)
    BY <1>6, FenceRest, Zenon
  <2>2. gpu' = NoGpu /\ UNCHANGED <<surf, tasks>>
    BY <1>6, Zenon DEF Fence
  <2>3. gpu'.held = {}
    BY <2>2 DEF NoGpu
  <2>4. \A c \in Buffers : (Shown(c)' <=> Shown(c)) /\ (Queued(c)' <=> Queued(c))
    BY <1>s, <1>q, <2>2
  <2>5. QED
    BY <1>0, <1>r, <1>c, <2>1, <2>3, <2>4
<1>7. CASE Quiet
  <2>1. UNCHANGED <<refs, tasks, gpu>> /\ \A s \in Surfaces : surf'[s].buf = surf[s].buf
    BY <1>7, Zenon DEF Quiet
  <2>2. QED
    BY <1>0, <1>c, <1>q, <1>s, <2>1, Zenon
<1>8. ASSUME NEW bad \in SUBSET MayFail, Composes(bad)
      PROVE  Counted'
  <2>0. ~Active /\ ~gpu.busy
    BY <1>8, Zenon DEF Composes
  <2>n. \A b : ~Queued(b)
    BY <2>0 DEF Active, Queued
  <2>h. gpu.held = {}
    BY <2>0 DEF Queue
  <2>1. CASE Hold(bad)
    <3>1. /\ \A i \in DOMAIN tasks' : tasks'[i].s \in Waiting(bad)
                                      /\ tasks'[i].b = surf[tasks'[i].s].buf
          /\ \A s \in Waiting(bad) : \E i \in DOMAIN tasks' : tasks'[i].b = surf[s].buf
      BY <2>0, <2>1, HoldTasks, Zenon
    <3>2. /\ \A b \in Buffers :
               refs'[b] = refs[b] + (IF \E s \in Waiting(bad) : surf[s].buf = b THEN 1 ELSE 0)
          /\ \A s \in Surfaces : surf'[s].buf = surf[s].buf
          /\ gpu' = gpu
      BY <2>1, HoldRest, Zenon
    <3>3. \A b : Queued(b)' <=> \E s \in Waiting(bad) : surf[s].buf = b
      BY <3>1 DEF Queued
    <3>4. \A b : Shown(b)' <=> Shown(b)
      BY <1>s, <3>2
    <3>5. QED
      BY <1>0, <1>r, <1>c, <2>n, <3>2, <3>3, <3>4
  <2>2. CASE Scan(bad)
    <3>1. UNCHANGED <<refs, tasks, gpu>> /\ \A s \in Surfaces : surf'[s].buf = surf[s].buf
      BY <2>2, ScanRest, Zenon
    <3>2. QED
      BY <1>0, <1>c, <1>q, <1>s, <3>1, Zenon
  <2>3. CASE Render(bad)
    <3> DEFINE R == Reads(bad)
    <3>1. /\ \A b \in Buffers :
                refs'[b] = refs[b] + (IF b \in R THEN 1 ELSE 0)
                             - (IF b \in R /\ (\E s \in Surfaces : surf[s].buf = b)
                                THEN 1 ELSE 0)
          /\ \A s \in Surfaces : /\ surf[s].buf \in R => surf'[s].buf = NoBuf
                                 /\ surf[s].buf \notin R => surf'[s].buf = surf[s].buf
          /\ gpu'.held = R /\ tasks' = tasks
      BY <2>3, RenderRest, Zenon
    <3> HIDE DEF R
    <3>2. ASSUME NEW b \in Buffers
          PROVE  Shown(b)' <=> Shown(b) /\ b \notin R
      <4>1. b # NoBuf
        BY BuffersAssumption
      <4>2. QED
        BY <3>1, <4>1 DEF Shown
    <3>3. \A b \in Buffers :
                refs'[b] = refs[b] + (IF b \in R THEN 1 ELSE 0)
                             - (IF b \in R /\ Shown(b) THEN 1 ELSE 0)
      BY <3>1, Zenon DEF Shown
    <3>4. \A b : Queued(b)' <=> Queued(b)
      BY <1>q, <3>1
    <3>5. ASSUME NEW b \in Buffers
          PROVE  refs'[b] = (IF Shown(b)' THEN 1 ELSE 0) + (IF Queued(b)' THEN 1 ELSE 0)
                              + (IF b \in gpu'.held THEN 1 ELSE 0)
      <4>1. refs[b] = (IF Shown(b) THEN 1 ELSE 0)
        BY <1>c, <2>n, <2>h
      <4>2. QED
        BY <2>n, <3>1, <3>2, <3>3, <3>4, <4>1
    <3>6. QED
      BY <1>0, <3>5
  <2>4. QED
    BY <1>8, <2>1, <2>2, <2>3, Zenon DEF Composes
<1>9. QED
  BY <1>1, <1>2, <1>4, <1>5, <1>6, <1>7, <1>8, Kinds, Zenon DEF Client

-----------------------------------------------------------------------------
(* Buffers go back exactly when nothing uses them.                         *)

Sound == Typed /\ Flags /\ Showing /\ Queue /\ Counted

LEMMA SoundInit ==
    ASSUME Init
    PROVE  Sound
<1>1. Typed
  <2>1. /\ surf = [s \in Surfaces |-> [buf |-> NoBuf, has |-> FALSE, dirty |-> FALSE,
                                      alive |-> TRUE, damage |-> {}, owed |-> FALSE]]
        /\ refs = [b \in Buffers |-> 0]
        /\ content = [b \in Buffers |-> NoContent]
        /\ staged = [b \in Buffers |-> [init |-> FALSE, stale |-> Cells]]
        /\ tex = [s \in Surfaces |-> NoTex]
        /\ tasks = <<>> /\ gpu = NoGpu
    BY DEF Init
  <2>2. surf \in [Surfaces -> SurfType]
    BY <2>1 DEF SurfType
  <2>3. refs \in [Buffers -> Int]
    BY <2>1
  <2>4. content \in [Buffers -> ContentType]
    BY <2>1 DEF NoContent, ContentType
  <2>5. staged \in [Buffers -> StagedType]
    BY <2>1 DEF StagedType
  <2>6. tex \in [Surfaces -> TexType]
    BY <2>1 DEF NoTex, TexType
  <2>7. gpu \in GpuType
    BY <2>1 DEF NoGpu, GpuType
  <2>8. tasks \in Seq(TaskType)
    BY <2>1
  <2>9. QED
    BY <2>2, <2>3, <2>4, <2>5, <2>6, <2>7, <2>8 DEF Typed
<1>2. Flags
  BY DEF Init, Flags
<1>3. Showing
  BY DEF Init, Showing, NoTex
<1>4. Queue
  <2>1. tasks = <<>> /\ gpu = NoGpu /\ worker = "idle"
    BY DEF Init
  <2>2. gpu.busy = FALSE
    BY <2>1 DEF NoGpu
  <2>3. gpu.reads = {} /\ gpu.held = {}
    BY <2>1 DEF NoGpu
  <2>4. DOMAIN tasks = {}
    BY <2>1
  <2>5. QED
    BY <2>1, <2>2, <2>3, <2>4 DEF Queue
<1>5. Counted
  <2>1. /\ \A b \in Buffers : refs[b] = 0
        /\ \A s \in Surfaces : surf[s].buf = NoBuf
        /\ tasks = <<>> /\ gpu.held = {}
    BY DEF Init, NoGpu
  <2>2. NoBuf \notin Buffers
    BY BuffersAssumption
  <2>3. \A b \in Buffers : ~Shown(b) /\ ~Queued(b)
    BY <2>1, <2>2 DEF Shown, Queued
  <2>4. QED
    BY <2>1, <2>3 DEF Counted
<1>6. QED
  BY <1>1, <1>2, <1>3, <1>4, <1>5 DEF Sound

LEMMA SoundNext ==
    ASSUME Sound, [Next]_vars
    PROVE  Sound'
<1>1. Typed /\ Flags /\ Showing /\ Queue /\ Counted
  BY DEF Sound
<1>2. Typed' /\ Flags' /\ Showing' /\ Queue' /\ Counted'
  BY <1>1, TypedNext, FlagsNext, ShowingNext, QueueNext, CountedNext
<1>3. QED
  BY <1>2, Zenon DEF Sound

LEMMA Soundness == Spec => []Sound
<1>1. Init => Sound
  BY SoundInit
<1>2. Sound /\ [Next]_vars => Sound'
  BY SoundNext
<1>3. QED
  BY <1>1, <1>2, PTL DEF Spec

LEMMA SoundTypes ==
    ASSUME Sound
    PROVE  TypeOK
<1>1. refs \in [Buffers -> 0 .. 3]
  <2>1. refs \in [Buffers -> Int]
    BY DEF Sound, Typed
  <2>2. \A b \in Buffers :
           refs[b] = (IF Shown(b) THEN 1 ELSE 0) + (IF Queued(b) THEN 1 ELSE 0)
                       + (IF b \in gpu.held THEN 1 ELSE 0)
    BY Zenon DEF Sound, Counted
  <2>3. \A b \in Buffers : refs[b] \in 0 .. 3
    BY <2>2
  <2>4. QED
    BY <2>1, <2>3
<1>2. /\ surf \in [Surfaces -> [buf : Buffers \cup {NoBuf}, has : BOOLEAN, dirty : BOOLEAN,
                             alive : BOOLEAN, damage : SUBSET Cells, owed : BOOLEAN]]
      /\ content \in [Buffers -> [damage : SUBSET Cells, stale : SUBSET Cells,
                                copy : {"new", "prepared", "ready", "failed"}]]
      /\ staged \in [Buffers -> [init : BOOLEAN, stale : SUBSET Cells]]
      /\ tex \in [Surfaces -> [there : BOOLEAN, pend : BOOLEAN, src : Buffers \cup {NoBuf},
                            gone : BOOLEAN, rect : SUBSET Cells, stale : SUBSET Cells]]
  BY Zenon DEF Sound, Typed, SurfType, ContentType, StagedType, TexType
<1>3. /\ \A i, j \in DOMAIN tasks : tasks[i].b = tasks[j].b => i = j
      /\ worker # "idle" => Active
  BY Zenon DEF Sound, Queue
<1>4. gpu.reads \cup gpu.held # {} => gpu.busy
  BY DEF Sound, Queue
<1>5. /\ worker \in {"idle", "copying", "copied", "failed"}
      /\ {flip, needsFrame} \subseteq BOOLEAN /\ forced \in {"no", "before", "after"}
  BY Zenon DEF Sound, Flags
<1>6. QED
  BY <1>1, <1>2, <1>3, <1>4, <1>5, Zenon DEF TypeOK

LEMMA SoundSources ==
    ASSUME Sound
    PROVE  SourcesQuiet
<1> SUFFICES ASSUME NEW b \in gpu.reads
             PROVE  Alive(b) /\ b \notin {t.b : t \in Listed(tasks)}
  BY DEF SourcesQuiet
<1>1. b \in gpu.held /\ b \in Buffers /\ tasks = <<>>
  BY DEF Sound, Queue, Active, Typed, GpuType
<1>2. refs[b] = (IF Shown(b) THEN 1 ELSE 0) + (IF Queued(b) THEN 1 ELSE 0)
                   + (IF b \in gpu.held THEN 1 ELSE 0)
  BY <1>1, Zenon DEF Sound, Counted
<1>3. Alive(b)
  BY <1>1, <1>2 DEF Alive
<1>4. Listed(tasks) = {}
  BY <1>1 DEF Listed
<1>5. QED
  BY <1>3, <1>4

-----------------------------------------------------------------------------
(* What textures show.                                                     *)

\* A note whose content is alive refers to it; a texture that is not there
\* holds nothing and has no note.
NoteOk(s) == tex[s].src # NoBuf /\ ~tex[s].gone => refs[tex[s].src] # 0
BlankOk(s) == ~tex[s].there => tex[s].stale = Cells /\ ~tex[s].pend

\* Once a frame has taken a surface's buffer, nothing is left to upload.
TakenOk(s) == surf[s].has /\ surf[s].buf = NoBuf => ~surf[s].dirty /\ ~tex[s].pend

\* A surface's buffer holds the newest commit; what is noted of it covers its
\* damage and has been copied.
FreshOk(s) ==
    \A b \in Bufs[s] : surf[s].buf = b =>
       /\ content[b].stale = {}
       /\ surf[s].damage \subseteq content[b].damage
       /\ tex[s].pend /\ tex[s].src = b /\ ~tex[s].gone =>
            /\ content[b].damage \subseteq tex[s].rect
            /\ b \in Copied => content[b].copy = "ready"

ShownOk(s) ==
    surf[s].has /\ surf[s].buf = NoBuf => tex[s].stale \cap surf[s].damage = {}

\* With a single buffer no damage is ever left behind: what is stale in the
\* texture and in the staging memory is what the pending content damages.
OneOk(s) ==
    \A b \in Bufs[s] : Bufs[s] = {b} =>
       /\ surf[s].buf = b =>
            /\ tex[s].stale \subseteq content[b].damage
            /\ b \in Copied => staged[b].stale \subseteq content[b].damage
            /\ tex[s].pend /\ tex[s].gone => content[b].damage = Cells
       /\ surf[s].has /\ surf[s].buf = NoBuf =>
            /\ tex[s].stale = {}
            /\ b \in Copied => staged[b].stale = {}

Good(s) ==
    NoteOk(s) /\ BlankOk(s) /\ TakenOk(s) /\ FreshOk(s) /\ ShownOk(s) /\ OneOk(s)

\* A copy that succeeded has copied the newest damage.
CopyOk(b) == staged[b].stale \cap content[b].damage \subseteq content[b].stale

Copies ==
    /\ \A b \in Copied : content[b].copy = "ready" => CopyOk(b)
    /\ worker = "copied" => CopyOk(Head(tasks).b)
    /\ \A i \in DOMAIN tasks :
         /\ content[tasks[i].b].copy # "ready"
         /\ surf[tasks[i].s].has => surf[tasks[i].s].buf # NoBuf

\* What a step leaves of a surface, its texture and its buffers.
SurfKept(t) ==
    /\ surf'[t].buf = surf[t].buf /\ surf'[t].has = surf[t].has
    /\ surf'[t].damage = surf[t].damage
    /\ surf'[t].dirty => surf[t].dirty \/ surf[t].buf # NoBuf

TexKept(t) ==
    /\ tex'[t].there = tex[t].there
    /\ tex'[t].pend = tex[t].pend
    /\ tex'[t].src = tex[t].src
    /\ tex'[t].rect = tex[t].rect
    /\ tex'[t].stale = tex[t].stale
    /\ tex[t].src # NoBuf /\ refs'[tex[t].src] = 0 => tex'[t].gone = TRUE
    /\ ~(tex[t].src # NoBuf /\ refs'[tex[t].src] = 0) => tex'[t].gone = tex[t].gone

PixelsKept(t) ==
    \A b \in Bufs[t] : refs'[b] # 0 =>
       /\ content'[b].damage = content[b].damage
       /\ content'[b].stale = content[b].stale
       /\ content[b].copy = "ready" => content'[b].copy = "ready"

StagedKept(t) ==
    \A b \in Bufs[t] :
       /\ staged'[b].stale \subseteq staged[b].stale \cup content[b].damage
       /\ surf[t].has /\ surf[t].buf = NoBuf => staged'[b].stale \subseteq staged[b].stale

LEMMA GoodKept ==
    ASSUME Typed, Showing, Counted', NEW t \in Surfaces, Good(t),
           SurfKept(t), TexKept(t), PixelsKept(t), StagedKept(t)
    PROVE  Good(t)'
<1>s. /\ surf'[t].buf = surf[t].buf /\ surf'[t].has = surf[t].has
      /\ surf'[t].damage = surf[t].damage
      /\ surf'[t].dirty => surf[t].dirty \/ surf[t].buf # NoBuf
  BY Zenon DEF SurfKept
<1>x. /\ tex'[t].there = tex[t].there
      /\ tex'[t].pend = tex[t].pend
      /\ tex'[t].src = tex[t].src
      /\ tex'[t].rect = tex[t].rect
      /\ tex'[t].stale = tex[t].stale
  BY Zenon DEF TexKept
<1>g. /\ tex[t].src # NoBuf /\ refs'[tex[t].src] = 0 => tex'[t].gone
      /\ tex[t].src # NoBuf /\ refs'[tex[t].src] # 0 => (tex'[t].gone <=> tex[t].gone)
  BY Zenon DEF TexKept
<1>b. \A b \in Bufs[t] : b \in Buffers /\ b # NoBuf
  BY OwnBuffers
<1>r. \A b \in Bufs[t] : surf'[t].buf = b => refs'[b] # 0
  <2>1. \A b \in Buffers :
           refs'[b] = (IF Shown(b)' THEN 1 ELSE 0) + (IF Queued(b)' THEN 1 ELSE 0)
                       + (IF b \in gpu'.held THEN 1 ELSE 0)
    BY Zenon DEF Counted
  <2>2. \A b \in Bufs[t] : surf'[t].buf = b => Shown(b)'
    BY Zenon DEF Shown
  <2>3. QED
    BY <2>1, <2>2, <1>b
<1>1. NoteOk(t)'
  BY <1>x, <1>g, Zenon DEF NoteOk
<1>2. BlankOk(t)'
  BY <1>x, Zenon DEF Good, BlankOk
<1>3. TakenOk(t)'
  BY <1>s, <1>x, Zenon DEF Good, TakenOk
<1>4. FreshOk(t)'
  <2> SUFFICES ASSUME NEW b \in Bufs[t], surf'[t].buf = b
               PROVE  /\ content'[b].stale = {}
                      /\ surf'[t].damage \subseteq content'[b].damage
                      /\ tex'[t].pend /\ tex'[t].src = b /\ ~tex'[t].gone =>
                           /\ content'[b].damage \subseteq tex'[t].rect
                           /\ b \in Copied => content'[b].copy = "ready"
    BY Zenon DEF FreshOk
  <2>1. /\ content'[b].damage = content[b].damage /\ content'[b].stale = content[b].stale
        /\ content[b].copy = "ready" => content'[b].copy = "ready"
    BY <1>r, Zenon DEF PixelsKept
  <2>2. /\ content[b].stale = {}
        /\ surf[t].damage \subseteq content[b].damage
        /\ tex[t].pend /\ tex[t].src = b /\ ~tex[t].gone =>
             /\ content[b].damage \subseteq tex[t].rect
             /\ b \in Copied => content[b].copy = "ready"
    BY <1>s, Zenon DEF Good, FreshOk
  <2>3. content'[b].stale = {} /\ surf'[t].damage \subseteq content'[b].damage
    BY <1>s, <2>1, <2>2
  <2>4. ASSUME tex'[t].pend, tex'[t].src = b, ~tex'[t].gone
        PROVE  /\ content'[b].damage \subseteq tex'[t].rect
               /\ b \in Copied => content'[b].copy = "ready"
    <3>1. tex[t].pend /\ tex[t].src = b /\ ~tex[t].gone
      BY <1>x, <1>g, <1>r, <1>b, <2>4, Zenon
    <3>2. QED
      BY <1>x, <2>1, <2>2, <3>1, Zenon
  <2>5. QED
    BY <2>3, <2>4
<1>5. ShownOk(t)'
  BY <1>s, <1>x, Zenon DEF Good, ShownOk
<1>6. OneOk(t)'
  <2> SUFFICES ASSUME NEW b \in Bufs[t], Bufs[t] = {b}
               PROVE  /\ surf'[t].buf = b =>
                           /\ tex'[t].stale \subseteq content'[b].damage
                           /\ b \in Copied => staged'[b].stale \subseteq content'[b].damage
                           /\ tex'[t].pend /\ tex'[t].gone => content'[b].damage = Cells
                      /\ surf'[t].has /\ surf'[t].buf = NoBuf =>
                           /\ tex'[t].stale = {}
                           /\ b \in Copied => staged'[b].stale = {}
    BY Zenon DEF OneOk
  <2>1. /\ surf[t].buf = b =>
             /\ tex[t].stale \subseteq content[b].damage
             /\ b \in Copied => staged[b].stale \subseteq content[b].damage
             /\ tex[t].pend /\ tex[t].gone => content[b].damage = Cells
        /\ surf[t].has /\ surf[t].buf = NoBuf =>
             /\ tex[t].stale = {}
             /\ b \in Copied => staged[b].stale = {}
    BY Zenon DEF Good, OneOk
  <2>2. /\ staged'[b].stale \subseteq staged[b].stale \cup content[b].damage
        /\ surf[t].has /\ surf[t].buf = NoBuf => staged'[b].stale \subseteq staged[b].stale
    BY Zenon DEF StagedKept
  <2>3. ASSUME surf'[t].buf = b
        PROVE  /\ tex'[t].stale \subseteq content'[b].damage
               /\ b \in Copied => staged'[b].stale \subseteq content'[b].damage
               /\ tex'[t].pend /\ tex'[t].gone => content'[b].damage = Cells
    <3>1. refs'[b] # 0 /\ content'[b].damage = content[b].damage /\ surf[t].buf = b
      BY <1>r, <1>s, <2>3, Zenon DEF PixelsKept
    <3>2. tex'[t].stale \subseteq content'[b].damage
      BY <1>x, <2>1, <3>1
    <3>3. b \in Copied => staged'[b].stale \subseteq content'[b].damage
      BY <2>1, <2>2, <3>1
    <3>4. ASSUME tex'[t].pend, tex'[t].gone
          PROVE  tex[t].pend /\ tex[t].gone
      <4>1. CASE tex[t].src = b
        BY <1>x, <1>g, <1>b, <3>1, <3>4, <4>1, Zenon
      <4>2. tex[t].src = b
        BY <1>x, <3>4 DEF Showing
      <4>3. QED
        BY <4>1, <4>2
    <3>5. QED
      BY <2>1, <3>1, <3>2, <3>3, <3>4, Zenon
  <2>4. ASSUME surf'[t].has, surf'[t].buf = NoBuf
        PROVE  /\ tex'[t].stale = {}
               /\ b \in Copied => staged'[b].stale = {}
    BY <1>s, <1>x, <2>1, <2>2, <2>4
  <2>5. QED
    BY <2>3, <2>4
<1>7. QED
  BY <1>1, <1>2, <1>3, <1>4, <1>5, <1>6, Zenon DEF Good

\* A buffer that is shown after a step is alive after it.
LEMMA ShownAlive ==
    ASSUME Counted', NEW s \in Surfaces, NEW b \in Bufs[s], surf'[s].buf = b
    PROVE  refs'[b] # 0
<1>1. b \in Buffers
  BY OwnBuffers
<1>2. Shown(b)'
  BY Zenon DEF Shown
<1>3. refs'[b] = (IF Shown(b)' THEN 1 ELSE 0) + (IF Queued(b)' THEN 1 ELSE 0)
                   + (IF b \in gpu'.held THEN 1 ELSE 0)
  BY <1>1, Zenon DEF Counted
<1>4. QED
  BY <1>2, <1>3

LEMMA NotAlive ==
    ASSUME Typed, Counted, NEW b \in Buffers, ~Alive(b)
    PROVE  refs[b] = 0 /\ ~Shown(b) /\ ~Queued(b)
<1>1. refs[b] = (IF Shown(b) THEN 1 ELSE 0) + (IF Queued(b) THEN 1 ELSE 0)
                   + (IF b \in gpu.held THEN 1 ELSE 0)
  BY Zenon DEF Counted
<1>2. refs[b] \in Int /\ ~(refs[b] > 0)
  BY DEF Typed, Alive
<1>3. ~Shown(b) /\ ~Queued(b) /\ b \notin gpu.held
  BY <1>1, <1>2
<1>4. QED
  BY <1>1, <1>3

LEMMA TexAllKept ==
    ASSUME TexAfter(tex)
    PROVE  \A t \in Surfaces : TexKept(t)
BY Zenon DEF TexAfter, TexKept

LEMMA PixelsAllKept ==
    ASSUME ContentAfter(content)
    PROVE  \A t \in Surfaces : PixelsKept(t)
<1>1. \A b \in Buffers : refs'[b] # 0 => content'[b] = content[b]
  BY Zenon DEF ContentAfter
<1>2. \A t \in Surfaces : \A b \in Bufs[t] : b \in Buffers
  BY OwnBuffers
<1>3. QED
  BY <1>1, <1>2, Zenon DEF PixelsKept

LEMMA StagedAllKept ==
    ASSUME UNCHANGED staged
    PROVE  \A t \in Surfaces : StagedKept(t)
BY DEF StagedKept

LEMMA GoodCommit ==
    ASSUME Typed, Showing, Counted, Counted', \A t \in Surfaces : Good(t),
           NEW s \in Surfaces, NEW b \in Bufs[s], NEW d \in SUBSET Cells, Commit(s, b, d)
    PROVE  \A t \in Surfaces : Good(t)'
<1>1. b \in Buffers /\ b # NoBuf /\ \A t \in Surfaces : b \in Bufs[t] => t = s
  BY OwnBuffers
<1>2. /\ surf'[s].buf = b /\ surf'[s].has = TRUE /\ surf'[s].dirty = TRUE
      /\ surf'[s].damage = d
      /\ \A t \in Surfaces : t # s => surf'[t] = surf[t]
  BY <1>1, CommitSurf, Zenon
<1>3. \A t \in Surfaces :
         /\ tex'[t].there = tex[t].there
         /\ tex'[t].pend = tex[t].pend
         /\ tex'[t].src = tex[t].src
         /\ tex'[t].rect = tex[t].rect
         /\ t # s => tex'[t].stale = tex[t].stale
         /\ t = s => tex'[t].stale = tex[t].stale \cup d
         /\ tex[t].src # NoBuf /\ refs'[tex[t].src] = 0 => tex'[t].gone = TRUE
         /\ ~(tex[t].src # NoBuf /\ refs'[tex[t].src] = 0) => tex'[t].gone = tex[t].gone
  BY <1>1, CommitTex, Zenon
<1>4. /\ refs'[b] # 0 => content'[b].damage = d /\ content'[b].stale = {}
      /\ \A c \in Buffers : refs'[c] # 0 /\ c # b =>
            /\ content'[c].damage = content[c].damage
            /\ c \in Bufs[s] => content'[c].stale = content[c].stale \cup d
            /\ c \notin Bufs[s] => content'[c].stale = content[c].stale
            /\ content'[c].copy = content[c].copy
  <2>1. refs'[b] # 0 => content'[b].damage = d /\ content'[b].stale = {}
    BY <1>1, CommitContent
  <2>2. ASSUME NEW c \in Buffers, refs'[c] # 0, c # b
        PROVE  /\ content'[c].damage = content[c].damage
               /\ c \in Bufs[s] => content'[c].stale = content[c].stale \cup d
               /\ c \notin Bufs[s] => content'[c].stale = content[c].stale
               /\ content'[c].copy = content[c].copy
    BY <1>1, <2>2, CommitContent
  <2>3. QED
    BY <2>1, <2>2
<1>5. \A c \in Buffers :
         /\ c \in Bufs[s] => staged'[c].stale = staged[c].stale \cup d
         /\ c \notin Bufs[s] => staged'[c].stale = staged[c].stale
  BY <1>1, CommitStaged, Zenon
<1>6. refs[b] = 0 /\ ~Shown(b) /\ (~surf[s].has => d = Cells)
  BY <1>1, CommitIs, NotAlive
<1>7. refs'[b] # 0
  BY <1>2, ShownAlive
<1>8. ASSUME NEW t \in Surfaces, t # s
      PROVE  Good(t)'
  <2>1. \A c \in Bufs[t] : c \in Buffers /\ c # b /\ c \notin Bufs[s]
    BY <1>1, <1>8, OwnBuffers
  <2>2. SurfKept(t)
    BY <1>2, <1>8, Zenon DEF SurfKept
  <2>3. TexKept(t)
    BY <1>3, <1>8, Zenon DEF TexKept
  <2>4. PixelsKept(t)
    <3>1. \A c \in Bufs[t] : refs'[c] # 0 =>
              /\ content'[c].damage = content[c].damage
              /\ content'[c].stale = content[c].stale
              /\ content'[c].copy = content[c].copy
      BY <1>4, <2>1
    <3>2. QED
      BY <3>1, Zenon DEF PixelsKept
  <2>5. StagedKept(t)
    <3>1. \A c \in Bufs[t] : staged'[c].stale = staged[c].stale
      BY <1>5, <2>1
    <3>2. QED
      BY <3>1 DEF StagedKept
  <2>6. QED
    BY <2>2, <2>3, <2>4, <2>5, GoodKept
<1>9. Good(s)'
  <2>g. NoteOk(s) /\ BlankOk(s) /\ TakenOk(s) /\ OneOk(s)
    BY Zenon DEF Good
  <2>1. NoteOk(s)'
    BY <1>3, Zenon DEF NoteOk
  <2>2. BlankOk(s)'
    <3>1. /\ tex'[s].there = tex[s].there /\ tex'[s].pend = tex[s].pend
          /\ tex'[s].stale = tex[s].stale \cup d
      BY <1>3, Zenon
    <3>2. tex[s].stale = Cells => tex'[s].stale = Cells
      BY <3>1
    <3>3. QED
      BY <2>g, <3>1, <3>2, Zenon DEF BlankOk
  <2>3. TakenOk(s)' /\ ShownOk(s)'
    BY <1>1, <1>2, Zenon DEF TakenOk, ShownOk
  <2>4. FreshOk(s)'
    <3>1. content'[b].damage = d /\ content'[b].stale = {}
      BY <1>1, <1>4, <1>7
    <3>2. tex'[s].pend /\ tex'[s].src = b /\ ~tex'[s].gone => FALSE
      <4>1. tex'[s].src = b => tex[s].src = b
        BY <1>3, Zenon
      <4>2. tex[s].src = b => tex'[s].gone = tex[s].gone
        BY <1>3, <1>7, Zenon
      <4>3. tex[s].src = b => tex[s].gone
        BY <1>1, <1>6, <2>g, Zenon DEF NoteOk
      <4>4. QED
        BY <4>1, <4>2, <4>3, Zenon
    <3>3. \A c \in Bufs[s] : surf'[s].buf = c => c = b
      BY <1>2
    <3>4. surf'[s].damage \subseteq content'[b].damage
      BY <1>2, <3>1
    <3>5. QED
      BY <3>1, <3>2, <3>3, <3>4, Zenon DEF FreshOk
  <2>5. OneOk(s)'
    <3> SUFFICES ASSUME Bufs[s] = {b}
                 PROVE  /\ tex'[s].stale \subseteq content'[b].damage
                        /\ b \in Copied => staged'[b].stale \subseteq content'[b].damage
                        /\ tex'[s].pend /\ tex'[s].gone => content'[b].damage = Cells
      BY <1>1, <1>2, Zenon DEF OneOk
    <3>1. content'[b].damage = d /\ tex'[s].stale = tex[s].stale \cup d
          /\ staged'[b].stale = staged[b].stale \cup d
      BY <1>1, <1>3, <1>4, <1>5, <1>7
    <3>2. surf[s].buf = NoBuf
      BY <1>6 DEF Showing, Shown
    <3>3. tex[s].stale \subseteq Cells /\ staged[b].stale \subseteq Cells
      BY <1>1 DEF Typed, TexType, StagedType
    <3>4. CASE surf[s].has
      <4>1. tex[s].stale = {} /\ (b \in Copied => staged[b].stale = {})
        BY <2>g, <3>2, <3>4, Zenon DEF OneOk
      <4>2. ~tex[s].pend
        BY <2>g, <3>2, <3>4, Zenon DEF TakenOk
      <4>3. tex'[s].pend => FALSE
        BY <1>3, <4>2, Zenon
      <4>4. QED
        BY <3>1, <4>1, <4>3
    <3>5. CASE ~surf[s].has
      BY <1>6, <3>1, <3>3, <3>5
    <3>6. QED
      BY <3>4, <3>5
  <2>6. QED
    BY <2>1, <2>2, <2>3, <2>4, <2>5, Zenon DEF Good
<1>10. QED
  BY <1>8, <1>9

\* A surface without content has little to keep.
LEMMA GoodEmpty ==
    ASSUME NEW s \in Surfaces, surf'[s].buf = NoBuf, ~surf'[s].has, NoteOk(s)', BlankOk(s)'
    PROVE  Good(s)'
<1>1. \A b \in Bufs[s] : b # NoBuf
  BY OwnBuffers
<1>2. QED
  BY <1>1, Zenon DEF Good, TakenOk, FreshOk, ShownOk, OneOk

LEMMA GoodCommitNull ==
    ASSUME Typed, Showing, Counted', \A t \in Surfaces : Good(t),
           NEW s \in Surfaces, CommitNull(s)
    PROVE  \A t \in Surfaces : Good(t)'
<1>1. /\ surf'[s].buf = NoBuf /\ surf'[s].has = FALSE
      /\ \A t \in Surfaces : t # s => surf'[t] = surf[t]
  BY CommitNullSurf, Zenon
<1>2. TexAfter(tex) /\ ContentAfter(content) /\ UNCHANGED staged
  BY CommitNullRest, Zenon DEF CommitNull
<1>3. \A t \in Surfaces : TexKept(t) /\ PixelsKept(t) /\ StagedKept(t)
  BY <1>2, TexAllKept, PixelsAllKept, StagedAllKept
<1>4. ASSUME NEW t \in Surfaces, t # s
      PROVE  Good(t)'
  <2>1. SurfKept(t)
    BY <1>1, <1>4, Zenon DEF SurfKept
  <2>2. QED
    BY <1>3, <2>1, GoodKept
<1>5. Good(s)'
  <2>1. NoteOk(s)' /\ BlankOk(s)'
    <3>1. TexKept(s) /\ BlankOk(s)
      BY <1>3 DEF Good
    <3>2. QED
      BY <3>1, Zenon DEF TexKept, NoteOk, BlankOk
  <2>2. QED
    BY <1>1, <2>1, GoodEmpty
<1>6. QED
  BY <1>4, <1>5

LEMMA GoodDestroy ==
    ASSUME Typed, Showing, Counted', \A t \in Surfaces : Good(t),
           NEW s \in Surfaces, DestroySurface(s)
    PROVE  \A t \in Surfaces : Good(t)'
<1>1. /\ surf'[s].buf = NoBuf /\ surf'[s].has = FALSE
      /\ \A t \in Surfaces : t # s => surf'[t] = surf[t]
  BY DestroySurf, Zenon
<1>2. ContentAfter(content) /\ UNCHANGED staged
  BY DestroyRest, Zenon DEF DestroySurface
<1>3. \A t \in Surfaces : PixelsKept(t) /\ StagedKept(t)
  BY <1>2, PixelsAllKept, StagedAllKept
<1>4. ASSUME NEW t \in Surfaces, t # s
      PROVE  Good(t)'
  <2>1. SurfKept(t)
    BY <1>1, <1>4, Zenon DEF SurfKept
  <2>2. TexKept(t)
    BY <1>4, DestroyRest, Zenon DEF TexKept
  <2>3. QED
    BY <1>3, <2>1, <2>2, GoodKept
<1>5. Good(s)'
  <2>1. tex'[s].src = NoBuf /\ tex'[s].stale = Cells /\ tex'[s].pend = FALSE
    BY DestroyRest, Zenon
  <2>2. NoteOk(s)' /\ BlankOk(s)'
    BY <2>1, Zenon DEF NoteOk, BlankOk
  <2>3. QED
    BY <1>1, <2>2, GoodEmpty
<1>6. QED
  BY <1>4, <1>5

LEMMA GoodEndCopy ==
    ASSUME Typed, Showing, Queue, Counted', Copies, \A t \in Surfaces : Good(t), EndCopy
    PROVE  \A t \in Surfaces : Good(t)'
<1>1. worker # "idle"
  BY Zenon DEF EndCopy
<1>2. PICK h \in TaskType : h = Head(tasks)
  BY <1>1, FirstTask, Zenon
<1>3. /\ staged' \in [Buffers -> StagedType]
      /\ \A c \in Buffers : c # h.b => staged'[c] = staged[c]
      /\ worker' \in {"copied", "failed"}
      /\ worker' = "copied" =>
           staged'[h.b].stale = (staged[h.b].stale \ content[h.b].damage)
                                   \cup (content[h.b].stale \cap content[h.b].damage)
      /\ worker' = "failed" =>
           staged'[h.b].stale = staged[h.b].stale \cup content[h.b].damage
      /\ UNCHANGED <<surf, refs, content, tex>>
  BY <1>2, EndCopyStaged, Zenon
<1>4. /\ h.b \in Bufs[h.s] /\ h.s \in Surfaces
      /\ surf[h.s].has => surf[h.s].buf # NoBuf
  BY <1>1, <1>2, FirstTask DEF Queue, TaskType, Copies
<1>5. staged'[h.b].stale \subseteq staged[h.b].stale \cup content[h.b].damage
  BY <1>3
<1>6. \A t \in Surfaces : h.b \in Bufs[t] => t = h.s
  BY <1>4, OwnBuffers
<1>7. ASSUME NEW t \in Surfaces
      PROVE  Good(t)'
  <2>1. SurfKept(t) /\ PixelsKept(t)
    BY <1>3, Zenon DEF SurfKept, PixelsKept
  <2>2. StagedKept(t)
    <3> SUFFICES ASSUME NEW b \in Bufs[t]
                 PROVE  /\ staged'[b].stale \subseteq staged[b].stale \cup content[b].damage
                        /\ surf[t].has /\ surf[t].buf = NoBuf =>
                             staged'[b].stale \subseteq staged[b].stale
      BY Zenon DEF StagedKept
    <3>1. CASE b = h.b
      BY <1>4, <1>5, <1>6, <3>1
    <3>2. CASE b # h.b
      <4>1. staged'[b] = staged[b]
        BY <1>3, <3>2, OwnBuffers
      <4>2. QED
        BY <4>1
    <3>3. QED
      BY <3>1, <3>2
  <2>3. Good(t)
    OBVIOUS
  <2>4. TexKept(t)
    <3>1. tex'[t] = tex[t] /\ refs' = refs
      BY <1>3
    <3>2. tex[t].src # NoBuf /\ refs[tex[t].src] = 0 => tex[t].gone
      BY <2>3, Zenon DEF Good, NoteOk
    <3>3. tex[t].gone \in BOOLEAN
      BY DEF Typed, TexType
    <3>4. QED
      BY <3>1, <3>2, <3>3, Zenon DEF TexKept
  <2>5. QED
    BY <2>1, <2>2, <2>3, <2>4, GoodKept
<1>8. QED
  BY <1>7

LEMMA GoodCopyDone ==
    ASSUME Typed, Showing, Queue, Counted', Copies, \A t \in Surfaces : Good(t), CopyDone
    PROVE  \A t \in Surfaces : Good(t)'
<1>1. worker # "idle"
  BY Zenon DEF CopyDone
<1>2. PICK h \in TaskType : h = Head(tasks)
  BY <1>1, FirstTask, Zenon
<1>3. /\ TexAfter(tex)
      /\ \A c \in Buffers :
            /\ refs'[c] # 0 => /\ content'[c].damage = content[c].damage
                               /\ content'[c].stale = content[c].stale
            /\ refs'[c] # 0 /\ c # h.b => content'[c].copy = content[c].copy
      /\ \A c \in Buffers : staged'[c].stale = staged[c].stale
  BY <1>2, CopyDoneRest, Zenon
<1>4. h.b \in Bufs[h.s] /\ h.s \in Surfaces /\ content[h.b].copy # "ready" /\ h.b # NoBuf
  <2>1. h = tasks[1] /\ 1 \in DOMAIN tasks /\ h.s \in Surfaces
    BY <1>1, <1>2, FirstTask DEF TaskType
  <2>2. h.b \in Bufs[h.s] /\ content[h.b].copy # "ready"
    BY <2>1 DEF Queue, Copies
  <2>3. QED
    BY <2>1, <2>2, OwnBuffers
<1>5. \A s \in Surfaces :
           /\ surf'[s].buf = surf[s].buf /\ surf'[s].has = surf[s].has
           /\ surf'[s].damage = surf[s].damage
           /\ surf'[s].dirty => surf[s].dirty \/ (s = h.s /\ surf[s].buf = h.b)
  BY <1>2, CopyDoneSurf, Zenon
<1>6. ASSUME NEW t \in Surfaces
      PROVE  Good(t)'
  <2>b. \A c \in Bufs[t] : c \in Buffers
    BY OwnBuffers
  <2>1. SurfKept(t)
    BY <1>4, <1>5, Zenon DEF SurfKept
  <2>2. TexKept(t)
    BY <1>3, TexAllKept
  <2>3. PixelsKept(t)
    BY <1>3, <1>4, <2>b, Zenon DEF PixelsKept
  <2>4. StagedKept(t)
    BY <1>3, <2>b DEF StagedKept
  <2>5. QED
    BY <2>1, <2>2, <2>3, <2>4, GoodKept
<1>7. QED
  BY <1>6

LEMMA GoodFence ==
    ASSUME Typed, Showing, Counted', \A t \in Surfaces : Good(t), Fence
    PROVE  \A t \in Surfaces : Good(t)'
<1>1. TexAfter(tex) /\ ContentAfter(content) /\ UNCHANGED <<surf, staged>>
  BY FenceRest, Zenon DEF Fence
<1>2. \A t \in Surfaces : TexKept(t) /\ PixelsKept(t) /\ StagedKept(t)
  BY <1>1, TexAllKept, PixelsAllKept, StagedAllKept
<1>3. \A t \in Surfaces : SurfKept(t)
  BY <1>1, Zenon DEF SurfKept
<1>4. QED
  BY <1>2, <1>3, GoodKept

LEMMA GoodQuiet ==
    ASSUME \A t \in Surfaces : Good(t), Quiet
    PROVE  \A t \in Surfaces : Good(t)'
<1>1. UNCHANGED <<refs, content, staged, tex>>
  BY Zenon DEF Quiet
<1>2. ASSUME NEW t \in Surfaces
      PROVE  Good(t)'
  <2>1. /\ surf'[t].buf = surf[t].buf /\ surf'[t].has = surf[t].has
        /\ surf'[t].dirty = surf[t].dirty /\ surf'[t].damage = surf[t].damage
    BY Zenon DEF Quiet
  <2>2. Good(t)
    OBVIOUS
  <2>3. NoteOk(t)' /\ BlankOk(t)' /\ TakenOk(t)'
    BY <1>1, <2>1, <2>2, Zenon DEF Good, NoteOk, BlankOk, TakenOk
  <2>4. FreshOk(t)' /\ ShownOk(t)'
    BY <1>1, <2>1, <2>2, Zenon DEF Good, FreshOk, ShownOk
  <2>5. OneOk(t)'
    BY <1>1, <2>1, <2>2, Zenon DEF Good, OneOk
  <2>6. QED
    BY <2>3, <2>4, <2>5, Zenon DEF Good
<1>3. QED
  BY <1>2

\* The notes of a frame cover what the contents they are of damage, and the
\* copies they read are made.
LEMMA NotesCover ==
    ASSUME Typed, Showing, NEW bad \in SUBSET MayFail, NEW s \in Surfaces, Good(s),
           NEW b \in Bufs[s], surf[s].buf = b,
           WithNotes(bad)[s].pend, WithNotes(bad)[s].src = b, ~WithNotes(bad)[s].gone
    PROVE  /\ content[b].damage \subseteq WithNotes(bad)[s].rect
           /\ Looked(bad)[b].damage = content[b].damage
           /\ b \in Copied => content[b].copy = "ready" /\ Looked(bad)[b].copy = "ready"
<1>b. b \in Buffers
  BY OwnBuffers
<1>1. /\ content[b].damage \subseteq WithNotes(bad)[s].rect
      /\ b \in Copied => content[b].copy = "ready"
  <2>1. CASE s \in Noting(bad)
    BY <2>1, NotedIs, Zenon
  <2>2. CASE s \notin Noting(bad)
    <3>1. WithNotes(bad)[s] = tex[s]
      BY <2>2, NotedIs, Zenon
    <3>2. QED
      BY <3>1, Zenon DEF Good, FreshOk
  <2>3. QED
    BY <2>1, <2>2
<1>2. /\ content[b].copy # "new" => Looked(bad)[b] = content[b]
      /\ b \notin Copied => Looked(bad)[b].damage = content[b].damage
  BY <1>b, LookedIs, Zenon
<1>3. QED
  BY <1>1, <1>2

\* The pixels of a surface that shows a buffer, after a look.
LEMMA LookedGood ==
    ASSUME Typed, Showing, NEW bad \in SUBSET MayFail, NEW s \in Surfaces, Good(s),
           NEW b \in Bufs[s], surf[s].buf = b
    PROVE  /\ Looked(bad)[b].stale = {} /\ content[b].stale = {}
           /\ surf[s].damage \subseteq content[b].damage
           /\ content[b].damage \subseteq Looked(bad)[b].damage
           /\ Looked(bad)[b].damage \subseteq Cells
<1>1. /\ Looked(bad)[b].stale = content[b].stale
      /\ content[b].damage \subseteq Looked(bad)[b].damage
      /\ Looked(bad)[b] \in ContentType
  BY OwnBuffers, LookedIs
<1>2. content[b].stale = {} /\ surf[s].damage \subseteq content[b].damage
  BY Zenon DEF Good, FreshOk
<1>3. QED
  BY <1>1, <1>2 DEF ContentType

\* The textures of the notes, before any is uploaded.
LEMMA NotesGood ==
    ASSUME Typed, Showing, NEW bad \in SUBSET MayFail, NEW s \in Surfaces, Good(s)
    PROVE  /\ ~WithNotes(bad)[s].there =>
                WithNotes(bad)[s].stale = Cells /\ ~WithNotes(bad)[s].pend
           /\ surf[s].has /\ surf[s].buf = NoBuf => WithNotes(bad)[s] = tex[s]
           /\ \A b \in Bufs[s] : Bufs[s] = {b} /\ surf[s].buf = b =>
                /\ WithNotes(bad)[s].stale \subseteq content[b].damage
                /\ WithNotes(bad)[s].pend /\ WithNotes(bad)[s].gone => content[b].damage = Cells
<1>1. CASE s \in Noting(bad)
  <2>1. /\ WithNotes(bad)[s].there = TRUE /\ WithNotes(bad)[s].gone = FALSE /\ s \in Dirty
        /\ tex[s].there => WithNotes(bad)[s].stale = tex[s].stale
        /\ ~tex[s].there => WithNotes(bad)[s].stale = Cells
    BY <1>1, NotedIs, Zenon
  <2>2. ~tex[s].there => tex[s].stale = Cells
    BY Zenon DEF Good, BlankOk
  <2>3. WithNotes(bad)[s].stale = tex[s].stale
    BY <2>1, <2>2, Zenon
  <2>4. surf[s].has => surf[s].buf # NoBuf
    BY <2>1, Zenon DEF Dirty, Showing
  <2>5. \A b \in Bufs[s] : Bufs[s] = {b} /\ surf[s].buf = b => tex[s].stale \subseteq content[b].damage
    BY Zenon DEF Good, OneOk
  <2>6. QED
    BY <2>1, <2>3, <2>4, <2>5, Zenon
<1>2. CASE s \notin Noting(bad)
  <2>1. WithNotes(bad)[s] = tex[s]
    BY <1>2, NotedIs, Zenon
  <2>2. QED
    BY <2>1, Zenon DEF Good, BlankOk, OneOk
<1>3. QED
  BY <1>1, <1>2

\* Copies queued or a buffer scanned out: the notes stay.
LEMMA GoodNoted ==
    ASSUME Typed, Showing, Counted', \A t \in Surfaces : Good(t),
           NEW bad \in SUBSET MayFail, Hold(bad) \/ Scan(bad), UNCHANGED staged
    PROVE  \A t \in Surfaces : Good(t)'
<1>1. /\ TexAfter(WithNotes(bad)) /\ ContentAfter(Looked(bad))
      /\ \A s \in Surfaces : /\ surf'[s].buf = surf[s].buf /\ surf'[s].has = surf[s].has
                             /\ surf'[s].damage = surf[s].damage
                             /\ surf'[s].dirty => surf[s].dirty
  BY HoldRest, ScanRest, Zenon DEF LookedAt
<1> SUFFICES ASSUME NEW s \in Surfaces
             PROVE  Good(s)'
  OBVIOUS
<1> DEFINE w == WithNotes(bad)[s]
<1>g. Good(s)
  OBVIOUS
<1>2. /\ tex'[s].there = w.there /\ tex'[s].pend = w.pend /\ tex'[s].src = w.src
      /\ tex'[s].rect = w.rect /\ tex'[s].stale = w.stale
  BY <1>1, Zenon DEF TexAfter
<1>3. /\ w.src # NoBuf /\ refs'[w.src] = 0 => tex'[s].gone
      /\ w.src # NoBuf /\ refs'[w.src] # 0 => (tex'[s].gone <=> w.gone)
  BY <1>1, Zenon DEF TexAfter
<1>4. /\ surf'[s].buf = surf[s].buf /\ surf'[s].has = surf[s].has
      /\ surf'[s].damage = surf[s].damage
      /\ surf'[s].dirty => surf[s].dirty
  BY <1>1, Zenon
<1>5. \A b \in Bufs[s] : surf[s].buf = b =>
        /\ refs'[b] # 0 /\ content'[b] = Looked(bad)[b] /\ b # NoBuf
        /\ Looked(bad)[b].stale = {}
        /\ surf[s].damage \subseteq content[b].damage
        /\ content[b].damage \subseteq Looked(bad)[b].damage
        /\ Looked(bad)[b].damage \subseteq Cells
  <2> SUFFICES ASSUME NEW b \in Bufs[s], surf[s].buf = b
               PROVE  /\ refs'[b] # 0 /\ content'[b] = Looked(bad)[b] /\ b # NoBuf
                      /\ Looked(bad)[b].stale = {}
                      /\ surf[s].damage \subseteq content[b].damage
                      /\ content[b].damage \subseteq Looked(bad)[b].damage
                      /\ Looked(bad)[b].damage \subseteq Cells
    OBVIOUS
  <2>1. refs'[b] # 0 /\ b \in Buffers /\ b # NoBuf
    BY <1>4, ShownAlive, OwnBuffers
  <2>2. content'[b] = Looked(bad)[b]
    BY <1>1, <2>1, Zenon DEF ContentAfter
  <2>3. QED
    BY <1>g, <2>1, <2>2, LookedGood
<1>6. /\ ~w.there => w.stale = Cells /\ ~w.pend
      /\ surf[s].has /\ surf[s].buf = NoBuf => w = tex[s]
      /\ \A b \in Bufs[s] : Bufs[s] = {b} /\ surf[s].buf = b =>
           /\ w.stale \subseteq content[b].damage
           /\ w.pend /\ w.gone => content[b].damage = Cells
  BY <1>g, NotesGood, Zenon
<1>n. w.src \in Bufs[s] \cup {NoBuf} /\ (w.pend => w.src # NoBuf)
  BY ReadsIs, OwnBuffers DEF Pending
<1>7. \A b \in Bufs[s] : surf[s].buf = b /\ w.pend /\ w.src = b /\ ~w.gone =>
        /\ content[b].damage \subseteq w.rect
        /\ Looked(bad)[b].damage = content[b].damage
        /\ b \in Copied => Looked(bad)[b].copy = "ready"
  BY <1>g, NotesCover, Zenon
<1> HIDE DEF w
<1>11. NoteOk(s)'
  BY <1>2, <1>3, Zenon DEF NoteOk
<1>12. BlankOk(s)'
  BY <1>2, <1>6, Zenon DEF BlankOk
<1>13. TakenOk(s)'
  BY <1>g, <1>2, <1>4, <1>6, Zenon DEF Good, TakenOk
<1>14. FreshOk(s)'
  <2> SUFFICES ASSUME NEW b \in Bufs[s], surf'[s].buf = b
               PROVE  /\ content'[b].stale = {}
                      /\ surf'[s].damage \subseteq content'[b].damage
                      /\ tex'[s].pend /\ tex'[s].src = b /\ ~tex'[s].gone =>
                           /\ content'[b].damage \subseteq tex'[s].rect
                           /\ b \in Copied => content'[b].copy = "ready"
    BY Zenon DEF FreshOk
  <2>0. surf[s].buf = b
    BY <1>4
  <2>1. content'[b].stale = {}
    BY <1>5, <2>0
  <2>2. surf'[s].damage \subseteq content'[b].damage
    BY <1>4, <1>5, <2>0
  <2>3. ASSUME tex'[s].pend, tex'[s].src = b, ~tex'[s].gone
        PROVE  /\ content'[b].damage \subseteq tex'[s].rect
               /\ b \in Copied => content'[b].copy = "ready"
    <3>1. w.pend /\ w.src = b /\ ~w.gone
      <4>1. w.pend /\ w.src = b
        BY <1>2, <2>3
      <4>2. b # NoBuf /\ refs'[b] # 0
        BY <1>5, <2>0
      <4>3. tex'[s].gone <=> w.gone
        BY <1>3, <4>1, <4>2, Zenon
      <4>4. QED
        BY <2>3, <4>1, <4>3, Zenon
    <3>2. /\ content[b].damage \subseteq w.rect
          /\ Looked(bad)[b].damage = content[b].damage
          /\ b \in Copied => Looked(bad)[b].copy = "ready"
      BY <1>7, <2>0, <3>1
    <3>3. content'[b] = Looked(bad)[b] /\ tex'[s].rect = w.rect
      BY <1>2, <1>5, <2>0
    <3>4. QED
      BY <3>2, <3>3
  <2>4. QED
    BY <2>1, <2>2, <2>3
<1>15. ShownOk(s)'
  <2>1. ASSUME surf'[s].has, surf'[s].buf = NoBuf
        PROVE  tex'[s].stale \cap surf'[s].damage = {}
    <3>1. surf[s].has /\ surf[s].buf = NoBuf /\ tex'[s].stale = tex[s].stale
      BY <1>2, <1>4, <1>6, <2>1
    <3>2. tex[s].stale \cap surf[s].damage = {}
      BY <1>g, <3>1, Zenon DEF Good, ShownOk
    <3>3. QED
      BY <1>4, <3>1, <3>2
  <2>2. QED
    BY <2>1, Zenon DEF ShownOk
<1>16. OneOk(s)'
  <2> SUFFICES ASSUME NEW b \in Bufs[s], Bufs[s] = {b}
               PROVE  /\ surf'[s].buf = b =>
                           /\ tex'[s].stale \subseteq content'[b].damage
                           /\ b \in Copied => staged'[b].stale \subseteq content'[b].damage
                           /\ tex'[s].pend /\ tex'[s].gone => content'[b].damage = Cells
                      /\ surf'[s].has /\ surf'[s].buf = NoBuf =>
                           /\ tex'[s].stale = {}
                           /\ b \in Copied => staged'[b].stale = {}
    BY Zenon DEF OneOk
  <2>1. /\ surf[s].buf = b => (b \in Copied => staged[b].stale \subseteq content[b].damage)
        /\ surf[s].has /\ surf[s].buf = NoBuf =>
             /\ tex[s].stale = {}
             /\ b \in Copied => staged[b].stale = {}
    BY <1>g, Zenon DEF Good, OneOk
  <2>2. ASSUME surf'[s].buf = b
        PROVE  /\ tex'[s].stale \subseteq content'[b].damage
               /\ b \in Copied => staged'[b].stale \subseteq content'[b].damage
               /\ tex'[s].pend /\ tex'[s].gone => content'[b].damage = Cells
    <3>1. /\ surf[s].buf = b /\ content'[b] = Looked(bad)[b]
          /\ content[b].damage \subseteq Looked(bad)[b].damage
          /\ Looked(bad)[b].damage \subseteq Cells /\ refs'[b] # 0 /\ b # NoBuf
      BY <1>4, <1>5, <2>2
    <3>2. /\ w.stale \subseteq content[b].damage
          /\ w.pend /\ w.gone => content[b].damage = Cells
      BY <1>6, <3>1, Zenon
    <3>3. tex'[s].stale \subseteq content'[b].damage
      BY <1>2, <3>1, <3>2
    <3>4. b \in Copied => staged'[b].stale \subseteq content'[b].damage
      BY <2>1, <3>1
    <3>5. ASSUME tex'[s].pend, tex'[s].gone
          PROVE  content'[b].damage = Cells
      <4>1. w.pend /\ w.src = b
        BY <1>2, <1>n, <3>5
      <4>2. w.gone
        BY <1>3, <3>1, <3>5, <4>1, Zenon
      <4>3. content[b].damage = Cells
        BY <3>2, <4>1, <4>2, Zenon
      <4>4. QED
        BY <3>1, <4>3
    <3>6. QED
      BY <3>3, <3>4, <3>5
  <2>3. ASSUME surf'[s].has, surf'[s].buf = NoBuf
        PROVE  /\ tex'[s].stale = {}
               /\ b \in Copied => staged'[b].stale = {}
    BY <1>2, <1>4, <1>6, <2>1, <2>3
  <2>4. QED
    BY <2>2, <2>3
<1>17. QED
  BY <1>11, <1>12, <1>13, <1>14, <1>15, <1>16, Zenon DEF Good

\* A frame has uploaded what it read.
LEMMA GoodRender ==
    ASSUME Typed, Showing, Copies, Counted', \A t \in Surfaces : Good(t),
           NEW bad \in SUBSET MayFail, Render(bad), UNCHANGED staged
    PROVE  \A t \in Surfaces : Good(t)'
<1>1. /\ TexAfter(TexRendered(bad)) /\ ContentAfter(Looked(bad))
      /\ \A s \in Surfaces :
           /\ surf'[s].has = surf[s].has /\ surf'[s].damage = surf[s].damage
           /\ surf'[s].dirty => surf[s].dirty /\ s \notin Dirty
           /\ surf[s].buf \in Reads(bad) => surf'[s].buf = NoBuf
           /\ surf[s].buf \notin Reads(bad) => surf'[s].buf = surf[s].buf
  BY RenderRest, Zenon DEF LookedAt
<1> SUFFICES ASSUME NEW s \in Surfaces
             PROVE  Good(s)'
  OBVIOUS
<1> DEFINE w == WithNotes(bad)[s]
           u == TexRendered(bad)[s]
<1>g. Good(s)
  OBVIOUS
<1>t. w \in TexType
  BY NotedIs
<1>2. /\ tex'[s].there = u.there /\ tex'[s].pend = u.pend /\ tex'[s].src = u.src
      /\ tex'[s].stale = u.stale
      /\ u.src # NoBuf /\ refs'[u.src] = 0 => tex'[s].gone
  BY <1>1, Zenon DEF TexAfter
<1>3. /\ s \notin Pending(bad) => u = w
      /\ s \in Pending(bad) =>
           /\ u.pend = FALSE /\ u.src = NoBuf
           /\ u.stale = (w.stale \ w.rect)
                \cup (IF w.gone THEN w.rect ELSE w.rect \cap SourceStale(w.src))
  BY RenderedIs, Zenon
<1>h. u.there <=> w.there
  <2>1. CASE s \in Pending(bad)
    BY <2>1, RenderedIs
  <2>2. CASE s \notin Pending(bad)
    BY <1>3, <2>2
  <2>3. QED
    BY <2>1, <2>2
<1>4. /\ surf'[s].has = surf[s].has /\ surf'[s].damage = surf[s].damage
      /\ surf'[s].dirty => surf[s].dirty /\ s \notin Dirty
      /\ surf[s].buf \in Reads(bad) => surf'[s].buf = NoBuf
      /\ surf[s].buf \notin Reads(bad) => surf'[s].buf = surf[s].buf
  BY <1>1, Zenon
<1>5. s \in Pending(bad) <=> w.pend
  BY Zenon DEF Pending
<1>6. /\ w.src \in Bufs[s] \cup {NoBuf}
      /\ w.pend => w.src \in Bufs[s]
  BY <1>5, ReadsIs, Zenon
<1>7. /\ ~w.there => w.stale = Cells /\ ~w.pend
      /\ surf[s].has /\ surf[s].buf = NoBuf => w = tex[s]
      /\ \A b \in Bufs[s] : Bufs[s] = {b} /\ surf[s].buf = b =>
           /\ w.stale \subseteq content[b].damage
           /\ w.pend /\ w.gone => content[b].damage = Cells
  BY <1>g, NotesGood, Zenon
<1>8. ~tex'[s].pend
  BY <1>2, <1>3, <1>5, Zenon
\* A buffer of the surface is read when its note says so.
<1>9. \A b \in Bufs[s] : b \in Reads(bad) <=> w.pend /\ w.src = b /\ ~w.gone
  <2> SUFFICES ASSUME NEW b \in Bufs[s]
               PROVE  b \in Reads(bad) <=> w.pend /\ w.src = b /\ ~w.gone
    OBVIOUS
  <2>1. ASSUME b \in Reads(bad)
        PROVE  w.pend /\ w.src = b /\ ~w.gone
    <3>1. PICK t \in Pending(bad) : WithNotes(bad)[t].src = b /\ ~WithNotes(bad)[t].gone
      BY <2>1, Zenon DEF Reads
    <3>2. t \in Surfaces /\ b \in Bufs[t]
      BY <3>1, ReadsIs DEF Pending
    <3>3. t = s
      BY <3>2, OwnBuffers
    <3>4. QED
      BY <3>1, <3>3, <1>5, Zenon
  <2>2. ASSUME w.pend, w.src = b, ~w.gone
        PROVE  b \in Reads(bad)
    BY <1>5, <2>2, Zenon DEF Reads
  <2>3. QED
    BY <2>1, <2>2, Zenon
\* What is uploaded of a buffer that is read.
<1>10. ASSUME NEW b \in Bufs[s], surf[s].buf = b, w.pend, w.src = b, ~w.gone
       PROVE  /\ u.stale = (w.stale \ w.rect) \cup (w.rect \cap SourceStale(b))
              /\ content[b].damage \subseteq w.rect
              /\ SourceStale(b) \cap content[b].damage = {}
  <2>0. b \in Buffers
    BY OwnBuffers
  <2>1. /\ content[b].damage \subseteq w.rect
        /\ b \in Copied => content[b].copy = "ready"
    BY <1>g, <1>10, NotesCover, Zenon
  <2>2. u.stale = (w.stale \ w.rect) \cup (w.rect \cap SourceStale(b))
    BY <1>3, <1>5, <1>10, Zenon
  <2>3. content[b].stale = {}
    BY <1>g, <1>10, Zenon DEF Good, FreshOk
  <2>4. CASE b \in Copied
    <3>1. CopyOk(b)
      BY <2>1, <2>4, Zenon DEF Copies
    <3>2. QED
      BY <2>1, <2>2, <2>3, <2>4, <3>1 DEF CopyOk, SourceStale
  <2>5. CASE b \notin Copied
    BY <2>1, <2>2, <2>3, <2>5 DEF SourceStale
  <2>6. QED
    BY <2>4, <2>5
<1>11. NoteOk(s)'
  BY <1>2, Zenon DEF NoteOk
<1>12. BlankOk(s)'
  <2>1. ASSUME ~u.there
        PROVE  s \notin Pending(bad) /\ u.stale = Cells
    <3>1. ~w.there
      BY <1>h, <2>1, Zenon
    <3>2. QED
      BY <1>3, <1>5, <1>7, <3>1, Zenon
  <2>2. QED
    BY <1>2, <1>8, <2>1, Zenon DEF BlankOk
<1>13. TakenOk(s)'
  <2>1. ASSUME surf'[s].dirty, surf'[s].has
        PROVE  FALSE
    BY <1>4, <2>1, Zenon DEF Dirty
  <2>2. QED
    BY <1>8, <2>1, Zenon DEF TakenOk
\* A buffer that stays with its surface was not read.
<1>14. ASSUME NEW b \in Bufs[s], surf'[s].buf = b
       PROVE  /\ surf[s].buf = b /\ b \notin Reads(bad) /\ refs'[b] # 0 /\ b # NoBuf
              /\ content'[b].stale = {}
              /\ surf'[s].damage \subseteq content'[b].damage
              /\ content[b].damage \subseteq content'[b].damage
              /\ content'[b].damage \subseteq Cells
  <2>1. b \in Buffers /\ b # NoBuf
    BY OwnBuffers
  <2>2. refs'[b] # 0
    BY <1>14, ShownAlive
  <2>3. surf[s].buf \notin Reads(bad)
    BY <1>4, <1>14, <2>1
  <2>4. surf[s].buf = b
    BY <1>4, <1>14, <2>3
  <2>5. content'[b] = Looked(bad)[b]
    BY <1>1, <2>1, <2>2, Zenon DEF ContentAfter
  <2>6. /\ Looked(bad)[b].stale = {}
        /\ surf[s].damage \subseteq content[b].damage
        /\ content[b].damage \subseteq Looked(bad)[b].damage
        /\ Looked(bad)[b].damage \subseteq Cells
    BY <1>g, <2>4, LookedGood
  <2>7. surf'[s].damage \subseteq content'[b].damage
    BY <1>4, <2>5, <2>6
  <2>8. QED
    BY <2>1, <2>2, <2>3, <2>4, <2>5, <2>6, <2>7
<1>15. FreshOk(s)'
  BY <1>8, <1>14, Zenon DEF FreshOk
\* A surface that shows no buffer after the frame showed none before, or one
\* that was read.
<1>16. ASSUME surf'[s].has, surf'[s].buf = NoBuf
       PROVE  \/ surf[s].buf = NoBuf /\ u = tex[s]
              \/ /\ surf[s].buf \in Bufs[s]
                 /\ w.pend /\ w.src = surf[s].buf /\ ~w.gone
  <2>1. surf[s].has
    BY <1>4, <1>16, Zenon
  <2>2. CASE surf[s].buf = NoBuf
    <3>1. w = tex[s] /\ ~tex[s].pend
      BY <1>g, <1>7, <2>1, <2>2, Zenon DEF Good, TakenOk
    <3>2. u = w
      BY <1>3, <1>5, <3>1, Zenon
    <3>3. QED
      BY <2>2, <3>1, <3>2
  <2>3. CASE surf[s].buf # NoBuf
    <3>1. surf[s].buf \in Bufs[s]
      BY <2>3 DEF Showing
    <3>2. surf[s].buf \in Reads(bad)
      BY <1>4, <1>16, <2>3, Zenon
    <3>3. QED
      BY <1>9, <3>1, <3>2, Zenon
  <2>4. QED
    BY <2>2, <2>3
<1>17. ShownOk(s)'
  <2>1. ASSUME surf'[s].has, surf'[s].buf = NoBuf
        PROVE  tex'[s].stale \cap surf'[s].damage = {}
    <3>1. CASE surf[s].buf = NoBuf /\ u = tex[s]
      <4>1. tex[s].stale \cap surf[s].damage = {}
        BY <1>g, <1>4, <2>1, <3>1, Zenon DEF Good, ShownOk
      <4>2. QED
        BY <1>2, <1>4, <3>1, <4>1
    <3>2. ASSUME NEW b \in Bufs[s], surf[s].buf = b, w.pend, w.src = b, ~w.gone
          PROVE  tex'[s].stale \cap surf'[s].damage = {}
      <4>1. /\ u.stale = (w.stale \ w.rect) \cup (w.rect \cap SourceStale(b))
            /\ content[b].damage \subseteq w.rect
            /\ SourceStale(b) \cap content[b].damage = {}
        BY <1>10, <3>2
      <4>2. surf[s].damage \subseteq content[b].damage
        BY <1>g, <3>2, LookedGood
      <4>3. QED
        BY <1>2, <1>4, <4>1, <4>2
    <3>3. QED
      BY <1>16, <2>1, <3>1, <3>2
  <2>2. QED
    BY <2>1, Zenon DEF ShownOk
<1>18. OneOk(s)'
  <2> SUFFICES ASSUME NEW b \in Bufs[s], Bufs[s] = {b}
               PROVE  /\ surf'[s].buf = b =>
                           /\ tex'[s].stale \subseteq content'[b].damage
                           /\ b \in Copied => staged'[b].stale \subseteq content'[b].damage
                           /\ tex'[s].pend /\ tex'[s].gone => content'[b].damage = Cells
                      /\ surf'[s].has /\ surf'[s].buf = NoBuf =>
                           /\ tex'[s].stale = {}
                           /\ b \in Copied => staged'[b].stale = {}
    BY Zenon DEF OneOk
  <2>1. /\ surf[s].buf = b => (b \in Copied => staged[b].stale \subseteq content[b].damage)
        /\ surf[s].has /\ surf[s].buf = NoBuf =>
             /\ tex[s].stale = {}
             /\ b \in Copied => staged[b].stale = {}
    BY <1>g, Zenon DEF Good, OneOk
  <2>2. surf[s].buf = b => /\ w.stale \subseteq content[b].damage
                           /\ w.pend /\ w.gone => content[b].damage = Cells
    BY <1>7, Zenon
  <2>3. ASSUME surf'[s].buf = b
        PROVE  /\ tex'[s].stale \subseteq content'[b].damage
               /\ b \in Copied => staged'[b].stale \subseteq content'[b].damage
    <3>1. /\ surf[s].buf = b /\ b \notin Reads(bad)
          /\ content[b].damage \subseteq content'[b].damage
      BY <1>14, <2>3
    <3>2. b \in Copied => staged'[b].stale \subseteq content'[b].damage
      BY <2>1, <3>1
    <3>3. CASE s \notin Pending(bad)
      BY <1>2, <1>3, <2>2, <3>1, <3>2, <3>3
    <3>4. CASE s \in Pending(bad)
      <4>1. w.pend /\ w.src = b
        BY <1>5, <1>6, <3>4
      <4>2. w.gone
        BY <1>9, <3>1, <4>1, Zenon
      <4>3. content[b].damage = Cells
        BY <2>2, <3>1, <4>1, <4>2, Zenon
      <4>4. u.stale = (w.stale \ w.rect) \cup w.rect
        BY <1>3, <3>4, <4>2, Zenon
      <4>5. w.stale \subseteq Cells /\ w.rect \subseteq Cells
        BY <1>t DEF TexType
      <4>6. tex'[s].stale \subseteq content'[b].damage
        BY <1>2, <3>1, <4>3, <4>4, <4>5
      <4>7. QED
        BY <3>2, <4>6
    <3>5. QED
      BY <3>3, <3>4
  <2>4. ASSUME surf'[s].has, surf'[s].buf = NoBuf
        PROVE  /\ tex'[s].stale = {}
               /\ b \in Copied => staged'[b].stale = {}
    <3>1. CASE surf[s].buf = NoBuf /\ u = tex[s]
      BY <1>2, <1>4, <2>1, <2>4, <3>1
    <3>2. ASSUME surf[s].buf = b, w.pend, w.src = b, ~w.gone
          PROVE  /\ tex'[s].stale = {}
                 /\ b \in Copied => staged'[b].stale = {}
      <4>1. /\ u.stale = (w.stale \ w.rect) \cup (w.rect \cap SourceStale(b))
            /\ content[b].damage \subseteq w.rect
            /\ SourceStale(b) \cap content[b].damage = {}
        BY <1>10, <3>2
      <4>2. w.stale \subseteq content[b].damage
        BY <2>2, <3>2
      <4>3. SourceStale(b) = {} /\ (b \in Copied => staged[b].stale = {})
        <5>1. CASE b \in Copied
          <6>1. staged[b].stale \subseteq content[b].damage
            BY <2>1, <3>2, <5>1
          <6>2. QED
            BY <4>1, <5>1, <6>1 DEF SourceStale
        <5>2. CASE b \notin Copied
          <6>1. content[b].stale = {}
            BY <1>g, <3>2, LookedGood
          <6>2. QED
            BY <5>2, <6>1 DEF SourceStale
        <5>3. QED
          BY <5>1, <5>2
      <4>4. tex'[s].stale = {}
        BY <1>2, <4>1, <4>2, <4>3
      <4>5. QED
        BY <4>3, <4>4
    <3>3. surf[s].buf \in Bufs[s] => surf[s].buf = b
      OBVIOUS
    <3>4. QED
      BY <1>16, <2>4, <3>1, <3>2, <3>3
  <2>5. QED
    BY <1>8, <2>3, <2>4, Zenon
<1>19. QED
  BY <1>11, <1>12, <1>13, <1>15, <1>17, <1>18, Zenon DEF Good

-----------------------------------------------------------------------------
(* The copies hold the newest damage.                                      *)

LEMMA QueuedAlive ==
    ASSUME Typed', Counted', NEW i \in DOMAIN tasks'
    PROVE  tasks'[i].b \in Buffers /\ tasks'[i].s \in Surfaces /\ refs'[tasks'[i].b] # 0
<1>1. tasks'[i] \in TaskType
  BY DEF Typed
<1>2. tasks'[i].b \in Buffers /\ tasks'[i].s \in Surfaces
  BY <1>1 DEF TaskType
<1>3. PICK b \in Buffers : b = tasks'[i].b
  BY <1>2
<1>4. Queued(b)'
  BY <1>3, Zenon DEF Queued
<1>5. refs'[b] = (IF Shown(b)' THEN 1 ELSE 0) + (IF Queued(b)' THEN 1 ELSE 0)
                   + (IF b \in gpu'.held THEN 1 ELSE 0)
  BY Zenon DEF Counted
<1>6. QED
  BY <1>2, <1>3, <1>4, <1>5

\* Steps that leave the copies alone: a content they touch is new and in no
\* queue.
LEMMA CopiesKept ==
    ASSUME Typed, Typed', Queue, Queue', Counted', Copies, UNCHANGED tasks,
           worker' = "copied" => worker = "copied",
           \A c \in Buffers : refs'[c] = 0 => content'[c] = NoContent,
           \A c \in Buffers : refs'[c] # 0 =>
              \/ content'[c].copy = "new" /\ ~Queued(c)
              \/ content'[c].copy = content[c].copy /\ (CopyOk(c) => CopyOk(c)'),
           \A t \in Surfaces : surf'[t].has =>
              surf'[t].buf # NoBuf \/ (surf[t].has /\ surf[t].buf = NoBuf)
    PROVE  Copies'
<1>n. NoContent.copy = "new"
  BY DEF NoContent
<1>1. \A c \in Copied : content'[c].copy = "ready" => CopyOk(c)'
  <2> SUFFICES ASSUME NEW c \in Copied, content'[c].copy = "ready"
               PROVE  CopyOk(c)'
    OBVIOUS
  <2>1. c \in Buffers
    BY SubsetsAssumption
  <2>2. refs'[c] # 0
    BY <1>n, <2>1
  <2>3. content'[c].copy = content[c].copy /\ (CopyOk(c) => CopyOk(c)')
    BY <2>1, <2>2
  <2>4. QED
    BY <2>3, Zenon DEF Copies
<1>2. \A i \in DOMAIN tasks : Queued(tasks[i].b)
  BY Zenon DEF Queued
<1>3. ASSUME NEW i \in DOMAIN tasks
      PROVE  /\ tasks[i].b \in Buffers /\ tasks[i].s \in Surfaces
             /\ refs'[tasks[i].b] # 0
             /\ content'[tasks[i].b].copy = content[tasks[i].b].copy
  <2>1. tasks[i].b \in Buffers /\ tasks[i].s \in Surfaces /\ refs'[tasks[i].b] # 0
    BY QueuedAlive
  <2>2. QED
    BY <1>2, <2>1
<1>4. \A i \in DOMAIN tasks' : /\ content'[tasks'[i].b].copy # "ready"
                               /\ surf'[tasks'[i].s].has => surf'[tasks'[i].s].buf # NoBuf
  <2> SUFFICES ASSUME NEW i \in DOMAIN tasks
               PROVE  /\ content'[tasks[i].b].copy # "ready"
                      /\ surf'[tasks[i].s].has => surf'[tasks[i].s].buf # NoBuf
    OBVIOUS
  <2>1. /\ content[tasks[i].b].copy # "ready"
        /\ surf[tasks[i].s].has => surf[tasks[i].s].buf # NoBuf
    BY Zenon DEF Copies
  <2>2. content'[tasks[i].b].copy # "ready"
    BY <1>3, <2>1
  <2>3. surf'[tasks[i].s].has => surf'[tasks[i].s].buf # NoBuf
    BY <1>3, <2>1, Zenon
  <2>4. QED
    BY <2>2, <2>3
<1>5. ASSUME worker' = "copied"
      PROVE  CopyOk(Head(tasks).b)'
  <2>1. worker # "idle" /\ worker = "copied"
    BY <1>5
  <2>2. PICK h \in TaskType : h = Head(tasks)
    BY <2>1, FirstTask, Zenon
  <2>3. CopyOk(h.b)
    BY <2>1, <2>2, Zenon DEF Copies
  <2>4. h = tasks[1] /\ 1 \in DOMAIN tasks
    BY <2>1, <2>2, FirstTask
  <2>5. h.b \in Buffers /\ Queued(h.b) /\ refs'[h.b] # 0
    BY <1>2, <1>3, <2>4
  <2>6. CopyOk(h.b)'
    BY <2>3, <2>5, Zenon
  <2>7. h = Head(tasks)'
    BY <2>2
  <2>8. QED
    BY <2>6, <2>7 DEF CopyOk
<1>6. QED
  BY <1>1, <1>4, <1>5 DEF Copies

LEMMA CopiesCommit ==
    ASSUME Typed, Typed', Queue, Queue', Counted, Counted', Copies,
           NEW s \in Surfaces, NEW b \in Bufs[s], NEW d \in SUBSET Cells, Commit(s, b, d)
    PROVE  Copies'
<1>1. /\ b \in Buffers /\ b # NoBuf /\ ~Queued(b)
      /\ UNCHANGED <<tasks, worker>>
  BY CommitIs, OwnBuffers, NotAlive, Zenon
<1>2. \A c \in Buffers : refs'[c] = 0 => content'[c] = NoContent
  BY <1>1, CommitContent
<1>3. ASSUME NEW c \in Buffers, refs'[c] # 0
      PROVE  \/ content'[c].copy = "new" /\ ~Queued(c)
             \/ content'[c].copy = content[c].copy /\ (CopyOk(c) => CopyOk(c)')
  <2>1. CASE c = b
    BY <1>1, <1>3, <2>1, CommitContent
  <2>2. CASE c # b
    <3>1. /\ content'[c].damage = content[c].damage
          /\ c \in Bufs[s] => content'[c].stale = content[c].stale \cup d
          /\ c \notin Bufs[s] => content'[c].stale = content[c].stale
          /\ content'[c].copy = content[c].copy
      BY <1>1, <1>3, <2>2, CommitContent
    <3>2. /\ c \in Bufs[s] => staged'[c].stale = staged[c].stale \cup d
          /\ c \notin Bufs[s] => staged'[c].stale = staged[c].stale
      BY <1>1, CommitStaged
    <3>3. CopyOk(c) => CopyOk(c)'
      BY <3>1, <3>2 DEF CopyOk
    <3>4. QED
      BY <3>1, <3>3
  <2>3. QED
    BY <2>1, <2>2
<1>4. \A t \in Surfaces : surf'[t].has =>
         surf'[t].buf # NoBuf \/ (surf[t].has /\ surf[t].buf = NoBuf)
  <2>1. /\ surf'[s].buf = b
        /\ \A t \in Surfaces : t # s => surf'[t] = surf[t]
    BY <1>1, CommitSurf, Zenon
  <2>2. QED
    BY <1>1, <2>1, Zenon
<1>5. QED
  BY <1>1, <1>2, <1>3, <1>4, CopiesKept

\* Steps that keep every content that is still referred to.
LEMMA CopiesRest ==
    ASSUME Typed, Typed', Queue, Queue', Counted', Copies,
           ContentAfter(content), UNCHANGED <<staged, tasks>>,
           worker' = "copied" => worker = "copied",
           \A t \in Surfaces : surf'[t].has => surf[t].has /\ surf'[t].buf = surf[t].buf
    PROVE  Copies'
<1>1. \A c \in Buffers : /\ refs'[c] = 0 => content'[c] = NoContent
                         /\ refs'[c] # 0 => content'[c] = content[c]
  BY Zenon DEF ContentAfter
<1>2. \A c \in Buffers : refs'[c] # 0 => (CopyOk(c) => CopyOk(c)')
  BY <1>1 DEF CopyOk
<1>3. \A t \in Surfaces : surf'[t].has =>
         surf'[t].buf # NoBuf \/ (surf[t].has /\ surf[t].buf = NoBuf)
  BY Zenon
<1>4. QED
  BY <1>1, <1>2, <1>3, CopiesKept

LEMMA CopiesQuiet ==
    ASSUME Typed, Queue, Copies, Quiet
    PROVE  Copies'
<1>1. /\ UNCHANGED <<content, staged, tasks>>
      /\ worker' = "copied" => worker = "copied"
      /\ \A t \in Surfaces : surf'[t].buf = surf[t].buf /\ surf'[t].has = surf[t].has
  BY Zenon DEF Quiet
<1>2. \A c \in Copied : content'[c].copy = "ready" => CopyOk(c)'
  BY <1>1 DEF Copies, CopyOk
<1>3. ASSUME NEW i \in DOMAIN tasks
      PROVE  /\ content'[tasks[i].b].copy # "ready"
             /\ surf'[tasks[i].s].has => surf'[tasks[i].s].buf # NoBuf
  <2>1. tasks[i] \in TaskType
    BY DEF Typed
  <2>2. tasks[i].s \in Surfaces
    BY <2>1 DEF TaskType
  <2>3. QED
    BY <1>1, <2>2, Zenon DEF Copies
<1>4. worker' = "copied" => CopyOk(Head(tasks).b)'
  BY <1>1 DEF Copies, CopyOk
<1>5. QED
  BY <1>1, <1>2, <1>3, <1>4 DEF Copies

LEMMA CopiesEndCopy ==
    ASSUME Typed, Queue, Copies, EndCopy
    PROVE  Copies'
<1>1. worker # "idle"
  BY Zenon DEF EndCopy
<1>2. PICK h \in TaskType : h = Head(tasks)
  BY <1>1, FirstTask, Zenon
<1>3. /\ \A c \in Buffers : c # h.b => staged'[c] = staged[c]
      /\ worker' = "copied" =>
           staged'[h.b].stale = (staged[h.b].stale \ content[h.b].damage)
                                   \cup (content[h.b].stale \cap content[h.b].damage)
      /\ UNCHANGED <<surf, refs, content, tasks>>
  BY <1>2, EndCopyStaged, Zenon
<1>4. content[h.b].copy # "ready"
  <2>1. h = tasks[1] /\ 1 \in DOMAIN tasks
    BY <1>1, <1>2, FirstTask
  <2>2. QED
    BY <2>1 DEF Copies
<1>5. ASSUME NEW c \in Copied, content[c].copy = "ready"
      PROVE  CopyOk(c)'
  <2>1. c \in Buffers /\ c # h.b
    BY <1>4, <1>5, SubsetsAssumption
  <2>2. CopyOk(c)
    BY <1>5, Zenon DEF Copies
  <2>3. QED
    BY <1>3, <2>1, <2>2 DEF CopyOk
<1>6. worker' = "copied" => CopyOk(h.b)'
  BY <1>3 DEF CopyOk
<1>7. worker' = "copied" => CopyOk(Head(tasks).b)'
  <2>1. Head(tasks)' = h
    BY <1>2, <1>3
  <2>2. QED
    BY <1>6, <2>1 DEF CopyOk
<1>8. \A i \in DOMAIN tasks : /\ content[tasks[i].b].copy # "ready"
                              /\ surf[tasks[i].s].has => surf[tasks[i].s].buf # NoBuf
  BY Zenon DEF Copies
<1>9. QED
  BY <1>3, <1>5, <1>7, <1>8 DEF Copies

LEMMA CopiesCopyDone ==
    ASSUME Typed, Typed', Queue, Counted', Copies, CopyDone
    PROVE  Copies'
<1>n. NoContent.copy = "new"
  BY DEF NoContent
<1>1. worker # "idle" /\ worker' = "idle"
  BY Zenon DEF CopyDone
<1>2. PICK h \in TaskType : h = Head(tasks)
  BY <1>1, FirstTask, Zenon
<1>3. /\ \A c \in Buffers :
            /\ refs'[c] = 0 => content'[c] = NoContent
            /\ refs'[c] # 0 => /\ content'[c].damage = content[c].damage
                               /\ content'[c].stale = content[c].stale
            /\ refs'[c] # 0 /\ c # h.b => content'[c].copy = content[c].copy
            /\ refs'[c] # 0 /\ c = h.b =>
                  content'[c].copy = IF worker = "copied" THEN "ready" ELSE "failed"
      /\ \A c \in Buffers : staged'[c].stale = staged[c].stale
      /\ tasks' = Tail(tasks)
  BY <1>2, CopyDoneRest, Zenon
<1>4. \A s \in Surfaces : surf'[s].buf = surf[s].buf /\ surf'[s].has = surf[s].has
  BY <1>2, CopyDoneSurf, Zenon
<1>5. ASSUME NEW c \in Copied, content'[c].copy = "ready"
      PROVE  CopyOk(c)'
  <2>1. c \in Buffers
    BY SubsetsAssumption
  <2>2. refs'[c] # 0
    BY <1>n, <1>3, <1>5, <2>1
  <2>3. CopyOk(c)
    <3>1. CASE c = h.b
      <4>1. worker = "copied"
        BY <1>3, <1>5, <2>1, <2>2, <3>1
      <4>2. QED
        BY <1>2, <3>1, <4>1, Zenon DEF Copies
    <3>2. CASE c # h.b
      <4>1. content[c].copy = "ready"
        BY <1>3, <1>5, <2>1, <2>2, <3>2
      <4>2. QED
        BY <4>1, Zenon DEF Copies
    <3>3. QED
      BY <3>1, <3>2
  <2>4. QED
    BY <1>3, <2>1, <2>2, <2>3 DEF CopyOk
<1>6. ASSUME NEW i \in DOMAIN tasks'
      PROVE  /\ content'[tasks'[i].b].copy # "ready"
             /\ surf'[tasks'[i].s].has => surf'[tasks'[i].s].buf # NoBuf
  <2>1. tasks'[i].b \in Buffers /\ tasks'[i].s \in Surfaces /\ refs'[tasks'[i].b] # 0
    BY QueuedAlive
  <2>2. /\ i \in 1 .. (Len(tasks) - 1) /\ Len(tasks) \in Nat
        /\ DOMAIN tasks = 1 .. Len(tasks) /\ tasks'[i] = tasks[i + 1] /\ h = tasks[1]
    BY <1>1, <1>2, <1>3, FirstTask
  <2>3. i + 1 \in DOMAIN tasks /\ 1 \in DOMAIN tasks /\ i + 1 # 1
    BY <2>2
  <2>4. tasks[i + 1].b # h.b
    BY <2>2, <2>3 DEF Queue
  <2>5. /\ content[tasks[i + 1].b].copy # "ready"
        /\ surf[tasks[i + 1].s].has => surf[tasks[i + 1].s].buf # NoBuf
    BY <2>3, Zenon DEF Copies
  <2>6. content'[tasks'[i].b].copy # "ready"
    BY <1>3, <2>1, <2>2, <2>4, <2>5
  <2>7. surf'[tasks'[i].s].has => surf'[tasks'[i].s].buf # NoBuf
    <3>1. tasks'[i].s = tasks[i + 1].s
      BY <2>2
    <3>2. QED
      BY <1>4, <2>1, <2>5, <3>1, Zenon
  <2>8. QED
    BY <2>6, <2>7
<1>7. worker' # "copied"
  BY <1>1
<1>8. QED
  BY <1>5, <1>6, <1>7, Zenon DEF Copies

LEMMA CopiesComposed ==
    ASSUME Typed, Typed', Showing, Queue, Counted', Copies,
           NEW bad \in SUBSET MayFail, Composes(bad)
    PROVE  Copies'
<1>n. NoContent.copy = "new"
  BY DEF NoContent
<1>1. tasks = <<>> /\ worker' = "idle" /\ ~Active
  BY Zenon DEF Composes, Queue, Active, Flags
<1>2. ContentAfter(Looked(bad))
  BY HoldRest, ScanRest, RenderRest, Zenon DEF Composes
<1>3. ASSUME NEW c \in Copied, content'[c].copy = "ready"
      PROVE  CopyOk(c)'
  <2>1. c \in Buffers
    BY SubsetsAssumption
  <2>2. content'[c] = Looked(bad)[c]
    BY <1>n, <1>2, <1>3, <2>1 DEF ContentAfter
  <2>3. content[c].copy = "ready" /\ content'[c] = content[c]
    BY <1>3, <2>1, <2>2, LookedIs
  <2>4. CopyOk(c) /\ staged' = staged
    BY <2>3, Zenon DEF Copies, Composes
  <2>5. QED
    BY <2>3, <2>4 DEF CopyOk
<1>4. ASSUME NEW i \in DOMAIN tasks'
      PROVE  /\ content'[tasks'[i].b].copy # "ready"
             /\ surf'[tasks'[i].s].has => surf'[tasks'[i].s].buf # NoBuf
  <2>1. CASE Hold(bad)
    <3>1. tasks'[i].s \in Waiting(bad) /\ tasks'[i].b = surf[tasks'[i].s].buf
      BY <1>1, <2>1, HoldTasks
    <3>2. tasks'[i].s \in Dirty /\ Looked(bad)[tasks'[i].b].copy = "prepared"
      BY <3>1, WaitingIs
    <3>3. tasks'[i].b \in Buffers /\ tasks'[i].s \in Surfaces /\ refs'[tasks'[i].b] # 0
      BY QueuedAlive
    <3>4. content'[tasks'[i].b].copy # "ready"
      BY <1>2, <3>2, <3>3 DEF ContentAfter
    <3>5. surf'[tasks'[i].s].buf # NoBuf
      <4>1. surf'[tasks'[i].s].buf = surf[tasks'[i].s].buf
        BY <2>1, <3>3, HoldRest, Zenon
      <4>2. surf[tasks'[i].s].buf # NoBuf
        BY <3>2, DirtyHas, OwnBuffers
      <4>3. QED
        BY <4>1, <4>2
    <3>6. QED
      BY <3>4, <3>5
  <2>2. CASE Scan(bad) \/ Render(bad)
    <3>1. tasks' = <<>>
      BY <1>1, <2>2, ScanRest, RenderRest, Zenon
    <3>2. QED
      BY <3>1
  <2>3. QED
    BY <2>1, <2>2, Zenon DEF Composes
<1>5. worker' # "copied"
  BY <1>1
<1>6. QED
  BY <1>3, <1>4, <1>5, Zenon DEF Copies

-----------------------------------------------------------------------------
(* The invariant.                                                          *)

Fresh == Copies /\ \A s \in Surfaces : Good(s)

LEMMA FreshInit ==
    ASSUME Init
    PROVE  Fresh
<1>1. /\ \A s \in Surfaces : surf[s].buf = NoBuf /\ surf[s].has = FALSE
      /\ \A s \in Surfaces : tex[s] = NoTex
      /\ content = [b \in Buffers |-> NoContent]
      /\ tasks = <<>> /\ worker = "idle"
  BY DEF Init
<1>2. Copies
  <2>1. \A b \in Copied : content[b].copy = "new"
    BY <1>1, SubsetsAssumption DEF NoContent
  <2>2. worker # "copied" /\ DOMAIN tasks = {}
    BY <1>1
  <2>3. QED
    BY <2>1, <2>2 DEF Copies
<1>3. ASSUME NEW s \in Surfaces
      PROVE  Good(s)
  <2>1. \A b \in Bufs[s] : b # NoBuf
    BY OwnBuffers
  <2>2. tex[s].src = NoBuf /\ tex[s].stale = Cells /\ tex[s].pend = FALSE
    BY <1>1 DEF NoTex
  <2>3. NoteOk(s) /\ BlankOk(s)
    BY <2>2, Zenon DEF NoteOk, BlankOk
  <2>4. QED
    BY <1>1, <2>1, <2>3, Zenon DEF Good, TakenOk, FreshOk, ShownOk, OneOk
<1>4. QED
  BY <1>2, <1>3, Zenon DEF Fresh

LEMMA FreshNext ==
    ASSUME Sound, Sound', Fresh, [Next]_vars
    PROVE  Fresh'
<1>a. /\ Typed /\ Showing /\ Queue /\ Flags /\ Counted
      /\ Copies /\ \A t \in Surfaces : Good(t)
  BY Zenon DEF Sound, Fresh
<1>b. Typed' /\ Queue' /\ Counted'
  BY Zenon DEF Sound
<1>1. ASSUME NEW s \in Surfaces, NEW b \in Bufs[s], NEW d \in SUBSET Cells, Commit(s, b, d)
      PROVE  Fresh'
  <2>1. Copies'
    BY <1>1, <1>a, <1>b, CopiesCommit
  <2>2. \A t \in Surfaces : Good(t)'
    BY <1>1, <1>a, <1>b, GoodCommit
  <2>3. QED
    BY <2>1, <2>2, Zenon DEF Fresh
<1>2. ASSUME NEW s \in Surfaces, CommitNull(s)
      PROVE  Fresh'
  <2>1. ContentAfter(content) /\ UNCHANGED <<staged, tasks, worker>>
    BY <1>2, <1>a, CommitNullRest, Zenon DEF CommitNull
  <2>2. \A t \in Surfaces : surf'[t].has => surf[t].has /\ surf'[t].buf = surf[t].buf
    BY <1>2, <1>a, CommitNullSurf, Zenon
  <2>3. Copies'
    BY <1>a, <1>b, <2>1, <2>2, CopiesRest
  <2>4. \A t \in Surfaces : Good(t)'
    BY <1>2, <1>a, <1>b, GoodCommitNull
  <2>5. QED
    BY <2>3, <2>4, Zenon DEF Fresh
<1>3. ASSUME NEW s \in Surfaces, DestroySurface(s)
      PROVE  Fresh'
  <2>1. ContentAfter(content) /\ UNCHANGED <<staged, tasks, worker>>
    BY <1>3, <1>a, DestroyRest, Zenon DEF DestroySurface
  <2>2. \A t \in Surfaces : surf'[t].has => surf[t].has /\ surf'[t].buf = surf[t].buf
    BY <1>3, <1>a, DestroySurf, Zenon
  <2>3. Copies'
    BY <1>a, <1>b, <2>1, <2>2, CopiesRest
  <2>4. \A t \in Surfaces : Good(t)'
    BY <1>3, <1>a, <1>b, GoodDestroy
  <2>5. QED
    BY <2>3, <2>4, Zenon DEF Fresh
<1>4. CASE EndCopy
  BY <1>4, <1>a, <1>b, CopiesEndCopy, GoodEndCopy, Zenon DEF Fresh
<1>5. CASE CopyDone
  BY <1>5, <1>a, <1>b, CopiesCopyDone, GoodCopyDone, Zenon DEF Fresh
<1>6. CASE Fence
  <2>1. ContentAfter(content) /\ UNCHANGED <<surf, staged, tasks, worker>>
    BY <1>6, <1>a, FenceRest, Zenon DEF Fence
  <2>2. \A t \in Surfaces : surf'[t].has => surf[t].has /\ surf'[t].buf = surf[t].buf
    BY <2>1
  <2>3. Copies'
    BY <1>a, <1>b, <2>1, <2>2, CopiesRest
  <2>4. \A t \in Surfaces : Good(t)'
    BY <1>6, <1>a, <1>b, GoodFence
  <2>5. QED
    BY <2>3, <2>4, Zenon DEF Fresh
<1>7. CASE Quiet
  BY <1>7, <1>a, CopiesQuiet, GoodQuiet, Zenon DEF Fresh
<1>8. ASSUME NEW bad \in SUBSET MayFail, Composes(bad)
      PROVE  Fresh'
  <2>1. Copies'
    BY <1>8, <1>a, <1>b, CopiesComposed
  <2>2. UNCHANGED staged /\ (Hold(bad) \/ Scan(bad) \/ Render(bad))
    BY <1>8, Zenon DEF Composes
  <2>3. \A t \in Surfaces : Good(t)'
    <3>1. CASE Hold(bad) \/ Scan(bad)
      BY <1>a, <1>b, <2>2, <3>1, GoodNoted
    <3>2. CASE Render(bad)
      BY <1>a, <1>b, <2>2, <3>2, GoodRender
    <3>3. QED
      BY <2>2, <3>1, <3>2
  <2>4. QED
    BY <2>1, <2>3, Zenon DEF Fresh
<1>9. \/ Client \/ EndCopy \/ CopyDone \/ Fence \/ Quiet
      \/ \E bad \in SUBSET MayFail : Composes(bad)
  BY <1>a, Kinds
<1>10. CASE Client
  BY <1>1, <1>2, <1>3, <1>10, Zenon DEF Client
<1>11. QED
  BY <1>4, <1>5, <1>6, <1>7, <1>8, <1>9, <1>10, Zenon

LEMMA FreshShown ==
    ASSUME Fresh
    PROVE  DamageShown
<1> SUFFICES ASSUME NEW s \in Surfaces, UpToDate(s)
             PROVE  /\ tex[s].stale \cap surf[s].damage = {}
                    /\ Cardinality(Bufs[s]) = 1 => tex[s].stale = {}
  BY Zenon DEF DamageShown
<1>1. Good(s) /\ surf[s].has /\ surf[s].buf = NoBuf
  BY Zenon DEF Fresh, UpToDate
<1>2. tex[s].stale \cap surf[s].damage = {}
  BY <1>1, Zenon DEF Good, ShownOk
<1>3. ASSUME Cardinality(Bufs[s]) = 1
      PROVE  tex[s].stale = {}
  <2>1. IsFiniteSet(Bufs[s])
    BY BuffersAssumption
  <2>2. PICK b : Bufs[s] = {b}
    BY <1>3, <2>1, FS_Singleton
  <2>3. b \in Bufs[s]
    BY <2>2
  <2>4. QED
    BY <1>1, <2>2, <2>3, Zenon DEF Good, OneOk
<1>4. QED
  BY <1>2, <1>3

\* Every variable of shmPrepareFrame, shmCopyWork and renderFrame keeps its
\* type, and a content has at most three references.
THEOREM Types == Spec => []TypeOK
<1>1. Sound => TypeOK
  BY SoundTypes
<1>2. QED
  BY <1>1, Soundness, PTL

\* A client gets a buffer back when no surface, copy or frame uses its
\* content, and not before.
THEOREM ReferencesAgree == Spec => []RefsAgree
<1>1. Sound => RefsAgree
  BY CountedIsAgreed DEF Sound
<1>2. QED
  BY <1>1, Soundness, PTL

\* While a frame reads a buffer its client has not got it back, and the
\* worker is not copying it.
THEOREM SourcesAreQuiet == Spec => []SourcesQuiet
<1>1. Sound => SourcesQuiet
  BY SoundSources
<1>2. QED
  BY <1>1, Soundness, PTL

\* What a surface shows once its newest commit has been uploaded is that
\* commit, as far as it was damaged; a client with one buffer, which its
\* release paces, sees its whole image (uploadShm, shmCopyWork, renderFrame).
THEOREM DamageIsShown == Spec => []DamageShown
<1>1. Init => Fresh
  BY FreshInit
<1>2. Sound /\ Sound' /\ Fresh /\ [Next]_vars => Fresh'
  BY FreshNext
<1>3. Fresh => DamageShown
  BY FreshShown
<1>4. QED
  BY <1>1, <1>2, <1>3, Soundness, PTL DEF Spec
=============================================================================
