-------------------------- MODULE KeyRoutingProofs --------------------------
(***************************************************************************)
(* Proofs about KeyRouting for any keys, windows, popups and clients.      *)
(***************************************************************************)
EXTENDS KeyRouting, TLAPS, FiniteSetTheorems, WellFoundedInduction

Most == Cardinality(Popups)
PlaceSet == [Popups -> 0..Most]

\* The rank of a popup is a place, and exactly the ranked ones are listed.
LEMMA RankedPlaces ==
    ASSUME NEW place \in [Popups -> Nat], NEW S \in SUBSET Popups
    PROVE  Ranked(place, S) \in PlaceSet /\ Listed(Ranked(place, S)) = S
<1> DEFINE upTo(p) == {q \in S : place[q] <= place[p]}
<1>1. Most \in Nat
  BY FS_CardinalityType, SurfacesAssumption DEF Most
<1>2. ASSUME NEW p \in Popups
      PROVE  Cardinality(upTo(p)) \in 0..Most /\ IsFiniteSet(upTo(p))
  <2>1. upTo(p) \in SUBSET Popups
    OBVIOUS
  <2>2. IsFiniteSet(upTo(p)) /\ Cardinality(upTo(p)) <= Most
    BY <2>1, FS_Subset, SurfacesAssumption DEF Most
  <2>3. Cardinality(upTo(p)) \in Nat
    BY <2>2, FS_CardinalityType
  <2>4. QED
    BY <1>1, <2>2, <2>3
<1>3. ASSUME NEW p \in S
      PROVE  Cardinality(upTo(p)) > 0
  <2>1. p \in Popups /\ place[p] \in Nat
    OBVIOUS
  <2>2. p \in upTo(p)
    BY <1>1, <2>1
  <2>3. Cardinality(upTo(p)) # 0
    BY <1>2, <2>1, <2>2, FS_EmptySet
  <2>4. QED
    BY <1>1, <1>2, <2>1, <2>3
<1> HIDE DEF upTo
<1>4. Ranked(place, S) = [p \in Popups |-> IF p \in S THEN Cardinality(upTo(p)) ELSE 0]
  BY DEF Ranked, upTo
<1>5. Ranked(place, S) \in PlaceSet
  BY <1>1, <1>2, <1>4 DEF PlaceSet
<1>6. \A p \in Popups : Ranked(place, S)[p] > 0 <=> p \in S
  BY <1>3, <1>4
<1>7. QED
  BY <1>5, <1>6 DEF Listed

LEMMA UnlinkedPlaces ==
    ASSUME NEW place \in [Popups -> Nat], NEW D
    PROVE  Unlinked(place, D) \in PlaceSet /\ Listed(Unlinked(place, D)) = Listed(place) \ D
BY RankedPlaces, Listed(place) \ D \in SUBSET Popups DEF Unlinked, Listed

LEMMA PlacesAreNumbers == ASSUME NEW place \in PlaceSet PROVE place \in [Popups -> Nat]
<1>1. Most \in Nat
  BY FS_CardinalityType, SurfacesAssumption DEF Most
<1>2. QED
  BY <1>1 DEF PlaceSet

\* A list that is not empty has a last member.
LEMMA TopIsGreatest ==
    ASSUME NEW place \in PlaceSet
    PROVE  IF Listed(place) = {} THEN Top(place) = None
           ELSE Top(place) \in Listed(place) /\ \A q \in Listed(place) : place[q] <= place[Top(place)]
<1>1. Most \in Nat
  BY FS_CardinalityType, SurfacesAssumption DEF Most
<1>2. CASE Listed(place) = {}
  BY <1>2 DEF Top
<1>3. CASE Listed(place) # {}
  <2> DEFINE room == {n \in Nat : \E p \in Listed(place) : n = Most - place[p]}
  <2>1. \A p \in Listed(place) : place[p] \in 0..Most /\ Most - place[p] \in Nat
    BY <1>1 DEF Listed, PlaceSet
  <2>2. room # {} /\ room \subseteq Nat
    BY <1>3, <2>1
  <2>3. PICK n \in room : \A k \in room : <<k, n>> \notin OpToRel(<, Nat)
    BY <2>2, WFMin, NatLessThanWellFounded
  <2>4. \A k \in room : ~(k < n)
    BY <2>2, <2>3 DEF OpToRel
  <2>5. PICK p \in Listed(place) : n = Most - place[p]
    BY <2>3
  <2>6. \A q \in Listed(place) : place[q] <= place[p]
    <3>1. TAKE q \in Listed(place)
    <3>2. Most - place[q] \in room
      BY <2>1, <3>1
    <3>3. ~(Most - place[q] < Most - place[p])
      BY <2>4, <2>5, <3>2
    <3>4. QED
      BY <1>1, <2>1, <2>5, <3>1, <3>3
  <2>7. QED
    BY <1>3, <2>6 DEF Top
<1>4. QED
  BY <1>2, <1>3

LEMMA TopIsListed ==
    ASSUME NEW place \in PlaceSet
    PROVE  Top(place) = None \/ Top(place) \in Listed(place)
BY TopIsGreatest

\* A new node behind the list becomes a member of it.
LEMMA PushedPlaces ==
    ASSUME NEW place \in PlaceSet, NEW p \in Popups
    PROVE  /\ Pushed(place, p) \in PlaceSet
           /\ p \notin Listed(place) => Listed(Pushed(place, p)) = Listed(place) \cup {p}
<1> DEFINE U == Unlinked(place, {p})
<1> DEFINE n == Cardinality(Listed(place) \ {p}) + 1
<1>1. U \in PlaceSet /\ Listed(U) = Listed(place) \ {p}
  BY UnlinkedPlaces, PlacesAreNumbers
<1>2. Most \in Nat
  BY FS_CardinalityType, SurfacesAssumption DEF Most
<1>3. IsFiniteSet(Popups \ {p}) /\ Cardinality(Popups \ {p}) = Most - 1
  BY FS_RemoveElement, SurfacesAssumption DEF Most
<1>4. Listed(place) \ {p} \in SUBSET (Popups \ {p})
  BY DEF Listed
<1>5. IsFiniteSet(Listed(place) \ {p}) /\ Cardinality(Listed(place) \ {p}) <= Most - 1
  BY <1>3, <1>4, FS_Subset
<1>6. Cardinality(Listed(place) \ {p}) \in Nat
  BY <1>5, FS_CardinalityType
<1> HIDE DEF U
<1>7. n \in 1..Most
  BY <1>2, <1>5, <1>6
<1> HIDE DEF n
<1>8. [U EXCEPT ![p] = n] \in PlaceSet
  BY <1>1, <1>2, <1>7 DEF PlaceSet
<1>9. Listed([U EXCEPT ![p] = n]) = Listed(U) \cup {p}
  BY <1>1, <1>2, <1>7 DEF PlaceSet, Listed
<1>10. Pushed(place, p) = IF Top(place) = p THEN U ELSE [U EXCEPT ![p] = n]
  BY DEF Pushed, U, n
<1>11. p \notin Listed(place) => Top(place) # p
  BY TopIsListed, SurfacesAssumption DEF Surfaces
<1>12. QED
  BY <1>1, <1>8, <1>9, <1>10, <1>11
-----------------------------------------------------------------------------
(* The seat *)

WinSet == [Windows -> WindowStates]
Targets == Surfaces \cup {None}
ToldSet == [Clients -> [in : SUBSET Surfaces, keys : SUBSET Keys]]
SeatSet == [focus : Windows \cup {None}, override : Popups \cup {None},
            grabs : PlaceSet, pressed : SUBSET Keys,
            uiCaptured : BOOLEAN, inhibited : BOOLEAN, told : ToldSet]

\* What the clients know when the keyboard is on s with some keys held.
Told(s, keys) ==
    [c \in Clients |-> IF s # None /\ Owner[s] = c THEN [in |-> {s}, keys |-> keys] ELSE Deaf]

LEMMA TargetType ==
    ASSUME NEW z \in SeatSet, NEW W
    PROVE  Target(z, W) \in Targets
BY DEF SeatSet, Targets, Target, SurfaceOf, Surfaces

LEMMA OwnerType ==
    ASSUME NEW s \in Targets, s # None
    PROVE  s \in Surfaces /\ Owner[s] \in Clients
BY SurfacesAssumption DEF Targets

LEMMA ToldTypes ==
    ASSUME NEW told \in ToldSet, NEW s \in Targets, NEW keys \in SUBSET Keys
    PROVE  Left(told, s) \in ToldSet /\ Entered(told, s, keys) \in ToldSet
<1>1. CASE s = None
  BY <1>1 DEF Left, Entered
<1>2. CASE s # None
  <2>1. s \in Surfaces /\ Owner[s] \in Clients
    BY <1>2, OwnerType
  <2>2. told[Owner[s]] \in [in : SUBSET Surfaces, keys : SUBSET Keys]
    BY <2>1 DEF ToldSet
  <2>3. [in |-> told[Owner[s]].in \ {s}, keys |-> {}] \in [in : SUBSET Surfaces, keys : SUBSET Keys]
    BY <2>2
  <2>4. [in |-> told[Owner[s]].in \cup {s}, keys |-> keys] \in [in : SUBSET Surfaces, keys : SUBSET Keys]
    BY <2>1, <2>2
  <2>5. QED
    BY <1>2, <2>1, <2>3, <2>4 DEF Left, Entered, ToldSet
<1>3. QED
  BY <1>1, <1>2

\* A leave of the surface with the keyboard and an enter of the next.
LEMMA ToldMoves ==
    ASSUME NEW s \in Targets, NEW t \in Targets, NEW keys, NEW held
    PROVE  Entered(Left(Told(s, held), s), t, keys) = Told(t, keys)
<1>1. Left(Told(s, held), s) = [c \in Clients |-> Deaf]
  <2>1. CASE s = None
    BY <2>1 DEF Left, Told
  <2>2. CASE s # None
    <3>1. Owner[s] \in Clients
      BY <2>2, OwnerType
    <3>2. Told(s, held)[Owner[s]].in \ {s} = {}
      BY <2>2, <3>1 DEF Told
    <3>3. Left(Told(s, held), s) = [Told(s, held) EXCEPT ![Owner[s]] = Deaf]
      BY <2>2, <3>2 DEF Left, Deaf
    <3>4. QED
      BY <2>2, <3>1, <3>3 DEF Told
  <2>3. QED
    BY <2>1, <2>2
<1>2. Entered([c \in Clients |-> Deaf], t, keys) = Told(t, keys)
  <2>1. CASE t = None
    BY <2>1 DEF Entered, Told
  <2>2. CASE t # None
    <3>1. Owner[t] \in Clients
      BY <2>2, OwnerType
    <3>2. [c \in Clients |-> Deaf][Owner[t]].in \cup {t} = {t}
      BY <3>1 DEF Deaf
    <3>3. Entered([c \in Clients |-> Deaf], t, keys)
            = [[c \in Clients |-> Deaf] EXCEPT ![Owner[t]] = [in |-> {t}, keys |-> keys]]
      BY <2>2, <3>2 DEF Entered
    <3>4. QED
      BY <2>2, <3>1, <3>3 DEF Told
  <2>3. QED
    BY <2>1, <2>2
<1>3. QED
  BY <1>1, <1>2

\* The seat means what the clients were told, and its inhibited bit is right.
Agrees(z, W) ==
    /\ z.told = Told(Target(z, W), z.pressed)
    /\ z.inhibited = (Target(z, W) \in inhibitors)

LEMMA UpdateType ==
    ASSUME NEW z \in SeatSet, NEW W, NEW I
    PROVE  /\ UpdateShortcutInhibit(z, W, I)
                \in {r \in SeatSet : /\ r.focus = z.focus
                                     /\ r.override = z.override
                                     /\ r.grabs = z.grabs
                                     /\ r.pressed = z.pressed
                                     /\ r.uiCaptured = z.uiCaptured
                                     /\ r.told = z.told}
           /\ UpdateShortcutInhibit(z, W, I).inhibited = (Target(z, W) \in I)
<1>1. CASE Target(z, W) \in I
  <2>1. UpdateShortcutInhibit(z, W, I) = [z EXCEPT !.inhibited = TRUE]
    BY <1>1 DEF UpdateShortcutInhibit
  <2>2. QED
    BY <1>1, <2>1 DEF SeatSet
<1>2. CASE Target(z, W) \notin I
  <2>1. (Target(z, W) \in I) = FALSE
    BY <1>2
  <2>2. UpdateShortcutInhibit(z, W, I) = [z EXCEPT !.inhibited = FALSE]
    BY <2>1, Zenon DEF UpdateShortcutInhibit
  <2>3. QED
    BY <2>1, <2>2 DEF SeatSet
<1>3. QED
  BY <1>1, <1>2

LEMMA FocusType ==
    ASSUME NEW z \in SeatSet, NEW t \in Windows \cup {None}, NEW W
    PROVE  /\ FocusToplevel(z, t, W)
                \in {r \in SeatSet : /\ r.focus = t
                                     /\ r.override = z.override
                                     /\ r.grabs = z.grabs
                                     /\ r.pressed = z.pressed
                                     /\ r.uiCaptured = z.uiCaptured}
           /\ LET r == FocusToplevel(z, t, W)
              IN  z.focus # t =>
                    /\ r.told = IF z.override # None THEN z.told
                                ELSE Entered(Left(z.told, SurfaceOf(z.focus, W)),
                                             SurfaceOf(t, W), z.pressed)
                    /\ r.inhibited = (Target(r, W) \in inhibitors)
<1>1. SurfaceOf(z.focus, W) \in Targets /\ SurfaceOf(t, W) \in Targets
  BY DEF SeatSet, SurfaceOf, Targets, Surfaces
<1>2. Entered(Left(z.told, SurfaceOf(z.focus, W)), SurfaceOf(t, W), z.pressed) \in ToldSet
  BY <1>1, ToldTypes DEF SeatSet
<1>3. PICK told \in ToldSet :
        told = IF z.override # None THEN z.told
               ELSE Entered(Left(z.told, SurfaceOf(z.focus, W)), SurfaceOf(t, W), z.pressed)
  BY <1>2 DEF SeatSet
<1>4. PICK y \in SeatSet : y = [z EXCEPT !.focus = t, !.told = told]
  BY DEF SeatSet
<1>5. /\ y.focus = t /\ y.override = z.override /\ y.grabs = z.grabs
      /\ y.pressed = z.pressed /\ y.uiCaptured = z.uiCaptured
  BY <1>4 DEF SeatSet
<1>6. FocusToplevel(z, t, W) = IF z.focus = t THEN z ELSE UpdateShortcutInhibit(y, W, inhibitors)
  BY <1>3, <1>4, Zenon DEF FocusToplevel
<1>7. y.told = told
  BY <1>4 DEF SeatSet
<1> DEFINE u == UpdateShortcutInhibit(y, W, inhibitors)
<1>8. /\ u \in SeatSet
      /\ u.focus = t /\ u.override = z.override /\ u.grabs = z.grabs
      /\ u.pressed = z.pressed /\ u.uiCaptured = z.uiCaptured /\ u.told = told
      /\ u.inhibited = (Target(y, W) \in inhibitors)
      /\ Target(u, W) = Target(y, W)
  BY <1>5, <1>7, UpdateType DEF Target
<1> HIDE DEF u
<1>9. CASE z.focus = t
  BY <1>6, <1>9
<1>10. CASE z.focus # t
  <2>1. FocusToplevel(z, t, W) = u
    BY <1>6, <1>10 DEF u
  <2>2. QED
    BY <1>3, <1>8, <1>10, <2>1
<1>11. QED
  BY <1>9, <1>10

\* Moving the focus keeps the clients informed, under a grab or without one.
LEMMA FocusAgrees ==
    ASSUME NEW z \in SeatSet, NEW t \in Windows \cup {None}, NEW W, Agrees(z, W)
    PROVE  Agrees(FocusToplevel(z, t, W), W)
<1> DEFINE r == FocusToplevel(z, t, W)
<1>1. /\ r \in SeatSet /\ r.focus = t /\ r.override = z.override /\ r.pressed = z.pressed
      /\ z.focus # t =>
           /\ r.told = IF z.override # None THEN z.told
                       ELSE Entered(Left(z.told, SurfaceOf(z.focus, W)),
                                    SurfaceOf(t, W), z.pressed)
           /\ r.inhibited = (Target(r, W) \in inhibitors)
  BY FocusType
<1>2. z.focus = t => r = z
  BY DEF FocusToplevel
<1> HIDE DEF r
<1>3. CASE z.focus = t
  BY <1>2, <1>3 DEF r
<1>4. CASE z.focus # t /\ z.override # None
  <2>1. Target(r, W) = Target(z, W)
    BY <1>1, <1>4 DEF Target
  <2>2. QED
    BY <1>1, <1>4, <2>1 DEF Agrees, r
<1>5. CASE z.focus # t /\ z.override = None
  <2>1. Target(z, W) = SurfaceOf(z.focus, W) /\ Target(r, W) = SurfaceOf(t, W)
    BY <1>1, <1>5 DEF Target
  <2>2. Target(z, W) \in Targets /\ Target(r, W) \in Targets
    BY <1>1, TargetType
  <2>3. r.told = Entered(Left(Told(Target(z, W), z.pressed), Target(z, W)), Target(r, W), z.pressed)
    BY <1>1, <1>5, <2>1 DEF Agrees
  <2>4. r.told = Told(Target(r, W), r.pressed)
    BY <1>1, <2>2, <2>3, ToldMoves
  <2>5. QED
    BY <1>1, <1>5, <2>4 DEF Agrees, r
<1>6. QED
  BY <1>3, <1>4, <1>5

\* The keyboard moves to the grab that began.
LEMMA PopupGrabStartAgrees ==
    ASSUME NEW z \in SeatSet, NEW p \in Popups
    PROVE  LET r == PopupGrabStart(z, p)
           IN  /\ r \in SeatSet
               /\ r.focus = z.focus /\ r.override = p /\ r.grabs = Pushed(z.grabs, p)
               /\ r.pressed = z.pressed /\ r.uiCaptured = z.uiCaptured
               /\ z.told = Told(Target(z, win), z.pressed) => Agrees(r, win)
<1>1. Target(z, win) \in Targets /\ p \in Targets /\ p # None
  BY TargetType, SurfacesAssumption DEF Targets, Surfaces
<1>2. Entered(Left(z.told, Target(z, win)), p, z.pressed) \in ToldSet
  BY <1>1, ToldTypes DEF SeatSet
<1>3. PICK told \in ToldSet : told = Entered(Left(z.told, Target(z, win)), p, z.pressed)
  BY <1>2
<1>4. Pushed(z.grabs, p) \in PlaceSet
  BY PushedPlaces DEF SeatSet
<1>5. PICK grabs \in PlaceSet : grabs = Pushed(z.grabs, p)
  BY <1>4
<1>6. PICK y \in SeatSet : y = [z EXCEPT !.grabs = grabs, !.override = p, !.told = told]
  BY DEF SeatSet
<1>7. /\ y.focus = z.focus /\ y.override = p /\ y.grabs = grabs
      /\ y.pressed = z.pressed /\ y.uiCaptured = z.uiCaptured /\ y.told = told
  BY <1>6 DEF SeatSet
<1> DEFINE u == UpdateShortcutInhibit(y, win, inhibitors)
<1>8. /\ u \in SeatSet
      /\ u.focus = z.focus /\ u.override = p /\ u.grabs = grabs
      /\ u.pressed = z.pressed /\ u.uiCaptured = z.uiCaptured /\ u.told = told
      /\ u.inhibited = (Target(y, win) \in inhibitors)
      /\ Target(y, win) = p /\ Target(u, win) = p
  BY <1>1, <1>7, UpdateType DEF Target
<1>9. PopupGrabStart(z, p) = u
  BY <1>3, <1>5, <1>6, Zenon DEF PopupGrabStart
<1> HIDE DEF u
<1>10. z.told = Told(Target(z, win), z.pressed) => told = Told(p, z.pressed)
  BY <1>1, <1>3, ToldMoves
<1>11. QED
  BY <1>5, <1>8, <1>9, <1>10 DEF Agrees

\* Grabs that end take the keyboard along if the last of them had it.
LEMMA GrabGoneType ==
    ASSUME NEW z \in SeatSet, NEW D, NEW W
    PROVE  LET r == GrabGone(z, D, W)
           IN  /\ r \in SeatSet
               /\ r.focus = z.focus /\ Listed(r.grabs) = Listed(z.grabs) \ D
               /\ r.grabs = Unlinked(z.grabs, D)
               /\ r.pressed = z.pressed /\ r.uiCaptured = z.uiCaptured
               /\ z.override \notin D \cap Listed(z.grabs) =>
                    r.override = z.override /\ r.told = z.told /\ r.inhibited = z.inhibited
               /\ z.override \in D \cap Listed(z.grabs) =>
                    /\ r.override = None \/ r.override \in Listed(z.grabs) \ D
                    /\ r.override = Top(r.grabs)
                    /\ z.told = Told(z.override, z.pressed) => Agrees(r, W)
<1>1. PICK grabs \in PlaceSet : grabs = Unlinked(z.grabs, D) /\ Listed(grabs) = Listed(z.grabs) \ D
  BY UnlinkedPlaces, PlacesAreNumbers DEF SeatSet
<1>2. CASE z.override \notin D \cap Listed(z.grabs)
  <2>1. PICK y \in SeatSet : y = [z EXCEPT !.grabs = grabs]
    BY DEF SeatSet
  <2>2. /\ y.focus = z.focus /\ y.override = z.override /\ y.grabs = grabs /\ y.told = z.told
        /\ y.pressed = z.pressed /\ y.uiCaptured = z.uiCaptured /\ y.inhibited = z.inhibited
    BY <2>1 DEF SeatSet
  <2>3. GrabGone(z, D, W) = y
    BY <1>1, <1>2, <2>1, Zenon DEF GrabGone
  <2>4. QED
    BY <1>1, <1>2, <2>2, <2>3
<1>3. CASE z.override \in D \cap Listed(z.grabs)
  <2>1. Top(grabs) = None \/ Top(grabs) \in Listed(grabs)
    BY TopIsListed
  <2>2. PICK x \in SeatSet : x = [z EXCEPT !.grabs = grabs, !.override = Top(grabs)]
    BY <2>1 DEF SeatSet, Listed
  <2>3. /\ x.focus = z.focus /\ x.override = Top(grabs) /\ x.grabs = grabs /\ x.told = z.told
        /\ x.pressed = z.pressed /\ x.uiCaptured = z.uiCaptured
    BY <2>2 DEF SeatSet
  <2>4. Target(x, W) \in Targets /\ z.override \in Targets
    BY TargetType DEF SeatSet, Targets, Surfaces
  <2>5. PICK told \in ToldSet : told = Entered(Left(z.told, z.override), Target(x, W), z.pressed)
    BY <2>4, ToldTypes DEF SeatSet
  <2>6. PICK y \in SeatSet : y = [x EXCEPT !.told = told]
    BY DEF SeatSet
  <2>7. /\ y.focus = z.focus /\ y.override = Top(grabs) /\ y.grabs = grabs /\ y.told = told
        /\ y.pressed = z.pressed /\ y.uiCaptured = z.uiCaptured
    BY <2>3, <2>6 DEF SeatSet
  <2> DEFINE u == UpdateShortcutInhibit(y, W, inhibitors)
  <2>8. /\ u \in SeatSet
        /\ u.focus = z.focus /\ u.override = Top(grabs) /\ u.grabs = grabs /\ u.told = told
        /\ u.pressed = z.pressed /\ u.uiCaptured = z.uiCaptured
        /\ u.inhibited = (Target(u, W) \in inhibitors)
        /\ Target(u, W) = Target(x, W)
    BY <2>3, <2>7, UpdateType DEF Target
  <2>9. GrabGone(z, D, W) = u
    BY <1>1, <1>3, <2>2, <2>3, <2>5, <2>6, Zenon DEF GrabGone
  <2> HIDE DEF u
  <2>10. z.told = Told(z.override, z.pressed) => told = Told(Target(x, W), z.pressed)
    BY <2>4, <2>5, ToldMoves
  <2>11. Listed(u.grabs) = Listed(z.grabs) \ D
    BY <1>1, <2>8
  <2>12. QED
    BY <1>1, <1>3, <2>1, <2>8, <2>9, <2>10, <2>11 DEF Agrees
<1>4. QED
  BY <1>2, <1>3

LEMMA ToldKeys ==
    ASSUME NEW told \in ToldSet, NEW s \in Targets, s # None, NEW keys \in SUBSET Keys
    PROVE  [told EXCEPT ![Owner[s]].keys = keys] \in ToldSet
<1>1. Owner[s] \in Clients
  BY OwnerType
<1>2. told[Owner[s]] \in [in : SUBSET Surfaces, keys : SUBSET Keys]
  BY <1>1 DEF ToldSet
<1>3. [told[Owner[s]] EXCEPT !.keys = keys] \in [in : SUBSET Surfaces, keys : SUBSET Keys]
  BY <1>2
<1>4. QED
  BY <1>1, <1>3 DEF ToldSet

\* The owner of s is told of other keys.
LEMMA ToldOthers ==
    ASSUME NEW s \in Targets, s # None, NEW held \in SUBSET Keys, NEW keys \in SUBSET Keys
    PROVE  /\ Told(s, held)[Owner[s]].keys = held
           /\ [Told(s, held) EXCEPT ![Owner[s]].keys = keys] = Told(s, keys)
<1>1. Owner[s] \in Clients
  BY OwnerType
<1>2. Told(s, held)[Owner[s]] = [in |-> {s}, keys |-> held]
  BY <1>1 DEF Told
<1>3. [Told(s, held)[Owner[s]] EXCEPT !.keys = keys] = [in |-> {s}, keys |-> keys]
  BY <1>2
<1>4. [Told(s, held) EXCEPT ![Owner[s]] = [in |-> {s}, keys |-> keys]] = Told(s, keys)
  BY <1>1 DEF Told
<1>5. Told(s, held)[Owner[s]].keys = held
  BY <1>2
<1>6. [Told(s, held) EXCEPT ![Owner[s]].keys = keys]
        = [Told(s, held) EXCEPT ![Owner[s]] = [Told(s, held)[Owner[s]] EXCEPT !.keys = keys]]
  OBVIOUS
<1>7. QED
  BY <1>3, <1>4, <1>5, <1>6

\* A key is sent to the client that has the keyboard, and remembered.
LEMMA HandleKeyAgrees ==
    ASSUME NEW z \in SeatSet, NEW k \in Keys, NEW pressed \in BOOLEAN, NEW grab \in BOOLEAN
    PROVE  LET r == HandleKey(z, k, pressed, grab)
           IN  /\ r \in SeatSet
               /\ r.focus = z.focus /\ r.override = z.override /\ r.grabs = z.grabs
               /\ r.uiCaptured = z.uiCaptured
               /\ ~pressed => r.pressed \subseteq z.pressed
               /\ Agrees(z, win) => Agrees(r, win)
<1> DEFINE s == Target(z, win)
<1>1. s \in Targets
  BY TargetType
<1> HIDE DEF s
<1>2. PICK keys \in SUBSET Keys : keys = IF pressed THEN z.pressed \cup {k} ELSE z.pressed \ {k}
  BY DEF SeatSet
<1>3. KeySent(z.told, s, k, pressed) \in ToldSet
  <2>1. CASE s = None
    BY <2>1 DEF KeySent, SeatSet
  <2>2. CASE s # None
    <3>1. z.told \in ToldSet /\ Owner[s] \in Clients
      BY <1>1, <2>2, OwnerType DEF SeatSet
    <3>2. z.told[Owner[s]].keys \in SUBSET Keys
      BY <3>1 DEF ToldSet
    <3>3. PICK told \in SUBSET Keys :
            told = IF pressed THEN z.told[Owner[s]].keys \cup {k} ELSE z.told[Owner[s]].keys \ {k}
      BY <3>2
    <3>4. KeySent(z.told, s, k, pressed) = [z.told EXCEPT ![Owner[s]].keys = told]
      BY <2>2, <3>3, Zenon DEF KeySent
    <3>5. [z.told EXCEPT ![Owner[s]].keys = told] \in ToldSet
      BY <1>1, <2>2, <3>1, ToldKeys
    <3>6. QED
      BY <3>4, <3>5, Zenon
  <2>3. QED
    BY <2>1, <2>2
<1>4. PICK told \in ToldSet : told = KeySent(z.told, s, k, pressed)
  BY <1>3
<1>5. PICK y \in SeatSet : y = [z EXCEPT !.pressed = keys, !.told = told]
  BY DEF SeatSet
<1>6. /\ y.focus = z.focus /\ y.override = z.override /\ y.grabs = z.grabs
      /\ y.uiCaptured = z.uiCaptured /\ y.inhibited = z.inhibited
      /\ y.pressed = keys /\ y.told = told
  BY <1>5 DEF SeatSet
<1>7. HandleKey(z, k, pressed, grab) = IF grab \/ (~pressed /\ k \notin z.pressed) THEN z ELSE y
  BY <1>2, <1>4, <1>5, Zenon DEF HandleKey, s
<1>8. Agrees(z, win) => told = Told(s, keys)
  <2>1. SUFFICES ASSUME z.told = Told(s, z.pressed)
                 PROVE  told = Told(s, keys)
    BY DEF Agrees, s
  <2>2. CASE s = None
    BY <1>4, <2>1, <2>2 DEF KeySent, Told
  <2>3. CASE s # None
    <3>1. z.told[Owner[s]].keys = z.pressed
      <4>1. PICK held \in SUBSET Keys : held = z.pressed
        BY DEF SeatSet
      <4>2. Told(s, held)[Owner[s]].keys = held
        BY <1>1, <2>3, ToldOthers
      <4>3. QED
        BY <2>1, <4>1, <4>2
    <3>2. KeySent(z.told, s, k, pressed) = [z.told EXCEPT ![Owner[s]].keys = keys]
      BY <1>2, <2>3, <3>1, Zenon DEF KeySent
    <3>3. QED
      BY <1>1, <1>4, <2>1, <2>3, <3>2, ToldOthers DEF SeatSet
  <2>4. QED
    BY <2>2, <2>3
<1>9. Target(y, win) = s
  BY <1>6 DEF Target, s
<1>10. Agrees(z, win) => Agrees(y, win)
  BY <1>6, <1>8, <1>9 DEF Agrees, s
<1>11. ~pressed => keys \subseteq z.pressed
  BY <1>2
<1>12. QED
  BY <1>6, <1>7, <1>10, <1>11

\* Every key is released, and its client told.
LEMMA ReleaseAllKeysAgrees ==
    ASSUME NEW z \in SeatSet
    PROVE  LET r == ReleaseAllKeys(z)
           IN  /\ r \in SeatSet
               /\ r.focus = z.focus /\ r.override = z.override /\ r.grabs = z.grabs
               /\ r.uiCaptured = z.uiCaptured /\ r.pressed = {}
               /\ Agrees(z, win) => Agrees(r, win)
<1> DEFINE s == Target(z, win)
<1>1. s \in Targets
  BY TargetType
<1> HIDE DEF s
<1>2. PICK told \in ToldSet :
        /\ told = KeysReleased(z.told, s, z.pressed)
        /\ z.told = Told(s, z.pressed) => told = Told(s, {})
  <2>1. CASE s = None
    BY <2>1 DEF SeatSet, Told, KeysReleased
  <2>2. CASE s # None
    <3>1. z.told \in ToldSet /\ Owner[s] \in Clients /\ z.pressed \in SUBSET Keys
      BY <1>1, <2>2, OwnerType DEF SeatSet
    <3>2. z.told[Owner[s]].keys \in SUBSET Keys
      BY <3>1 DEF ToldSet
    <3>3. PICK left \in SUBSET Keys : left = z.told[Owner[s]].keys \ z.pressed
      BY <3>2
    <3>4. KeysReleased(z.told, s, z.pressed) = [z.told EXCEPT ![Owner[s]].keys = left]
      BY <2>2, <3>3, Zenon DEF KeysReleased
    <3>5. ASSUME z.told = Told(s, z.pressed)
          PROVE  [z.told EXCEPT ![Owner[s]].keys = left] = Told(s, {})
      <4>1. z.told[Owner[s]].keys = z.pressed
        BY <1>1, <2>2, <3>1, <3>5, ToldOthers
      <4>2. left = {}
        BY <3>3, <4>1
      <4>3. QED
        BY <1>1, <2>2, <3>1, <3>5, <4>2, ToldOthers
    <3>6. QED
      BY <1>1, <2>2, <3>1, <3>4, <3>5, ToldKeys
  <2>3. QED
    BY <2>1, <2>2
<1>3. PICK y \in SeatSet : y = [z EXCEPT !.pressed = {}, !.told = told]
  BY DEF SeatSet
<1>4. /\ y.focus = z.focus /\ y.override = z.override /\ y.grabs = z.grabs
      /\ y.uiCaptured = z.uiCaptured /\ y.inhibited = z.inhibited
      /\ y.pressed = {} /\ y.told = told
  BY <1>3 DEF SeatSet
<1>5. ReleaseAllKeys(z) = y
  BY <1>2, <1>3, Zenon DEF ReleaseAllKeys, s
<1>6. Target(y, win) = s
  BY <1>4 DEF Target, s
<1>7. QED
  BY <1>2, <1>4, <1>5, <1>6 DEF Agrees, s

\* The shell takes the keyboard, or gives it back.
LEMMA SyncKeyboardCaptureAgrees ==
    ASSUME NEW z \in SeatSet, NEW cap \in BOOLEAN
    PROVE  LET r == SyncKeyboardCapture(z, cap)
           IN  /\ r \in SeatSet
               /\ r.focus = z.focus /\ r.override = z.override /\ r.grabs = z.grabs
               /\ r.uiCaptured = cap
               /\ r.pressed = IF cap /\ ~z.uiCaptured THEN {} ELSE z.pressed
               /\ Agrees(z, win) => Agrees(r, win)
<1> DEFINE x == IF cap /\ ~z.uiCaptured THEN ReleaseAllKeys(z) ELSE z
<1>1. /\ x \in SeatSet
      /\ x.focus = z.focus /\ x.override = z.override /\ x.grabs = z.grabs
      /\ x.pressed = IF cap /\ ~z.uiCaptured THEN {} ELSE z.pressed
      /\ Agrees(z, win) => Agrees(x, win)
  BY ReleaseAllKeysAgrees
<1>2. SyncKeyboardCapture(z, cap) = [x EXCEPT !.uiCaptured = cap]
  BY Zenon DEF SyncKeyboardCapture
<1> HIDE DEF x
<1>3. PICK y \in SeatSet : y = [x EXCEPT !.uiCaptured = cap]
  BY <1>1 DEF SeatSet
<1>4. /\ y.focus = x.focus /\ y.override = x.override /\ y.grabs = x.grabs
      /\ y.pressed = x.pressed /\ y.told = x.told /\ y.inhibited = x.inhibited
      /\ y.uiCaptured = cap
  BY <1>1, <1>3 DEF SeatSet
<1>5. Target(y, win) = Target(x, win)
  BY <1>4 DEF Target
<1>6. QED
  BY <1>1, <1>2, <1>3, <1>4, <1>5 DEF Agrees

\* A client forgets a surface it destroyed.
LEMMA ForgottenAgrees ==
    ASSUME NEW z \in SeatSet, NEW s \in Surfaces
    PROVE  LET r == Forgotten(z, s)
           IN  /\ r \in SeatSet
               /\ r.focus = z.focus /\ r.override = z.override /\ r.grabs = z.grabs
               /\ r.uiCaptured = z.uiCaptured /\ r.pressed = z.pressed
               /\ r.inhibited = z.inhibited
               /\ \A t \in Targets : \A keys \in SUBSET Keys :
                    z.told = Told(t, keys) => r.told = Told(IF t = s THEN None ELSE t, keys)
<1>1. s \in Targets /\ s # None /\ Owner[s] \in Clients
  BY SurfacesAssumption DEF Targets
<1>2. z.told \in ToldSet
  BY DEF SeatSet
<1>3. z.told[Owner[s]] \in [in : SUBSET Surfaces, keys : SUBSET Keys]
  BY <1>1, <1>2 DEF ToldSet
<1>4. PICK told \in ToldSet :
        told = [z.told EXCEPT ![Owner[s]] =
                  [in |-> @.in \ {s}, keys |-> IF @.in = {s} THEN {} ELSE @.keys]]
  <2>1. PICK e \in [in : SUBSET Surfaces, keys : SUBSET Keys] :
          e = [in |-> z.told[Owner[s]].in \ {s},
               keys |-> IF z.told[Owner[s]].in = {s} THEN {} ELSE z.told[Owner[s]].keys]
    BY <1>3
  <2>2. [z.told EXCEPT ![Owner[s]] = e] \in ToldSet
    BY <1>2, <2>1 DEF ToldSet
  <2>3. QED
    BY <2>1, <2>2, Zenon
<1>5. PICK y \in SeatSet : y = [z EXCEPT !.told = told]
  BY DEF SeatSet
<1>6. /\ y.focus = z.focus /\ y.override = z.override /\ y.grabs = z.grabs
      /\ y.uiCaptured = z.uiCaptured /\ y.inhibited = z.inhibited
      /\ y.pressed = z.pressed /\ y.told = told
  BY <1>5 DEF SeatSet
<1>7. Forgotten(z, s) = IF s \notin z.told[Owner[s]].in THEN z ELSE y
  BY <1>4, <1>5, Zenon DEF Forgotten
<1>8. ASSUME NEW t \in Targets, NEW keys \in SUBSET Keys, z.told = Told(t, keys)
      PROVE  Forgotten(z, s).told = Told(IF t = s THEN None ELSE t, keys)
  <2>1. CASE t = s
    <3>1. z.told[Owner[s]] = [in |-> {s}, keys |-> keys]
      BY <1>1, <1>8, <2>1 DEF Told
    <3>2. told = [z.told EXCEPT ![Owner[s]] = Deaf]
      BY <1>4, <3>1 DEF Deaf
    <3>3. told = Told(None, keys)
      BY <1>1, <1>8, <2>1, <3>2 DEF Told
    <3>4. s \in z.told[Owner[s]].in
      BY <3>1
    <3>5. QED
      BY <1>6, <1>7, <2>1, <3>3, <3>4
  <2>2. CASE t # s
    <3>1. z.told[Owner[s]].in \subseteq {t}
      BY <1>1, <1>8 DEF Told, Deaf
    <3>2. QED
      BY <1>7, <1>8, <2>2, <3>1
  <2>3. QED
    BY <2>1, <2>2
<1>9. QED
  BY <1>6, <1>7, <1>8

\* An heir of the same client or another's was entered without a leave; the
\* client of the destroyed surface forgets that one.
LEMMA HeirEntered ==
    ASSUME NEW z \in SeatSet, NEW w \in Surfaces, NEW o \in {w, None}, NEW g \in Targets, g # w,
           NEW keys \in SUBSET Keys, z.told = Entered(Told(o, keys), g, keys)
    PROVE  Forgotten(z, w).told = Told(g, keys)
<1>1. w \in Targets /\ w # None /\ Owner[w] \in Clients
  BY SurfacesAssumption DEF Targets
<1>2. CASE g = None
  BY <1>1, <1>2, ForgottenAgrees DEF Entered, Targets
<1>3. CASE o = None
  <2>1. Left(Told(None, keys), None) = Told(None, keys)
    BY DEF Left
  <2>2. None \in Targets
    BY DEF Targets
  <2>3. z.told = Told(g, keys)
    BY <1>3, <2>1, <2>2, ToldMoves
  <2>4. QED
    BY <2>3, ForgottenAgrees
<1>4. CASE g # None /\ o = w
  <2>1. Owner[g] \in Clients
    BY <1>4, OwnerType
  <2>2. z.told = [Told(w, keys) EXCEPT ![Owner[g]] =
                    [in |-> Told(w, keys)[Owner[g]].in \cup {g}, keys |-> keys]]
    BY <1>4 DEF Entered
  <2>3. Told(w, keys)[Owner[w]] = [in |-> {w}, keys |-> keys]
    BY <1>1 DEF Told
  <2>4. CASE Owner[g] = Owner[w]
    <3>1. z.told = [Told(w, keys) EXCEPT ![Owner[w]] = [in |-> {w, g}, keys |-> keys]]
      <4>1. Told(w, keys)[Owner[g]].in \cup {g} = {w, g}
        BY <2>3, <2>4
      <4>2. QED
        BY <2>2, <2>4, <4>1, Zenon
    <3>2. z.told[Owner[w]] = [in |-> {w, g}, keys |-> keys]
      BY <1>1, <3>1 DEF Told
    <3>3. {w, g} \ {w} = {g} /\ {w, g} # {w} /\ w \in {w, g}
      BY g # w
    <3>4. PICK told : told = [z.told EXCEPT ![Owner[w]] = [in |-> {g}, keys |-> keys]]
      OBVIOUS
    <3>5. Forgotten(z, w) = [z EXCEPT !.told = told]
      <4>1. /\ z.told[Owner[w]].in = {w, g} /\ z.told[Owner[w]].keys = keys
            /\ z.told[Owner[w]].in \ {w} = {g} /\ z.told[Owner[w]].in # {w}
            /\ w \in z.told[Owner[w]].in
        BY <3>2, <3>3, g # w
      <4>2. QED
        BY <3>4, <4>1, Zenon DEF Forgotten
    <3>6. told = Told(g, keys)
      BY <1>1, <1>4, <2>4, <3>1, <3>4 DEF Told
    <3>7. QED
      BY <3>5, <3>6 DEF SeatSet
  <2>5. CASE Owner[g] # Owner[w]
    <3>1. Told(w, keys)[Owner[g]] = Deaf
      BY <2>1, <2>5 DEF Told
    <3>2. z.told = [Told(w, keys) EXCEPT ![Owner[g]] = [in |-> {g}, keys |-> keys]]
      BY <2>2, <3>1 DEF Deaf
    <3>3. z.told[Owner[w]] = [in |-> {w}, keys |-> keys]
      BY <1>1, <2>3, <2>5, <3>2 DEF Told
    <3>4. PICK told : told = [z.told EXCEPT ![Owner[w]] = Deaf]
      OBVIOUS
    <3>5. Forgotten(z, w) = [z EXCEPT !.told = told]
      BY <3>3, <3>4 DEF Forgotten, Deaf
    <3>6. told = Told(g, keys)
      BY <1>1, <1>4, <2>5, <3>2, <3>4 DEF Told
    <3>7. QED
      BY <3>5, <3>6 DEF SeatSet
  <2>6. QED
    BY <2>4, <2>5
<1>5. QED
  BY <1>2, <1>3, <1>4

LEMMA GrabGoneAgrees ==
    ASSUME NEW z \in SeatSet, NEW D, NEW W, Agrees(z, W),
           z.override = None \/ z.override \in Listed(z.grabs)
    PROVE  LET r == GrabGone(z, D, W)
           IN  /\ Agrees(r, W)
               /\ r.override = None \/ r.override \in Listed(r.grabs)
<1> DEFINE r == GrabGone(z, D, W)
<1>1. /\ r \in SeatSet
      /\ r.focus = z.focus /\ Listed(r.grabs) = Listed(z.grabs) \ D
      /\ r.pressed = z.pressed /\ r.uiCaptured = z.uiCaptured
      /\ z.override \notin D \cap Listed(z.grabs) =>
           r.override = z.override /\ r.told = z.told /\ r.inhibited = z.inhibited
      /\ z.override \in D \cap Listed(z.grabs) =>
           /\ r.override = None \/ r.override \in Listed(z.grabs) \ D
           /\ z.told = Told(z.override, z.pressed) => Agrees(r, W)
  BY GrabGoneType
<1> HIDE DEF r
<1>2. CASE z.override \notin D \cap Listed(z.grabs)
  <2>1. Target(r, W) = Target(z, W)
    BY <1>1, <1>2 DEF Target
  <2>2. QED
    BY <1>1, <1>2, <2>1 DEF Agrees, r
<1>3. CASE z.override \in D \cap Listed(z.grabs)
  <2>1. Target(z, W) = z.override
    BY <1>3, SurfacesAssumption DEF Target, Listed, Surfaces
  <2>2. QED
    BY <1>1, <1>3, <2>1 DEF Agrees, r
<1>4. QED
  BY <1>2, <1>3
-----------------------------------------------------------------------------
(* The steps *)

PopupSet == [st : {"none", "new", "mapped", "dismissed"}, grab : BOOLEAN,
             up : Surfaces \cup {None}, place : Nat]
DesktopOK ==
    /\ down \subseteq Keys /\ chordDown \subseteq Keys
    /\ locked \in BOOLEAN /\ altTab \in BOOLEAN /\ kbCaptured \in BOOLEAN
SceneOK ==
    /\ win \in WinSet /\ minimized \subseteq Windows
    /\ inhibitors \subseteq {w \in Windows : win[w] \in {"new", "mapped", "bare"}}
    /\ popup \in [Popups -> PopupSet]

LEMMA TypeParts == TypeOK <=> DesktopOK /\ SceneOK /\ seat \in SeatSet
BY DEF TypeOK, DesktopOK, SceneOK, SeatSet, WinSet, ToldSet, PlaceSet, PopupSet, Most

LEMMA TypePartsNext == DesktopOK' /\ SceneOK' /\ seat' \in SeatSet => TypeOK'
BY DEF TypeOK, DesktopOK, SceneOK, SeatSet, WinSet, ToldSet, PlaceSet, PopupSet, Most

\* What the clients were told is right if no window's surface outlives its
\* xdg_toplevel, no grabbing popup is unmapped by a null buffer and no keyboard
\* is bound under a grab.  The grabs are popups on screen, and the one with the
\* keyboard is among them.
Restricted == Outlives = {} /\ NullGrabs = {} /\ LateUnderGrab = FALSE
OnScreen == {p \in Popups : popup[p].st = "mapped" /\ popup[p].grab}
GrabsOnScreen ==
    /\ seat.override = None \/ seat.override \in Listed(seat.grabs)
    /\ Listed(seat.grabs) \subseteq OnScreen
NoBare == \A w \in Windows : win[w] # "bare"
Good == NoBare /\ GrabsOnScreen /\ Agrees(seat, win)

\* What every step does.
Quiet == locked \/ locked' => seat'.pressed \subseteq seat.pressed
Keeps ==
    /\ TypeOK'
    /\ CapturedHoldsNothing => CapturedHoldsNothing'
    /\ Quiet
    /\ Restricted /\ Good => Good'

\* A step that touches no key.
LEMMA KeylessStep ==
    ASSUME DesktopOK', SceneOK', seat' \in SeatSet,
           seat'.pressed = seat.pressed, seat'.uiCaptured = seat.uiCaptured,
           Restricted /\ Good => Good'
    PROVE  Keeps
BY TypePartsNext DEF Keeps, Quiet, CapturedHoldsNothing

\* A step that leaves the seat and the scene alone.
LEMMA DesktopStep ==
    ASSUME TypeOK, DesktopOK', UNCHANGED <<scene, seat>>
    PROVE  Keeps
<1>1. SceneOK' /\ seat' \in SeatSet
  BY TypeParts DEF SceneOK, scene, WinSet, PopupSet, WindowStates
<1>2. Good => Good'
  BY DEF Good, NoBare, GrabsOnScreen, OnScreen, Agrees, Target, SurfaceOf, scene, Told, Listed
<1>3. QED
  BY <1>1, <1>2, KeylessStep

\* The same seat means the same to another scene if its surface does.
LEMMA SameTarget ==
    ASSUME NEW z \in SeatSet, NEW W, NEW V, Agrees(z, W),
           SurfaceOf(z.focus, V) = SurfaceOf(z.focus, W)
    PROVE  Agrees(z, V)
BY DEF Agrees, Target

LEMMA DeliveredStep ==
    ASSUME TypeOK, DesktopOK', UNCHANGED scene,
           NEW k \in Keys, NEW pressed \in BOOLEAN, NEW grab \in BOOLEAN, NEW cap \in BOOLEAN,
           Delivered(k, pressed, grab, cap),
           cap \/ locked \/ locked' => ~pressed
    PROVE  Keeps
<1> DEFINE r == HandleKey(seat, k, pressed, grab)
<1>1. /\ r \in SeatSet
      /\ r.focus = seat.focus /\ r.override = seat.override /\ r.grabs = seat.grabs
      /\ r.uiCaptured = seat.uiCaptured
      /\ ~pressed => r.pressed \subseteq seat.pressed
      /\ Agrees(seat, win) => Agrees(r, win)
  BY HandleKeyAgrees, TypeParts
<1>2. seat' = SyncKeyboardCapture(r, cap)
  BY DEF Delivered
<1> HIDE DEF r
<1>3. /\ seat' \in SeatSet
      /\ seat'.focus = seat.focus /\ seat'.override = seat.override /\ seat'.grabs = seat.grabs
      /\ seat'.uiCaptured = cap
      /\ seat'.pressed = IF cap /\ ~seat.uiCaptured THEN {} ELSE r.pressed
      /\ Agrees(seat, win) => Agrees(seat', win)
  BY <1>1, <1>2, SyncKeyboardCaptureAgrees
<1>4. SceneOK'
  BY TypeParts DEF SceneOK, scene, WinSet, PopupSet, WindowStates
<1>5. TypeOK'
  BY <1>3, <1>4, TypePartsNext
<1>6. CapturedHoldsNothing => CapturedHoldsNothing'
  BY <1>1, <1>3 DEF CapturedHoldsNothing
<1>7. Quiet
  BY <1>1, <1>3 DEF Quiet
<1>8. Good => Good'
  BY <1>3 DEF Good, NoBare, GrabsOnScreen, OnScreen, Agrees, Target, SurfaceOf, scene, Told, Listed
<1>9. QED
  BY <1>5, <1>6, <1>7, <1>8 DEF Keeps

\* What arrives at the keyboard reaches at most the owner of the focus.
LEMMA KeySteps ==
    ASSUME TypeOK, Key
    PROVE  Keeps
<1>1. DesktopOK
  BY TypeParts
<1>2. ASSUME NEW k \in Keys, NEW pressed \in BOOLEAN, Arrives(k, pressed)
      PROVE  down' \subseteq Keys /\ UNCHANGED scene
  BY <1>1, <1>2 DEF Arrives, DesktopOK
<1>3. ASSUME NEW k \in Keys, NEW pressed \in BOOLEAN, ArmedKey(k, pressed)
      PROVE  Keeps
  <2>1. down' \subseteq Keys /\ UNCHANGED <<scene, seat>>
    BY <1>2, <1>3 DEF ArmedKey
  <2>2. DesktopOK'
    BY <1>1, <1>3, <2>1 DEF ArmedKey, DesktopOK
  <2>3. QED
    BY <2>1, <2>2, DesktopStep
<1>4. ASSUME NEW k \in Keys, NEW pressed \in BOOLEAN, NEW grab \in Grabbed,
             LockedKey(k, pressed, grab)
      PROVE  Keeps
  <2>1. down' \subseteq Keys /\ UNCHANGED scene
    BY <1>2, <1>4 DEF LockedKey
  <2>2. DesktopOK'
    BY <1>1, <1>4, <2>1 DEF LockedKey, DesktopOK
  <2>3. CASE pressed
    <3>1. UNCHANGED seat
      BY <1>4, <2>3 DEF LockedKey
    <3>2. QED
      BY <2>1, <2>2, <3>1, DesktopStep
  <2>4. CASE ~pressed
    <3>1. Delivered(k, pressed, grab, TRUE)
      BY <1>4, <2>4 DEF LockedKey
    <3>2. grab \in BOOLEAN
      BY SubsetsAssumption DEF Grabbed
    <3>3. QED
      BY <2>1, <2>2, <2>4, <3>1, <3>2, DeliveredStep
  <2>5. QED
    BY <2>3, <2>4
<1>5. ASSUME NEW k \in Keys, NEW pressed \in BOOLEAN, NEW text \in BOOLEAN, NEW grab \in Grabbed,
             PlainKey(k, pressed, text, grab)
      PROVE  Keeps
  <2>1. down' \subseteq Keys /\ UNCHANGED scene
    BY <1>2, <1>5 DEF PlainKey
  <2>2. altTab' \in BOOLEAN /\ kbCaptured' \in BOOLEAN
    BY <1>1, <1>5, Zenon DEF PlainKey, DesktopOK
  <2>3. ~locked /\ locked' = locked /\ chordDown' = chordDown
    BY <1>5 DEF PlainKey
  <2>4. DesktopOK'
    BY <1>1, <2>1, <2>2, <2>3 DEF DesktopOK
  <2>5. CASE pressed /\ kbCaptured'
    <3>1. UNCHANGED seat
      BY <1>5, <2>5 DEF PlainKey
    <3>2. QED
      BY <2>1, <2>4, <3>1, DesktopStep
  <2>6. CASE ~(pressed /\ kbCaptured')
    <3>1. PICK cap \in BOOLEAN : cap = kbCaptured'
      BY <2>2
    <3>2. Delivered(k, pressed, grab, cap)
      BY <1>5, <2>6, <3>1 DEF PlainKey
    <3>3. grab \in BOOLEAN
      BY SubsetsAssumption DEF Grabbed
    <3>4. cap \/ locked \/ locked' => ~pressed
      BY <2>3, <2>6, <3>1
    <3>5. QED
      BY <2>1, <2>4, <3>2, <3>3, <3>4, DeliveredStep
  <2>7. QED
    BY <2>5, <2>6
<1>6. ASSUME NEW k \in Keys, NEW action \in {"lock", "switch", "cancel", "other"},
             NEW text \in BOOLEAN, ChordPress(k, action, text)
      PROVE  Keeps
  <2>1. down' \subseteq Keys /\ UNCHANGED <<scene, seat>> /\ chordDown' \subseteq Keys
    BY <1>1, <1>2, <1>6 DEF ChordPress, DesktopOK
  <2>2. locked' \in BOOLEAN
    BY <1>6, Zenon DEF ChordPress
  <2>3. altTab' \in BOOLEAN
    BY <1>1, <1>6 DEF ChordPress, DesktopOK, AnyMapped
  <2>4. kbCaptured' \in BOOLEAN
    BY <1>6, Zenon DEF ChordPress
  <2>5. DesktopOK'
    BY <2>1, <2>2, <2>3, <2>4 DEF DesktopOK
  <2>6. QED
    BY <2>1, <2>5, DesktopStep
<1>7. ASSUME NEW k \in Keys, NEW text \in BOOLEAN, ChordRelease(k, text)
      PROVE  Keeps
  <2>1. down' \subseteq Keys /\ UNCHANGED <<scene, seat>> /\ chordDown' \subseteq Keys
    BY <1>1, <1>2, <1>7 DEF ChordRelease, DesktopOK
  <2>2. kbCaptured' \in BOOLEAN
    BY <1>7, Zenon DEF ChordRelease
  <2>3. DesktopOK'
    BY <1>1, <1>7, <2>1, <2>2 DEF ChordRelease, DesktopOK
  <2>4. QED
    BY <2>1, <2>3, DesktopStep
<1>8. QED
  BY <1>3, <1>4, <1>5, <1>6, <1>7 DEF Key

LEMMA DesktopSteps ==
    ASSUME TypeOK, Lock \/ Draw \/ FrameEvent \/ ReleaseAll
    PROVE  Keeps
<1>1. DesktopOK /\ SceneOK /\ seat \in SeatSet
  BY TypeParts
<1>2. CASE Lock
  <2>1. DesktopOK' /\ UNCHANGED <<scene, seat>>
    BY <1>1, <1>2 DEF Lock, DesktopOK
  <2>2. QED
    BY <2>1, DesktopStep
<1>3. CASE Draw
  <2>1. locked' \in BOOLEAN /\ altTab' \in BOOLEAN
    BY <1>1, <1>3 DEF Draw, DesktopOK
  <2>2. kbCaptured' \in BOOLEAN
    BY <1>3, Zenon DEF Draw
  <2>3. DesktopOK' /\ UNCHANGED <<scene, seat>>
    BY <1>1, <1>3, <2>1, <2>2 DEF Draw, DesktopOK
  <2>4. QED
    BY <2>3, DesktopStep
<1>4. ASSUME UNCHANGED <<desktop, scene>>, seat' \in SeatSet,
             seat'.override = seat.override, seat'.grabs = seat.grabs,
             Agrees(seat, win) => Agrees(seat', win),
             CapturedHoldsNothing => CapturedHoldsNothing',
             seat'.pressed \subseteq seat.pressed
      PROVE  Keeps
  <2>1. DesktopOK' /\ SceneOK'
    BY <1>1, <1>4 DEF DesktopOK, desktop, SceneOK, scene, WinSet, PopupSet, WindowStates
  <2>2. Good => Good'
    BY <1>4 DEF Good, NoBare, GrabsOnScreen, OnScreen, Agrees, Target, SurfaceOf, scene, Told, Listed
  <2>3. QED
    BY <1>4, <2>1, <2>2, TypePartsNext DEF Keeps, Quiet
<1>5. CASE FrameEvent
  <2>1. PICK z : z = SyncKeyboardCapture(seat, kbCaptured)
    OBVIOUS
  <2>2. /\ z \in SeatSet
        /\ z.override = seat.override /\ z.grabs = seat.grabs
        /\ z.uiCaptured = kbCaptured
        /\ z.pressed = IF kbCaptured /\ ~seat.uiCaptured THEN {} ELSE seat.pressed
        /\ Agrees(seat, win) => Agrees(z, win)
    BY <1>1, <2>1, SyncKeyboardCaptureAgrees DEF DesktopOK
  <2>3. PICK t \in Windows \cup {None} : seat' = z \/ seat' = FocusToplevel(z, t, win)
    BY <1>5, <2>1 DEF FrameEvent
  <2>4. /\ seat' \in SeatSet
        /\ seat'.override = z.override /\ seat'.grabs = z.grabs
        /\ seat'.uiCaptured = z.uiCaptured /\ seat'.pressed = z.pressed
    BY <2>2, <2>3, FocusType
  <2>5. Agrees(seat, win) => Agrees(seat', win)
    BY <2>2, <2>3, FocusAgrees
  <2>6. CapturedHoldsNothing => CapturedHoldsNothing'
    BY <2>2, <2>4 DEF CapturedHoldsNothing
  <2>7. UNCHANGED <<desktop, scene>> /\ seat'.pressed \subseteq seat.pressed
    BY <1>5, <2>2, <2>4 DEF FrameEvent
  <2>8. QED
    BY <1>4, <2>2, <2>4, <2>5, <2>6, <2>7
<1>6. CASE ReleaseAll
  <2>1. seat' = ReleaseAllKeys(seat) /\ UNCHANGED <<desktop, scene>>
    BY <1>6 DEF ReleaseAll
  <2>2. /\ seat' \in SeatSet
        /\ seat'.override = seat.override /\ seat'.grabs = seat.grabs
        /\ seat'.uiCaptured = seat.uiCaptured /\ seat'.pressed = {}
        /\ Agrees(seat, win) => Agrees(seat', win)
    BY <1>1, <2>1, ReleaseAllKeysAgrees
  <2>3. CapturedHoldsNothing => CapturedHoldsNothing'
    BY <2>2 DEF CapturedHoldsNothing
  <2>4. seat'.pressed \subseteq seat.pressed
    BY <2>2
  <2>5. QED
    BY <1>4, <2>1, <2>2, <2>3, <2>4
<1>7. QED
  BY <1>2, <1>3, <1>5, <1>6

\* Dismissal keeps the popups' shape; who stays on screen was not dismissed.
LEMMA DismissedPopups ==
    ASSUME popup \in [Popups -> PopupSet], NEW D
    PROVE  /\ Dismissed(D) \in [Popups -> PopupSet]
           /\ \A p \in Popups : /\ p \notin D => Dismissed(D)[p] = popup[p]
                                /\ Dismissed(D)[p].up = popup[p].up
<1>1. ASSUME NEW p \in Popups
      PROVE  /\ [popup[p] EXCEPT !.st = "dismissed", !.grab = FALSE] \in PopupSet
             /\ [popup[p] EXCEPT !.st = "dismissed", !.grab = FALSE].up = popup[p].up
             /\ popup[p] \in PopupSet
  BY DEF PopupSet
<1>2. QED
  BY <1>1 DEF Dismissed

\* The popups that stay on the grab stack when those of D go stay on screen.
LEMMA GrabsLeft ==
    ASSUME SceneOK, GrabsOnScreen, NEW D, NEW p \in Listed(seat.grabs) \ GoneWith(D)
    PROVE  p \in Popups /\ p \notin D /\ Dismissed(D)[p].st = "mapped" /\ Dismissed(D)[p].grab
<1>1. p \in Popups /\ popup[p].st = "mapped" /\ popup[p].grab
  BY DEF GrabsOnScreen, OnScreen
<1>2. p \notin D
  BY <1>1 DEF GoneWith
<1>3. Dismissed(D)[p] = popup[p]
  BY <1>1, <1>2, DismissedPopups DEF SceneOK
<1>4. QED
  BY <1>1, <1>2, <1>3

LEMMA UnparentedPopups ==
    ASSUME NEW q \in [Popups -> PopupSet], NEW s
    PROVE  /\ Unparented(q, s) \in [Popups -> PopupSet]
           /\ \A p \in Popups : /\ Unparented(q, s)[p].st = q[p].st
                                /\ Unparented(q, s)[p].grab = q[p].grab
<1>1. ASSUME NEW p \in Popups
      PROVE  /\ [q[p] EXCEPT !.up = None] \in PopupSet
             /\ [q[p] EXCEPT !.up = None].st = q[p].st
             /\ [q[p] EXCEPT !.up = None].grab = q[p].grab
             /\ q[p] \in PopupSet
  BY DEF PopupSet
<1>2. QED
  BY <1>1 DEF Unparented

LEMMA PlacesType ==
    ASSUME popup \in [Popups -> PopupSet]
    PROVE  Places \in [Popups -> Nat]
BY DEF Places, PopupSet

LEMMA PopupSteps ==
    ASSUME TypeOK, NEW p \in Popups, PopupRequest(p)
    PROVE  Keeps
<1>1. DesktopOK /\ SceneOK /\ seat \in SeatSet
  BY TypeParts
<1>2. popup \in [Popups -> PopupSet] /\ popup[p] \in PopupSet
  BY <1>1 DEF SceneOK
<1>3. /\ UNCHANGED <<desktop, win, minimized, inhibitors>>
      /\ DesktopOK'
  BY <1>1 DEF PopupRequest, CreatePopup, GrabPopup, MapPopup, UnmapPopup, DestroyPopup,
              DesktopOK, desktop
<1>4. ASSUME popup' \in [Popups -> PopupSet]
      PROVE  SceneOK'
  BY <1>1, <1>3, <1>4 DEF SceneOK, WinSet, WindowStates, PopupSet
<1>5. ASSUME UNCHANGED seat, ASSUME GrabsOnScreen PROVE GrabsOnScreen'
      PROVE  Good => Good'
  BY <1>3, <1>5 DEF Good, NoBare, Agrees, Target, SurfaceOf, Told
<1>6. ASSUME Agrees(seat', win), ASSUME GrabsOnScreen PROVE GrabsOnScreen'
      PROVE  Good => Good'
  BY <1>3, <1>6 DEF Good, NoBare, Agrees, Target, SurfaceOf, Told
<1>7. CASE CreatePopup(p)
  <2>1. Cardinality(Listed(Places)) \in Nat
    BY FS_Subset, FS_CardinalityType, SurfacesAssumption, Listed(Places) \in SUBSET Popups DEF Listed
  <2>2. PICK n \in Nat : n = Cardinality(Listed(Places)) + 1
    BY <2>1
  <2>3. Parent[p] \in Surfaces \cup {None}
    BY SurfacesAssumption
  <2>4. [st |-> "new", grab |-> FALSE, up |-> Parent[p], place |-> n] \in PopupSet
    BY <2>3 DEF PopupSet
  <2>5. popup' \in [Popups -> PopupSet] /\ UNCHANGED seat
    BY <1>2, <1>7, <2>2, <2>4 DEF CreatePopup
  <2>6. \A q \in OnScreen : q # p /\ popup'[q] = popup[q]
    BY <1>2, <1>7 DEF CreatePopup, OnScreen
  <2>7. ASSUME GrabsOnScreen PROVE GrabsOnScreen'
    BY <2>5, <2>6, <2>7 DEF GrabsOnScreen, OnScreen, Listed
  <2>8. QED
    BY <1>1, <1>3, <1>4, <1>5, <2>5, <2>7, KeylessStep
<1>8. CASE GrabPopup(p)
  <2>1. /\ [popup[p] EXCEPT !.st = "dismissed"] \in PopupSet
        /\ [popup[p] EXCEPT !.grab = TRUE] \in PopupSet
    BY <1>2 DEF PopupSet
  <2>2. /\ \/ popup' = [popup EXCEPT ![p] = [popup[p] EXCEPT !.st = "dismissed"]]
           \/ popup' = [popup EXCEPT ![p] = [popup[p] EXCEPT !.grab = TRUE]]
        /\ popup[p].st = "new" /\ UNCHANGED seat
    BY <1>8 DEF GrabPopup
  <2>3. popup' \in [Popups -> PopupSet]
    BY <1>2, <2>1, <2>2
  <2>4. \A q \in OnScreen : q # p /\ popup'[q] = popup[q]
    BY <1>2, <2>2 DEF OnScreen
  <2>5. ASSUME GrabsOnScreen PROVE GrabsOnScreen'
    BY <2>2, <2>4, <2>5 DEF GrabsOnScreen, OnScreen, Listed
  <2>6. QED
    BY <1>1, <1>3, <1>4, <1>5, <2>2, <2>3, <2>5, KeylessStep
<1>9. CASE MapPopup(p)
  <2>1. PICK q \in PopupSet : q = [popup[p] EXCEPT !.st = "mapped"]
    BY <1>2 DEF PopupSet
  <2>2. q.st = "mapped" /\ q.grab = popup[p].grab
    BY <1>2, <2>1 DEF PopupSet
  <2>3. popup' = [popup EXCEPT ![p] = q] /\ popup[p].st = "new"
    BY <1>9, <2>1 DEF MapPopup
  <2>4. popup' \in [Popups -> PopupSet]
    BY <1>2, <2>3
  <2>5. \A r \in OnScreen : r # p /\ popup'[r] = popup[r]
    BY <1>2, <2>3 DEF OnScreen
  <2>6. CASE popup[p].grab = FALSE
    <3>1. UNCHANGED seat
      BY <1>9, <2>6 DEF MapPopup
    <3>2. ASSUME GrabsOnScreen PROVE GrabsOnScreen'
      BY <2>5, <3>1, <3>2 DEF GrabsOnScreen, OnScreen, Listed
    <3>3. QED
      BY <1>1, <1>3, <1>4, <1>5, <2>4, <3>1, <3>2, KeylessStep
  <2>7. CASE popup[p].grab = TRUE
    <3>1. seat' = PopupGrabStart(seat, p)
      BY <1>9, <2>7 DEF MapPopup
    <3>2. /\ seat' \in SeatSet
          /\ seat'.override = p /\ seat'.grabs = Pushed(seat.grabs, p)
          /\ seat'.pressed = seat.pressed /\ seat'.uiCaptured = seat.uiCaptured
          /\ seat.told = Told(Target(seat, win), seat.pressed) => Agrees(seat', win)
      BY <1>1, <3>1, PopupGrabStartAgrees
    <3>3. ASSUME GrabsOnScreen PROVE GrabsOnScreen'
      <4>1. p \notin Listed(seat.grabs)
        BY <2>5, <3>3 DEF GrabsOnScreen
      <4>2. Listed(seat'.grabs) = Listed(seat.grabs) \cup {p}
        BY <1>1, <3>2, <4>1, PushedPlaces, PlacesAreNumbers DEF SeatSet
      <4>3. popup'[p].st = "mapped" /\ popup'[p].grab
        BY <1>2, <2>2, <2>3, <2>7
      <4>4. OnScreen' = {r \in Popups : popup'[r].st = "mapped" /\ popup'[r].grab}
        BY DEF OnScreen
      <4>5. Listed(seat.grabs) \subseteq OnScreen'
        BY <2>5, <3>3, <4>4 DEF GrabsOnScreen, OnScreen
      <4>6. Listed(seat.grabs)' = Listed(seat'.grabs)
        BY DEF Listed
      <4>7. QED
        BY <3>2, <4>2, <4>3, <4>4, <4>5, <4>6 DEF GrabsOnScreen
    <3>4. Good => Good'
      BY <1>6, <3>2, <3>3 DEF Good, Agrees
    <3>5. QED
      BY <1>1, <1>3, <1>4, <2>4, <3>2, <3>4, KeylessStep
  <2>8. QED
    BY <1>2, <2>6, <2>7 DEF PopupSet
<1>10. CASE UnmapPopup(p)
  <2> DEFINE D == OpenedOn(p)
  <2> HIDE DEF D
  <2>1. /\ popup' = [Dismissed(D) EXCEPT ![p] = [Dismissed(D)[p] EXCEPT !.st = "new"]]
        /\ seat' = GrabGone(seat, GoneWith(D), win)
        /\ popup[p].grab => p \in NullGrabs
    BY <1>10 DEF UnmapPopup, D
  <2>2. /\ Dismissed(D) \in [Popups -> PopupSet]
        /\ \A q \in Popups : q \notin D => Dismissed(D)[q] = popup[q]
    BY <1>2, DismissedPopups
  <2>3. [Dismissed(D)[p] EXCEPT !.st = "new"] \in PopupSet
    BY <2>2 DEF PopupSet
  <2>4. popup' \in [Popups -> PopupSet]
    BY <2>1, <2>2, <2>3
  <2>5. /\ seat' \in SeatSet
        /\ seat'.pressed = seat.pressed /\ seat'.uiCaptured = seat.uiCaptured
        /\ Listed(seat'.grabs) = Listed(seat.grabs) \ GoneWith(D)
    BY <1>1, <2>1, GrabGoneType
  <2>6. ASSUME Restricted, Good PROVE Good'
    <3>1. GrabsOnScreen /\ Agrees(seat, win)
      BY <2>6 DEF Good
    <3>2. Agrees(seat', win) /\ (seat'.override = None \/ seat'.override \in Listed(seat'.grabs))
      BY <1>1, <2>1, <3>1, GrabGoneAgrees DEF GrabsOnScreen
    <3>3. p \notin Listed(seat.grabs)
      BY <2>1, <2>6, <3>1 DEF GrabsOnScreen, OnScreen, Restricted
    <3>4. \A q \in Listed(seat'.grabs) : q \in Popups /\ popup'[q].st = "mapped" /\ popup'[q].grab
      <4>1. TAKE q \in Listed(seat'.grabs)
      <4>2. q # p /\ q \in Popups /\ Dismissed(D)[q].st = "mapped" /\ Dismissed(D)[q].grab
        BY <1>1, <2>5, <3>1, <3>3, <4>1, GrabsLeft
      <4>3. QED
        BY <2>1, <2>2, <4>2
    <3>5. GrabsOnScreen'
      BY <3>2, <3>4 DEF GrabsOnScreen, OnScreen, Listed
    <3>6. QED
      BY <1>6, <2>6, <3>2, <3>5
  <2>7. QED
    BY <1>1, <1>3, <1>4, <2>4, <2>5, <2>6, KeylessStep
<1>11. CASE DestroyPopup(p)
  <2> DEFINE D == OpenedOn(p)
  <2> DEFINE left == [Unparented(Dismissed(D), p) EXCEPT ![p] = NoPopup]
  <2> DEFINE place == Unlinked(Places, {p})
  <2>1. /\ popup' = [q \in Popups |-> [left[q] EXCEPT !.place = place[q]]]
        /\ seat' = Forgotten(GrabGone(seat, GoneWith(D) \cup {p}, win), p)
    BY <1>11 DEF DestroyPopup
  <2> HIDE DEF D
  <2>2. /\ Dismissed(D) \in [Popups -> PopupSet]
        /\ \A q \in Popups : q \notin D => Dismissed(D)[q] = popup[q]
    BY <1>2, DismissedPopups
  <2>3. /\ Unparented(Dismissed(D), p) \in [Popups -> PopupSet]
        /\ \A q \in Popups : /\ Unparented(Dismissed(D), p)[q].st = Dismissed(D)[q].st
                             /\ Unparented(Dismissed(D), p)[q].grab = Dismissed(D)[q].grab
    BY <2>2, UnparentedPopups
  <2>4. NoPopup \in PopupSet
    BY DEF NoPopup, PopupSet
  <2>5. /\ left \in [Popups -> PopupSet]
        /\ \A q \in Popups \ {p} : /\ left[q].st = Dismissed(D)[q].st
                                   /\ left[q].grab = Dismissed(D)[q].grab
    BY <2>3, <2>4
  <2>6. place \in [Popups -> Nat]
    BY <1>2, PlacesType, UnlinkedPlaces, PlacesAreNumbers
  <2> HIDE DEF left, place
  <2>7. ASSUME NEW q \in Popups
        PROVE  /\ popup'[q] \in PopupSet
               /\ popup'[q].st = left[q].st /\ popup'[q].grab = left[q].grab
    BY <2>1, <2>5, <2>6 DEF PopupSet
  <2>8. popup' \in [Popups -> PopupSet]
    BY <2>1, <2>7
  <2>9. PICK g : g = GrabGone(seat, GoneWith(D) \cup {p}, win)
    OBVIOUS
  <2>10. /\ g \in SeatSet
         /\ g.pressed = seat.pressed /\ g.uiCaptured = seat.uiCaptured
         /\ Listed(g.grabs) = Listed(seat.grabs) \ (GoneWith(D) \cup {p})
    BY <1>1, <2>9, GrabGoneType
  <2>11. p \in Surfaces
    BY DEF Surfaces
  <2>12. /\ seat' \in SeatSet
         /\ seat'.focus = g.focus /\ seat'.override = g.override /\ seat'.grabs = g.grabs
         /\ seat'.pressed = seat.pressed /\ seat'.uiCaptured = seat.uiCaptured
         /\ seat'.inhibited = g.inhibited
         /\ \A t \in Targets : \A keys \in SUBSET Keys :
              g.told = Told(t, keys) => seat'.told = Told(IF t = p THEN None ELSE t, keys)
    <3>1. seat' = Forgotten(g, p)
      BY <2>1, <2>9
    <3>2. QED
      BY <2>10, <2>11, <3>1, ForgottenAgrees
  <2>13. ASSUME Restricted, Good PROVE Good'
    <3>1. GrabsOnScreen /\ Agrees(seat, win)
      BY <2>13 DEF Good
    <3>2. Agrees(g, win) /\ (g.override = None \/ g.override \in Listed(g.grabs))
      BY <1>1, <2>9, <3>1, GrabGoneAgrees DEF GrabsOnScreen
    <3>3. Target(g, win) \in Targets /\ Target(g, win) # p
      BY <2>10, <3>2, TargetType, SurfacesAssumption DEF Target, SurfaceOf, SeatSet, Surfaces
    <3>4. seat'.told = g.told /\ Target(seat', win) = Target(g, win)
      BY <2>10, <2>12, <3>2, <3>3 DEF Agrees, Target, SeatSet
    <3>5. Agrees(seat', win)
      BY <2>10, <2>12, <3>2, <3>4 DEF Agrees
    <3>6. \A q \in Listed(seat'.grabs) : q \in Popups /\ popup'[q].st = "mapped" /\ popup'[q].grab
      <4>1. TAKE q \in Listed(seat'.grabs)
      <4>2. q # p /\ q \in Popups /\ Dismissed(D)[q].st = "mapped" /\ Dismissed(D)[q].grab
        BY <1>1, <2>10, <2>12, <3>1, <4>1, GrabsLeft
      <4>3. QED
        BY <2>5, <2>7, <4>2
    <3>7. GrabsOnScreen'
      BY <2>12, <3>2, <3>6 DEF GrabsOnScreen, OnScreen, Listed
    <3>8. QED
      BY <1>6, <2>13, <3>5, <3>7
  <2>14. QED
    BY <1>1, <1>3, <1>4, <2>8, <2>12, <2>13, KeylessStep
<1>12. QED
  BY <1>7, <1>8, <1>9, <1>10, <1>11 DEF PopupRequest

LEMMA HeirsType ==
    ASSUME NEW w, NEW W, NEW h \in Heirs(w, W)
    PROVE  h \in (Windows \ {w}) \cup {None}
BY DEF Heirs

LEMMA DestroySurfaceStep ==
    ASSUME TypeOK, NEW w \in Windows, DestroySurface(w)
    PROVE  Keeps
<1>1. DesktopOK /\ SceneOK /\ seat \in SeatSet
  BY TypeParts
<1> DEFINE D == OpenedOn(w)
<1> DEFINE g == GrabGone(seat, GoneWith(D), win')
<1> DEFINE z == Forgotten(g, w)
<1>2. /\ win[w] \in {"mapped", "bare"}
      /\ win' = [win EXCEPT ![w] = IF win[w] = "mapped" THEN "orphan" ELSE "gone"]
      /\ inhibitors' = inhibitors \ {w}
      /\ popup' = Unparented(Dismissed(D), w)
      /\ seat' = IF w \in inhibitors THEN UpdateShortcutInhibit(z, win', inhibitors') ELSE z
      /\ UNCHANGED <<desktop, minimized>>
  BY DEF DestroySurface, KbInhibitSurfaceGone
<1> HIDE DEF D
<1>3. /\ Dismissed(D) \in [Popups -> PopupSet]
      /\ popup' \in [Popups -> PopupSet]
      /\ \A q \in Popups : /\ popup'[q].st = Dismissed(D)[q].st
                           /\ popup'[q].grab = Dismissed(D)[q].grab
  BY <1>1, <1>2, DismissedPopups, UnparentedPopups DEF SceneOK
<1>4. DesktopOK' /\ SceneOK'
  BY <1>1, <1>2, <1>3 DEF DesktopOK, desktop, SceneOK, WinSet, WindowStates
<1>5. /\ g \in SeatSet
      /\ g.focus = seat.focus /\ Listed(g.grabs) = Listed(seat.grabs) \ GoneWith(D)
      /\ g.pressed = seat.pressed /\ g.uiCaptured = seat.uiCaptured
      /\ seat.override \notin GoneWith(D) \cap Listed(seat.grabs) =>
           g.override = seat.override /\ g.told = seat.told /\ g.inhibited = seat.inhibited
      /\ seat.override \in GoneWith(D) \cap Listed(seat.grabs) =>
           /\ g.override = None \/ g.override \in Listed(seat.grabs) \ GoneWith(D)
           /\ seat.told = Told(seat.override, seat.pressed) => Agrees(g, win')
  BY <1>1, GrabGoneType
<1> HIDE DEF g
<1>6. w \in Surfaces
  BY DEF Surfaces
<1>7. /\ z \in SeatSet
      /\ z.focus = g.focus /\ z.override = g.override /\ z.grabs = g.grabs
      /\ z.uiCaptured = g.uiCaptured /\ z.pressed = g.pressed /\ z.inhibited = g.inhibited
      /\ \A t \in Targets : \A keys \in SUBSET Keys :
            g.told = Told(t, keys) => z.told = Told(IF t = w THEN None ELSE t, keys)
  BY <1>5, <1>6, ForgottenAgrees
<1> HIDE DEF z
<1>8. /\ seat' \in SeatSet
      /\ seat'.focus = g.focus /\ seat'.override = g.override /\ seat'.grabs = g.grabs
      /\ seat'.uiCaptured = seat.uiCaptured /\ seat'.pressed = seat.pressed
      /\ seat'.told = z.told
      /\ w \in inhibitors => seat'.inhibited = (Target(z, win') \in inhibitors')
      /\ w \notin inhibitors => seat'.inhibited = g.inhibited
  <2>1. CASE w \in inhibitors
    <3>1. seat' = UpdateShortcutInhibit(z, win', inhibitors')
      BY <1>2, <2>1
    <3>2. QED
      BY <1>5, <1>7, <2>1, <3>1, UpdateType
  <2>2. CASE w \notin inhibitors
    BY <1>2, <1>5, <1>7, <2>2
  <2>3. QED
    BY <2>1, <2>2
<1>9. ASSUME Restricted, Good PROVE Good'
  <2>1. GrabsOnScreen /\ Agrees(seat, win) /\ NoBare
    BY <1>9 DEF Good
  <2>2. win[w] = "mapped" /\ win'[w] = "orphan"
    BY <1>1, <1>2, <2>1 DEF NoBare, SceneOK, WinSet
  <2>3. \A v \in Windows : v # w => win'[v] = win[v]
    BY <1>1, <1>2 DEF SceneOK, WinSet
  <2>4. Target(z, win') = Target(g, win') /\ Target(seat', win') = Target(g, win')
    BY <1>5, <1>7, <1>8 DEF Target
  <2>5. Target(g, win') \in Targets /\ Target(seat, win) \in Targets /\ seat.pressed \in SUBSET Keys
    BY <1>1, <1>5, TargetType DEF SeatSet
  <2>6. g.override # w /\ seat.override # w
    BY <1>1, <1>5, SurfacesAssumption DEF SeatSet, Surfaces
  <2>7. Target(g, win') # w
    BY <2>2, <2>6, SurfacesAssumption DEF Target, SurfaceOf, Surfaces
  <2>8. /\ seat'.told = Told(Target(g, win'), seat.pressed)
        /\ w \notin inhibitors => g.inhibited = (Target(g, win') \in inhibitors')
    <3>1. CASE seat.override \in GoneWith(D) \cap Listed(seat.grabs)
      <4>1. Target(seat, win) = seat.override
        BY <3>1, SurfacesAssumption DEF Target, Listed, Surfaces
      <4>2. g.told = Told(Target(g, win'), seat.pressed)
            /\ g.inhibited = (Target(g, win') \in inhibitors)
        BY <1>5, <2>1, <3>1, <4>1 DEF Agrees
      <4>3. w \notin inhibitors => inhibitors' = inhibitors
        BY <1>2
      <4>4. QED
        BY <1>7, <1>8, <2>5, <2>7, <4>2, <4>3
    <3>2. CASE seat.override \notin GoneWith(D) \cap Listed(seat.grabs)
      <4>1. /\ g.told = Told(Target(seat, win), seat.pressed)
            /\ g.inhibited = (Target(seat, win) \in inhibitors)
            /\ g.override = seat.override
        BY <1>5, <2>1, <3>2 DEF Agrees
      <4>2. Target(g, win') = IF Target(seat, win) = w THEN None ELSE Target(seat, win)
        <5>1. CASE seat.override # None
          BY <2>6, <4>1, <5>1 DEF Target
        <5>2. CASE seat.override = None /\ seat.focus = w
          BY <1>5, <1>6, <2>2, <4>1, <5>2, SurfacesAssumption DEF Target, SurfaceOf
        <5>3. CASE seat.override = None /\ seat.focus # w
          BY <1>1, <1>5, <1>6, <2>3, <4>1, <5>3, SurfacesAssumption
             DEF Target, SurfaceOf, SeatSet
        <5>4. QED
          BY <5>1, <5>2, <5>3
      <4>3. None \notin inhibitors
        BY <1>1, SurfacesAssumption DEF SceneOK, Surfaces
      <4>4. seat'.told = Told(Target(g, win'), seat.pressed)
        BY <1>7, <1>8, <2>5, <4>1, <4>2
      <4>5. ASSUME w \notin inhibitors
            PROVE  g.inhibited = (Target(g, win') \in inhibitors')
        <5>1. inhibitors' = inhibitors
          BY <1>2, <4>5
        <5>2. CASE Target(seat, win) = w
          BY <4>1, <4>2, <4>3, <4>5, <5>1, <5>2
        <5>3. CASE Target(seat, win) # w
          BY <4>1, <4>2, <5>1, <5>3
        <5>4. QED
          BY <5>2, <5>3
      <4>6. QED
        BY <4>4, <4>5
    <3>3. QED
      BY <3>1, <3>2
  <2>9. Agrees(seat, win)'
    <3>1. seat'.told = Told(Target(seat', win'), seat'.pressed)
      BY <1>8, <2>4, <2>8
    <3>2. CASE w \in inhibitors
      BY <1>8, <2>4, <3>1, <3>2 DEF Agrees, Told, Target, SurfaceOf
    <3>3. CASE w \notin inhibitors
      BY <1>8, <2>4, <2>8, <3>1, <3>3 DEF Agrees, Told, Target, SurfaceOf
    <3>4. QED
      BY <3>2, <3>3
  <2>10. \A q \in Listed(seat'.grabs) : q \in Popups /\ popup'[q].st = "mapped" /\ popup'[q].grab
    BY <1>1, <1>3, <1>5, <1>8, <2>1, GrabsLeft
  <2>11. seat'.override = None \/ seat'.override \in Listed(seat'.grabs)
    BY <1>5, <1>8, <2>1 DEF GrabsOnScreen
  <2>12. GrabsOnScreen'
    BY <2>10, <2>11 DEF GrabsOnScreen, OnScreen, Listed
  <2>13. NoBare'
    BY <2>1, <2>2, <2>3 DEF NoBare
  <2>14. QED
    BY <2>9, <2>12, <2>13 DEF Good
<1>10. QED
  BY <1>4, <1>8, <1>9, KeylessStep

LEMMA DestroyWindowStep ==
    ASSUME TypeOK, NEW w \in Windows, DestroyWindow(w)
    PROVE  Keeps
<1>1. DesktopOK /\ SceneOK /\ seat \in SeatSet
  BY TypeParts
<1> DEFINE D == IF win'[w] = "gone" THEN OpenedOn(w) ELSE {}
<1> DEFINE y == [seat EXCEPT !.focus = None]
<1>2. PICK h \in Heirs(w, win') :
        LET x == IF seat.focus = w THEN FocusToplevel(y, h, win') ELSE seat
            z == GrabGone(x, GoneWith(D), win')
        IN  /\ seat' = UpdateShortcutInhibit(IF win'[w] = "gone" THEN Forgotten(z, w) ELSE z,
                                             win', inhibitors')
            /\ popup' = IF win'[w] = "gone" THEN Unparented(Dismissed(D), w) ELSE popup
  BY DEF DestroyWindow
<1> DEFINE x == IF seat.focus = w THEN FocusToplevel(y, h, win') ELSE seat
<1> DEFINE z == GrabGone(x, GoneWith(D), win')
<1> DEFINE f == IF win'[w] = "gone" THEN Forgotten(z, w) ELSE z
<1>3. /\ win[w] \in {"new", "mapped", "orphan"}
      /\ win' = [win EXCEPT ![w] = IF w \in Outlives /\ win[w] # "orphan" THEN "bare" ELSE "gone"]
      /\ minimized' = minimized \ {w}
      /\ inhibitors' = IF win'[w] = "gone" THEN inhibitors \ {w} ELSE inhibitors
      /\ UNCHANGED desktop
  BY DEF DestroyWindow, KbInhibitSurfaceGone
<1>4. /\ seat' = UpdateShortcutInhibit(f, win', inhibitors')
      /\ popup' = IF win'[w] = "gone" THEN Unparented(Dismissed(D), w) ELSE popup
  BY <1>2
<1>5. h \in (Windows \ {w}) \cup {None}
  BY HeirsType
<1> HIDE DEF D
<1>6. /\ Dismissed(D) \in [Popups -> PopupSet]
      /\ Unparented(Dismissed(D), w) \in [Popups -> PopupSet]
      /\ \A q \in Popups : /\ Unparented(Dismissed(D), w)[q].st = Dismissed(D)[q].st
                           /\ Unparented(Dismissed(D), w)[q].grab = Dismissed(D)[q].grab
  BY <1>1, DismissedPopups, UnparentedPopups DEF SceneOK
<1>7. popup' \in [Popups -> PopupSet]
  BY <1>1, <1>4, <1>6 DEF SceneOK
<1>8. win'[w] \in {"bare", "gone"} /\ win' \in WinSet /\ \A v \in Windows : v # w => win'[v] = win[v]
  BY <1>1, <1>3 DEF SceneOK, WinSet, WindowStates
<1>9. DesktopOK' /\ SceneOK'
  BY <1>1, <1>3, <1>7, <1>8 DEF DesktopOK, desktop, SceneOK, WinSet, WindowStates
<1>10. y \in SeatSet /\ y.focus = None /\ y.override = seat.override /\ y.grabs = seat.grabs
       /\ y.told = seat.told /\ y.pressed = seat.pressed /\ y.uiCaptured = seat.uiCaptured
  BY <1>1 DEF SeatSet
<1> HIDE DEF y
<1>11. /\ x \in SeatSet
       /\ x.focus # w
       /\ x.override = seat.override /\ x.grabs = seat.grabs
       /\ x.pressed = seat.pressed /\ x.uiCaptured = seat.uiCaptured
       /\ seat.override # None => x.told = seat.told
       /\ seat.focus # w => x = seat
       /\ seat.focus = w /\ seat.override = None =>
            x.focus = h /\ x.told = Entered(seat.told, SurfaceOf(h, win'), seat.pressed)
  <2>1. CASE seat.focus # w
    BY <1>1, <2>1, SurfacesAssumption DEF SeatSet, Surfaces
  <2>2. CASE seat.focus = w
    <3> DEFINE r == FocusToplevel(y, h, win')
    <3>1. x = r
      BY <2>2
    <3>2. /\ r \in SeatSet /\ r.focus = h
          /\ r.override = seat.override /\ r.grabs = seat.grabs
          /\ r.pressed = seat.pressed /\ r.uiCaptured = seat.uiCaptured
          /\ y.focus # h => r.told = IF y.override # None THEN y.told
                                     ELSE Entered(Left(y.told, SurfaceOf(y.focus, win')),
                                                  SurfaceOf(h, win'), y.pressed)
      BY <1>5, <1>10, FocusType
    <3>3. h = None => r = y
      BY <1>10 DEF FocusToplevel
    <3>4. Left(y.told, SurfaceOf(y.focus, win')) = seat.told
      BY <1>10 DEF Left, SurfaceOf
    <3>5. h # w
      BY <1>5, SurfacesAssumption DEF Surfaces
    <3> HIDE DEF r
    <3>6. CASE h = None
      BY <1>10, <2>2, <3>1, <3>2, <3>3, <3>5, <3>6 DEF Entered, SurfaceOf
    <3>7. CASE h # None
      BY <1>10, <2>2, <3>1, <3>2, <3>4, <3>5, <3>7
    <3>8. QED
      BY <3>6, <3>7
  <2>3. QED
    BY <2>1, <2>2
<1> HIDE DEF x
<1>12. /\ z \in SeatSet
       /\ z.focus = x.focus /\ Listed(z.grabs) = Listed(x.grabs) \ GoneWith(D)
       /\ z.pressed = x.pressed /\ z.uiCaptured = x.uiCaptured
       /\ x.override \notin GoneWith(D) \cap Listed(x.grabs) =>
            z.override = x.override /\ z.told = x.told /\ z.inhibited = x.inhibited
       /\ x.override \in GoneWith(D) \cap Listed(x.grabs) =>
            /\ z.override = None \/ z.override \in Listed(x.grabs) \ GoneWith(D)
            /\ x.told = Told(x.override, x.pressed) => Agrees(z, win')
  <2>1. x \in SeatSet
    BY <1>11
  <2>2. QED
    BY <2>1, GrabGoneType
<1> HIDE DEF z
<1>13. w \in Surfaces
  BY DEF Surfaces
<1>14. /\ f \in SeatSet
       /\ f.focus = z.focus /\ f.override = z.override /\ f.grabs = z.grabs
       /\ f.pressed = seat.pressed /\ f.uiCaptured = seat.uiCaptured
  BY <1>11, <1>12, <1>13, ForgottenAgrees
<1>15. win'[w] = "gone" => f = Forgotten(z, w)
  OBVIOUS
<1> HIDE DEF f
<1>16. /\ seat' \in SeatSet
       /\ seat'.focus = z.focus /\ seat'.override = z.override /\ seat'.grabs = z.grabs
       /\ seat'.pressed = seat.pressed /\ seat'.uiCaptured = seat.uiCaptured
       /\ seat'.told = f.told
       /\ seat'.inhibited = (Target(f, win') \in inhibitors')
  BY <1>4, <1>14, UpdateType
<1>17. ASSUME Restricted, Good PROVE Good'
  <2>1. GrabsOnScreen /\ Agrees(seat, win) /\ NoBare
    BY <1>17 DEF Good
  <2>2. win'[w] = "gone"
    BY <1>1, <1>3, <1>17 DEF Restricted, SceneOK, WinSet
  <2>3. Target(f, win') = Target(z, win') /\ Target(seat', win') = Target(z, win')
    BY <1>14, <1>16 DEF Target
  <2>4. seat.pressed \in SUBSET Keys /\ Target(z, win') \in Targets
    BY <1>1, <1>12, TargetType DEF SeatSet
  <2>5. z.focus # w /\ z.override # w
    BY <1>11, <1>12, SurfacesAssumption DEF SeatSet, Surfaces
  <2>6. Target(z, win') # w
    BY <1>13, <2>5, SurfacesAssumption DEF Target, SurfaceOf
  <2>7. ASSUME z.told = Told(Target(z, win'), seat.pressed)
        PROVE  f.told = Told(Target(z, win'), seat.pressed)
    BY <1>12, <1>13, <1>15, <2>2, <2>4, <2>6, <2>7, ForgottenAgrees
  <2>8. f.told = Told(Target(z, win'), seat.pressed)
    <3>1. CASE x.override \in GoneWith(D) \cap Listed(x.grabs)
      <4>1. x.override # None /\ Target(seat, win) = x.override
        BY <1>11, <3>1, SurfacesAssumption DEF Target, Listed, Surfaces
      <4>2. x.told = Told(x.override, x.pressed)
        BY <1>11, <2>1, <4>1 DEF Agrees
      <4>3. z.told = Told(Target(z, win'), seat.pressed)
        BY <1>11, <1>12, <3>1, <4>2 DEF Agrees
      <4>4. QED
        BY <2>7, <4>3
    <3>2. CASE x.override \notin GoneWith(D) \cap Listed(x.grabs) /\ seat.override # None
      <4>1. Target(seat, win) = seat.override /\ Target(z, win') = seat.override
        BY <1>11, <1>12, <3>2 DEF Target
      <4>2. z.told = Told(Target(z, win'), seat.pressed)
        BY <1>11, <1>12, <2>1, <3>2, <4>1 DEF Agrees
      <4>3. QED
        BY <2>7, <4>2
    <3>3. CASE x.override \notin GoneWith(D) \cap Listed(x.grabs) /\ seat.override = None
               /\ seat.focus # w
      <4>1. Target(z, win') = Target(seat, win)
        BY <1>1, <1>8, <1>11, <1>12, <1>13, <3>3, SurfacesAssumption
           DEF Target, SurfaceOf, SeatSet
      <4>2. z.told = Told(Target(z, win'), seat.pressed)
        BY <1>11, <1>12, <2>1, <3>3, <4>1 DEF Agrees
      <4>3. QED
        BY <2>7, <4>2
    <3>4. CASE x.override \notin GoneWith(D) \cap Listed(x.grabs) /\ seat.override = None
               /\ seat.focus = w
      <4>1. Target(z, win') = SurfaceOf(h, win')
        BY <1>11, <1>12, <3>4 DEF Target
      <4>2. Target(seat, win) \in {w, None}
        BY <3>4 DEF Target, SurfaceOf
      <4>3. z.told = Entered(Told(Target(seat, win), seat.pressed), Target(z, win'), seat.pressed)
        BY <1>11, <1>12, <2>1, <3>4, <4>1 DEF Agrees
      <4>4. QED
        BY <1>12, <1>13, <1>15, <2>2, <2>4, <2>6, <4>2, <4>3, HeirEntered
    <3>5. QED
      BY <3>1, <3>2, <3>3, <3>4
  <2>9. Agrees(seat, win)'
    <3>1. seat'.told = Told(Target(seat', win'), seat'.pressed)
      BY <1>16, <2>3, <2>8
    <3>2. seat'.inhibited = (Target(seat', win') \in inhibitors')
      BY <1>16, <2>3
    <3>3. QED
      BY <3>1, <3>2 DEF Agrees, Told, Target, SurfaceOf
  <2>10. popup' = Unparented(Dismissed(D), w)
    BY <1>4, <2>2
  <2>11. \A q \in Listed(seat'.grabs) : q \in Popups /\ popup'[q].st = "mapped" /\ popup'[q].grab
    BY <1>1, <1>6, <1>11, <1>12, <1>16, <2>1, <2>10, GrabsLeft
  <2>12. seat'.override = None \/ seat'.override \in Listed(seat'.grabs)
    BY <1>11, <1>12, <1>16, <2>1 DEF GrabsOnScreen
  <2>13. GrabsOnScreen'
    BY <2>11, <2>12 DEF GrabsOnScreen, OnScreen, Listed
  <2>14. NoBare'
    BY <1>8, <2>1, <2>2 DEF NoBare
  <2>15. QED
    BY <2>9, <2>13, <2>14 DEF Good
<1>18. QED
  BY <1>9, <1>16, <1>17, KeylessStep

\* The windows' requests other than destruction: the grabs on screen stay or are
\* dismissed with the window, and the focus moves by FocusToplevel.
LEMMA WindowSteps ==
    ASSUME TypeOK, NEW w \in Windows, WindowRequest(w)
    PROVE  Keeps
<1>1. DesktopOK /\ SceneOK /\ seat \in SeatSet
  BY TypeParts
<1>2. ASSUME MapWindow(w) \/ Activate(w) PROVE Keeps
  <2>1. /\ win' = [win EXCEPT ![w] = "mapped"] /\ win[w] \in {"new", "mapped"}
        /\ seat' = FocusToplevel(seat, w, win')
        /\ UNCHANGED <<desktop, minimized, popup, inhibitors>>
    <3>1. CASE MapWindow(w)
      BY <3>1 DEF MapWindow
    <3>2. CASE Activate(w)
      BY <1>1, <3>2 DEF Activate, scene, SceneOK, WinSet
    <3>3. QED
      BY <1>2, <3>1, <3>2
  <2>2. DesktopOK' /\ SceneOK'
    BY <1>1, <2>1 DEF DesktopOK, desktop, SceneOK, WinSet, WindowStates, PopupSet
  <2>3. /\ seat' \in SeatSet /\ seat'.override = seat.override /\ seat'.grabs = seat.grabs
        /\ seat'.pressed = seat.pressed /\ seat'.uiCaptured = seat.uiCaptured
    BY <1>1, <2>1, FocusType
  <2>4. ASSUME Good PROVE Good'
    <3>1. SurfaceOf(seat.focus, win') = SurfaceOf(seat.focus, win)
      BY <1>1, <2>1 DEF SurfaceOf, SceneOK, WinSet, SeatSet
    <3>2. Agrees(seat, win')
      BY <1>1, <2>4, <3>1, SameTarget DEF Good
    <3>3. Agrees(seat', win')
      BY <1>1, <2>1, <3>2, FocusAgrees
    <3>4. NoBare'
      BY <1>1, <2>1, <2>4 DEF Good, NoBare, SceneOK, WinSet
    <3>5. GrabsOnScreen'
      BY <2>1, <2>3, <2>4 DEF Good, GrabsOnScreen, OnScreen, Listed
    <3>6. QED
      BY <2>1, <3>3, <3>4, <3>5 DEF Good, Agrees, Target, SurfaceOf, Told
  <2>5. QED
    BY <2>2, <2>3, <2>4, KeylessStep
<1>3. ASSUME UnmapWindow(w) PROVE Keeps
  <2> DEFINE D == OpenedOn(w)
  <2> DEFINE z == GrabGone(seat, GoneWith(D), win')
  <2>1. /\ win' = [win EXCEPT ![w] = "new"] /\ win[w] = "mapped"
        /\ popup' = Dismissed(D)
        /\ \/ seat' = z
           \/ \E h \in Heirs(w, win') : seat' = FocusToplevel(z, h, win')
        /\ UNCHANGED <<desktop, minimized, inhibitors>>
    BY <1>3 DEF UnmapWindow
  <2>2. seat' = z \/ \E t \in Windows \cup {None} : seat' = FocusToplevel(z, t, win')
    BY <2>1, HeirsType
  <2> HIDE DEF D
  <2>3. /\ z \in SeatSet
        /\ z.focus = seat.focus /\ Listed(z.grabs) = Listed(seat.grabs) \ GoneWith(D)
        /\ z.pressed = seat.pressed /\ z.uiCaptured = seat.uiCaptured
    BY <1>1, GrabGoneType
  <2>4. ASSUME GrabsOnScreen, Agrees(seat, win')
        PROVE  Agrees(z, win') /\ (z.override = None \/ z.override \in Listed(z.grabs))
    BY <1>1, <2>4, GrabGoneAgrees DEF GrabsOnScreen
  <2> HIDE DEF z
  <2>5. /\ seat' \in SeatSet /\ seat'.override = z.override /\ seat'.grabs = z.grabs
        /\ seat'.pressed = seat.pressed /\ seat'.uiCaptured = seat.uiCaptured
        /\ Agrees(z, win') => Agrees(seat', win')
    BY <2>2, <2>3, FocusType, FocusAgrees
  <2>6. popup' \in [Popups -> PopupSet]
    BY <1>1, <2>1, DismissedPopups DEF SceneOK
  <2>7. DesktopOK' /\ SceneOK'
    BY <1>1, <2>1, <2>6 DEF DesktopOK, desktop, SceneOK, WinSet, WindowStates
  <2>8. ASSUME Good PROVE Good'
    <3>1. SurfaceOf(seat.focus, win') = SurfaceOf(seat.focus, win)
      BY <1>1, <2>1 DEF SurfaceOf, SceneOK, WinSet, SeatSet
    <3>2. Agrees(seat, win') /\ GrabsOnScreen
      BY <1>1, <2>8, <3>1, SameTarget DEF Good
    <3>3. Agrees(seat', win') /\ (z.override = None \/ z.override \in Listed(z.grabs))
      BY <2>4, <2>5, <3>2
    <3>4. NoBare'
      BY <1>1, <2>1, <2>8 DEF Good, NoBare, SceneOK, WinSet
    <3>5. \A q \in Listed(seat'.grabs) : q \in Popups /\ popup'[q].st = "mapped" /\ popup'[q].grab
      BY <1>1, <2>1, <2>3, <2>5, <3>2, GrabsLeft
    <3>6. GrabsOnScreen'
      BY <2>5, <3>3, <3>5 DEF GrabsOnScreen, OnScreen, Listed
    <3>7. QED
      BY <2>1, <3>3, <3>4, <3>6 DEF Good, Agrees, Target, SurfaceOf, Told
  <2>9. QED
    BY <2>5, <2>7, <2>8, KeylessStep
<1>4. ASSUME Minimize(w) PROVE Keeps
  <2>1. UNCHANGED <<desktop, win, popup, inhibitors, seat>> /\ minimized' \subseteq Windows
    BY <1>1, <1>4 DEF Minimize, SceneOK
  <2>2. DesktopOK' /\ SceneOK'
    BY <1>1, <2>1 DEF DesktopOK, desktop, SceneOK, WinSet, WindowStates, PopupSet
  <2>3. Good => Good'
    BY <2>1 DEF Good, NoBare, GrabsOnScreen, OnScreen, Agrees, Target, SurfaceOf, Told, Listed
  <2>4. QED
    BY <1>1, <2>1, <2>2, <2>3, KeylessStep
<1>5. ASSUME Inhibit(w) PROVE Keeps
  <2>1. /\ inhibitors' = IF w \in inhibitors THEN inhibitors \ {w} ELSE inhibitors \cup {w}
        /\ win[w] \in {"new", "mapped", "bare"}
        /\ seat' = UpdateShortcutInhibit(seat, win, inhibitors')
        /\ UNCHANGED <<desktop, win, minimized, popup>>
    BY <1>5 DEF Inhibit
  <2>2. DesktopOK' /\ SceneOK'
    BY <1>1, <2>1 DEF DesktopOK, desktop, SceneOK, WinSet, WindowStates, PopupSet
  <2>3. /\ seat' \in SeatSet /\ seat'.focus = seat.focus
        /\ seat'.override = seat.override /\ seat'.grabs = seat.grabs
        /\ seat'.pressed = seat.pressed /\ seat'.uiCaptured = seat.uiCaptured
        /\ seat'.told = seat.told
        /\ seat'.inhibited = (Target(seat, win) \in inhibitors')
    BY <1>1, <2>1, UpdateType
  <2>4. ASSUME Good PROVE Good'
    <3>1. Target(seat', win') = Target(seat, win)
      BY <2>1, <2>3 DEF Target
    <3>2. NoBare' /\ GrabsOnScreen'
      BY <2>1, <2>3, <2>4 DEF Good, NoBare, GrabsOnScreen, OnScreen, Listed
    <3>3. seat'.told = Told(Target(seat', win'), seat'.pressed)
      BY <2>3, <2>4, <3>1 DEF Good, Agrees
    <3>4. seat'.inhibited = (Target(seat', win') \in inhibitors')
      BY <2>3, <3>1
    <3>5. QED
      BY <3>2, <3>3, <3>4 DEF Good, Agrees, Told, Target, SurfaceOf
  <2>5. QED
    BY <2>2, <2>3, <2>4, KeylessStep
<1>6. QED
  BY <1>2, <1>3, <1>4, <1>5, DestroyWindowStep, DestroySurfaceStep DEF WindowRequest

\* A press dismisses newer grabs and then moves the focus to its window.
LEMMA PressStep ==
    ASSUME TypeOK, NEW s \in Surfaces \cup {None}, Press(s)
    PROVE  Keeps
<1>1. DesktopOK /\ SceneOK /\ seat \in SeatSet
  BY TypeParts
<1>2. PICK D :
        /\ popup' = Dismissed(D)
        /\ seat' = IF s \in Windows THEN FocusToplevel(GrabGone(seat, GoneWith(D), win), s, win)
                   ELSE GrabGone(seat, GoneWith(D), win)
        /\ UNCHANGED <<desktop, win, minimized, inhibitors>>
  BY Zenon DEF Press
<1> DEFINE z == GrabGone(seat, GoneWith(D), win)
<1>3. seat' = z \/ \E t \in Windows \cup {None} : seat' = FocusToplevel(z, t, win)
  BY <1>2
<1>4. /\ z \in SeatSet
      /\ z.focus = seat.focus /\ Listed(z.grabs) = Listed(seat.grabs) \ GoneWith(D)
      /\ z.pressed = seat.pressed /\ z.uiCaptured = seat.uiCaptured
  BY <1>1, GrabGoneType
<1>5. ASSUME GrabsOnScreen, Agrees(seat, win)
      PROVE  Agrees(z, win) /\ (z.override = None \/ z.override \in Listed(z.grabs))
  BY <1>1, <1>5, GrabGoneAgrees DEF GrabsOnScreen
<1> HIDE DEF z
<1>6. /\ seat' \in SeatSet /\ seat'.override = z.override /\ seat'.grabs = z.grabs
      /\ seat'.pressed = seat.pressed /\ seat'.uiCaptured = seat.uiCaptured
      /\ Agrees(z, win) => Agrees(seat', win)
  BY <1>3, <1>4, FocusType, FocusAgrees
<1>7. popup' \in [Popups -> PopupSet]
  BY <1>1, <1>2, DismissedPopups DEF SceneOK
<1>8. DesktopOK' /\ SceneOK'
  BY <1>1, <1>2, <1>7 DEF DesktopOK, desktop, SceneOK, WinSet, WindowStates
<1>9. ASSUME Good PROVE Good'
  <2>1. Agrees(seat', win) /\ (z.override = None \/ z.override \in Listed(z.grabs))
    BY <1>5, <1>6, <1>9 DEF Good
  <2>2. \A q \in Listed(seat'.grabs) : q \in Popups /\ popup'[q].st = "mapped" /\ popup'[q].grab
    BY <1>1, <1>2, <1>4, <1>6, <1>9, GrabsLeft DEF Good
  <2>3. GrabsOnScreen'
    BY <1>6, <2>1, <2>2 DEF GrabsOnScreen, OnScreen, Listed
  <2>4. NoBare'
    BY <1>2, <1>9 DEF Good, NoBare
  <2>5. QED
    BY <1>2, <2>1, <2>3, <2>4 DEF Good, Agrees, Target, SurfaceOf, Told
<1>10. QED
  BY <1>6, <1>8, <1>9, KeylessStep

\* A keyboard bound while no popup grabs is told what its client already knows.
LEMMA BindKeyboardStep ==
    ASSUME TypeOK, NEW c \in Clients, BindKeyboard(c)
    PROVE  Keeps
<1>1. DesktopOK /\ SceneOK /\ seat \in SeatSet
  BY TypeParts
<1>2. PICK s \in Targets : s = SurfaceOf(seat.focus, win)
  BY <1>1 DEF SeatSet, SurfaceOf, Targets, Surfaces
<1>3. seat' = IF s # None /\ Owner[s] = c
              THEN [seat EXCEPT !.told[c] = [in |-> @.in \cup {s}, keys |-> seat.pressed]]
              ELSE seat
  BY <1>2 DEF BindKeyboard
<1>4. UNCHANGED <<desktop, scene>> /\ (seat.override # None => LateUnderGrab)
  BY DEF BindKeyboard
<1>5. DesktopOK' /\ SceneOK'
  BY <1>1, <1>4 DEF DesktopOK, desktop, SceneOK, scene, WinSet, WindowStates, PopupSet
<1>6. ASSUME seat' = seat PROVE Keeps
  <2>1. Good => Good'
    BY <1>4, <1>6 DEF Good, NoBare, GrabsOnScreen, OnScreen, Agrees, Target, SurfaceOf, scene, Told, Listed
  <2>2. QED
    BY <1>1, <1>5, <1>6, <2>1, KeylessStep
<1>7. CASE s # None /\ Owner[s] = c
  <2>1. seat.told \in ToldSet /\ seat.told[c] \in [in : SUBSET Surfaces, keys : SUBSET Keys]
        /\ s \in Surfaces
    BY <1>1, <1>2, <1>7, OwnerType DEF SeatSet, ToldSet
  <2>2. PICK e \in [in : SUBSET Surfaces, keys : SUBSET Keys] :
          e = [in |-> seat.told[c].in \cup {s}, keys |-> seat.pressed]
    BY <1>1, <2>1 DEF SeatSet
  <2>3. PICK told \in ToldSet : told = [seat.told EXCEPT ![c] = e]
    BY <2>1, <2>2 DEF ToldSet
  <2>4. seat' = [seat EXCEPT !.told = told]
    BY <1>3, <1>7, <2>2, <2>3, Zenon
  <2>5. /\ seat' \in SeatSet /\ seat'.focus = seat.focus /\ seat'.override = seat.override
        /\ seat'.grabs = seat.grabs /\ seat'.pressed = seat.pressed
        /\ seat'.uiCaptured = seat.uiCaptured /\ seat'.inhibited = seat.inhibited
        /\ seat'.told = told
    BY <1>1, <2>3, <2>4 DEF SeatSet
  <2>6. ASSUME Restricted, Good PROVE Good'
    <3>1. seat.override = None
      BY <1>4, <2>6 DEF Restricted
    <3>2. Target(seat, win) = s
      BY <1>2, <3>1 DEF Target
    <3>3. seat.told[c] = [in |-> {s}, keys |-> seat.pressed]
      BY <1>7, <2>6, <3>2 DEF Good, Agrees, Told
    <3>4. e = seat.told[c]
      BY <2>2, <3>3
    <3>5. told = seat.told
      BY <2>1, <2>3, <3>4 DEF ToldSet
    <3>6. seat' = seat
      BY <1>1, <2>4, <3>5 DEF SeatSet
    <3>7. QED
      BY <1>4, <2>6, <3>6 DEF Good, NoBare, GrabsOnScreen, OnScreen, Agrees, Target, SurfaceOf, scene,
                               Told, Listed
  <2>7. QED
    BY <1>5, <2>5, <2>6, KeylessStep
<1>8. CASE ~(s # None /\ Owner[s] = c)
  BY <1>3, <1>6, <1>8
<1>9. QED
  BY <1>7, <1>8

LEMMA NextKeeps ==
    ASSUME TypeOK, [Next]_vars
    PROVE  Keeps
<1>1. CASE Key
  BY <1>1, KeySteps
<1>2. CASE Lock \/ Draw \/ FrameEvent \/ ReleaseAll
  BY <1>2, DesktopSteps
<1>3. CASE \E p \in Popups : PopupRequest(p)
  BY <1>3, PopupSteps
<1>4. CASE \E w \in Windows : WindowRequest(w)
  BY <1>4, WindowSteps
<1>5. CASE \E s \in Surfaces \cup {None} : Press(s)
  BY <1>5, PressStep
<1>6. CASE \E c \in Clients : BindKeyboard(c)
  BY <1>6, BindKeyboardStep
<1>7. CASE UNCHANGED vars
  <2>1. UNCHANGED <<desktop, scene, seat>>
    BY <1>7 DEF vars
  <2>2. DesktopOK'
    BY <2>1, TypeParts DEF DesktopOK, desktop
  <2>3. QED
    BY <2>1, <2>2, DesktopStep
<1>8. QED
  BY <1>1, <1>2, <1>3, <1>4, <1>5, <1>6, <1>7 DEF Next

LEMMA InitialState ==
    ASSUME Init
    PROVE  TypeOK /\ CapturedHoldsNothing /\ Good
<1>1. Most \in Nat
  BY FS_CardinalityType, SurfacesAssumption DEF Most
<1>2. DesktopOK
  BY DEF Init, DesktopOK
<1>3. SceneOK
  BY DEF Init, SceneOK, WinSet, WindowStates, PopupSet, NoPopup
<1>4. /\ [p \in Popups |-> 0] \in PlaceSet
      /\ [c \in Clients |-> Deaf] \in ToldSet
  BY <1>1 DEF PlaceSet, ToldSet, Deaf
<1>5. seat \in SeatSet
  BY <1>4 DEF Init, SeatSet
<1>6. CapturedHoldsNothing
  BY DEF Init, CapturedHoldsNothing
<1>7. /\ seat.override = None /\ seat.focus = None /\ seat.inhibited = FALSE
      /\ seat.told = [c \in Clients |-> Deaf] /\ seat.grabs = [p \in Popups |-> 0]
      /\ inhibitors = {} /\ win = [w \in Windows |-> "new"]
  BY DEF Init
<1>8. Target(seat, win) = None
  BY <1>7 DEF Target, SurfaceOf
<1>9. Agrees(seat, win)
  <2>1. Told(None, seat.pressed) = [c \in Clients |-> Deaf]
    BY DEF Told
  <2>2. seat.inhibited = FALSE /\ (None \in inhibitors) = FALSE
    BY <1>7
  <2>3. QED
    BY <1>7, <1>8, <2>1, <2>2 DEF Agrees
<1>10. GrabsOnScreen /\ NoBare
  BY <1>7 DEF GrabsOnScreen, NoBare, Listed
<1>11. QED
  BY <1>2, <1>3, <1>5, <1>6, <1>9, <1>10, TypeParts DEF Good
-----------------------------------------------------------------------------
(* The theorems *)

\* Whatever the desktop, the windows and the popups do, the seat refers to
\* windows and popups that exist and to keys of the keyboard (SeatState).
THEOREM TypeCorrect == Spec => []TypeOK
<1>1. Init => TypeOK
  BY InitialState
<1>2. TypeOK /\ [Next]_vars => TypeOK'
  BY NextKeeps DEF Keeps
<1>3. QED
  BY <1>1, <1>2, PTL DEF Spec

\* While the shell has the keyboard, no client is left with a key pressed: the
\* capture releases what is held (SeatState::syncKeyboardCapture), and no press
\* comes through before it ends (DesktopImpl::key).
THEOREM ShellHoldsNothing == Spec => []CapturedHoldsNothing
<1>1. Init => CapturedHoldsNothing
  BY InitialState
<1>2. TypeOK /\ CapturedHoldsNothing /\ [Next]_vars => CapturedHoldsNothing'
  BY NextKeeps DEF Keeps
<1>3. QED
  BY <1>1, <1>2, TypeCorrect, PTL DEF Spec

\* No step that starts or ends on the lock screen gives a client a key press.
THEOREM QuietUnderLock == Spec => QuietWhileLocked
<1>1. TypeOK /\ [Next]_vars => [locked \/ locked' => seat'.pressed \subseteq seat.pressed]_vars
  BY NextKeeps DEF Keeps, Quiet
<1>2. QED
  BY <1>1, TypeCorrect, PTL DEF Spec, QuietWhileLocked

\* The invariant of the restricted scene.
LEMMA GoodThroughout ==
    ASSUME Restricted
    PROVE  Spec => []Good
<1>1. Init => Good
  BY InitialState
<1>2. TypeOK /\ Good /\ [Next]_vars => Good'
  BY NextKeeps DEF Keeps
<1>3. QED
  BY <1>1, <1>2, TypeCorrect, PTL DEF Spec

\* Every client can tell from the enters, leaves and keys it was sent whether it
\* has the keyboard and which keys are held, if no wl_surface outlives its
\* xdg_toplevel, no grabbing popup attaches a null buffer and no wl_keyboard is
\* bound under a grab.
THEOREM ClientsAreRight ==
    ASSUME Restricted
    PROVE  Spec => []ClientsAgree
<1>1. Good => ClientsAgree
  BY DEF Good, Agrees, Told, ClientsAgree
<1>2. QED
  BY <1>1, GoodThroughout, PTL

\* Under the same restriction the shell's shortcuts are off exactly while a
\* surface that inhibits them has the keyboard (updateShortcutInhibit).
THEOREM InhibitIsRight ==
    ASSUME Restricted
    PROVE  Spec => []InhibitAgrees
<1>1. Good => InhibitAgrees
  BY DEF Good, Agrees, InhibitAgrees
<1>2. QED
  BY <1>1, GoodThroughout, PTL
=============================================================================
