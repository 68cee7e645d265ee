--------------------------- MODULE KeyGrabsProofs ---------------------------
(***************************************************************************)
(* Proofs about KeyRouting: the stack of popup grabs is the grabbing       *)
(* popups on screen, and the keyboard is on the last of them.              *)
(***************************************************************************)
EXTENDS KeyRoutingProofs

\* No two members of a list have the same place.
Distinct(place, S) == \A p, q \in S : place[p] = place[q] => p = q

\* Ranking keeps the order of the places.
LEMMA RankedOrder ==
    ASSUME NEW place \in [Popups -> Nat], NEW S \in SUBSET Popups,
           NEW p \in S, NEW q \in S, place[p] < place[q]
    PROVE  Ranked(place, S)[p] < Ranked(place, S)[q]
<1> DEFINE upTo(r) == {x \in S : place[x] <= place[r]}
<1>1. /\ place[p] \in Nat /\ place[q] \in Nat
      /\ \A x \in S : place[x] \in Nat
  OBVIOUS
<1>2. upTo(p) \subseteq upTo(q) /\ q \in upTo(q) /\ q \notin upTo(p)
  BY <1>1
<1>3. upTo(q) \in SUBSET Popups
  OBVIOUS
<1> HIDE DEF upTo
<1>4. IsFiniteSet(upTo(q))
  BY <1>3, FS_Subset, SurfacesAssumption
<1>5. /\ IsFiniteSet(upTo(p)) /\ Cardinality(upTo(p)) <= Cardinality(upTo(q))
      /\ Cardinality(upTo(p)) = Cardinality(upTo(q)) => upTo(p) = upTo(q)
  BY <1>2, <1>4, FS_Subset
<1>6. Cardinality(upTo(p)) \in Nat /\ Cardinality(upTo(q)) \in Nat
  BY <1>4, <1>5, FS_CardinalityType
<1>7. Cardinality(upTo(p)) < Cardinality(upTo(q))
  BY <1>2, <1>5, <1>6
<1>8. \A r \in S : Ranked(place, S)[r] = Cardinality(upTo(r))
  BY DEF Ranked, upTo
<1>9. QED
  BY <1>7, <1>8

LEMMA RankedDistinct ==
    ASSUME NEW place \in [Popups -> Nat], NEW S \in SUBSET Popups, Distinct(place, S)
    PROVE  Distinct(Ranked(place, S), S)
<1>1. ASSUME NEW p \in S, NEW q \in S, p # q
      PROVE  Ranked(place, S)[p] # Ranked(place, S)[q]
  <2>1. place[p] \in Nat /\ place[q] \in Nat /\ place[p] # place[q]
    BY <1>1 DEF Distinct
  <2>2. Ranked(place, S)[p] \in Nat /\ Ranked(place, S)[q] \in Nat
    BY RankedPlaces, PlacesAreNumbers
  <2>3. CASE place[p] < place[q]
    BY <2>2, <2>3, RankedOrder
  <2>4. CASE place[q] < place[p]
    BY <2>2, <2>4, RankedOrder
  <2>5. QED
    BY <2>1, <2>3, <2>4
<1>2. QED
  BY <1>1 DEF Distinct

\* The last of a list is the one member that no other is behind.
LEMMA TopIsTheLast ==
    ASSUME NEW place \in PlaceSet, Distinct(place, Listed(place)),
           NEW p \in Listed(place), \A q \in Listed(place) : place[q] <= place[p]
    PROVE  Top(place) = p
<1>1. Top(place) \in Listed(place) /\ place[p] <= place[Top(place)]
  BY TopIsGreatest
<1>2. place[p] \in Nat /\ place[Top(place)] \in Nat
  BY <1>1, PlacesAreNumbers DEF Listed
<1>3. place[Top(place)] <= place[p]
  BY <1>1
<1>4. place[Top(place)] = place[p]
  BY <1>1, <1>2, <1>3
<1>5. QED
  BY <1>1, <1>4 DEF Distinct

\* Nodes that leave a list leave the others in their order.
LEMMA UnlinkedOrder ==
    ASSUME NEW place \in PlaceSet, NEW D, Distinct(place, Listed(place))
    PROVE  /\ Distinct(Unlinked(place, D), Listed(Unlinked(place, D)))
           /\ Top(place) \notin D \cap Listed(place) => Top(Unlinked(place, D)) = Top(place)
<1>1. PICK S \in SUBSET Popups : S = Listed(place) \ D
  BY DEF Listed
<1>2. PICK U \in PlaceSet : U = Ranked(place, S) /\ Listed(U) = S
  BY RankedPlaces, PlacesAreNumbers
<1>3. Unlinked(place, D) = U
  BY <1>1, <1>2 DEF Unlinked
<1>4. Distinct(place, S)
  BY <1>1 DEF Distinct
<1>5. Distinct(U, S)
  BY <1>2, <1>4, RankedDistinct, PlacesAreNumbers
<1>6. ASSUME Top(place) \notin D \cap Listed(place)
      PROVE  Top(U) = Top(place)
  <2>1. CASE Listed(place) = {}
    BY <1>1, <1>2, <2>1 DEF Top
  <2>2. CASE Listed(place) # {}
    <3>1. Top(place) \in S /\ \A q \in S : place[q] <= place[Top(place)]
      BY <1>1, <1>6, <2>2, TopIsGreatest
    <3>2. PICK t \in S : t = Top(place)
      BY <3>1
    <3>3. ASSUME NEW q \in S PROVE U[q] <= U[t]
      <4>1. place[q] \in Nat /\ place[t] \in Nat /\ U[q] \in Nat /\ U[t] \in Nat
        BY PlacesAreNumbers
      <4>2. place[q] <= place[t]
        BY <3>1, <3>2
      <4>3. CASE q = t
        BY <4>1, <4>3
      <4>4. CASE q # t
        <5>1. place[q] # place[t]
          BY <1>4, <4>4 DEF Distinct
        <5>2. place[q] < place[t]
          BY <4>1, <4>2, <5>1
        <5>3. U[q] < U[t]
          BY <1>2, <5>2, RankedOrder, PlacesAreNumbers
        <5>4. QED
          BY <4>1, <5>3
      <4>5. QED
        BY <4>3, <4>4
    <3>4. Top(U) = t
      BY <1>2, <1>5, <3>3, TopIsTheLast
    <3>5. QED
      BY <3>2, <3>4
  <2>3. QED
    BY <2>1, <2>2
<1>7. QED
  BY <1>2, <1>3, <1>5, <1>6

\* A new node goes behind all others.
LEMMA PushedOrder ==
    ASSUME NEW place \in PlaceSet, NEW p \in Popups \ Listed(place),
           Distinct(place, Listed(place))
    PROVE  /\ Distinct(Pushed(place, p), Listed(Pushed(place, p)))
           /\ Top(Pushed(place, p)) = p
<1> DEFINE U == Unlinked(place, {p})
<1> DEFINE n == Cardinality(Listed(place) \ {p}) + 1
<1> DEFINE V == Pushed(place, p)
<1>1. U \in PlaceSet /\ Listed(U) = Listed(place) \ {p}
  BY UnlinkedPlaces, PlacesAreNumbers
<1>2. V \in PlaceSet /\ Listed(V) = Listed(place) \cup {p}
  BY PushedPlaces
<1>3. Distinct(U, Listed(U))
  BY UnlinkedOrder
<1>4. Top(place) # p
  BY TopIsListed, SurfacesAssumption DEF Surfaces
<1>5. V = [U EXCEPT ![p] = n]
  BY <1>4 DEF Pushed
<1>6. Listed(place) \in SUBSET Popups /\ Listed(place) \ {p} = Listed(place)
  BY DEF Listed
<1>7. Cardinality(Listed(place)) \in Nat /\ IsFiniteSet(Listed(place))
  BY <1>6, FS_Subset, FS_CardinalityType, SurfacesAssumption
<1>8. n = Cardinality(Listed(place)) + 1 /\ n \in Nat
  BY <1>6, <1>7
<1>9. ASSUME NEW q \in Listed(place) PROVE U[q] < n /\ U[q] \in Nat
  <2>1. {r \in Listed(place) : place[r] <= place[q]} \in SUBSET Listed(place)
    OBVIOUS
  <2>2. Cardinality({r \in Listed(place) : place[r] <= place[q]}) <= Cardinality(Listed(place))
    BY <1>7, <2>1, FS_Subset
  <2>3. U[q] = Cardinality({r \in Listed(place) : place[r] <= place[q]})
    BY <1>6 DEF Unlinked, Ranked
  <2>4. U[q] \in Nat
    BY <1>1, <1>6, PlacesAreNumbers
  <2>5. QED
    BY <1>7, <1>8, <2>2, <2>3, <2>4
<1> HIDE DEF U, n
<1>10. V[p] = n /\ \A q \in Listed(place) : V[q] = U[q]
  BY <1>1, <1>5, <1>6 DEF PlaceSet
<1> HIDE DEF V
<1>11. Distinct(V, Listed(V))
  <2>1. ASSUME NEW q \in Listed(place), NEW r \in Listed(place), V[q] = V[r] PROVE q = r
    BY <1>1, <1>3, <1>6, <1>10, <2>1 DEF Distinct
  <2>2. \A q \in Listed(place) : V[q] # n
    BY <1>8, <1>9, <1>10
  <2>3. QED
    BY <1>2, <1>10, <2>1, <2>2 DEF Distinct
<1>12. \A q \in Listed(V) : V[q] <= V[p]
  BY <1>2, <1>8, <1>9, <1>10
<1>13. Top(V) = p
  BY <1>2, <1>11, <1>12, TopIsTheLast
<1>14. QED
  BY <1>11, <1>13 DEF V
-----------------------------------------------------------------------------
(* The seat's stack of grabs *)

\* The grabs are the popups of S, in some order, and the keyboard is on the last.
Stack(z, S) ==
    /\ Listed(z.grabs) = S /\ Distinct(z.grabs, S)
    /\ z.override = Top(z.grabs)

LEMMA GrabGoneStack ==
    ASSUME NEW z \in SeatSet, NEW D, NEW W, NEW S, Stack(z, S)
    PROVE  /\ GrabGone(z, D, W) \in SeatSet /\ GrabGone(z, D, W).focus = z.focus
           /\ Stack(GrabGone(z, D, W), S \ D)
<1>1. PICK r : r = GrabGone(z, D, W)
  OBVIOUS
<1>2. /\ r \in SeatSet /\ r.focus = z.focus
      /\ r.grabs = Unlinked(z.grabs, D) /\ Listed(r.grabs) = Listed(z.grabs) \ D
      /\ z.override \notin D \cap Listed(z.grabs) => r.override = z.override
      /\ z.override \in D \cap Listed(z.grabs) => r.override = Top(r.grabs)
  BY <1>1, GrabGoneType
<1>3. /\ z.grabs \in PlaceSet /\ Distinct(z.grabs, Listed(z.grabs))
      /\ Listed(z.grabs) = S /\ z.override = Top(z.grabs)
  BY DEF SeatSet, Stack
<1>4. /\ Distinct(r.grabs, Listed(r.grabs))
      /\ Top(z.grabs) \notin D \cap Listed(z.grabs) => Top(r.grabs) = Top(z.grabs)
  BY <1>2, <1>3, UnlinkedOrder
<1>5. r.override = Top(r.grabs)
  BY <1>2, <1>3, <1>4
<1>6. QED
  BY <1>1, <1>2, <1>3, <1>4, <1>5 DEF Stack

LEMMA PopupGrabStartStack ==
    ASSUME NEW z \in SeatSet, NEW S, NEW p \in Popups \ S, Stack(z, S)
    PROVE  /\ PopupGrabStart(z, p).focus = z.focus
           /\ Stack(PopupGrabStart(z, p), S \cup {p})
<1>1. PICK r : r = PopupGrabStart(z, p)
  OBVIOUS
<1>2. /\ r \in SeatSet /\ r.focus = z.focus
      /\ r.override = p /\ r.grabs = Pushed(z.grabs, p)
  BY <1>1, PopupGrabStartAgrees
<1>3. /\ z.grabs \in PlaceSet /\ Distinct(z.grabs, Listed(z.grabs))
      /\ Listed(z.grabs) = S
  BY DEF SeatSet, Stack
<1>4. Listed(r.grabs) = S \cup {p}
  BY <1>2, <1>3, PushedPlaces
<1>5. Distinct(r.grabs, Listed(r.grabs)) /\ Top(r.grabs) = p
  BY <1>2, <1>3, PushedOrder
<1>6. QED
  BY <1>1, <1>2, <1>4, <1>5 DEF Stack

LEMMA FocusStack ==
    ASSUME NEW z \in SeatSet, NEW t \in Windows \cup {None}, NEW W, NEW S, Stack(z, S)
    PROVE  /\ FocusToplevel(z, t, W) \in SeatSet /\ FocusToplevel(z, t, W).focus = t
           /\ Stack(FocusToplevel(z, t, W), S)
<1>1. PICK r : r = FocusToplevel(z, t, W)
  OBVIOUS
<1>2. r \in SeatSet /\ r.focus = t /\ r.override = z.override /\ r.grabs = z.grabs
  BY <1>1, FocusType
<1>3. QED
  BY <1>1, <1>2 DEF Stack
-----------------------------------------------------------------------------
(* The invariant and what keeps it *)

\* A window that can have the focus is on the screen, or its surface went first.
FocusShows(z, W) == z.focus # None => W[z.focus] \in {"mapped", "orphan"}
Firm == Stack(seat, OnScreen) /\ FocusShows(seat, win)

\* A step that moves neither the focus nor the grabs, and no window or popup.
LEMMA StillStep ==
    ASSUME Firm, UNCHANGED scene,
           seat'.focus = seat.focus, seat'.override = seat.override, seat'.grabs = seat.grabs
    PROVE  Firm'
<1>1. OnScreen' = OnScreen
  BY DEF OnScreen, scene
<1>2. QED
  BY <1>1 DEF Firm, FocusShows, Stack, scene, Listed, Distinct, Top

\* A step after which the grabs are those on screen.
LEMMA MovedStep ==
    ASSUME NEW S, Stack(seat', S), OnScreen' = S, FocusShows(seat', win')
    PROVE  Firm'
BY DEF Firm, FocusShows, Stack, Listed, Distinct, Top

LEMMA KeyKeepsGrabs ==
    ASSUME TypeOK, Firm, Key
    PROVE  Firm'
<1>1. seat \in SeatSet /\ UNCHANGED scene
  BY TypeParts DEF Key, ArmedKey, LockedKey, PlainKey, ChordPress, ChordRelease, Arrives
<1>2. ASSUME NEW k \in Keys, NEW pressed \in BOOLEAN, NEW grab \in BOOLEAN, NEW cap \in BOOLEAN,
             Delivered(k, pressed, grab, cap)
      PROVE  Firm'
  <2>1. PICK r : r = HandleKey(seat, k, pressed, grab)
    OBVIOUS
  <2>2. /\ r \in SeatSet
        /\ r.focus = seat.focus /\ r.override = seat.override /\ r.grabs = seat.grabs
    BY <1>1, <2>1, HandleKeyAgrees
  <2>3. seat' = SyncKeyboardCapture(r, cap)
    BY <1>2, <2>1 DEF Delivered
  <2>4. seat'.focus = r.focus /\ seat'.override = r.override /\ seat'.grabs = r.grabs
    BY <2>2, <2>3, SyncKeyboardCaptureAgrees
  <2>5. QED
    BY <1>1, <2>2, <2>4, StillStep
<1>3. ASSUME UNCHANGED seat PROVE Firm'
  BY <1>1, <1>3, StillStep
<1>4. Grabbed \subseteq BOOLEAN
  BY SubsetsAssumption DEF Grabbed
<1>5. ASSUME NEW k \in Keys, NEW pressed \in BOOLEAN, ArmedKey(k, pressed) PROVE Firm'
  BY <1>3, <1>5 DEF ArmedKey
<1>6. ASSUME NEW k \in Keys, NEW pressed \in BOOLEAN, NEW grab \in Grabbed,
             LockedKey(k, pressed, grab)
      PROVE  Firm'
  <2>1. UNCHANGED seat \/ Delivered(k, pressed, grab, TRUE)
    BY <1>6 DEF LockedKey
  <2>2. QED
    BY <1>2, <1>3, <1>4, <2>1
<1>7. ASSUME NEW k \in Keys, NEW pressed \in BOOLEAN, NEW text \in BOOLEAN, NEW grab \in Grabbed,
             PlainKey(k, pressed, text, grab)
      PROVE  Firm'
  <2>1. UNCHANGED seat \/ Delivered(k, pressed, grab, kbCaptured')
    BY <1>7 DEF PlainKey
  <2>2. kbCaptured' \in BOOLEAN
    BY <1>7, Zenon DEF PlainKey
  <2>3. QED
    BY <1>2, <1>3, <1>4, <2>1, <2>2
<1>8. ASSUME NEW k \in Keys, NEW action, NEW text \in BOOLEAN, ChordPress(k, action, text)
      PROVE  Firm'
  BY <1>3, <1>8 DEF ChordPress
<1>9. ASSUME NEW k \in Keys, NEW text \in BOOLEAN, ChordRelease(k, text) PROVE Firm'
  BY <1>3, <1>9 DEF ChordRelease
<1>10. QED
  BY <1>5, <1>6, <1>7, <1>8, <1>9 DEF Key

LEMMA DesktopKeepsGrabs ==
    ASSUME TypeOK, Firm, Lock \/ Draw \/ FrameEvent \/ ReleaseAll
    PROVE  Firm'
<1>1. DesktopOK /\ SceneOK /\ seat \in SeatSet
  BY TypeParts
<1>2. UNCHANGED scene
  BY DEF Lock, Draw, FrameEvent, ReleaseAll
<1>3. CASE Lock \/ Draw
  <2>1. UNCHANGED seat
    BY <1>3 DEF Lock, Draw
  <2>2. QED
    BY <1>2, <2>1, StillStep
<1>4. CASE FrameEvent
  <2>1. PICK z : z = SyncKeyboardCapture(seat, kbCaptured)
    OBVIOUS
  <2>2. /\ z \in SeatSet
        /\ z.focus = seat.focus /\ z.override = seat.override /\ z.grabs = seat.grabs
    BY <1>1, <2>1, SyncKeyboardCaptureAgrees DEF DesktopOK
  <2>3. CASE seat' = z
    BY <1>2, <2>2, <2>3, StillStep
  <2>4. ASSUME NEW t \in Windows \cup {None}, seat' = FocusToplevel(z, t, win),
               t # None => Shown(t)
        PROVE  Firm'
    <3>1. Stack(z, OnScreen)
      BY <2>2 DEF Firm, Stack
    <3>2. Stack(seat', OnScreen) /\ seat'.focus = t
      BY <2>2, <2>4, <3>1, FocusStack
    <3>3. OnScreen' = OnScreen /\ win' = win
      BY <1>2 DEF OnScreen, scene
    <3>4. FocusShows(seat', win')
      BY <2>4, <3>2, <3>3 DEF FocusShows, Shown
    <3>5. QED
      BY <3>2, <3>3, <3>4, MovedStep
  <2>5. \/ seat' = z
        \/ \E t \in Windows \cup {None} :
             seat' = FocusToplevel(z, t, win) /\ (t # None => Shown(t))
    BY <1>4, <2>1, SurfacesAssumption DEF FrameEvent, Surfaces
  <2>6. QED
    BY <2>3, <2>4, <2>5
<1>5. CASE ReleaseAll
  <2>1. seat' = ReleaseAllKeys(seat)
    BY <1>5 DEF ReleaseAll
  <2>2. /\ seat'.focus = seat.focus /\ seat'.override = seat.override
        /\ seat'.grabs = seat.grabs
    BY <1>1, <2>1, ReleaseAllKeysAgrees
  <2>3. QED
    BY <1>2, <2>2, StillStep
<1>6. QED
  BY <1>3, <1>4, <1>5

\* Who is dismissed leaves the screen, and nobody else does.
LEMMA DismissedOnScreen ==
    ASSUME SceneOK, NEW D, NEW q \in [Popups -> PopupSet],
           \A p \in Popups : q[p].st = Dismissed(D)[p].st /\ q[p].grab = Dismissed(D)[p].grab
    PROVE  {p \in Popups : q[p].st = "mapped" /\ q[p].grab} = OnScreen \ GoneWith(D)
<1>1. popup \in [Popups -> PopupSet]
  BY DEF SceneOK
<1>2. ASSUME NEW p \in Popups
      PROVE  q[p].st = "mapped" /\ q[p].grab <=> p \in OnScreen \ GoneWith(D)
  <2>1. CASE p \notin D
    <3>1. Dismissed(D)[p] = popup[p]
      BY <1>1, <2>1, DismissedPopups
    <3>2. QED
      BY <2>1, <3>1 DEF OnScreen, GoneWith
  <2>2. CASE p \in D /\ popup[p].st \in {"new", "mapped"}
    <3>1. Dismissed(D)[p] = [popup[p] EXCEPT !.st = "dismissed", !.grab = FALSE]
      BY <2>2 DEF Dismissed
    <3>2. Dismissed(D)[p].st = "dismissed"
      BY <1>1, <3>1 DEF PopupSet
    <3>3. QED
      BY <2>2, <3>2 DEF OnScreen, GoneWith
  <2>3. CASE p \in D /\ popup[p].st \notin {"new", "mapped"}
    <3>1. Dismissed(D)[p] = popup[p]
      BY <2>3 DEF Dismissed
    <3>2. QED
      BY <2>3, <3>1 DEF OnScreen, GoneWith
  <2>4. QED
    BY <2>1, <2>2, <2>3
<1>3. OnScreen \subseteq Popups
  BY DEF OnScreen
<1>4. QED
  BY <1>2, <1>3

LEMMA PopupKeepsGrabs ==
    ASSUME NullGrabs = {}, TypeOK, TypeOK', Firm, NEW p \in Popups, PopupRequest(p)
    PROVE  Firm'
<1>1. DesktopOK /\ SceneOK /\ seat \in SeatSet
  BY TypeParts
<1>2. popup \in [Popups -> PopupSet] /\ popup[p] \in PopupSet /\ Stack(seat, OnScreen)
  BY <1>1 DEF SceneOK, Firm
<1>3. UNCHANGED win
  BY DEF PopupRequest, CreatePopup, GrabPopup, MapPopup, UnmapPopup, DestroyPopup
<1>4. popup' \in [Popups -> PopupSet]
  BY DEF TypeOK, PopupSet
<1>5. OnScreen' = {r \in Popups : popup'[r].st = "mapped" /\ popup'[r].grab}
  BY DEF OnScreen
<1>6. ASSUME NEW S, Stack(seat', S), OnScreen' = S, seat'.focus = seat.focus PROVE Firm'
  <2>1. FocusShows(seat', win')
    BY <1>3, <1>6 DEF Firm, FocusShows
  <2>2. QED
    BY <1>6, <2>1, MovedStep
<1>7. CASE CreatePopup(p)
  <2>1. PICK c : /\ popup' = [popup EXCEPT ![p] = c] /\ c.st = "new"
                 /\ popup[p].st = "none" /\ UNCHANGED seat
    BY <1>7 DEF CreatePopup
  <2>2. OnScreen' = OnScreen
    BY <1>2, <1>5, <2>1 DEF OnScreen
  <2>3. Stack(seat', OnScreen)
    BY <1>2, <2>1
  <2>4. QED
    BY <1>6, <2>1, <2>2, <2>3
<1>8. CASE GrabPopup(p)
  <2>1. PICK c : /\ popup' = [popup EXCEPT ![p] = c]
                 /\ c = [popup[p] EXCEPT !.st = "dismissed"] \/ c = [popup[p] EXCEPT !.grab = TRUE]
                 /\ popup[p].st = "new" /\ UNCHANGED seat
    BY <1>8 DEF GrabPopup
  <2>2. c.st \in {"new", "dismissed"}
    BY <1>2, <2>1 DEF PopupSet
  <2>3. OnScreen' = OnScreen
    BY <1>2, <1>5, <2>1, <2>2 DEF OnScreen
  <2>4. Stack(seat', OnScreen)
    BY <1>2, <2>1
  <2>5. QED
    BY <1>6, <2>1, <2>3, <2>4
<1>9. CASE MapPopup(p)
  <2>1. PICK c : c = [popup[p] EXCEPT !.st = "mapped"]
    OBVIOUS
  <2>2. c.st = "mapped" /\ c.grab = popup[p].grab
    BY <1>2, <2>1 DEF PopupSet
  <2>3. popup' = [popup EXCEPT ![p] = c] /\ popup[p].st = "new"
    BY <1>9, <2>1 DEF MapPopup
  <2>4. p \notin OnScreen
    BY <2>3 DEF OnScreen
  <2>5. CASE popup[p].grab = TRUE
    <3>1. seat' = PopupGrabStart(seat, p)
      BY <1>9, <2>5 DEF MapPopup
    <3>2. Stack(seat', OnScreen \cup {p}) /\ seat'.focus = seat.focus
      BY <1>1, <1>2, <2>4, <3>1, PopupGrabStartStack
    <3>3. OnScreen' = OnScreen \cup {p}
      BY <1>2, <1>5, <2>2, <2>3, <2>5 DEF OnScreen
    <3>4. QED
      BY <1>6, <3>2, <3>3
  <2>6. CASE popup[p].grab = FALSE
    <3>1. UNCHANGED seat
      BY <1>9, <2>6 DEF MapPopup
    <3>2. OnScreen' = OnScreen
      BY <1>2, <1>5, <2>2, <2>3, <2>6 DEF OnScreen
    <3>3. Stack(seat', OnScreen)
      BY <1>2, <3>1
    <3>4. QED
      BY <1>6, <3>1, <3>2, <3>3
  <2>7. QED
    BY <1>2, <2>5, <2>6 DEF PopupSet
<1>10. CASE UnmapPopup(p)
  <2> DEFINE D == OpenedOn(p)
  <2> HIDE DEF D
  <2>1. /\ popup' = [Dismissed(D) EXCEPT ![p] = [Dismissed(D)[p] EXCEPT !.st = "new"]]
        /\ seat' = GrabGone(seat, GoneWith(D), win)
        /\ popup[p].grab => p \in NullGrabs
    BY <1>10 DEF UnmapPopup, D
  <2>2. Dismissed(D) \in [Popups -> PopupSet]
    BY <1>2, DismissedPopups
  <2>3. {r \in Popups : Dismissed(D)[r].st = "mapped" /\ Dismissed(D)[r].grab}
          = OnScreen \ GoneWith(D)
    BY <1>1, <2>2, DismissedOnScreen
  <2>4. p \notin OnScreen
    BY <2>1 DEF OnScreen
  <2>5. [Dismissed(D)[p] EXCEPT !.st = "new"].st = "new"
    BY <2>2 DEF PopupSet
  <2>6. popup'[p].st = "new" /\ \A r \in Popups : r # p => popup'[r] = Dismissed(D)[r]
    BY <2>1, <2>2, <2>5
  <2>7. OnScreen' = OnScreen \ GoneWith(D)
    BY <1>5, <2>3, <2>4, <2>6
  <2>8. Stack(seat', OnScreen \ GoneWith(D)) /\ seat'.focus = seat.focus
    BY <1>1, <1>2, <2>1, GrabGoneStack
  <2>9. QED
    BY <1>6, <2>7, <2>8
<1>11. CASE DestroyPopup(p)
  <2> DEFINE D == OpenedOn(p)
  <2> DEFINE left == [Unparented(Dismissed(D), p) EXCEPT ![p] = NoPopup]
  <2> DEFINE place == Unlinked(Places, {p})
  <2>1. /\ popup' = [q \in Popups |-> [left[q] EXCEPT !.place = place[q]]]
        /\ seat' = Forgotten(GrabGone(seat, GoneWith(D) \cup {p}, win), p)
    BY <1>11 DEF DestroyPopup
  <2> HIDE DEF D
  <2>2. Dismissed(D) \in [Popups -> PopupSet]
    BY <1>2, DismissedPopups
  <2>3. {r \in Popups : Dismissed(D)[r].st = "mapped" /\ Dismissed(D)[r].grab}
          = OnScreen \ GoneWith(D)
    BY <1>1, <2>2, DismissedOnScreen
  <2>4. /\ Unparented(Dismissed(D), p) \in [Popups -> PopupSet]
        /\ \A q \in Popups : /\ Unparented(Dismissed(D), p)[q].st = Dismissed(D)[q].st
                             /\ Unparented(Dismissed(D), p)[q].grab = Dismissed(D)[q].grab
    BY <2>2, UnparentedPopups
  <2>5. NoPopup \in PopupSet /\ NoPopup.st = "none"
    BY DEF NoPopup, PopupSet
  <2>6. /\ left \in [Popups -> PopupSet] /\ left[p].st = "none"
        /\ \A q \in Popups : q # p => /\ left[q].st = Dismissed(D)[q].st
                                      /\ left[q].grab = Dismissed(D)[q].grab
    BY <2>4, <2>5
  <2> HIDE DEF left, place
  <2>7. \A q \in Popups : popup'[q].st = left[q].st /\ popup'[q].grab = left[q].grab
    BY <2>1, <2>6 DEF PopupSet
  <2>8. OnScreen' = (OnScreen \ GoneWith(D)) \ {p}
    BY <1>5, <2>3, <2>6, <2>7
  <2>9. OnScreen' = OnScreen \ (GoneWith(D) \cup {p})
    BY <2>8
  <2>10. PICK g : g = GrabGone(seat, GoneWith(D) \cup {p}, win)
    OBVIOUS
  <2>11. g \in SeatSet /\ g.focus = seat.focus /\ Stack(g, OnScreen \ (GoneWith(D) \cup {p}))
    BY <1>1, <1>2, <2>10, GrabGoneStack
  <2>12. p \in Surfaces /\ seat' = Forgotten(g, p)
    BY <2>1, <2>10 DEF Surfaces
  <2>13. seat'.focus = g.focus /\ seat'.override = g.override /\ seat'.grabs = g.grabs
    BY <2>11, <2>12, ForgottenAgrees
  <2>14. Stack(seat', OnScreen \ (GoneWith(D) \cup {p}))
    BY <2>11, <2>13 DEF Stack
  <2>15. QED
    BY <1>6, <2>9, <2>11, <2>13, <2>14
<1>12. QED
  BY <1>7, <1>8, <1>9, <1>10, <1>11 DEF PopupRequest

\* Who inherits the focus shows.
LEMMA HeirShows ==
    ASSUME NEW w, NEW W, NEW h \in Heirs(w, W)
    PROVE  h \in Windows \cup {None} /\ (h # None => W[h] \in {"mapped", "orphan"})
BY DEF Heirs

LEMMA DestroyWindowKeepsGrabs ==
    ASSUME TypeOK, Firm, NEW w \in Windows, DestroyWindow(w)
    PROVE  Firm'
<1>1. DesktopOK /\ SceneOK /\ seat \in SeatSet /\ Stack(seat, OnScreen)
  BY TypeParts DEF Firm
<1> DEFINE D == IF win'[w] = "gone" THEN OpenedOn(w) ELSE {}
<1>2. PICK y : y = [seat EXCEPT !.focus = None]
  OBVIOUS
<1>3. PICK h \in Heirs(w, win') :
        LET x == IF seat.focus = w THEN FocusToplevel(y, h, win') ELSE seat
            z == GrabGone(x, GoneWith(D), win')
        IN  /\ seat' = UpdateShortcutInhibit(IF win'[w] = "gone" THEN Forgotten(z, w) ELSE z,
                                             win', inhibitors')
            /\ popup' = IF win'[w] = "gone" THEN Unparented(Dismissed(D), w) ELSE popup
  BY <1>2 DEF DestroyWindow
<1> HIDE DEF D
<1>4. PICK x : x = IF seat.focus = w THEN FocusToplevel(y, h, win') ELSE seat
  OBVIOUS
<1>5. PICK z : z = GrabGone(x, GoneWith(D), win')
  OBVIOUS
<1>6. PICK f : f = IF win'[w] = "gone" THEN Forgotten(z, w) ELSE z
  OBVIOUS
<1>7. /\ seat' = UpdateShortcutInhibit(f, win', inhibitors')
      /\ popup' = IF win'[w] = "gone" THEN Unparented(Dismissed(D), w) ELSE popup
  BY <1>3, <1>4, <1>5, <1>6
<1>8. \A v \in Windows : v # w => win'[v] = win[v]
  BY <1>1 DEF DestroyWindow, SceneOK, WinSet
<1>9. h \in Windows \cup {None} /\ (h # None => win'[h] \in {"mapped", "orphan"})
  BY HeirShows
<1>10. x \in SeatSet /\ Stack(x, OnScreen) /\ FocusShows(x, win')
  <2>1. CASE seat.focus # w
    <3>1. x = seat
      BY <1>4, <2>1
    <3>2. seat.focus # None => seat.focus \in Windows
      BY <1>1 DEF SeatSet
    <3>3. QED
      BY <1>1, <1>8, <2>1, <3>1, <3>2 DEF Firm, FocusShows
  <2>2. CASE seat.focus = w
    <3>1. y \in SeatSet /\ y.override = seat.override /\ y.grabs = seat.grabs
      BY <1>1, <1>2 DEF SeatSet
    <3>2. Stack(y, OnScreen)
      BY <1>1, <3>1 DEF Stack
    <3>3. x = FocusToplevel(y, h, win')
      BY <1>4, <2>2
    <3>4. x \in SeatSet /\ x.focus = h /\ Stack(x, OnScreen)
      BY <1>9, <3>1, <3>2, <3>3, FocusStack
    <3>5. QED
      BY <1>9, <3>4 DEF FocusShows
  <2>3. QED
    BY <2>1, <2>2
<1>11. z \in SeatSet /\ z.focus = x.focus /\ Stack(z, OnScreen \ GoneWith(D))
  BY <1>5, <1>10, GrabGoneStack
<1>12. f \in SeatSet /\ f.focus = z.focus /\ f.override = z.override /\ f.grabs = z.grabs
  BY <1>6, <1>11, ForgottenAgrees DEF Surfaces
<1>13. seat'.focus = f.focus /\ seat'.override = f.override /\ seat'.grabs = f.grabs
  BY <1>7, <1>12, UpdateType
<1>14. Stack(seat', OnScreen \ GoneWith(D))
  BY <1>11, <1>12, <1>13 DEF Stack
<1>15. FocusShows(seat', win')
  BY <1>10, <1>11, <1>12, <1>13 DEF FocusShows
<1>16. OnScreen' = OnScreen \ GoneWith(D)
  <2>1. OnScreen' = {q \in Popups : popup'[q].st = "mapped" /\ popup'[q].grab}
    BY DEF OnScreen
  <2>2. CASE win'[w] = "gone"
    <3>1. popup' = Unparented(Dismissed(D), w)
      BY <1>7, <2>2
    <3>2. Dismissed(D) \in [Popups -> PopupSet]
      BY <1>1, DismissedPopups DEF SceneOK
    <3>3. /\ popup' \in [Popups -> PopupSet]
          /\ \A q \in Popups : /\ popup'[q].st = Dismissed(D)[q].st
                               /\ popup'[q].grab = Dismissed(D)[q].grab
      BY <3>1, <3>2, UnparentedPopups
    <3>4. QED
      BY <1>1, <2>1, <3>3, DismissedOnScreen
  <2>3. CASE win'[w] # "gone"
    <3>1. D = {} /\ popup' = popup
      BY <1>7, <2>3 DEF D
    <3>2. QED
      BY <2>1, <3>1 DEF OnScreen, GoneWith
  <2>4. QED
    BY <2>2, <2>3
<1>17. QED
  BY <1>14, <1>15, <1>16, MovedStep

LEMMA DestroySurfaceKeepsGrabs ==
    ASSUME TypeOK, Firm, NEW w \in Windows, DestroySurface(w)
    PROVE  Firm'
<1>1. DesktopOK /\ SceneOK /\ seat \in SeatSet /\ Stack(seat, OnScreen)
  BY TypeParts DEF Firm
<1> DEFINE D == OpenedOn(w)
<1> HIDE DEF D
<1>2. PICK g : g = GrabGone(seat, GoneWith(D), win')
  OBVIOUS
<1>3. PICK z : z = Forgotten(g, w)
  OBVIOUS
<1>4. /\ win[w] \in {"mapped", "bare"}
      /\ win' = [win EXCEPT ![w] = IF win[w] = "mapped" THEN "orphan" ELSE "gone"]
      /\ popup' = Unparented(Dismissed(D), w)
      /\ seat' = IF w \in inhibitors THEN UpdateShortcutInhibit(z, win', inhibitors') ELSE z
  BY <1>2, <1>3 DEF DestroySurface, D
<1>5. g \in SeatSet /\ g.focus = seat.focus /\ Stack(g, OnScreen \ GoneWith(D))
  BY <1>1, <1>2, GrabGoneStack
<1>6. z \in SeatSet /\ z.focus = g.focus /\ z.override = g.override /\ z.grabs = g.grabs
  BY <1>3, <1>5, ForgottenAgrees DEF Surfaces
<1>7. seat'.focus = z.focus /\ seat'.override = z.override /\ seat'.grabs = z.grabs
  <2>1. CASE w \in inhibitors
    <3>1. seat' = UpdateShortcutInhibit(z, win', inhibitors')
      BY <1>4, <2>1
    <3>2. QED
      BY <1>6, <3>1, UpdateType
  <2>2. CASE w \notin inhibitors
    BY <1>4, <2>2
  <2>3. QED
    BY <2>1, <2>2
<1>8. Stack(seat', OnScreen \ GoneWith(D))
  BY <1>5, <1>6, <1>7 DEF Stack
<1>9. FocusShows(seat', win')
  <2>1. ASSUME seat.focus # None
        PROVE  win'[seat.focus] \in {"mapped", "orphan"}
    <3>1. seat.focus \in Windows /\ win[seat.focus] \in {"mapped", "orphan"}
      BY <1>1, <2>1 DEF SeatSet, Firm, FocusShows
    <3>2. QED
      BY <1>1, <1>4, <3>1 DEF SceneOK, WinSet
  <2>2. QED
    BY <1>5, <1>6, <1>7, <2>1 DEF FocusShows
<1>10. Dismissed(D) \in [Popups -> PopupSet]
  BY <1>1, DismissedPopups DEF SceneOK
<1>11. /\ popup' \in [Popups -> PopupSet]
       /\ \A q \in Popups : /\ popup'[q].st = Dismissed(D)[q].st
                            /\ popup'[q].grab = Dismissed(D)[q].grab
  BY <1>4, <1>10, UnparentedPopups
<1>12. OnScreen' = {q \in Popups : popup'[q].st = "mapped" /\ popup'[q].grab}
  BY DEF OnScreen
<1>13. OnScreen' = OnScreen \ GoneWith(D)
  BY <1>1, <1>11, <1>12, DismissedOnScreen
<1>14. QED
  BY <1>8, <1>9, <1>13, MovedStep

LEMMA WindowKeepsGrabs ==
    ASSUME TypeOK, Firm, NEW w \in Windows, WindowRequest(w)
    PROVE  Firm'
<1>1. SceneOK /\ seat \in SeatSet /\ Stack(seat, OnScreen)
  BY TypeParts DEF Firm
<1>2. ASSUME win' = [win EXCEPT ![w] = "mapped"], seat' = FocusToplevel(seat, w, win'),
             UNCHANGED popup
      PROVE  Firm'
  <2>1. Stack(seat', OnScreen) /\ seat'.focus = w
    BY <1>1, <1>2, FocusStack
  <2>2. FocusShows(seat', win')
    BY <1>1, <1>2, <2>1 DEF FocusShows, SceneOK, WinSet
  <2>3. OnScreen' = OnScreen
    BY <1>2 DEF OnScreen
  <2>4. QED
    BY <2>1, <2>2, <2>3, MovedStep
<1>3. CASE MapWindow(w)
  BY <1>2, <1>3 DEF MapWindow
<1>4. CASE Activate(w)
  <2>1. win[w] = "mapped" /\ win' = win /\ seat' = FocusToplevel(seat, w, win') /\ UNCHANGED popup
    BY <1>4 DEF Activate, scene
  <2>2. win' = [win EXCEPT ![w] = "mapped"]
    BY <1>1, <2>1 DEF SceneOK, WinSet
  <2>3. QED
    BY <1>2, <2>1, <2>2
<1>5. CASE UnmapWindow(w)
  <2> DEFINE D == OpenedOn(w)
  <2> HIDE DEF D
  <2>1. PICK z : z = GrabGone(seat, GoneWith(D), win')
    OBVIOUS
  <2>2. /\ win' = [win EXCEPT ![w] = "new"] /\ popup' = Dismissed(D)
        /\ IF z.focus = w THEN \E h \in Heirs(w, win') : seat' = FocusToplevel(z, h, win')
           ELSE seat' = z
    BY <1>5, <2>1 DEF UnmapWindow, D
  <2>3. z \in SeatSet /\ z.focus = seat.focus /\ Stack(z, OnScreen \ GoneWith(D))
    BY <1>1, <2>1, GrabGoneStack
  <2>4. Stack(seat', OnScreen \ GoneWith(D)) /\ FocusShows(seat', win')
    <3>1. CASE z.focus = w
      <4>1. PICK h \in Heirs(w, win') : seat' = FocusToplevel(z, h, win')
        BY <2>2, <3>1
      <4>2. h \in Windows \cup {None} /\ (h # None => win'[h] \in {"mapped", "orphan"})
        BY HeirShows
      <4>3. Stack(seat', OnScreen \ GoneWith(D)) /\ seat'.focus = h
        BY <2>3, <4>1, <4>2, FocusStack
      <4>4. QED
        BY <4>2, <4>3 DEF FocusShows
    <3>2. CASE z.focus # w
      <4>1. seat' = z
        BY <2>2, <3>2
      <4>2. seat.focus # None => seat.focus \in Windows /\ win[seat.focus] \in {"mapped", "orphan"}
        BY <1>1 DEF SeatSet, Firm, FocusShows
      <4>3. \A v \in Windows : v # w => win'[v] = win[v]
        BY <1>1, <2>2 DEF SceneOK, WinSet
      <4>4. QED
        BY <2>3, <3>2, <4>1, <4>2, <4>3 DEF FocusShows
    <3>3. QED
      BY <3>1, <3>2
  <2>5. Dismissed(D) \in [Popups -> PopupSet]
    BY <1>1, DismissedPopups DEF SceneOK
  <2>6. OnScreen' = {q \in Popups : popup'[q].st = "mapped" /\ popup'[q].grab}
    BY DEF OnScreen
  <2>7. OnScreen' = OnScreen \ GoneWith(D)
    BY <1>1, <2>2, <2>5, <2>6, DismissedOnScreen
  <2>8. QED
    BY <2>4, <2>7, MovedStep
<1>6. ASSUME seat'.focus = seat.focus, seat'.override = seat.override,
             seat'.grabs = seat.grabs, UNCHANGED <<win, popup>>
      PROVE  Firm'
  <2>1. OnScreen' = OnScreen
    BY <1>6 DEF OnScreen
  <2>2. Stack(seat', OnScreen) /\ FocusShows(seat', win')
    BY <1>1, <1>6 DEF Firm, FocusShows, Stack
  <2>3. QED
    BY <2>1, <2>2, MovedStep
<1>7. CASE Minimize(w)
  BY <1>6, <1>7 DEF Minimize
<1>8. CASE Inhibit(w)
  <2>1. seat' = UpdateShortcutInhibit(seat, win, inhibitors') /\ UNCHANGED <<win, popup>>
    BY <1>8 DEF Inhibit
  <2>2. QED
    BY <1>1, <1>6, <2>1, UpdateType
<1>9. QED
  BY <1>3, <1>4, <1>5, <1>7, <1>8, DestroyWindowKeepsGrabs, DestroySurfaceKeepsGrabs
     DEF WindowRequest

LEMMA PressKeepsGrabs ==
    ASSUME TypeOK, Firm, NEW s \in Surfaces \cup {None}, Press(s)
    PROVE  Firm'
<1>1. SceneOK /\ seat \in SeatSet /\ Stack(seat, OnScreen)
  BY TypeParts DEF Firm
<1>2. PICK D :
        /\ popup' = Dismissed(D)
        /\ seat' = IF s \in Windows THEN FocusToplevel(GrabGone(seat, GoneWith(D), win), s, win)
                   ELSE GrabGone(seat, GoneWith(D), win)
        /\ UNCHANGED <<desktop, win, minimized, inhibitors>>
  BY Zenon DEF Press
<1>3. PICK z : z = GrabGone(seat, GoneWith(D), win)
  OBVIOUS
<1>4. z \in SeatSet /\ z.focus = seat.focus /\ Stack(z, OnScreen \ GoneWith(D))
  BY <1>1, <1>3, GrabGoneStack
<1>5. s \in Windows => win[s] = "mapped"
  BY SurfacesAssumption DEF Press, Mapped, Surfaces
<1>6. Stack(seat', OnScreen \ GoneWith(D)) /\ FocusShows(seat', win')
  <2>1. CASE s \in Windows
    <3>1. seat' = FocusToplevel(z, s, win)
      BY <1>2, <1>3, <2>1
    <3>2. Stack(seat', OnScreen \ GoneWith(D)) /\ seat'.focus = s
      BY <1>4, <2>1, <3>1, FocusStack
    <3>3. QED
      BY <1>2, <1>5, <2>1, <3>2 DEF FocusShows
  <2>2. CASE s \notin Windows
    BY <1>2, <1>3, <1>4, <2>2 DEF Firm, FocusShows
  <2>3. QED
    BY <2>1, <2>2
<1>7. Dismissed(D) \in [Popups -> PopupSet]
  BY <1>1, DismissedPopups DEF SceneOK
<1>8. OnScreen' = {q \in Popups : popup'[q].st = "mapped" /\ popup'[q].grab}
  BY DEF OnScreen
<1>9. OnScreen' = OnScreen \ GoneWith(D)
  BY <1>1, <1>2, <1>7, <1>8, DismissedOnScreen
<1>10. QED
  BY <1>6, <1>9, MovedStep

LEMMA BindKeepsGrabs ==
    ASSUME TypeOK, Firm, NEW c \in Clients, BindKeyboard(c)
    PROVE  Firm'
<1>1. seat \in SeatSet /\ UNCHANGED scene
  BY TypeParts DEF BindKeyboard
<1>2. PICK told : seat' = [seat EXCEPT !.told = told] \/ seat' = seat
  BY DEF BindKeyboard
<1>3. seat'.focus = seat.focus /\ seat'.override = seat.override /\ seat'.grabs = seat.grabs
  BY <1>1, <1>2 DEF SeatSet
<1>4. QED
  BY <1>1, <1>3, StillStep

LEMMA NextKeepsGrabs ==
    ASSUME NullGrabs = {}, TypeOK, TypeOK', Firm, [Next]_vars
    PROVE  Firm'
<1>1. CASE Key
  BY <1>1, KeyKeepsGrabs
<1>2. CASE Lock \/ Draw \/ FrameEvent \/ ReleaseAll
  BY <1>2, DesktopKeepsGrabs
<1>3. CASE \E p \in Popups : PopupRequest(p)
  BY <1>3, PopupKeepsGrabs
<1>4. CASE \E w \in Windows : WindowRequest(w)
  BY <1>4, WindowKeepsGrabs
<1>5. CASE \E s \in Surfaces \cup {None} : Press(s)
  BY <1>5, PressKeepsGrabs
<1>6. CASE \E c \in Clients : BindKeyboard(c)
  BY <1>6, BindKeepsGrabs
<1>7. CASE UNCHANGED vars
  BY <1>7, StillStep DEF vars
<1>8. QED
  BY <1>1, <1>2, <1>3, <1>4, <1>5, <1>6, <1>7 DEF Next
-----------------------------------------------------------------------------
(* The theorem *)

\* The popups on SeatState's grab list are the grabbing popups on screen, the
\* keyboard is on the last of them, and what will have it when they are gone is
\* a window that shows: dismissal, unmapping and destruction in any order leave
\* neither a dead grab nor one that is forgotten, if no grabbing popup attaches
\* a null buffer.
THEOREM GrabsAreOnScreen ==
    ASSUME NullGrabs = {}
    PROVE  Spec => []GrabsAgree
<1>1. Init => Firm
  <2> SUFFICES ASSUME Init PROVE Firm
    OBVIOUS
  <2>1. /\ seat.override = None /\ seat.focus = None /\ seat.grabs = [p \in Popups |-> 0]
        /\ popup = [p \in Popups |-> NoPopup]
    BY DEF Init
  <2>2. OnScreen = {}
    BY <2>1 DEF OnScreen, NoPopup
  <2>3. Listed(seat.grabs) = {}
    BY <2>1 DEF Listed
  <2>4. Top(seat.grabs) = None
    BY <2>3 DEF Top
  <2>5. QED
    BY <2>1, <2>2, <2>3, <2>4 DEF Firm, Stack, Distinct, FocusShows
<1>2. TypeOK /\ TypeOK' /\ Firm /\ [Next]_vars => Firm'
  BY NextKeepsGrabs
<1>3. Firm => GrabsAgree
  BY DEF Firm, Stack, FocusShows, OnScreen, GrabsAgree
<1>4. QED
  BY <1>1, <1>2, <1>3, TypeCorrect, PTL DEF Spec
=============================================================================
