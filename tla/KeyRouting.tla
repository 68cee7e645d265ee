----------------------------- MODULE KeyRouting -----------------------------
(***************************************************************************)
(* Who hears the keyboard: a key goes through the desktop (desktop.cpp:    *)
(* lock screen, chords, alt-tab, text fields of the shell) to the seat     *)
(* (wayland.cpp: SeatState), which tells the keyboards of one client, the  *)
(* owner of the surface on top of the popup grabs or of the focused        *)
(* toplevel.  `seat.told' is what the clients can conclude from the        *)
(* enter, leave and key events they were sent.                             *)
(*                                                                         *)
(* Settings, text fields and input methods come and go at any time: what a *)
(* key finds of them (a matching chord, a row waiting for a shortcut, a    *)
(* text field, an input method's grab) is chosen when it arrives.          *)
(***************************************************************************)
EXTENDS Naturals, FiniteSets

CONSTANTS
    Keys,      \* evdev codes
    Alt,       \* the one of them that is a modifier
    Windows,   \* xdg_toplevels
    Popups,    \* xdg_popups, created and destroyed again and again
    Parent,    \* popup -> the window or popup it opens on
    Clients,
    Owner,     \* window or popup -> its client
    Mortal,    \* windows that may be destroyed
    Shy,       \* windows that may be unmapped
    Iconic,    \* windows that may be minimized
    Greedy,    \* windows that may inhibit the shortcuts
    Outlives,  \* windows whose wl_surface lives on without the xdg_toplevel
    NullGrabs, \* grabbing popups that may be unmapped by a null buffer
    LateUnderGrab, \* whether a wl_keyboard may be bound under a popup grab
    Arming,    \* whether a settings row may wait for a shortcut
    Composing, \* whether an input method may grab the keyboard
    None

Surfaces == Windows \cup Popups

ASSUME KeysAssumption == Alt \in Keys
ASSUME SurfacesAssumption ==
    /\ None \notin Surfaces /\ Windows \cap Popups = {} /\ IsFiniteSet(Popups)
    /\ Parent \in [Popups -> Surfaces] /\ Owner \in [Surfaces -> Clients]
ASSUME SubsetsAssumption ==
    /\ Mortal \cup Shy \cup Iconic \cup Greedy \cup Outlives \subseteq Windows
    /\ NullGrabs \subseteq Popups /\ {LateUnderGrab, Arming, Composing} \subseteq BOOLEAN

VARIABLES
    down,       \* the keys held down, as the input source reports them
    chordDown,  \* DesktopImpl::chordDown
    altTab,     \* DesktopImpl::altTabActive
    locked,     \* lockState: the lock screen is open
    kbCaptured, \* Scene::kbCaptured
    win,        \* a window's xdg_toplevel and wl_surface
    minimized,  \* Toplevel::minimized
    popup,      \* Popup: its state, its grab, its parent, its place in the scene
    inhibitors, \* windows with a keyboard_shortcuts_inhibitor
    seat        \* SeatState

desktop == <<down, chordDown, altTab, locked, kbCaptured>>
scene == <<win, minimized, popup, inhibitors>>
vars == <<desktop, scene, seat>>

(* "new": not mapped; "orphan": its wl_surface went first; "bare": the     *)
(* wl_surface of a destroyed xdg_toplevel.                                 *)
WindowStates == {"new", "mapped", "orphan", "bare", "gone"}
NoPopup == [st |-> "none", grab |-> FALSE, up |-> None, place |-> 0]
Deaf == [in |-> {}, keys |-> {}]

Init ==
    /\ down = {} /\ chordDown = {} /\ altTab = FALSE
    /\ locked = FALSE /\ kbCaptured = FALSE
    /\ win = [w \in Windows |-> "new"] /\ minimized = {}
    /\ popup = [p \in Popups |-> NoPopup]
    /\ inhibitors = {}
    /\ seat = [focus |-> None, override |-> None, grabs |-> [p \in Popups |-> 0],
               pressed |-> {}, uiCaptured |-> FALSE, inhibited |-> FALSE,
               told |-> [c \in Clients |-> Deaf]]
----------------------------------------------------------------------------
(* Lists: the place of each member from the bottom, 0 outside. *)

Listed(place) == {p \in Popups : place[p] > 0}
Ranked(place, S) ==
    [p \in Popups |-> IF p \in S THEN Cardinality({q \in S : place[q] <= place[p]}) ELSE 0]
Unlinked(place, D) == Ranked(place, Listed(place) \ D)
Top(place) ==
    IF Listed(place) = {} THEN None
    ELSE CHOOSE p \in Listed(place) : \A q \in Listed(place) : place[q] <= place[p]

(* A node pushed behind itself drops out of an IntrusiveList. *)
Pushed(place, p) ==
    IF Top(place) = p THEN Unlinked(place, {p})
    ELSE [Unlinked(place, {p}) EXCEPT ![p] = Cardinality(Listed(place) \ {p}) + 1]
----------------------------------------------------------------------------
(* The seat: operators from one state of it, z, to the next.  W is the     *)
(* state of the windows, whose wl_surface a toplevel may have lost.        *)

SurfaceOf(w, W) == IF w # None /\ W[w] = "orphan" THEN None ELSE w
Target(z, W) == IF z.override # None THEN z.override ELSE SurfaceOf(z.focus, W)

Left(told, s) ==
    IF s = None THEN told
    ELSE [told EXCEPT ![Owner[s]] = [in |-> @.in \ {s}, keys |-> {}]]
Entered(told, s, pressed) ==
    IF s = None THEN told
    ELSE [told EXCEPT ![Owner[s]] = [in |-> @.in \cup {s}, keys |-> pressed]]
KeySent(told, s, k, pressed) ==
    IF s = None THEN told
    ELSE [told EXCEPT ![Owner[s]].keys = IF pressed THEN @ \cup {k} ELSE @ \ {k}]

KeysReleased(told, s, keys) ==
    IF s = None THEN told ELSE [told EXCEPT ![Owner[s]].keys = @ \ keys]

UpdateShortcutInhibit(z, W, I) == [z EXCEPT !.inhibited = Target(z, W) \in I]

ReleaseAllKeys(z) ==
    [z EXCEPT !.pressed = {}, !.told = KeysReleased(@, Target(z, win), z.pressed)]

SyncCaptureOnly(z, cap) == [z EXCEPT !.uiCaptured = cap]
SyncKeyboardCapture(z, cap) ==
    [(IF cap /\ ~z.uiCaptured THEN ReleaseAllKeys(z) ELSE z) EXCEPT !.uiCaptured = cap]

FocusUnderGrab(z, t, W) ==
    IF z.focus = t THEN z
    ELSE UpdateShortcutInhibit(
           [z EXCEPT !.focus = t,
                     !.told = Entered(Left(@, SurfaceOf(z.focus, W)), SurfaceOf(t, W), z.pressed)],
           W, inhibitors)
(* Under a popup grab the old focus got its leave when the grab began, and *)
(* the new one is entered when it ends.                                    *)
FocusToplevel(z, t, W) ==
    IF z.focus = t THEN z
    ELSE UpdateShortcutInhibit(
           [z EXCEPT !.focus = t,
                     !.told = IF z.override # None THEN @
                              ELSE Entered(Left(@, SurfaceOf(z.focus, W)), SurfaceOf(t, W), z.pressed)],
           W, inhibitors)

PopupGrabStartOnly(z, p) ==
    [z EXCEPT !.grabs = Pushed(@, p), !.override = p,
              !.told = Entered(Left(@, Target(z, win)), p, z.pressed)]
PopupGrabStart(z, p) ==
    UpdateShortcutInhibit(
      [z EXCEPT !.grabs = Pushed(@, p), !.override = p,
                !.told = Entered(Left(@, Target(z, win)), p, z.pressed)],
      win, inhibitors)

TopGone(z, D, W) ==
    LET grabs == Unlinked(z.grabs, D)
        y == [z EXCEPT !.grabs = grabs, !.override = Top(grabs)]
    IN  IF z.override \notin D \cap Listed(z.grabs) THEN z
        ELSE UpdateShortcutInhibit(
               [y EXCEPT !.told = Entered(Left(@, z.override), Target(y, W), z.pressed)],
               W, inhibitors)
(* grabGone of the surfaces of D, one after the other: what an enter       *)
(* announces in between, the next leave takes back.                        *)
GrabGone(z, D, W) ==
    LET grabs == Unlinked(z.grabs, D)
        y == [z EXCEPT !.grabs = grabs, !.override = Top(grabs)]
    IN  IF z.override \notin D \cap Listed(z.grabs) THEN [z EXCEPT !.grabs = grabs]
        ELSE UpdateShortcutInhibit(
               [y EXCEPT !.told = Entered(Left(@, z.override), Target(y, W), z.pressed)],
               W, inhibitors)

(* A client knows that the wl_surface it destroyed has no focus; the keys  *)
(* it was told of stay if it was told of an heir of its own.               *)
Forgotten(z, s) ==
    IF s \notin z.told[Owner[s]].in THEN z
    ELSE [z EXCEPT !.told[Owner[s]] =
             [in |-> @.in \ {s}, keys |-> IF @.in = {s} THEN {} ELSE @.keys]]
----------------------------------------------------------------------------
(* Keys: DesktopImpl::key, then SeatState::handleKey.  Alternatives are    *)
(* the ways through the former.                                            *)

Arrives(k, pressed) ==
    /\ pressed = (k \notin down)
    /\ down' = IF pressed THEN down \cup {k} ELSE down \ {k}
    /\ UNCHANGED scene

Grabbed == {FALSE, Composing}
HandleKey(z, k, pressed, grab) ==
    IF grab \/ (~pressed /\ k \notin z.pressed) THEN z
    ELSE [z EXCEPT !.pressed = IF pressed THEN @ \cup {k} ELSE @ \ {k},
                   !.told = KeySent(@, Target(z, win), k, pressed)]

(* WaylandImpl::key; grab: imGrabActive() *)
Delivered(k, pressed, grab, cap) ==
    seat' = SyncKeyboardCapture(HandleKey(seat, k, pressed, grab), cap)

(* A settings row waits for a shortcut: the first press of a key becomes   *)
(* it, and modifiers are swallowed both ways.                              *)
ArmedKey(k, pressed) ==
    /\ Arrives(k, pressed)
    /\ Arming /\ ~locked /\ (pressed \/ k = Alt)
    /\ UNCHANGED <<chordDown, altTab, locked, kbCaptured, seat>>

LockedKeyHeard(k, pressed, grab) ==
    /\ Arrives(k, pressed)
    /\ locked
    /\ kbCaptured' = TRUE
    /\ Delivered(k, pressed, grab, FALSE)
    /\ UNCHANGED <<chordDown, altTab, locked>>
LockedKey(k, pressed, grab) ==
    /\ Arrives(k, pressed)
    /\ locked
    /\ kbCaptured' = TRUE
    /\ IF pressed THEN UNCHANGED seat ELSE Delivered(k, pressed, grab, TRUE)
    /\ UNCHANGED <<chordDown, altTab, locked>>

AnyMapped == \E w \in Windows : win[w] \in {"mapped", "orphan"}

(* chordAction; "cancel" is Escape under alt-tab. *)
ChordPress(k, action, text) ==
    /\ Arrives(k, TRUE)
    /\ ~locked /\ ~seat.inhibited /\ k # Alt
    /\ action = "cancel" => altTab
    /\ chordDown' = chordDown \cup {k}
    /\ locked' = (action = "lock")
    /\ altTab' = CASE action = "switch" -> altTab \/ AnyMapped
                   [] action = "cancel" -> FALSE
                   [] OTHER -> altTab
    /\ kbCaptured' = (text \/ altTab')
    /\ UNCHANGED seat

ChordRelease(k, text) ==
    /\ Arrives(k, FALSE)
    /\ ~locked /\ ~seat.inhibited /\ k \in chordDown
    /\ chordDown' = chordDown \ {k}
    /\ kbCaptured' = (text \/ altTab)
    /\ UNCHANGED <<altTab, locked, seat>>

(* Alt going up ends alt-tab. *)
PlainKey(k, pressed, text, grab) ==
    /\ Arrives(k, pressed)
    /\ ~locked /\ ~(~pressed /\ ~seat.inhibited /\ k \in chordDown)
    /\ altTab' = (altTab /\ ~(k = Alt /\ ~pressed))
    /\ kbCaptured' = (text \/ altTab')
    /\ IF pressed /\ kbCaptured' THEN UNCHANGED seat ELSE Delivered(k, pressed, grab, kbCaptured')
    /\ UNCHANGED <<chordDown, locked>>

Key ==
    \E k \in Keys :
        \/ \E pressed \in BOOLEAN :
             \/ ArmedKey(k, pressed)
             \/ \E grab \in Grabbed : LockedKey(k, pressed, grab)
             \/ \E text \in BOOLEAN, grab \in Grabbed : PlainKey(k, pressed, text, grab)
        \/ \E action \in {"lock", "switch", "cancel", "other"}, text \in BOOLEAN :
             ChordPress(k, action, text)
        \/ \E text \in BOOLEAN : ChordRelease(k, text)
----------------------------------------------------------------------------
(* The desktop *)

(* Auto-locked, the idle display, the launcher, a gesture. *)
Lock ==
    /\ ~locked
    /\ locked' = TRUE
    /\ UNCHANGED <<down, chordDown, altTab, kbCaptured, scene, seat>>

(* One buildUi: a lock screen that accepted the password closes, a         *)
(* switcher whose window died (or that a swipe ended) is over.             *)
Draw ==
    /\ locked' \in {locked, FALSE}
    /\ altTab' \in {altTab, FALSE}
    /\ kbCaptured' = (kbCaptured \/ locked')
    /\ UNCHANGED <<down, chordDown, scene, seat>>

(* WaylandImpl::onListen.  The scene's focused toplevel is whichever the   *)
(* last draw left: any window that shows, or none.                         *)
Shown(w) == win[w] \in {"mapped", "orphan"} /\ w \notin minimized
FrameEvent ==
    LET z == SyncKeyboardCapture(seat, kbCaptured)
    IN  /\ IF z.focus # None /\ ~Shown(z.focus)
           THEN seat' = FocusToplevel(z, None, win)
           ELSE \/ seat' = z
                \/ \E w \in Windows : Shown(w) /\ seat' = FocusToplevel(z, w, win)
        /\ UNCHANGED <<desktop, scene>>

(* SeatState::releaseAllKeys for the session or a new keymap.  libinput,   *)
(* suspended with the session, releases what is down once it is back.      *)
ReleaseAll ==
    /\ seat.pressed # {}
    /\ seat' = ReleaseAllKeys(seat)
    /\ UNCHANGED <<desktop, scene>>
----------------------------------------------------------------------------
(* Popups *)

Places == [p \in Popups |-> popup[p].place]
Mapped(s) == IF s \in Popups THEN popup[s].st = "mapped" ELSE s \in Windows /\ win[s] = "mapped"

(* p and everything opened on it, popup on popup (dismissPopupTree). *)
Tree(p) ==
    {c \in Popups : \A X \in SUBSET Popups :
        (p \in X /\ \A d \in Popups : popup[d].up \in X => d \in X) => c \in X}
(* What goes when the surface s is unmapped or destroyed.  Nothing reads   *)
(* the grab of a dismissed popup.                                          *)
OpenedOn(s) == UNION {Tree(p) : p \in {q \in Popups : popup[q].up = s /\ popup[q].st = "mapped"}}
Dismissed(D) ==
    [p \in Popups |-> IF p \in D /\ popup[p].st \in {"new", "mapped"}
                      THEN [popup[p] EXCEPT !.st = "dismissed", !.grab = FALSE] ELSE popup[p]]
(* Unlike dismissal, only mapped popups held a grab. *)
GoneWith(D) == {p \in D : popup[p].st = "mapped"}

CreatePopup(p) ==
    /\ popup[p].st = "none" /\ Mapped(Parent[p])
    /\ popup' = [popup EXCEPT ![p] = [st |-> "new", grab |-> FALSE, up |-> Parent[p],
                                      place |-> Cardinality(Listed(Places)) + 1]]
    /\ UNCHANGED <<desktop, win, minimized, inhibitors, seat>>

(* popupGrab: refused once the serial is no longer an active grab. *)
GrabPopup(p) ==
    /\ popup[p].st = "new" /\ ~popup[p].grab
    /\ LET up == popup[p].up
           gone == up \in Popups /\ popup[up].st = "dismissed"
       IN  /\ up \in Popups => gone \/ popup[up].grab
           /\ \/ popup' = [popup EXCEPT ![p].st = "dismissed"]
              \/ ~gone /\ popup' = [popup EXCEPT ![p].grab = TRUE]
    /\ UNCHANGED <<desktop, win, minimized, inhibitors, seat>>

MapPopup(p) ==
    /\ popup[p].st = "new"
    /\ popup' = [popup EXCEPT ![p].st = "mapped"]
    /\ seat' = IF popup[p].grab THEN PopupGrabStart(seat, p) ELSE seat
    /\ UNCHANGED <<desktop, win, minimized, inhibitors>>

(* A null buffer: the popups on it are dismissed, it keeps its own grab. *)
UnmapPopup(p) ==
    /\ popup[p].st = "mapped" /\ (popup[p].grab => p \in NullGrabs)
    /\ LET D == OpenedOn(p)
       IN  /\ popup' = [Dismissed(D) EXCEPT ![p].st = "new"]
           /\ seat' = GrabGone(seat, GoneWith(D), win)
    /\ UNCHANGED <<desktop, win, minimized, inhibitors>>

(* The popups opened on s lose their parent. *)
Unparented(q, s) == [p \in Popups |-> IF q[p].up = s THEN [q[p] EXCEPT !.up = None] ELSE q[p]]

(* The wl_surface and the xdg_popup; a popup with children can only lose   *)
(* the surface first.                                                      *)
DestroyPopup(p) ==
    /\ popup[p].st # "none"
    /\ LET D == OpenedOn(p)
           place == Unlinked(Places, {p})
           left == [Unparented(Dismissed(D), p) EXCEPT ![p] = NoPopup]
       IN  /\ popup' = [q \in Popups |-> [left[q] EXCEPT !.place = place[q]]]
           /\ seat' = Forgotten(GrabGone(seat, GoneWith(D) \cup {p}, win), p)
    /\ UNCHANGED <<desktop, win, minimized, inhibitors>>
----------------------------------------------------------------------------
(* Windows *)

(* The window that inherits the keyboard from w: the last of the scene's   *)
(* toplevels that shows.                                                   *)
Heirs(w, W) ==
    LET S == {v \in Windows \ {w} : W[v] \in {"mapped", "orphan"} /\ v \notin minimized}
    IN  IF S = {} THEN {None} ELSE S

MapWindow(w) ==
    /\ win[w] = "new"
    /\ win' = [win EXCEPT ![w] = "mapped"]
    /\ seat' = FocusToplevel(seat, w, win')
    /\ UNCHANGED <<desktop, minimized, popup, inhibitors>>

UnmapWindow(w) ==
    /\ w \in Shy /\ win[w] = "mapped"
    /\ win' = [win EXCEPT ![w] = "new"]
    /\ LET D == OpenedOn(w)
           z == GrabGone(seat, GoneWith(D), win')
       IN  /\ popup' = Dismissed(D)
           /\ IF z.focus = w THEN \E h \in Heirs(w, win') : seat' = FocusToplevel(z, h, win')
              ELSE seat' = z
    /\ UNCHANGED <<desktop, minimized, inhibitors>>

InhibitorKept(w) == inhibitors
KbInhibitSurfaceGone(w) == inhibitors \ {w}

(* toplevelGone: an xdg_toplevel is destroyed; its wl_surface, unless it   *)
(* lives on, is destroyed with the same batch of requests.                 *)
DestroyWindow(w) ==
    /\ w \in Mortal /\ win[w] \in {"new", "mapped", "orphan"}
    /\ win' = [win EXCEPT ![w] = IF w \in Outlives /\ win[w] # "orphan" THEN "bare" ELSE "gone"]
    /\ minimized' = minimized \ {w}
    /\ inhibitors' = IF win'[w] = "gone" THEN KbInhibitSurfaceGone(w) ELSE inhibitors
    /\ LET D == IF win'[w] = "gone" THEN OpenedOn(w) ELSE {}
           y == [seat EXCEPT !.focus = None]
       IN  \E h \in Heirs(w, win') :
             LET x == IF seat.focus = w THEN FocusToplevel(y, h, win') ELSE seat
                 z == GrabGone(x, GoneWith(D), win')
             IN  /\ seat' = UpdateShortcutInhibit(IF win'[w] = "gone" THEN Forgotten(z, w) ELSE z,
                                                  win', inhibitors')
                 /\ popup' = IF win'[w] = "gone" THEN Unparented(Dismissed(D), w) ELSE popup
    /\ UNCHANGED desktop

(* surfaceResourceDestroyed of a window: the xdg_toplevel stays, mapped    *)
(* if it was, with no surface; a bare surface is gone.                     *)
DestroySurface(w) ==
    /\ w \in Mortal /\ win[w] \in {"mapped", "bare"}
    /\ win' = [win EXCEPT ![w] = IF win[w] = "mapped" THEN "orphan" ELSE "gone"]
    /\ inhibitors' = KbInhibitSurfaceGone(w)
    /\ LET D == OpenedOn(w)
           z == Forgotten(GrabGone(seat, GoneWith(D), win'), w)
       IN  /\ popup' = Unparented(Dismissed(D), w)
           /\ seat' = IF w \in inhibitors THEN UpdateShortcutInhibit(z, win', inhibitors') ELSE z
    /\ UNCHANGED <<desktop, minimized>>

(* xdg_activation, or a pointer that carries the focus. *)
Activate(w) ==
    /\ win[w] = "mapped"
    /\ seat' = FocusToplevel(seat, w, win)
    /\ UNCHANGED <<desktop, scene>>

(* set_minimized or the dock; a raise restores the window. *)
Minimize(w) ==
    /\ w \in Iconic
    /\ minimized' = IF w \in minimized THEN minimized \ {w} ELSE minimized \cup {w}
    /\ UNCHANGED <<desktop, win, popup, inhibitors, seat>>

(* handleButton, a press over s: newer grabbing popups are dismissed.      *)
Press(s) ==
    /\ ~locked /\ (s = None \/ Mapped(s))
    /\ LET floor == IF s \in Popups /\ popup[s].grab THEN popup[s].place ELSE 0
           D == UNION {Tree(p) : p \in {q \in Popups : popup[q].st = "mapped" /\ popup[q].grab
                                                       /\ popup[q].place > floor}}
           z == GrabGone(seat, GoneWith(D), win)
       IN  /\ popup' = Dismissed(D)
           /\ seat' = IF s \in Windows THEN FocusToplevel(z, s, win) ELSE z
    /\ UNCHANGED <<desktop, win, minimized, inhibitors>>

(* A shortcuts inhibitor is made or destroyed. *)
Inhibit(w) ==
    /\ w \in Greedy /\ win[w] \in {"new", "mapped", "bare"}
    /\ inhibitors' = IF w \in inhibitors THEN inhibitors \ {w} ELSE inhibitors \cup {w}
    /\ seat' = UpdateShortcutInhibit(seat, win, inhibitors')
    /\ UNCHANGED <<desktop, win, minimized, popup>>

(* seatGetKeyboard: every client has a keyboard, and one more is entered   *)
(* at once; keyboards of a client hear the same from then on.              *)
BindKeyboard(c) ==
    /\ seat.override # None => LateUnderGrab
    /\ LET s == SurfaceOf(seat.focus, win)
       IN  seat' = IF s # None /\ Owner[s] = c
                   THEN [seat EXCEPT !.told[c] = [in |-> @.in \cup {s}, keys |-> seat.pressed]]
                   ELSE seat
    /\ UNCHANGED <<desktop, scene>>
----------------------------------------------------------------------------
PopupRequest(p) ==
    \/ CreatePopup(p) \/ GrabPopup(p) \/ MapPopup(p) \/ UnmapPopup(p) \/ DestroyPopup(p)
WindowRequest(w) ==
    \/ MapWindow(w) \/ UnmapWindow(w) \/ DestroyWindow(w) \/ DestroySurface(w)
    \/ Activate(w) \/ Minimize(w) \/ Inhibit(w)

Next ==
    \/ Key
    \/ Lock \/ Draw \/ FrameEvent \/ ReleaseAll
    \/ \E p \in Popups : PopupRequest(p)
    \/ \E w \in Windows : WindowRequest(w)
    \/ \E s \in Surfaces \cup {None} : Press(s)
    \/ \E c \in Clients : BindKeyboard(c)

Spec == Init /\ [][Next]_vars
----------------------------------------------------------------------------
TypeOK ==
    /\ down \subseteq Keys /\ chordDown \subseteq Keys
    /\ locked \in BOOLEAN
    /\ altTab \in BOOLEAN /\ kbCaptured \in BOOLEAN
    /\ win \in [Windows -> WindowStates] /\ minimized \subseteq Windows
    /\ inhibitors \subseteq {w \in Windows : win[w] \in {"new", "mapped", "bare"}}
    /\ popup \in [Popups -> [st : {"none", "new", "mapped", "dismissed"}, grab : BOOLEAN,
                             up : Surfaces \cup {None}, place : Nat]]
    /\ seat \in [focus : Windows \cup {None}, override : Popups \cup {None},
                 grabs : [Popups -> 0..Cardinality(Popups)], pressed : SUBSET Keys,
                 uiCaptured : BOOLEAN, inhibited : BOOLEAN,
                 told : [Clients -> [in : SUBSET Surfaces, keys : SUBSET Keys]]]

(* What a client was told adds up: the owner of the keyboard's surface     *)
(* believes it has that one and holds exactly the keys of the seat, and    *)
(* every other client that it has none and holds none.                     *)
ClientsAgree ==
    \A c \in Clients :
        LET s == Target(seat, win)
        IN  seat.told[c] = IF s # None /\ Owner[s] = c
                           THEN [in |-> {s}, keys |-> seat.pressed] ELSE Deaf

(* While the shell has the keyboard no client holds a key.                 *)
CapturedHoldsNothing == seat.uiCaptured => seat.pressed = {}

(* The grab stack is the grabbing popups on screen, the keyboard is on the *)
(* last of them, and a grab that ended never leaves the keyboard behind.   *)
GrabsAgree ==
    /\ Listed(seat.grabs) = {p \in Popups : popup[p].st = "mapped" /\ popup[p].grab}
    /\ seat.override = Top(seat.grabs)
    /\ seat.focus # None => win[seat.focus] \in {"mapped", "orphan"}

(* The shell's shortcuts are off exactly while a surface that inhibits     *)
(* them has the keyboard: not stuck off, not stuck on.                     *)
InhibitAgrees == seat.inhibited = (Target(seat, win) \in inhibitors)

(* Neither the press that locks the screen nor one under the lock screen   *)
(* reaches a client.                                                       *)
QuietWhileLocked == [][locked \/ locked' => seat'.pressed \subseteq seat.pressed]_vars

(* A key the clients hold is down.                                         *)
HeldKeysAreDown == seat.pressed \subseteq down
=============================================================================
