------------------------------ MODULE DrmCrtc ------------------------------
(***************************************************************************)
(* The kernel's side of one CRTC, as device_kms.cpp uses it: what the      *)
(* primary plane shows, the one nonblocking flip that may be in flight,    *)
(* and the completion events the program has not read.                     *)
(***************************************************************************)
EXTENDS Integers

CONSTANTS
    Buffers,  \* client dma-bufs that may be imported as framebuffers
    NoFb,     \* no framebuffer
    Foreign   \* the framebuffer of whoever owns the other VT

Slots == {0, 1}  \* the two scanout images of the program's swapchain
Fbs   == Slots \cup Buffers

ASSUME FbAssumption ==
    /\ NoFb \notin Fbs /\ Foreign \notin Fbs /\ NoFb # Foreign
    /\ Buffers \cap Slots = {}

VARIABLES
    screen,   \* the framebuffer the primary plane is programmed with
    inFlight, \* the framebuffer of the flip that has not completed
    unread,   \* completion events not read yet
    active    \* the CRTC is lit

crtcVars == <<screen, inFlight, unread, active>>

CrtcInit ==
    /\ screen = Foreign
    /\ inFlight = NoFb
    /\ unread = 0
    /\ active = FALSE

CrtcTypeOK ==
    /\ screen \in Fbs \cup {NoFb, Foreign}
    /\ inFlight \in Fbs \cup {NoFb}
    /\ unread \in 0 .. 2
    /\ active \in BOOLEAN

\* A nonblocking commit finds EBUSY while a flip is in flight; one without
\* a modeset needs a lit CRTC.
Commits(modeset) == inFlight = NoFb /\ (modeset \/ active)

\* The kernel takes the commit.
Queue(fb) == inFlight' = fb /\ active' = TRUE /\ UNCHANGED <<screen, unread>>

\* The vblank: the flip is on screen and its event is readable.
FlipDone ==
    /\ inFlight # NoFb
    /\ screen' = inFlight
    /\ inFlight' = NoFb
    /\ unread' = unread + 1
    /\ UNCHANGED active

\* A blocking commit waits for the flip in flight.
Settled == IF inFlight = NoFb THEN screen ELSE inFlight
SettledEvents == IF inFlight = NoFb THEN unread ELSE unread + 1

\* ACTIVE = 0 keeps the plane's framebuffer.
SwitchOff ==
    /\ screen' = Settled
    /\ inFlight' = NoFb
    /\ unread' = SettledEvents
    /\ active' = FALSE

\* drmModeRmFB of fbs: a framebuffer the plane still has is torn off it,
\* and older kernels switch the whole CRTC off with it.
RemoveFbs(fbs) ==
    IF Settled \in fbs
    THEN /\ screen' = NoFb
         /\ inFlight' = NoFb
         /\ unread' = SettledEvents
         /\ active' \in {FALSE, active}
    ELSE UNCHANGED crtcVars

\* The same, followed by a nonblocking modeset the kernel takes.
RemoveThenQueue(fbs, fb) ==
    /\ IF Settled \in fbs
       THEN screen' = NoFb /\ unread' = SettledEvents
       ELSE inFlight = NoFb /\ UNCHANGED <<screen, unread>>
    /\ inFlight' = fb
    /\ active' = TRUE
=============================================================================
