----------------------------- MODULE KmsOutput -----------------------------
(***************************************************************************)
(* device_kms.cpp, the zero-copy output: a swapchain of two scanout        *)
(* images, direct scanout of client buffers, the hand-off of an image to   *)
(* the screenshot viewer, VT switches, DPMS and hotplug.  Frames are the   *)
(* renderer's (frameNow), reduced to what they ask of the output.          *)
(*                                                                         *)
(* The kernel and the shared worker run beside the event loop.  The loop   *)
(* is split only where it waits: in drainPendingFlip, with the rest of the *)
(* callback left in `loop'.                                                *)
(***************************************************************************)
EXTENDS DrmCrtc

CONSTANTS
    Modes,     \* display modes
    FirstMode, \* the mode at boot
    ModeOf,    \* the mode each client buffer is sized for
    Monitors,  \* the mode lists of the displays that may be plugged in
    Unplugged, \* no display
    NoProbe,   \* no connector probe to hand to the loop
    BadProbe,  \* the connector could not be read
    NoMode,    \* no replacement image
    HdrDisplay,\* whether the display and the driver offer HDR
    Faults     \* which of the failures the code handles may happen

FaultKinds ==
    {"commit",   \* the driver refuses a commit it could take
     "direct",   \* a client buffer is refused, for good or for now
     "probe",    \* drmModeGetConnector fails
     "blob",     \* the mode blob is refused
     "rebuild",  \* the images of a new mode cannot be allocated
     "prepare",  \* the replacement image cannot be allocated
     "export",   \* the image's memory cannot be exported
     "submit",   \* the screenshot's queue submission fails
     "degraded", \* HDR is refused in a test modeset, or carried below 10 bpc
     "slow"}     \* no flip event within drainPendingFlip's 100 ms

ASSUME ModeAssumption ==
    /\ FirstMode \in Modes /\ NoMode \notin Modes
    /\ ModeOf \in [Buffers -> Modes]
ASSUME MonitorAssumption ==
    /\ Monitors \subseteq SUBSET Modes
    /\ \E m \in Monitors : FirstMode \in m
    /\ {Unplugged, NoProbe, BadProbe} \cap Monitors = {}
    /\ NoProbe # Unplugged /\ BadProbe # Unplugged /\ NoProbe # BadProbe
ASSUME HdrAssumption == HdrDisplay \in BOOLEAN
ASSUME FaultAssumption == Faults \subseteq FaultKinds

VARIABLES
    flipPending, scanNext, queuedScan, currentScan,
    queuedDirect, currentDirect,  \* with the frame references they hold
    modesetDone, sessionActive, connectorConnected, powered, mode,
    hdr,           \* color.hdr()
    signalFeedbackLogged, \* the depth of an HDR link was read since the last
                   \* change; of an SDR link nothing is learned
    imported,      \* directFbs
    tainted,       \* buffers KMS rejected for good
    slotMode,      \* the mode each scanout image was built for
    rendered,      \* the image was rendered into since it was built
    screenshotState, screenshotIndex, screenshotWasPresented,
    screenshotReplacement, \* the mode the spare image was built for
    shotRequested, forceComposition, \* the renderer's
    prep,          \* the screenshot job: none, asked, built or failed
    monitor,       \* what is plugged in
    owed,          \* a hotplug event no probe has served
    probe,         \* what the probe read, until the loop takes it
    loop,          \* idle, or the callback that waits for the flip
    leaked         \* history: buffers whose frame reference was dropped
                   \* without a release

flipVars == <<flipPending, queuedScan, currentScan, queuedDirect, currentDirect>>
linkVars == <<modesetDone, sessionActive, connectorConnected, powered, mode>>
sessionVars == <<sessionActive, connectorConnected, powered, mode>>
signalVars == <<hdr, signalFeedbackLogged>>
shotVars == <<screenshotState, screenshotIndex, screenshotWasPresented,
              screenshotReplacement>>
askVars  == <<shotRequested, forceComposition, prep>>
plugVars == <<monitor, owed, probe>>
slotVars == <<slotMode, rendered>>
directVars == <<imported, tainted>>
vars == <<crtcVars, flipVars, scanNext, linkVars, signalVars, directVars, slotVars,
          shotVars, askVars, plugVars, loop, leaked>>

NoSlot == -1

\* Mutants are named for the bug they stand for and precede what they mutate.
OtherOffByOne(i) == i + 1

Other(i) == 1 - i
LastSlot == Other(scanNext) \* scan[scanNext ^ 1]

Init ==
    /\ CrtcInit
    /\ flipPending = FALSE
    /\ scanNext = 0
    /\ queuedScan = NoSlot /\ currentScan = NoSlot
    /\ queuedDirect = NoFb /\ currentDirect = NoFb
    /\ modesetDone = FALSE
    /\ sessionActive = TRUE
    /\ connectorConnected = TRUE
    /\ powered = TRUE
    /\ mode = FirstMode
    /\ hdr \in {FALSE, HdrDisplay}
    /\ signalFeedbackLogged = FALSE
    /\ imported = {} /\ tainted = {}
    /\ slotMode = [i \in Slots |-> FirstMode]
    /\ rendered = [i \in Slots |-> FALSE]
    /\ screenshotState = 0
    /\ screenshotIndex = NoSlot
    /\ screenshotWasPresented = FALSE
    /\ screenshotReplacement = NoMode
    /\ shotRequested = FALSE /\ forceComposition = FALSE /\ prep = "none"
    /\ monitor \in {m \in Monitors : FirstMode \in m}
    /\ owed = FALSE /\ probe = NoProbe
    /\ loop = "idle"
    /\ leaked = {}

Idle == loop = "idle"

\* commit() of the program: the session's master and the kernel permitting.
CanCommit(modeset) == sessionActive /\ Commits(modeset)
MayRefuse(modeset) == ~CanCommit(modeset) \/ "commit" \in Faults

\* commit() with a modeset tests it first: a display that refuses the HDR
\* signal gets SDR, and that choice outlives the commit.
MayFallBack(tested) ==
    /\ \/ UNCHANGED hdr
       \/ "degraded" \in Faults /\ tested /\ hdr' = FALSE
    /\ UNCHANGED signalFeedbackLogged

\* updateSignalFeedback(): the depth of the link is read once a modeset is
\* done; a link too shallow for HDR makes the next frame modeset to SDR.
Feedback(logged) ==
    \/ /\ signalFeedbackLogged' = (hdr /\ (logged \/ modesetDone))
       /\ UNCHANGED <<modesetDone, hdr>>
    \/ /\ "degraded" \in Faults
       /\ modesetDone /\ ~logged /\ hdr
       /\ hdr' = FALSE
       /\ modesetDone' = FALSE
       /\ signalFeedbackLogged' = FALSE

\* A frame reference overwritten without releaseDirectUse.
Forget(b) == leaked' = leaked \cup ({b} \ {NoFb})

-----------------------------------------------------------------------------
(* Flips.                                                                  *)

\* The vblank of the kernel, at any point of the program.
FlipCompletes ==
    /\ FlipDone
    /\ UNCHANGED <<flipVars, scanNext, linkVars, signalVars, directVars, slotVars,
                   shotVars, askVars, plugVars, loop, leaked>>

\* The other VT's owner shows its own picture.
ForeignCommit ==
    /\ ~sessionActive
    /\ inFlight = NoFb
    /\ screen' = Foreign
    /\ active' = TRUE
    /\ UNCHANGED <<inFlight, unread, flipVars, scanNext, linkVars, signalVars,
                   directVars, slotVars, shotVars, askVars, plugVars, loop,
                   leaked>>

\* What is current once every readable event is handled: a second one
\* finds nothing queued.
Landed == IF unread = 1 THEN queuedScan ELSE NoSlot

\* retireScreenshot() after those events: the handed-off image was on screen
\* and another one is, so the spare takes its place.
ShownForgets == queuedScan = screenshotIndex

Shown == screenshotWasPresented \/ queuedScan = screenshotIndex

RetiresAtOnce == screenshotState = 3 /\ Shown

Retires == screenshotState = 3 /\ Shown /\ Landed # screenshotIndex

Retire ==
    /\ slotMode' = [slotMode EXCEPT ![screenshotIndex] = screenshotReplacement]
    /\ rendered' = [rendered EXCEPT ![screenshotIndex] = FALSE]
    /\ screenshotState' = 0
    /\ screenshotIndex' = NoSlot
    /\ screenshotWasPresented' = FALSE
    /\ screenshotReplacement' = NoMode

\* drmHandleEvent runs pageFlipHandler for every event it can read.
ReadFlips ==
    /\ unread > 0
    /\ flipPending' = FALSE
    /\ currentScan' = Landed
    /\ queuedScan' = NoSlot
    /\ currentDirect' = IF unread = 1 THEN queuedDirect ELSE NoFb
    /\ queuedDirect' = NoFb
    /\ IF Retires
       THEN /\ Retire
            /\ IF Settled = screenshotIndex
               THEN /\ screen' = NoFb
                    /\ inFlight' = NoFb
                    /\ unread' = SettledEvents - unread
                    /\ active' \in {FALSE, active}
               ELSE unread' = 0 /\ UNCHANGED <<screen, inFlight, active>>
       ELSE /\ screenshotWasPresented' = (screenshotState = 3 /\ Shown)
            /\ unread' = 0
            /\ UNCHANGED <<screen, inFlight, active, slotVars, screenshotState,
                           screenshotIndex, screenshotReplacement>>
    /\ Feedback(signalFeedbackLogged)
    /\ UNCHANGED <<scanNext, sessionVars, directVars, askVars, plugVars, loop, leaked>>

\* drmIoCb.
HandleFlips == Idle /\ ReadFlips

DrainOnlyWhenPowered == ~Idle /\ flipPending /\ powered /\ ReadFlips

\* drainPendingFlip(): wait for the event, or give up after 100 ms.
DrainFlips == ~Idle /\ flipPending /\ ReadFlips

DrainGivesUp ==
    /\ "slow" \in Faults
    /\ ~Idle
    /\ flipPending
    /\ unread = 0
    /\ flipPending' = FALSE
    /\ UNCHANGED <<crtcVars, queuedScan, currentScan, queuedDirect, currentDirect,
                   scanNext, linkVars, signalVars, directVars, slotVars, shotVars,
                   askVars, plugVars, loop, leaked>>

\* The callback `at' goes on after its drain, and returns.
Drained(at) == loop = at /\ ~flipPending /\ loop' = "idle"

-----------------------------------------------------------------------------
(* Power, sessions and hotplug.                                            *)

\* commit(lastFb, true) on the framebuffer of the last image presented.
RelightForgetsQueue ==
    /\ CanCommit(TRUE)
    /\ Queue(LastSlot)
    /\ flipPending' = TRUE
    /\ MayFallBack(TRUE)
    /\ UNCHANGED <<queuedScan, currentScan>>

RelightAccepted ==
    /\ CanCommit(TRUE)
    /\ Queue(LastSlot)
    /\ flipPending' = TRUE
    /\ queuedScan' = LastSlot
    /\ MayFallBack(TRUE)
    /\ UNCHANGED currentScan

RelightRefused ==
    /\ MayRefuse(TRUE)
    /\ MayFallBack(CanCommit(TRUE))
    /\ UNCHANGED <<crtcVars, flipPending, queuedScan, currentScan>>

\* remodeset() at the current mode, once its drain is over.
Remodeset ==
    \/ modesetDone /\ (RelightAccepted \/ RelightRefused)
    \/ ~modesetDone /\ UNCHANGED <<crtcVars, flipPending, queuedScan, currentScan,
                                  signalVars>>

PowerOnWithoutModeset(on) ==
    /\ Idle
    /\ modesetDone
    /\ sessionActive
    /\ powered # on
    /\ powered' = on
    /\ loop' = IF on THEN "settle" ELSE "powerOff"
    /\ UNCHANGED <<crtcVars, flipVars, scanNext, modesetDone, sessionActive,
                   connectorConnected, mode, signalVars, directVars, slotVars,
                   shotVars, askVars, plugVars, leaked>>

\* setPowerSave(): ignored before the first modeset and without a session.
SetPowerSave(on) ==
    /\ Idle
    /\ modesetDone
    /\ sessionActive
    /\ powered # on
    /\ powered' = on
    /\ loop' = IF on THEN "powerOn" ELSE "powerOff"
    /\ UNCHANGED <<crtcVars, flipVars, scanNext, modesetDone, sessionActive,
                   connectorConnected, mode, signalVars, directVars, slotVars,
                   shotVars, askVars, plugVars, leaked>>

PowerOn ==
    /\ Drained("powerOn")
    /\ \/ RelightAccepted /\ queuedDirect' = NoFb /\ Forget(queuedDirect)
       \/ RelightRefused /\ UNCHANGED <<queuedDirect, leaked>>
    /\ UNCHANGED <<currentDirect, scanNext, linkVars, directVars, slotVars,
                   shotVars, askVars, plugVars>>

PowerOffReleasesCurrent ==
    /\ Drained("powerOff")
    /\ SwitchOff \/ ("commit" \in Faults /\ UNCHANGED crtcVars)
    /\ queuedDirect' = NoFb
    /\ currentDirect' = NoFb
    /\ UNCHANGED <<flipPending, queuedScan, currentScan, scanNext, linkVars,
                   signalVars, directVars, slotVars, shotVars, askVars, plugVars,
                   leaked>>

\* The result of the blocking ACTIVE = 0 commit is not looked at.
PowerOff ==
    /\ Drained("powerOff")
    /\ SwitchOff \/ ("commit" \in Faults /\ UNCHANGED crtcVars)
    /\ queuedDirect' = NoFb
    /\ UNCHANGED <<flipPending, queuedScan, currentScan, currentDirect, scanNext,
                   linkVars, signalVars, directVars, slotVars, shotVars, askVars,
                   plugVars, leaked>>

SessionDisabled ==
    /\ Idle
    /\ sessionActive
    /\ sessionActive' = FALSE
    /\ UNCHANGED <<crtcVars, flipVars, scanNext, modesetDone, connectorConnected,
                   powered, mode, signalVars, directVars, slotVars, shotVars,
                   askVars, plugVars, loop, leaked>>

\* sessionEnabled(): only a comeback modesets, and only what a frame modeset
\* before.
SessionEnabled ==
    /\ Idle
    /\ sessionActive' = TRUE
    /\ loop' = IF sessionActive THEN "settle" ELSE "comeback"
    /\ UNCHANGED <<crtcVars, flipVars, scanNext, modesetDone, connectorConnected,
                   powered, mode, signalVars, directVars, slotVars, shotVars,
                   askVars, plugVars, leaked>>

Settle ==
    /\ Drained("settle")
    /\ queuedDirect' = NoFb
    /\ UNCHANGED <<crtcVars, flipPending, queuedScan, currentScan, currentDirect,
                   scanNext, linkVars, signalVars, directVars, slotVars, shotVars,
                   askVars, plugVars, leaked>>

Comeback ==
    /\ Drained("comeback")
    /\ queuedDirect' = NoFb
    /\ Remodeset
    /\ UNCHANGED <<currentDirect, scanNext, linkVars, directVars, slotVars,
                   shotVars, askVars, plugVars, leaked>>

\* applyDisplaySettings(): the settings put the output into HDR or SDR, then
\* it modesets at the same mode.
DisplaySettings ==
    /\ Idle
    /\ hdr' \in {FALSE, HdrDisplay}
    /\ signalFeedbackLogged' = FALSE
    /\ loop' = "settings"
    /\ UNCHANGED <<crtcVars, flipVars, scanNext, linkVars, directVars, slotVars,
                   shotVars, askVars, plugVars, leaked>>

ApplySettings ==
    /\ Drained("settings")
    /\ Remodeset
    /\ UNCHANGED <<queuedDirect, currentDirect, scanNext, linkVars, directVars,
                   slotVars, shotVars, askVars, plugVars, leaked>>

\* A cable or a display changes and udev says so.
MonitorChanges ==
    /\ monitor' \in (Monitors \cup {Unplugged}) \ {monitor}
    /\ owed' = TRUE
    /\ UNCHANGED <<crtcVars, flipVars, scanNext, linkVars, signalVars, directVars,
                   slotVars, shotVars, askVars, probe, loop, leaked>>

\* hotplugProbe() on the worker; hotplugJob coalesces what comes meanwhile.
HotplugProbe ==
    /\ owed
    /\ probe = NoProbe
    /\ owed' = FALSE
    /\ \/ probe' = monitor
       \/ "probe" \in Faults /\ probe' = BadProbe
    /\ UNCHANGED <<crtcVars, flipVars, scanNext, linkVars, signalVars, directVars,
                   slotVars, shotVars, askVars, monitor, loop, leaked>>

ProbeConnected == probe \notin {NoProbe, BadProbe, Unplugged}

\* The display no longer offers the current mode but has others.
OtherModes == probe # {} /\ mode \notin probe

\* hotplugProbed() when only the link's depth is read again, or not even that.
ProbeIgnored ==
    /\ Idle
    /\ probe # NoProbe
    /\ \/ probe = BadProbe
       \/ probe = Unplugged /\ ~connectorConnected
       \/ /\ ProbeConnected /\ connectorConnected
          /\ ~OtherModes \/ screenshotState # 0
    /\ IF ProbeConnected
       THEN Feedback(FALSE)
       ELSE UNCHANGED <<modesetDone, signalVars>>
    /\ probe' = NoProbe
    /\ UNCHANGED <<crtcVars, flipVars, scanNext, sessionVars, directVars, slotVars,
                   shotVars, askVars, monitor, owed, loop, leaked>>

Disconnected ==
    /\ Idle
    /\ probe = Unplugged
    /\ connectorConnected
    /\ connectorConnected' = FALSE
    /\ probe' = NoProbe
    /\ UNCHANGED <<crtcVars, flipVars, scanNext, modesetDone, sessionActive,
                   powered, mode, signalVars, directVars, slotVars, shotVars,
                   askVars, monitor, owed, loop, leaked>>

\* The connector came back, or its mode list changed under a live link.
Reconnected ==
    /\ Idle
    /\ ProbeConnected
    /\ ~connectorConnected
    /\ connectorConnected' = TRUE
    /\ loop' = "replug"
    /\ UNCHANGED <<crtcVars, flipVars, scanNext, modesetDone, sessionActive,
                   powered, mode, signalVars, directVars, slotVars, shotVars,
                   askVars, plugVars, leaked>>

ModeListChanged ==
    /\ Idle
    /\ ProbeConnected
    /\ connectorConnected
    /\ OtherModes
    /\ screenshotState = 0
    /\ Feedback(FALSE)
    /\ loop' = "follow"
    /\ UNCHANGED <<crtcVars, flipVars, scanNext, sessionVars, directVars, slotVars,
                   shotVars, askVars, plugVars, leaked>>

\* rebuildScanout(): both images and the bookkeeping start over.
Rebuild(m) ==
    /\ slotMode' = [i \in Slots |-> m]
    /\ rendered' = [i \in Slots |-> FALSE]
    /\ scanNext' = 0
    /\ currentScan' = NoSlot

ReleaseDirect == queuedDirect' = NoFb /\ currentDirect' = NoFb

MaySwitchAnyway == OtherModes

MaySwitch == OtherModes /\ screenshotState = 0

\* switchMode() takes: every framebuffer of the old mode is removed, and
\* remodeset() follows on slot scanNext ^ 1.
SwitchMode ==
    /\ loop \in {"replug", "follow"}
    /\ Drained(loop)
    /\ MaySwitch
    /\ ReleaseDirect
    /\ mode' \in probe
    /\ Rebuild(mode')
    /\ imported' = {}
    /\ \/ /\ modesetDone /\ sessionActive
          /\ RemoveThenQueue(Slots \cup imported, 1)
          /\ flipPending' = TRUE
          /\ queuedScan' = 1
          /\ MayFallBack(TRUE)
       \/ /\ ~modesetDone \/ ~sessionActive \/ "commit" \in Faults
          /\ MayFallBack(modesetDone /\ sessionActive)
          /\ RemoveFbs(Slots \cup imported)
          /\ queuedScan' = NoSlot
          /\ UNCHANGED flipPending
    /\ probe' = NoProbe
    /\ UNCHANGED <<modesetDone, sessionActive, connectorConnected, powered,
                   tainted, shotVars, askVars, monitor, owed, leaked>>

\* A replug that keeps the mode, or must.
Replug ==
    /\ Drained("replug")
    /\ ~MaySwitch
    /\ Remodeset
    /\ probe' = NoProbe
    /\ UNCHANGED <<queuedDirect, currentDirect, scanNext, linkVars, directVars,
                   slotVars, shotVars, askVars, monitor, owed, leaked>>

\* The mode blob is refused: the client buffers are released already.  Only
\* a replug goes on to remodeset().
BlobRefused ==
    /\ "blob" \in Faults
    /\ loop \in {"replug", "follow"}
    /\ Drained(loop)
    /\ MaySwitch
    /\ ReleaseDirect
    /\ IF loop = "replug"
       THEN Remodeset
       ELSE UNCHANGED <<crtcVars, flipPending, queuedScan, currentScan, signalVars>>
    /\ probe' = NoProbe
    /\ UNCHANGED <<scanNext, linkVars, directVars, slotVars, shotVars, askVars,
                   monitor, owed, leaked>>

\* The images of the new mode cannot be allocated: new ones at the old mode.
RebuildFailed ==
    /\ "rebuild" \in Faults
    /\ loop \in {"replug", "follow"}
    /\ Drained(loop)
    /\ MaySwitch
    /\ ReleaseDirect
    /\ Rebuild(mode)
    /\ \/ /\ loop = "replug" /\ modesetDone /\ sessionActive
          /\ RemoveThenQueue(Slots, 1)
          /\ flipPending' = TRUE
          /\ queuedScan' = 1
          /\ MayFallBack(TRUE)
       \/ /\ loop = "follow" \/ ~modesetDone \/ ~sessionActive
             \/ inFlight \in Buffers \/ "commit" \in Faults
          /\ MayFallBack(/\ loop = "replug" /\ modesetDone /\ sessionActive
                         /\ inFlight \notin Buffers)
          /\ RemoveFbs(Slots)
          /\ queuedScan' = NoSlot
          /\ UNCHANGED flipPending
    /\ probe' = NoProbe
    /\ UNCHANGED <<linkVars, directVars, shotVars, askVars, monitor, owed, leaked>>

-----------------------------------------------------------------------------
(* Frames.                                                                 *)

ReadyWhileFlipping == sessionActive /\ connectorConnected /\ powered

Ready == ~flipPending /\ sessionActive /\ connectorConnected /\ powered

\* A client buffer the output would try to scan out: its colours need no
\* conversion.
Flyable(b) == modesetDone /\ ~hdr /\ b \notin tainted /\ ModeOf[b] = mode

\* directScanout() takes: the frame composes nothing.
DirectFrame(b) ==
    /\ Idle
    /\ Ready
    /\ ~forceComposition
    /\ Flyable(b)
    /\ CanCommit(FALSE)
    /\ imported' = imported \cup {b}
    /\ Queue(b)
    /\ flipPending' = TRUE
    /\ queuedDirect' = b
    /\ queuedScan' = NoSlot
    /\ Forget(queuedDirect)
    /\ UNCHANGED <<currentScan, currentDirect, scanNext, linkVars, signalVars,
                   tainted, slotVars, shotVars, askVars, plugVars, loop>>

\* A frame may first try a client buffer and be refused.
MayTryDirect ==
    \/ UNCHANGED directVars
    \/ \E b \in Buffers :
        /\ Ready /\ ~forceComposition /\ Flyable(b)
        /\ "direct" \in Faults \/ MayRefuse(FALSE)
        /\ imported' \in {imported, imported \cup {b}}
        /\ tainted' \in {tainted, tainted \cup {b}}

PresentKeepsNext(i) ==
    /\ ~flipPending
    /\ CanCommit(~modesetDone)
    /\ Queue(i)
    /\ flipPending' = TRUE
    /\ modesetDone' = TRUE
    /\ queuedScan' = i
    /\ queuedDirect' = NoFb
    /\ Forget(queuedDirect)
    /\ MayFallBack(~modesetDone)
    /\ UNCHANGED scanNext

PresentKeepsModeset(i) ==
    /\ ~flipPending
    /\ CanCommit(~modesetDone)
    /\ Queue(i)
    /\ flipPending' = TRUE
    /\ scanNext' = Other(i)
    /\ queuedScan' = i
    /\ queuedDirect' = NoFb
    /\ Forget(queuedDirect)
    /\ MayFallBack(~modesetDone)
    /\ UNCHANGED modesetDone

\* presentImage(i) takes; it modesets the first time and when HDR was given up.
PresentAccepted(i) ==
    /\ ~flipPending
    /\ CanCommit(~modesetDone)
    /\ Queue(i)
    /\ flipPending' = TRUE
    /\ modesetDone' = TRUE
    /\ scanNext' = Other(i)
    /\ queuedScan' = i
    /\ queuedDirect' = NoFb
    /\ Forget(queuedDirect)
    /\ MayFallBack(~modesetDone)

PresentRefused ==
    /\ flipPending \/ MayRefuse(~modesetDone)
    /\ MayFallBack(~flipPending /\ ~modesetDone /\ CanCommit(TRUE))
    /\ UNCHANGED <<crtcVars, flipPending, modesetDone, scanNext, queuedScan,
                   queuedDirect, leaked>>

\* takeScreenshot(i): the image just presented goes to the viewer, unless
\* its memory cannot be exported.
Take(i) ==
    /\ screenshotState' = 3
    /\ screenshotIndex' = i
    /\ screenshotWasPresented' = FALSE
    /\ UNCHANGED screenshotReplacement

TakeFailsKeepsSpare ==
    /\ "export" \in Faults
    /\ screenshotState' = 0
    /\ UNCHANGED <<screenshotIndex, screenshotWasPresented, screenshotReplacement>>

TakeFails ==
    /\ "export" \in Faults
    /\ screenshotState' = 0
    /\ screenshotReplacement' = NoMode
    /\ UNCHANGED <<screenshotIndex, screenshotWasPresented>>

\* shotCapture->submit(); the request stands until one takes.
Submit(i) ==
    /\ IF screenshotState = 2 THEN Take(i) \/ TakeFails ELSE UNCHANGED shotVars
    /\ \/ shotRequested' = FALSE
       \/ "submit" \in Faults /\ shotRequested' = TRUE

\* frameNow() composing into acquire().  The prepare watcher asks only a
\* ready output; composeNow() and readPixel() force a frame at any time and
\* withdraw forceComposition afterwards.
ComposedFrame(forced) ==
    /\ Idle
    /\ forced \/ Ready
    /\ IF forced THEN UNCHANGED directVars ELSE MayTryDirect
    /\ rendered' = [rendered EXCEPT ![scanNext] = TRUE]
    /\ \/ /\ PresentAccepted(scanNext)
          /\ IF shotRequested
             THEN Submit(scanNext)
             ELSE UNCHANGED <<shotVars, shotRequested>>
          /\ forceComposition' =
                (forceComposition /\ ~forced /\ (shotRequested => shotRequested'))
       \/ /\ PresentRefused
          /\ forceComposition' = (forceComposition /\ ~forced)
          /\ UNCHANGED <<shotVars, shotRequested>>
    /\ UNCHANGED <<currentScan, currentDirect, sessionActive, connectorConnected,
                   powered, mode, slotMode, prep, plugVars, loop>>

\* The last reference to a client buffer goes: dropScanoutFb().
BufferDies(b) ==
    /\ Idle
    /\ b \in imported
    /\ b \notin {queuedDirect, currentDirect} \cup leaked
    /\ imported' = imported \ {b}
    /\ tainted' = tainted \ {b}
    /\ RemoveFbs({b})
    /\ UNCHANGED <<flipVars, scanNext, linkVars, signalVars, slotVars, shotVars,
                   askVars, plugVars, loop, leaked>>

-----------------------------------------------------------------------------
(* The screenshot hand-off.                                                *)

\* captureScreenshot(): prepareScreenshot() has the worker build a spare
\* image, or the renderer is asked at once for a readback.
RequestScreenshot ==
    /\ Idle
    /\ ~shotRequested
    /\ screenshotState # 1
    /\ IF screenshotState = 0
       THEN /\ screenshotState' = 1
            /\ prep' = "asked"
            /\ UNCHANGED <<shotRequested, forceComposition>>
       ELSE /\ shotRequested' = TRUE
            /\ forceComposition' = TRUE
            /\ UNCHANGED <<screenshotState, prep>>
    /\ UNCHANGED <<crtcVars, flipVars, scanNext, linkVars, signalVars, directVars,
                   slotVars, screenshotIndex, screenshotWasPresented,
                   screenshotReplacement, plugVars, loop, leaked>>

\* screenshotPrepare() on the worker, which reads the mode.
ScreenshotPrepare ==
    /\ prep = "asked"
    /\ \/ prep' = "built" /\ screenshotReplacement' = mode
       \/ /\ "prepare" \in Faults
          /\ prep' = "failed"
          /\ UNCHANGED screenshotReplacement
    /\ UNCHANGED <<crtcVars, flipVars, scanNext, linkVars, signalVars, directVars,
                   slotVars, screenshotState, screenshotIndex,
                   screenshotWasPresented, shotRequested, forceComposition,
                   plugVars, loop, leaked>>

\* screenshotPrepared() and the renderer's beginScreenshot().
ScreenshotPrepared ==
    /\ Idle
    /\ prep \in {"built", "failed"}
    /\ prep' = "none"
    /\ screenshotState' = IF prep = "built" THEN 2 ELSE 0
    /\ shotRequested' = TRUE
    /\ forceComposition' = TRUE
    /\ UNCHANGED <<crtcVars, flipVars, scanNext, linkVars, signalVars, directVars,
                   slotVars, screenshotIndex, screenshotWasPresented,
                   screenshotReplacement, plugVars, loop, leaked>>

-----------------------------------------------------------------------------
\* Everything but the callers of setPowerSave.
Step ==
    \/ FlipCompletes \/ ForeignCommit
    \/ HandleFlips \/ DrainFlips \/ DrainGivesUp
    \/ PowerOn \/ PowerOff
    \/ SessionDisabled \/ SessionEnabled \/ Settle \/ Comeback
    \/ DisplaySettings \/ ApplySettings
    \/ MonitorChanges \/ HotplugProbe
    \/ ProbeIgnored \/ Disconnected \/ Reconnected \/ ModeListChanged
    \/ SwitchMode \/ Replug \/ BlobRefused \/ RebuildFailed
    \/ \E b \in Buffers : DirectFrame(b) \/ BufferDies(b)
    \/ \E forced \in BOOLEAN : ComposedFrame(forced)
    \/ RequestScreenshot \/ ScreenshotPrepare \/ ScreenshotPrepared

Next == Step \/ \E on \in BOOLEAN : SetPowerSave(on)

Spec == Init /\ [][Next]_vars

\* What the code and the kernel owe: the hardware completes flips, libev
\* calls drmIoCb on a readable event, a callback that drains goes on, and the
\* prepare watcher frames a ready output again and again (the bar's clock
\* alone asks for a frame every second).  No one owes power, sessions or
\* screenshots.
Callback ==
    \/ PowerOn \/ PowerOff \/ Settle \/ Comeback \/ ApplySettings
    \/ SwitchMode \/ Replug \/ BlobRefused \/ RebuildFailed

Frame == ComposedFrame(FALSE) \/ \E b \in Buffers : DirectFrame(b)

Fairness ==
    /\ WF_vars(FlipCompletes)
    /\ WF_vars(HandleFlips \/ DrainFlips)
    /\ WF_vars(Callback)
    /\ SF_vars(Frame)

FairSpec == Spec /\ Fairness

-----------------------------------------------------------------------------
TypeOK ==
    /\ CrtcTypeOK
    /\ flipPending \in BOOLEAN
    /\ scanNext \in Slots
    /\ queuedScan \in Slots \cup {NoSlot}
    /\ currentScan \in Slots \cup {NoSlot}
    /\ queuedDirect \in Buffers \cup {NoFb}
    /\ currentDirect \in Buffers \cup {NoFb}
    /\ modesetDone \in BOOLEAN
    /\ sessionActive \in BOOLEAN
    /\ connectorConnected \in BOOLEAN
    /\ powered \in BOOLEAN
    /\ mode \in Modes
    /\ hdr \in BOOLEAN
    /\ signalFeedbackLogged \in BOOLEAN
    /\ imported \subseteq Buffers
    /\ tainted \subseteq Buffers
    /\ slotMode \in [Slots -> Modes]
    /\ rendered \in [Slots -> BOOLEAN]
    /\ screenshotState \in 0 .. 3
    /\ screenshotIndex \in Slots \cup {NoSlot}
    /\ screenshotWasPresented \in BOOLEAN
    /\ screenshotReplacement \in Modes \cup {NoMode}
    /\ shotRequested \in BOOLEAN
    /\ forceComposition \in BOOLEAN
    /\ prep \in {"none", "asked", "built", "failed"}
    /\ monitor \in Monitors \cup {Unplugged}
    /\ owed \in BOOLEAN
    /\ probe \in Monitors \cup {Unplugged, NoProbe, BadProbe}
    /\ loop \in {"idle", "powerOn", "powerOff", "settle", "comeback",
                 "settings", "replug", "follow"}
    /\ leaked \subseteq Buffers

\* What the program believes is on its way, and on screen.
Queued  == IF queuedScan # NoSlot THEN queuedScan ELSE queuedDirect
Current == IF currentScan # NoSlot THEN currentScan ELSE currentDirect

\* The program and the kernel agree on flips: one at most is unfinished, it
\* is the one queuedScan and queuedDirect describe, and an image on screen
\* is the current one (pageFlipHandler, commit, remodeset, setPowerSave).
FlipsAgree ==
    /\ flipPending <=> (inFlight # NoFb \/ unread > 0)
    /\ unread <= (IF inFlight = NoFb THEN 1 ELSE 0)
    /\ inFlight # NoFb => inFlight = Queued
    /\ screen \in Slots => screen = (IF unread > 0 THEN Queued ELSE Current)

\* A client buffer that is on screen or about to be is held by a frame
\* reference, so its client is not told to reuse it (frame_resource.h).
ScanoutHeld ==
    Idle => {screen, inFlight} \cap Buffers \subseteq {queuedDirect, currentDirect}

\* No path overwrites the reference of a queued client frame without
\* releasing it: that buffer would never return to its client.
NoFrameLeaked == leaked = {}

\* acquire() on a ready output never hands out an image that is displayed or
\* in flight, nor the one a screenshot viewer owns.
AcquiredIsFree ==
    Ready =>
        /\ scanNext \notin {screen, inFlight}
        /\ screenshotState = 3 => scanNext # screenshotIndex

\* No frame, not even a forced one, draws into the image of a flip that has
\* not completed, although a slow flip may be given up on (presentImage).
InFlightImageKept == inFlight # scanNext

\* acquire() never hands out an image whose ownership was transferred to a
\* screenshot client (output.h, takeScreenshot).
HandedImageKept == Idle /\ screenshotState = 3 => scanNext # screenshotIndex

\* A handed-off image is destroyed only after KMS flipped away from it
\* (output.h), whatever flips, modesets and VT switches come between.
RetiresOffScreen ==
    [][screenshotState = 3 /\ screenshotState' = 0
        => screenshotIndex \notin {screen, inFlight}]_vars

\* The images and the spare the worker builds fit the mode, however
\* hotplugs, probes and screenshots interleave (switchMode's refusal), and so
\* does a client buffer in flight.
ImagesFitMode ==
    /\ \A i \in Slots : slotMode[i] = mode
    /\ screenshotReplacement \in {mode, NoMode}
    /\ inFlight \in Buffers => ModeOf[inFlight] = mode

\* The spare image exists exactly while the hand-off that will consume or
\* destroy it is under way: none leaks, none is installed twice.
SpareAccounted ==
    /\ prep # "none" <=> screenshotState = 1
    /\ screenshotReplacement # NoMode <=> (prep = "built" \/ screenshotState > 1)
    /\ screenshotState = 2 => shotRequested

\* Frames on a ready output can be shown: its CRTC is lit, or the first
\* frame will light it (rebuildScanout: otherwise no frame can go out).
LitWhenReady == Idle /\ Ready /\ modesetDone => active

\* A display switched off stays off until setPowerSave(true) (output.h).
DarkWhileOff == Idle /\ sessionActive /\ ~powered => ~active

\* Only an image that was rendered goes to the screen (remodeset's comment).
RenderedBeforeShown == inFlight \in Slots => rendered[inFlight]

\* A callback that waits for a flip returns to the loop.
CallbacksReturn == loop # "idle" ~> loop = "idle"

\* The spare of a screenshot is installed, however often the output stops
\* being ready, if it is ready again and again.
HandOffEnds == []<>(Idle /\ Ready) => (screenshotState = 3 ~> screenshotState # 3)

\* An output that gave HDR up is modeset to what is left, wherever its flip's
\* feedback came in: in the loop, in a drain, under a screenshot or asleep, if
\* it is ready again and again (updateSignalFeedback asks for a frame).
GivenUpIsRelit == []<>(Idle /\ Ready) => (~modesetDone ~> modesetDone)
=============================================================================
