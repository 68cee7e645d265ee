-------------------------- MODULE KmsOutputProofs --------------------------
(***************************************************************************)
(* Proofs about KmsOutput for any client buffers, modes and displays.      *)
(* What an answer of the kernel that comes too late would break is proved  *)
(* for the faults that exclude it, the rest for any faults.                *)
(***************************************************************************)
EXTENDS KmsOutput, TLAPS

\* The completion events the kernel has delivered or still owes.
Events == unread + (IF inFlight = NoFb THEN 0 ELSE 1)

\* TypeOK is not inductive: a drain that gives up leaves an event behind that
\* a second flip adds to, a probe taken twice would have no modes to choose
\* from, and a hand-off without a spare would install no image at all.
FlagsSound ==
    /\ active \in BOOLEAN
    /\ flipPending \in BOOLEAN
    /\ sessionActive \in BOOLEAN
    /\ connectorConnected \in BOOLEAN
    /\ powered \in BOOLEAN
    /\ screenshotWasPresented \in BOOLEAN
    /\ shotRequested \in BOOLEAN
    /\ forceComposition \in BOOLEAN
    /\ owed \in BOOLEAN

SignalSound ==
    /\ modesetDone \in BOOLEAN
    /\ hdr \in BOOLEAN
    /\ signalFeedbackLogged \in BOOLEAN

CrtcSound ==
    /\ screen \in Fbs \cup {NoFb, Foreign}
    /\ inFlight \in Fbs \cup {NoFb}
    /\ unread \in 0 .. 2
    /\ Events <= (IF flipPending THEN 2 ELSE 1)

FlipSound ==
    /\ scanNext \in Slots
    /\ queuedScan \in Slots \cup {NoSlot}
    /\ currentScan \in Slots \cup {NoSlot}
    /\ queuedDirect \in Buffers \cup {NoFb}
    /\ currentDirect \in Buffers \cup {NoFb}
    /\ imported \subseteq Buffers
    /\ tainted \subseteq Buffers
    /\ leaked \subseteq Buffers

LinkSound ==
    /\ mode \in Modes
    /\ monitor \in Monitors \cup {Unplugged}
    /\ probe \in Monitors \cup {Unplugged, NoProbe, BadProbe}
    /\ loop \in {"idle", "powerOn", "powerOff", "settle", "comeback",
                 "settings", "replug", "follow"}
    /\ loop \in {"replug", "follow"} => probe \in Monitors

ShotSound ==
    /\ slotMode \in [Slots -> Modes]
    /\ screenshotState \in 0 .. 3
    /\ screenshotIndex \in Slots \cup {NoSlot}
    /\ screenshotReplacement \in Modes \cup {NoMode}
    /\ prep \in {"none", "asked", "built", "failed"}
    /\ SpareAccounted

LEMMA InitFlags == Init => FlagsSound
BY DEF Init, CrtcInit, FlagsSound
LEMMA InitSignal == Init => SignalSound
BY HdrAssumption DEF Init, SignalSound
LEMMA InitCrtc == Init => CrtcSound
BY FbAssumption DEF Init, CrtcInit, CrtcSound, Events, Fbs, Slots
LEMMA InitFlip == Init => FlipSound
BY FbAssumption DEF Init, FlipSound, Slots, NoSlot

LEMMA InitLink == Init => LinkSound
BY ModeAssumption DEF Init, LinkSound

LEMMA InitShot == Init => ShotSound
BY ModeAssumption DEF Init, ShotSound, SpareAccounted, Slots, NoSlot


\* What the kernel does with a framebuffer keeps its side sound.
LEMMA QueueSound ==
    ASSUME CrtcSound, ~flipPending, inFlight = NoFb, NEW fb \in Fbs, Queue(fb),
           flipPending' = TRUE
    PROVE  CrtcSound'
BY FbAssumption DEF CrtcSound, Events, Queue

LEMMA RemoveSound ==
    ASSUME CrtcSound, NEW fbs, RemoveFbs(fbs), flipPending' = flipPending
    PROVE  CrtcSound'
<1>1. CASE Settled \in fbs
  <2>1. screen' = NoFb /\ inFlight' = NoFb /\ unread' = SettledEvents
    BY <1>1 DEF RemoveFbs
  <2>2. QED
    BY <2>1, FbAssumption DEF CrtcSound, Events, SettledEvents
<1>2. CASE Settled \notin fbs
  <2>1. UNCHANGED <<screen, inFlight, unread>>
    BY <1>2 DEF RemoveFbs, crtcVars
  <2>2. QED
    BY <2>1 DEF CrtcSound, Events
<1>3. QED
  BY <1>1, <1>2

LEMMA RemoveThenQueueSound ==
    ASSUME CrtcSound, ~flipPending, NEW fbs, NEW fb \in Fbs, RemoveThenQueue(fbs, fb),
           flipPending' = TRUE
    PROVE  CrtcSound'
BY FbAssumption DEF CrtcSound, Events, RemoveThenQueue, SettledEvents

LEMMA SwitchOffSound ==
    ASSUME CrtcSound, SwitchOff, flipPending' = flipPending
    PROVE  CrtcSound'
BY FbAssumption DEF CrtcSound, Events, SwitchOff, Settled, SettledEvents

LEMMA RelightSound ==
    ASSUME CrtcSound, scanNext \in Slots, ~flipPending, RelightAccepted
    PROVE  CrtcSound'
<1>1. LastSlot \in Fbs
  BY DEF LastSlot, Other, Slots, Fbs
<1>2. QED
  BY <1>1, QueueSound DEF RelightAccepted, CanCommit, Commits

LEMMA CrtcSoundNext ==
    ASSUME CrtcSound, scanNext \in Slots, [Next]_vars
    PROVE  CrtcSound'
<1>0. ASSUME UNCHANGED <<crtcVars, flipPending>> PROVE CrtcSound'
  BY <1>0 DEF crtcVars, CrtcSound, Events
<1>r. ASSUME ~flipPending, RelightAccepted \/ RelightRefused
      PROVE  CrtcSound'
  BY <1>r, <1>0, RelightSound DEF RelightRefused
<1>m. ASSUME ~flipPending, Remodeset
      PROVE  CrtcSound'
  BY <1>m, <1>0, <1>r DEF Remodeset
<1>s. 1 \in Fbs
  BY DEF Fbs, Slots
<1>1. CASE FlipCompletes
  BY <1>1, FbAssumption DEF FlipCompletes, FlipDone, flipVars, CrtcSound, Events
<1>2. CASE ForeignCommit
  BY <1>2 DEF ForeignCommit, flipVars, CrtcSound, Events
<1>3. CASE ReadFlips
  <2>1. CASE /\ screen' = NoFb /\ inFlight' = NoFb
             /\ unread' = SettledEvents - unread
    BY <2>1, FbAssumption DEF CrtcSound, Events, SettledEvents
  <2>2. CASE unread' = 0 /\ UNCHANGED <<screen, inFlight>>
    BY <2>2 DEF CrtcSound, Events
  <2>3. QED
    BY <1>3, <2>1, <2>2 DEF ReadFlips
<1>4. CASE DrainGivesUp
  BY <1>4 DEF DrainGivesUp, crtcVars, CrtcSound, Events
<1>5. CASE PowerOn
  BY <1>5, <1>r DEF PowerOn, Drained
<1>6. CASE PowerOff
  BY <1>6, <1>0, SwitchOffSound DEF PowerOff
<1>7. CASE SessionDisabled \/ SessionEnabled \/ DisplaySettings
  BY <1>7, <1>0 DEF SessionDisabled, SessionEnabled, DisplaySettings, flipVars
<1>8. CASE Settle
  BY <1>8, <1>0 DEF Settle
<1>9. CASE Comeback
  BY <1>9, <1>m DEF Comeback, Drained
<1>10. CASE MonitorChanges \/ HotplugProbe
  BY <1>10, <1>0 DEF MonitorChanges, HotplugProbe, flipVars
<1>11. CASE ProbeIgnored \/ Disconnected \/ Reconnected \/ ModeListChanged
  BY <1>11, <1>0 DEF ProbeIgnored, Disconnected, Reconnected, ModeListChanged, flipVars
<1>12. CASE SwitchMode
  BY <1>12, <1>s, RemoveSound, RemoveThenQueueSound DEF SwitchMode, Drained
<1>13. CASE ApplySettings \/ Replug
  BY <1>13, <1>m DEF ApplySettings, Replug, Drained
<1>14. CASE BlobRefused
  BY <1>14, <1>0, <1>m DEF BlobRefused, Drained
<1>15. CASE RebuildFailed
  BY <1>15, <1>s, RemoveSound, RemoveThenQueueSound DEF RebuildFailed, Drained
<1>16. ASSUME NEW b \in Buffers, DirectFrame(b) PROVE CrtcSound'
  <2>1. b \in Fbs
    BY DEF Fbs
  <2>2. QED
    BY <1>16, <2>1, QueueSound DEF DirectFrame, Ready, CanCommit, Commits
<1>17. ASSUME NEW b \in Buffers, BufferDies(b) PROVE CrtcSound'
  BY <1>17, RemoveSound DEF BufferDies, flipVars
<1>18. ASSUME NEW forced \in BOOLEAN, ComposedFrame(forced) PROVE CrtcSound'
  <2>1. CASE PresentAccepted(scanNext)
    <3>1. scanNext \in Fbs
      BY DEF Fbs
    <3>2. QED
      BY <2>1, <3>1, QueueSound DEF PresentAccepted, CanCommit, Commits
  <2>2. CASE PresentRefused
    BY <2>2, <1>0 DEF PresentRefused
  <2>3. QED
    BY <1>18, <2>1, <2>2 DEF ComposedFrame
<1>19. CASE RequestScreenshot \/ ScreenshotPrepare \/ ScreenshotPrepared
  BY <1>19, <1>0 DEF RequestScreenshot, ScreenshotPrepare, ScreenshotPrepared, flipVars
<1>20. ASSUME NEW on \in BOOLEAN, SetPowerSave(on) PROVE CrtcSound'
  BY <1>20, <1>0 DEF SetPowerSave, flipVars
<1>21. CASE UNCHANGED vars
  BY <1>21, <1>0 DEF vars, flipVars
<1>22. QED
  BY <1>1, <1>2, <1>3, <1>4, <1>5, <1>6, <1>7, <1>8, <1>9, <1>10, <1>11, <1>12,
     <1>13, <1>14, <1>15, <1>16, <1>17, <1>18, <1>19, <1>20, <1>21
     DEF Next, Step, HandleFlips, DrainFlips

LEMMA FlipSoundNext ==
    ASSUME FlipSound, [Next]_vars
    PROVE  FlipSound'
<1>0. ASSUME UNCHANGED <<flipVars, scanNext, directVars, leaked>> PROVE FlipSound'
  BY <1>0 DEF flipVars, directVars, FlipSound
<1>l. LastSlot \in Slots
  BY DEF FlipSound, LastSlot, Other, Slots
<1>f. ASSUME Forget(queuedDirect) PROVE leaked' \subseteq Buffers
  BY <1>f DEF FlipSound, Forget
<1>r. ASSUME RelightAccepted \/ RelightRefused
      PROVE  /\ queuedScan' \in Slots \cup {NoSlot}
             /\ currentScan' \in Slots \cup {NoSlot}
  BY <1>r, <1>l DEF RelightAccepted, RelightRefused, FlipSound
<1>m. ASSUME Remodeset
      PROVE  /\ queuedScan' \in Slots \cup {NoSlot}
             /\ currentScan' \in Slots \cup {NoSlot}
  BY <1>m, <1>r DEF Remodeset, FlipSound
<1>1. CASE FlipCompletes \/ ForeignCommit
  BY <1>1, <1>0 DEF FlipCompletes, ForeignCommit
<1>2. CASE ReadFlips
  BY <1>2 DEF ReadFlips, Landed, directVars, FlipSound
<1>3. CASE DrainGivesUp
  BY <1>3 DEF DrainGivesUp, directVars, FlipSound
<1>4. CASE PowerOn
  BY <1>4, <1>r, <1>f DEF PowerOn, directVars, FlipSound
<1>5. CASE PowerOff \/ Settle
  BY <1>5 DEF PowerOff, Settle, directVars, FlipSound
<1>6. CASE SessionDisabled \/ SessionEnabled \/ DisplaySettings
  BY <1>6, <1>0 DEF SessionDisabled, SessionEnabled, DisplaySettings
<1>7. CASE Comeback
  BY <1>7, <1>m DEF Comeback, directVars, FlipSound
<1>8. CASE MonitorChanges \/ HotplugProbe
  BY <1>8, <1>0 DEF MonitorChanges, HotplugProbe
<1>9. CASE ProbeIgnored \/ Disconnected \/ Reconnected \/ ModeListChanged
  BY <1>9, <1>0 DEF ProbeIgnored, Disconnected, Reconnected, ModeListChanged
<1>10. CASE SwitchMode
  BY <1>10 DEF SwitchMode, ReleaseDirect, Rebuild, FlipSound, Slots
<1>11. CASE ApplySettings \/ Replug
  BY <1>11, <1>m DEF ApplySettings, Replug, directVars, FlipSound
<1>12. CASE BlobRefused
  BY <1>12, <1>m DEF BlobRefused, ReleaseDirect, directVars, FlipSound
<1>13. CASE RebuildFailed
  BY <1>13 DEF RebuildFailed, ReleaseDirect, Rebuild, directVars, FlipSound, Slots
<1>14. ASSUME NEW b \in Buffers, DirectFrame(b) PROVE FlipSound'
  BY <1>14, <1>f DEF DirectFrame, FlipSound
<1>15. ASSUME NEW b \in Buffers, BufferDies(b) PROVE FlipSound'
  BY <1>15 DEF BufferDies, flipVars, FlipSound
<1>16. ASSUME NEW forced \in BOOLEAN, ComposedFrame(forced) PROVE FlipSound'
  <2>1. imported' \subseteq Buffers /\ tainted' \subseteq Buffers
    BY <1>16 DEF ComposedFrame, MayTryDirect, directVars, FlipSound
  <2>2. UNCHANGED <<currentScan, currentDirect>>
    BY <1>16 DEF ComposedFrame
  <2>3. CASE PresentAccepted(scanNext)
    BY <2>1, <2>2, <2>3, <1>f DEF PresentAccepted, Other, FlipSound, Slots
  <2>4. CASE PresentRefused
    BY <2>1, <2>2, <2>4 DEF PresentRefused, FlipSound
  <2>5. QED
    BY <1>16, <2>3, <2>4 DEF ComposedFrame
<1>17. CASE RequestScreenshot \/ ScreenshotPrepare \/ ScreenshotPrepared
  BY <1>17, <1>0 DEF RequestScreenshot, ScreenshotPrepare, ScreenshotPrepared
<1>18. ASSUME NEW on \in BOOLEAN, SetPowerSave(on) PROVE FlipSound'
  BY <1>18, <1>0 DEF SetPowerSave
<1>19. CASE UNCHANGED vars
  BY <1>19, <1>0 DEF vars
<1>20. QED
  BY <1>1, <1>2, <1>3, <1>4, <1>5, <1>6, <1>7, <1>8, <1>9, <1>10, <1>11, <1>12,
     <1>13, <1>14, <1>15, <1>16, <1>17, <1>18, <1>19
     DEF Next, Step, HandleFlips, DrainFlips

LEMMA LinkSoundNext ==
    ASSUME LinkSound, [Next]_vars
    PROVE  LinkSound'
<1>0. ASSUME UNCHANGED <<linkVars, plugVars, loop>> PROVE LinkSound'
  BY <1>0 DEF linkVars, plugVars, LinkSound
<1>p. ASSUME UNCHANGED <<sessionVars, plugVars, loop>> PROVE LinkSound'
  BY <1>p DEF sessionVars, plugVars, LinkSound
<1>d. ASSUME UNCHANGED <<linkVars, plugVars>>, loop' = "idle" PROVE LinkSound'
  BY <1>d DEF linkVars, plugVars, LinkSound
<1>u. ASSUME UNCHANGED <<mode, monitor, loop>>, Idle, probe' = NoProbe PROVE LinkSound'
  BY <1>u DEF LinkSound, Idle
<1>e. ASSUME UNCHANGED <<mode, monitor>>, probe' = NoProbe, loop' = "idle" PROVE LinkSound'
  BY <1>e DEF LinkSound
<1>1. CASE FlipCompletes \/ ForeignCommit
  BY <1>1, <1>0 DEF FlipCompletes, ForeignCommit
<1>2. CASE ReadFlips \/ DrainGivesUp
  BY <1>2, <1>0, <1>p, Zenon DEF ReadFlips, DrainGivesUp
<1>4. CASE PowerOn \/ PowerOff \/ Settle \/ Comeback
  BY <1>4, <1>d DEF PowerOn, PowerOff, Settle, Comeback, Drained
<1>6. CASE SessionDisabled \/ SessionEnabled \/ DisplaySettings
  BY <1>6 DEF SessionDisabled, SessionEnabled, DisplaySettings, Idle, linkVars, plugVars,
              LinkSound
<1>8. CASE MonitorChanges
  BY <1>8 DEF MonitorChanges, linkVars, LinkSound
<1>7. CASE HotplugProbe
  BY <1>7, MonitorAssumption DEF HotplugProbe, linkVars, LinkSound
<1>9. CASE ProbeIgnored \/ Disconnected
  BY <1>9, <1>u DEF ProbeIgnored, Disconnected, sessionVars
<1>3. CASE Reconnected \/ ModeListChanged
  <2>1. probe \in Monitors
    BY <1>3 DEF Reconnected, ModeListChanged, ProbeConnected, LinkSound
  <2>2. loop' \in {"replug", "follow"}
    BY <1>3 DEF Reconnected, ModeListChanged
  <2>3. UNCHANGED <<mode, plugVars>>
    BY <1>3 DEF Reconnected, ModeListChanged, sessionVars
  <2>4. QED
    BY <2>1, <2>2, <2>3 DEF plugVars, LinkSound
<1>10. CASE SwitchMode
  <2>1. probe \in Monitors
    BY <1>10 DEF SwitchMode, LinkSound
  <2>2. mode' \in Modes
    BY <1>10, <2>1, MonitorAssumption DEF SwitchMode
  <2>3. UNCHANGED monitor /\ probe' = NoProbe /\ loop' = "idle"
    BY <1>10 DEF SwitchMode, Drained
  <2>4. QED
    BY <2>2, <2>3 DEF LinkSound
<1>11. CASE ApplySettings \/ Replug \/ BlobRefused
  BY <1>11, <1>d, <1>e DEF ApplySettings, Replug, BlobRefused, Drained, linkVars
<1>13. CASE RebuildFailed
  BY <1>13, <1>e DEF RebuildFailed, Drained, linkVars
<1>14. ASSUME NEW b \in Buffers, DirectFrame(b) \/ BufferDies(b) PROVE LinkSound'
  BY <1>14, <1>0 DEF DirectFrame, BufferDies
<1>16. ASSUME NEW forced \in BOOLEAN, ComposedFrame(forced) PROVE LinkSound'
  BY <1>16 DEF ComposedFrame, plugVars, LinkSound
<1>17. CASE RequestScreenshot \/ ScreenshotPrepare \/ ScreenshotPrepared
  BY <1>17, <1>0 DEF RequestScreenshot, ScreenshotPrepare, ScreenshotPrepared
<1>18. ASSUME NEW on \in BOOLEAN, SetPowerSave(on) PROVE LinkSound'
  BY <1>18 DEF SetPowerSave, plugVars, LinkSound
<1>19. CASE UNCHANGED vars
  BY <1>19, <1>0 DEF vars
<1>20. QED
  BY <1>1, <1>2, <1>3, <1>4, <1>6, <1>7, <1>8, <1>9, <1>10, <1>11,
     <1>13, <1>14, <1>16, <1>17, <1>18, <1>19
     DEF Next, Step, HandleFlips, DrainFlips

LEMMA ShotSoundNext ==
    ASSUME ShotSound, mode \in Modes, mode' \in Modes, scanNext \in Slots, [Next]_vars
    PROVE  ShotSound'
<1>0. ASSUME UNCHANGED <<slotMode, shotVars, shotRequested, prep>> PROVE ShotSound'
  BY <1>0 DEF shotVars, ShotSound, SpareAccounted
<1>b. ASSUME NEW m \in Modes, slotMode' = [i \in Slots |-> m],
             UNCHANGED <<shotVars, askVars>>
      PROVE  ShotSound'
  BY <1>b DEF shotVars, askVars, ShotSound, SpareAccounted
<1>1. CASE FlipCompletes \/ ForeignCommit
  BY <1>1, <1>0 DEF FlipCompletes, ForeignCommit, slotVars, askVars
<1>2. CASE ReadFlips
  <2>1. CASE Retires
    <3>1. Retire /\ screenshotState = 3 /\ UNCHANGED askVars
      BY <1>2, <2>1 DEF ReadFlips, Retires
    <3>2. screenshotReplacement \in Modes /\ prep = "none"
      BY <3>1 DEF ShotSound, SpareAccounted
    <3>3. slotMode' \in [Slots -> Modes]
      BY <3>1, <3>2 DEF Retire, ShotSound
    <3>4. QED
      BY <3>1, <3>2, <3>3 DEF Retire, askVars, ShotSound, SpareAccounted
  <2>2. CASE ~Retires
    <3>1. UNCHANGED <<slotVars, screenshotState, screenshotIndex,
                      screenshotReplacement, askVars>>
      BY <1>2, <2>2, Zenon DEF ReadFlips
    <3>2. QED
      BY <3>1 DEF slotVars, askVars, ShotSound, SpareAccounted
  <2>3. QED
    BY <2>1, <2>2
<1>3. CASE DrainGivesUp
  BY <1>3, <1>0 DEF DrainGivesUp, slotVars, askVars
<1>4. CASE PowerOn \/ PowerOff \/ Settle \/ Comeback
  BY <1>4, <1>0 DEF PowerOn, PowerOff, Settle, Comeback, slotVars, askVars
<1>5. CASE SessionDisabled \/ SessionEnabled \/ DisplaySettings
  BY <1>5, <1>0 DEF SessionDisabled, SessionEnabled, DisplaySettings, slotVars, askVars
<1>6. CASE MonitorChanges \/ HotplugProbe
  BY <1>6, <1>0 DEF MonitorChanges, HotplugProbe, slotVars, askVars
<1>7. CASE ProbeIgnored \/ Disconnected \/ Reconnected \/ ModeListChanged
  BY <1>7, <1>0
     DEF ProbeIgnored, Disconnected, Reconnected, ModeListChanged, slotVars, askVars
<1>8. CASE SwitchMode
  BY <1>8, <1>b DEF SwitchMode, Rebuild
<1>9. CASE ApplySettings \/ Replug \/ BlobRefused
  BY <1>9, <1>0 DEF ApplySettings, Replug, BlobRefused, slotVars, askVars
<1>10. CASE RebuildFailed
  BY <1>10, <1>b DEF RebuildFailed, Rebuild
<1>11. ASSUME NEW b \in Buffers, DirectFrame(b) \/ BufferDies(b) PROVE ShotSound'
  BY <1>11, <1>0 DEF DirectFrame, BufferDies, slotVars, askVars
<1>12. ASSUME NEW forced \in BOOLEAN, ComposedFrame(forced) PROVE ShotSound'
  <2>1. UNCHANGED <<slotMode, prep>>
    BY <1>12 DEF ComposedFrame
  <2>2. CASE UNCHANGED <<shotVars, shotRequested>>
    BY <2>1, <2>2, <1>0
  <2>3. CASE Submit(scanNext) /\ screenshotState = 2
    <3>1. screenshotReplacement # NoMode /\ prep = "none"
      BY <2>3 DEF ShotSound, SpareAccounted
    <3>2. CASE Take(scanNext)
      BY <2>1, <3>1, <3>2 DEF Take, ShotSound, SpareAccounted
    <3>3. CASE TakeFails
      BY <2>1, <3>1, <3>3 DEF TakeFails, ShotSound, SpareAccounted
    <3>4. QED
      BY <2>3, <3>2, <3>3 DEF Submit
  <2>4. CASE Submit(scanNext) /\ screenshotState # 2
    BY <2>1, <2>4 DEF Submit, shotVars, ShotSound, SpareAccounted
  <2>5. QED
    BY <1>12, <2>2, <2>3, <2>4 DEF ComposedFrame
<1>13. CASE RequestScreenshot
  BY <1>13 DEF RequestScreenshot, slotVars, ShotSound, SpareAccounted
<1>14. CASE ScreenshotPrepare
  BY <1>14, ModeAssumption DEF ScreenshotPrepare, slotVars, ShotSound, SpareAccounted
<1>15. CASE ScreenshotPrepared
  BY <1>15 DEF ScreenshotPrepared, slotVars, ShotSound, SpareAccounted
<1>16. ASSUME NEW on \in BOOLEAN, SetPowerSave(on) PROVE ShotSound'
  BY <1>16, <1>0 DEF SetPowerSave, slotVars, askVars
<1>17. CASE UNCHANGED vars
  BY <1>17, <1>0 DEF vars, slotVars, askVars
<1>18. QED
  BY <1>1, <1>2, <1>3, <1>4, <1>5, <1>6, <1>7, <1>8, <1>9, <1>10, <1>11, <1>12,
     <1>13, <1>14, <1>15, <1>16, <1>17
     DEF Next, Step, HandleFlips, DrainFlips

LEMMA FlagsSoundNext ==
    ASSUME FlagsSound, ShotSound, [Next]_vars
    PROVE  FlagsSound'
<1>r. ASSUME RelightAccepted \/ RelightRefused \/ Remodeset
      PROVE  active' \in BOOLEAN /\ flipPending' \in BOOLEAN
  <2>1. CASE RelightAccepted
    BY <2>1 DEF RelightAccepted, Queue
  <2>2. CASE UNCHANGED <<crtcVars, flipPending>>
    BY <2>2 DEF crtcVars, FlagsSound
  <2>3. QED
    BY <1>r, <2>1, <2>2 DEF RelightRefused, Remodeset
<1>f. ASSUME NEW fbs, RemoveFbs(fbs) PROVE active' \in BOOLEAN
  BY <1>f DEF RemoveFbs, crtcVars, FlagsSound
<1>q. ASSUME NEW fbs, NEW fb, RemoveThenQueue(fbs, fb) PROVE active' \in BOOLEAN
  BY <1>q DEF RemoveThenQueue
<1>1. CASE FlipCompletes
  BY <1>1 DEF FlipCompletes, FlipDone, flipVars, linkVars, shotVars, askVars,
              plugVars, FlagsSound
<1>2. CASE ForeignCommit
  BY <1>2 DEF ForeignCommit, flipVars, linkVars, shotVars, askVars, plugVars, FlagsSound
<1>3. CASE ReadFlips
  <2>1. active' \in BOOLEAN
    BY <1>3 DEF ReadFlips, FlagsSound
  <2>2. screenshotWasPresented' \in BOOLEAN
    BY <1>3 DEF ReadFlips, Retire, Shown
  <2>3. flipPending' = FALSE /\ UNCHANGED <<sessionVars, askVars, plugVars>>
    BY <1>3, Zenon DEF ReadFlips
  <2>4. QED
    BY <2>1, <2>2, <2>3 DEF sessionVars, askVars, plugVars, FlagsSound
<1>4. CASE DrainGivesUp
  BY <1>4 DEF DrainGivesUp, crtcVars, linkVars, shotVars, askVars, plugVars, FlagsSound
<1>5. CASE PowerOn \/ Comeback
  BY <1>5, <1>r DEF PowerOn, Comeback, linkVars, shotVars, askVars, plugVars, FlagsSound
<1>6. CASE PowerOff
  BY <1>6 DEF PowerOff, SwitchOff, crtcVars, linkVars, shotVars, askVars, plugVars,
              FlagsSound
<1>7. CASE SessionDisabled \/ SessionEnabled \/ DisplaySettings
  <2>1. CASE SessionDisabled
    BY <2>1 DEF SessionDisabled, crtcVars, flipVars, shotVars, askVars,
                plugVars, FlagsSound
  <2>2. CASE SessionEnabled
    BY <2>2 DEF SessionEnabled, crtcVars, flipVars, shotVars, askVars,
                plugVars, FlagsSound
  <2>3. CASE DisplaySettings
    BY <2>3 DEF DisplaySettings, crtcVars, flipVars, linkVars, shotVars, askVars,
                plugVars, FlagsSound
  <2>4. QED
    BY <1>7, <2>1, <2>2, <2>3
<1>8. CASE Settle
  BY <1>8 DEF Settle, crtcVars, linkVars, shotVars, askVars, plugVars, FlagsSound
<1>9. CASE MonitorChanges \/ HotplugProbe \/ ProbeIgnored
  <2>1. CASE MonitorChanges
    BY <2>1 DEF MonitorChanges, crtcVars, flipVars, linkVars, shotVars,
                askVars, FlagsSound
  <2>2. CASE HotplugProbe
    BY <2>2 DEF HotplugProbe, crtcVars, flipVars, linkVars, shotVars,
                askVars, FlagsSound
  <2>3. CASE ProbeIgnored
    BY <2>3 DEF ProbeIgnored, crtcVars, flipVars, sessionVars, shotVars,
                askVars, FlagsSound
  <2>4. QED
    BY <1>9, <2>1, <2>2, <2>3
<1>10. CASE Disconnected \/ Reconnected \/ ModeListChanged
  <2>1. CASE Disconnected
    BY <2>1 DEF Disconnected, crtcVars, flipVars, linkVars,
                shotVars, askVars, plugVars, FlagsSound
  <2>2. CASE Reconnected
    BY <2>2 DEF Reconnected, crtcVars, flipVars, linkVars,
                shotVars, askVars, plugVars, FlagsSound
  <2>3. CASE ModeListChanged
    BY <2>3 DEF ModeListChanged, crtcVars, flipVars, sessionVars,
                shotVars, askVars, plugVars, FlagsSound
  <2>4. QED
    BY <1>10, <2>1, <2>2, <2>3
<1>11. CASE SwitchMode
  <2>1. active' \in BOOLEAN
    BY <1>11, <1>f, <1>q DEF SwitchMode
  <2>2. flipPending' \in BOOLEAN
    BY <1>11 DEF SwitchMode, FlagsSound
  <2>3. QED
    BY <1>11, <2>1, <2>2 DEF SwitchMode, shotVars, askVars, FlagsSound
<1>12. CASE ApplySettings \/ Replug \/ BlobRefused
  <2>1. active' \in BOOLEAN /\ flipPending' \in BOOLEAN
    BY <1>12, <1>r DEF ApplySettings, Replug, BlobRefused, crtcVars, FlagsSound
  <2>2. UNCHANGED <<linkVars, shotVars, askVars, owed>>
    BY <1>12, Zenon DEF ApplySettings, Replug, BlobRefused, plugVars
  <2>3. QED
    BY <2>1, <2>2 DEF linkVars, shotVars, askVars, FlagsSound
<1>13. CASE RebuildFailed
  <2>1. active' \in BOOLEAN
    BY <1>13, <1>f, <1>q DEF RebuildFailed
  <2>2. flipPending' \in BOOLEAN
    BY <1>13 DEF RebuildFailed, FlagsSound
  <2>3. QED
    BY <1>13, <2>1, <2>2 DEF RebuildFailed, linkVars, shotVars, askVars, FlagsSound
<1>14. ASSUME NEW b \in Buffers, DirectFrame(b) PROVE FlagsSound'
  BY <1>14 DEF DirectFrame, Queue, linkVars, shotVars, askVars, plugVars, FlagsSound
<1>15. ASSUME NEW b \in Buffers, BufferDies(b) PROVE FlagsSound'
  BY <1>15, <1>f DEF BufferDies, flipVars, linkVars, shotVars, askVars, plugVars,
                     FlagsSound
<1>16. ASSUME NEW forced \in BOOLEAN, ComposedFrame(forced) PROVE FlagsSound'
  <2>1. /\ active' \in BOOLEAN
        /\ flipPending' \in BOOLEAN
    BY <1>16 DEF ComposedFrame, PresentAccepted, PresentRefused, Queue, crtcVars,
                 FlagsSound
  <2>2. /\ shotRequested' \in BOOLEAN
        /\ screenshotWasPresented' \in BOOLEAN
    BY <1>16 DEF ComposedFrame, Submit, Take, TakeFails, shotVars, FlagsSound
  <2>3. forceComposition' \in BOOLEAN
    BY <1>16 DEF ComposedFrame
  <2>4. QED
    BY <1>16, <2>1, <2>2, <2>3 DEF ComposedFrame, plugVars, FlagsSound
<1>17. CASE RequestScreenshot \/ ScreenshotPrepare \/ ScreenshotPrepared
  <2>1. CASE RequestScreenshot
    BY <2>1 DEF RequestScreenshot, crtcVars, flipVars,
                linkVars, plugVars, FlagsSound
  <2>2. CASE ScreenshotPrepare
    BY <2>2 DEF ScreenshotPrepare, crtcVars, flipVars,
                linkVars, plugVars, FlagsSound
  <2>3. CASE ScreenshotPrepared
    BY <2>3 DEF ScreenshotPrepared, crtcVars, flipVars,
                linkVars, plugVars, FlagsSound
  <2>4. QED
    BY <1>17, <2>1, <2>2, <2>3
<1>18. ASSUME NEW on \in BOOLEAN, SetPowerSave(on) PROVE FlagsSound'
  BY <1>18 DEF SetPowerSave, crtcVars, flipVars, shotVars, askVars, plugVars, FlagsSound
<1>19. CASE UNCHANGED vars
  BY <1>19 DEF vars, crtcVars, flipVars, linkVars, shotVars, askVars, plugVars, FlagsSound
<1>20. QED
  BY <1>1, <1>2, <1>3, <1>4, <1>5, <1>6, <1>7, <1>8, <1>9, <1>10, <1>11, <1>12,
     <1>13, <1>14, <1>15, <1>16, <1>17, <1>18, <1>19
     DEF Next, Step, HandleFlips, DrainFlips

\* The signal changes with what was read of the link, in a modeset that falls
\* back to SDR, or as the settings say.
LEMMA SignalSoundNext ==
    ASSUME SignalSound, [Next]_vars
    PROVE  SignalSound'
<1>0. ASSUME UNCHANGED <<modesetDone, signalVars>> PROVE SignalSound'
  BY <1>0 DEF signalVars, SignalSound
<1>k. ASSUME UNCHANGED <<linkVars, signalVars>> PROVE SignalSound'
  BY <1>k, <1>0 DEF linkVars
<1>f. ASSUME NEW logged \in BOOLEAN, Feedback(logged) PROVE SignalSound'
  BY <1>f DEF Feedback, SignalSound
<1>b. ASSUME NEW tested, MayFallBack(tested)
      PROVE  hdr' \in BOOLEAN /\ UNCHANGED signalFeedbackLogged
  BY <1>b DEF MayFallBack, SignalSound
<1>r. ASSUME RelightAccepted \/ RelightRefused \/ Remodeset
      PROVE  hdr' \in BOOLEAN /\ signalFeedbackLogged' \in BOOLEAN
  BY <1>r, <1>b DEF RelightAccepted, RelightRefused, Remodeset, signalVars, SignalSound
<1>1. CASE FlipCompletes \/ ForeignCommit \/ DrainGivesUp
  BY <1>1, <1>k, Zenon DEF FlipCompletes, ForeignCommit, DrainGivesUp
<1>2. CASE ReadFlips
  <2>1. Feedback(signalFeedbackLogged)
    BY <1>2, Zenon DEF ReadFlips
  <2>2. QED
    BY <2>1, <1>f DEF SignalSound
<1>3. CASE PowerOn \/ Comeback \/ ApplySettings
  <2>1. UNCHANGED modesetDone
    BY <1>3 DEF PowerOn, Comeback, ApplySettings, linkVars
  <2>2. QED
    BY <1>3, <1>r, <2>1 DEF PowerOn, Comeback, ApplySettings, SignalSound
<1>4. CASE PowerOff \/ Settle
  BY <1>4, <1>k, Zenon DEF PowerOff, Settle
<1>5. CASE SessionDisabled \/ SessionEnabled \/ Disconnected \/ Reconnected
  BY <1>5, <1>0, Zenon DEF SessionDisabled, SessionEnabled, Disconnected, Reconnected
<1>6. CASE MonitorChanges \/ HotplugProbe
  BY <1>6, <1>k, Zenon DEF MonitorChanges, HotplugProbe
<1>7. CASE ProbeIgnored \/ ModeListChanged
  <2>1. Feedback(FALSE) \/ UNCHANGED <<modesetDone, signalVars>>
    BY <1>7 DEF ProbeIgnored, ModeListChanged
  <2>2. QED
    BY <2>1, <1>0, <1>f
<1>8. CASE SwitchMode
  <2>1. hdr' \in BOOLEAN /\ UNCHANGED signalFeedbackLogged
    BY <1>8, <1>b DEF SwitchMode
  <2>2. UNCHANGED modesetDone
    BY <1>8, Zenon DEF SwitchMode
  <2>3. QED
    BY <2>1, <2>2 DEF SignalSound
<1>9. CASE Replug \/ BlobRefused
  <2>1. hdr' \in BOOLEAN /\ signalFeedbackLogged' \in BOOLEAN
    BY <1>9, <1>r DEF Replug, BlobRefused, signalVars, SignalSound
  <2>2. UNCHANGED modesetDone
    BY <1>9 DEF Replug, BlobRefused, linkVars
  <2>3. QED
    BY <2>1, <2>2 DEF SignalSound
<1>10. CASE RebuildFailed
  <2>1. hdr' \in BOOLEAN /\ UNCHANGED signalFeedbackLogged
    BY <1>10, <1>b DEF RebuildFailed
  <2>2. UNCHANGED modesetDone
    BY <1>10 DEF RebuildFailed, linkVars
  <2>3. QED
    BY <2>1, <2>2 DEF SignalSound
<1>11. CASE DisplaySettings
  BY <1>11, HdrAssumption DEF DisplaySettings, linkVars, SignalSound
<1>12. ASSUME NEW b \in Buffers, DirectFrame(b) \/ BufferDies(b) PROVE SignalSound'
  BY <1>12, <1>k, Zenon DEF DirectFrame, BufferDies
<1>13. ASSUME NEW forced \in BOOLEAN, ComposedFrame(forced) PROVE SignalSound'
  <2>1. PresentAccepted(scanNext) \/ PresentRefused
    BY <1>13 DEF ComposedFrame
  <2>2. modesetDone' \in BOOLEAN
    BY <2>1 DEF PresentAccepted, PresentRefused, SignalSound
  <2>3. hdr' \in BOOLEAN /\ UNCHANGED signalFeedbackLogged
    BY <2>1, <1>b DEF PresentAccepted, PresentRefused
  <2>4. QED
    BY <2>2, <2>3 DEF SignalSound
<1>14. CASE RequestScreenshot \/ ScreenshotPrepare \/ ScreenshotPrepared
  BY <1>14, <1>k, Zenon DEF RequestScreenshot, ScreenshotPrepare, ScreenshotPrepared
<1>15. ASSUME NEW on \in BOOLEAN, SetPowerSave(on) PROVE SignalSound'
  BY <1>15, <1>0, Zenon DEF SetPowerSave
<1>16. CASE UNCHANGED vars
  BY <1>16, <1>k, Zenon DEF vars
<1>17. QED
  BY <1>1, <1>2, <1>3, <1>4, <1>5, <1>6, <1>7, <1>8, <1>9, <1>10, <1>11, <1>12,
     <1>13, <1>14, <1>15, <1>16
     DEF Next, Step, HandleFlips, DrainFlips

LEMMA RenderedNext ==
    ASSUME rendered \in [Slots -> BOOLEAN], [Next]_vars
    PROVE  rendered' \in [Slots -> BOOLEAN]
<1>1. CASE FlipCompletes \/ ForeignCommit
  BY <1>1 DEF FlipCompletes, ForeignCommit, slotVars
<1>2. CASE ReadFlips
  <2>1. \/ rendered' = rendered
        \/ rendered' = [rendered EXCEPT ![screenshotIndex] = FALSE]
    BY <1>2, Zenon DEF ReadFlips, Retire, slotVars
  <2>2. QED
    BY <2>1
<1>3. CASE DrainGivesUp
  BY <1>3 DEF DrainGivesUp, slotVars
<1>4. CASE PowerOn \/ PowerOff \/ Settle \/ Comeback
  BY <1>4 DEF PowerOn, PowerOff, Settle, Comeback, slotVars
<1>5. CASE SessionDisabled \/ SessionEnabled \/ DisplaySettings
  BY <1>5 DEF SessionDisabled, SessionEnabled, DisplaySettings, slotVars
<1>6. CASE MonitorChanges \/ HotplugProbe
  BY <1>6 DEF MonitorChanges, HotplugProbe, slotVars
<1>7. CASE ProbeIgnored \/ Disconnected \/ Reconnected \/ ModeListChanged
  BY <1>7 DEF ProbeIgnored, Disconnected, Reconnected, ModeListChanged, slotVars
<1>8. CASE SwitchMode \/ RebuildFailed
  <2>1. rendered' = [i \in Slots |-> FALSE]
    BY <1>8 DEF SwitchMode, RebuildFailed, Rebuild
  <2>2. QED
    BY <2>1
<1>9. CASE ApplySettings \/ Replug \/ BlobRefused
  BY <1>9 DEF ApplySettings, Replug, BlobRefused, slotVars
<1>10. ASSUME NEW b \in Buffers, DirectFrame(b) \/ BufferDies(b)
       PROVE  rendered' \in [Slots -> BOOLEAN]
  BY <1>10 DEF DirectFrame, BufferDies, slotVars
<1>11. ASSUME NEW forced \in BOOLEAN, ComposedFrame(forced)
       PROVE  rendered' \in [Slots -> BOOLEAN]
  <2>1. rendered' = [rendered EXCEPT ![scanNext] = TRUE]
    BY <1>11 DEF ComposedFrame
  <2>2. QED
    BY <2>1
<1>12. CASE RequestScreenshot \/ ScreenshotPrepare \/ ScreenshotPrepared
  BY <1>12 DEF RequestScreenshot, ScreenshotPrepare, ScreenshotPrepared, slotVars
<1>13. ASSUME NEW on \in BOOLEAN, SetPowerSave(on) PROVE rendered' \in [Slots -> BOOLEAN]
  BY <1>13 DEF SetPowerSave, slotVars
<1>14. CASE UNCHANGED vars
  BY <1>14 DEF vars, slotVars
<1>15. QED
  BY <1>1, <1>2, <1>3, <1>4, <1>5, <1>6, <1>7, <1>8, <1>9, <1>10, <1>11, <1>12,
     <1>13, <1>14
     DEF Next, Step, HandleFlips, DrainFlips

\* The inductive invariant of TypeOK and SpareAccounted.
Sound ==
    /\ FlagsSound
    /\ SignalSound
    /\ CrtcSound
    /\ FlipSound
    /\ LinkSound
    /\ ShotSound
    /\ rendered \in [Slots -> BOOLEAN]

LEMMA InitSound == Init => Sound
<1>1. Init => rendered \in [Slots -> BOOLEAN]
  BY DEF Init
<1>2. QED
  BY <1>1, InitFlags, InitSignal, InitCrtc, InitFlip, InitLink, InitShot DEF Sound

LEMMA SoundNext == Sound /\ [Next]_vars => Sound'
<1> SUFFICES ASSUME Sound, [Next]_vars PROVE Sound'
  OBVIOUS
<1> USE DEF Sound
<1>1. scanNext \in Slots /\ mode \in Modes
  BY DEF FlipSound, LinkSound
<1>2. LinkSound'
  BY LinkSoundNext
<1>3. mode' \in Modes
  BY <1>2 DEF LinkSound
<1>4. ShotSound'
  BY <1>1, <1>3, ShotSoundNext
<1>5. /\ FlipSound' /\ CrtcSound' /\ FlagsSound' /\ SignalSound'
      /\ (rendered \in [Slots -> BOOLEAN])'
  BY <1>1, FlipSoundNext, CrtcSoundNext, FlagsSoundNext, SignalSoundNext, RenderedNext
<1>6. QED
  BY <1>2, <1>4, <1>5

LEMMA SoundTyped == Sound => TypeOK /\ SpareAccounted
<1> SUFFICES ASSUME Sound PROVE TypeOK /\ SpareAccounted
  OBVIOUS
<1>1. /\ FlagsSound /\ SignalSound /\ CrtcSound /\ FlipSound /\ LinkSound /\ ShotSound
      /\ rendered \in [Slots -> BOOLEAN]
  BY DEF Sound
<1>2. QED
  BY <1>1, Zenon
     DEF FlagsSound, SignalSound, CrtcSound, FlipSound, LinkSound, ShotSound, TypeOK,
         CrtcTypeOK

\* The variables keep their types: no event is left unread but one the program
\* gave up on, and an event more.
THEOREM Types == Spec => []TypeOK
BY InitSound, SoundNext, SoundTyped, PTL DEF Spec

\* The spare image exists exactly while the hand-off that consumes or destroys
\* it is under way, whatever fails, for any displays (prepareScreenshot,
\* takeScreenshot, retireScreenshot).
THEOREM SpareIsAccounted == Spec => []SpareAccounted
BY InitSound, SoundNext, SoundTyped, PTL DEF Spec

-----------------------------------------------------------------------------
(* Whatever fails.                                                         *)

\* What the flip in flight shows is kept: it is not the image the next frame
\* is drawn into, and a client buffer in flight has a framebuffer, which goes
\* when the mode does.
Kept ==
    /\ InFlightImageKept
    /\ inFlight \in Buffers => inFlight \in imported /\ ModeOf[inFlight] = mode

LEMMA InitKept == Init => Kept
BY FbAssumption DEF Init, CrtcInit, Kept, InFlightImageKept, Fbs, Slots

\* A framebuffer that is removed is not in flight afterwards.
LEMMA RemovedLands ==
    ASSUME NEW fbs, RemoveFbs(fbs), NoFb \notin fbs
    PROVE  /\ inFlight' \notin fbs
           /\ inFlight' = NoFb \/ inFlight' = inFlight
BY DEF RemoveFbs, Settled, crtcVars

LEMMA KeptNext ==
    ASSUME Sound, Kept, [Next]_vars
    PROVE  Kept'
<1>t. /\ scanNext \in Slots
      /\ inFlight \in Slots \cup Buffers \cup {NoFb}
      /\ imported \subseteq Buffers
      /\ NoFb \notin Slots /\ NoFb \notin Buffers /\ Slots \cap Buffers = {}
  BY FbAssumption DEF Sound, FlipSound, CrtcSound, Fbs
<1>0. ASSUME UNCHANGED <<inFlight, scanNext, imported, mode>> PROVE Kept'
  BY <1>0 DEF Kept, InFlightImageKept
<1>n. ASSUME inFlight' = NoFb, UNCHANGED scanNext PROVE Kept'
  BY <1>n, <1>t DEF Kept, InFlightImageKept
<1>l. LastSlot \in Slots /\ LastSlot # scanNext
  BY <1>t DEF LastSlot, Other, Slots
<1>r. ASSUME RelightAccepted \/ RelightRefused \/ Remodeset,
             UNCHANGED <<scanNext, imported, mode>>
      PROVE  Kept'
  <2>1. CASE RelightAccepted
    <3>1. inFlight' = LastSlot
      BY <2>1 DEF RelightAccepted, Queue
    <3>2. QED
      BY <3>1, <1>r, <1>l, <1>t DEF Kept, InFlightImageKept
  <2>2. CASE UNCHANGED crtcVars
    BY <2>2, <1>r, <1>0 DEF crtcVars
  <2>3. QED
    BY <1>r, <2>1, <2>2 DEF RelightRefused, Remodeset
<1>b. ASSUME NEW fbs, RemoveFbs(fbs) \/ RemoveThenQueue(fbs, 1), scanNext' = 0,
             Slots \subseteq fbs, NoFb \notin fbs
      PROVE  /\ InFlightImageKept'
             /\ inFlight' \in Buffers => inFlight' = inFlight /\ inFlight \notin fbs
  <2>1. CASE RemoveFbs(fbs)
    <3>1. inFlight' \notin fbs /\ (inFlight' = NoFb \/ inFlight' = inFlight)
      BY <2>1, <1>b, RemovedLands
    <3>2. inFlight' # 0
      BY <3>1, <1>b DEF Slots
    <3>3. QED
      BY <3>1, <3>2, <1>b, <1>t DEF InFlightImageKept
  <2>2. CASE RemoveThenQueue(fbs, 1)
    <3>1. inFlight' = 1
      BY <2>2 DEF RemoveThenQueue
    <3>2. QED
      BY <3>1, <1>b, <1>t DEF InFlightImageKept, Slots
  <2>3. QED
    BY <1>b, <2>1, <2>2
<1>1. CASE FlipCompletes
  BY <1>1, <1>n DEF FlipCompletes, FlipDone
<1>2. CASE ForeignCommit
  BY <1>2, <1>0 DEF ForeignCommit, directVars, linkVars
<1>3. CASE ReadFlips
  <2>1. /\ inFlight' = NoFb \/ UNCHANGED inFlight
        /\ UNCHANGED <<scanNext, sessionVars, directVars>>
    BY <1>3, Zenon DEF ReadFlips
  <2>2. QED
    BY <2>1, <1>0, <1>n DEF sessionVars, directVars
<1>4. CASE DrainGivesUp \/ Settle
  BY <1>4, <1>0 DEF DrainGivesUp, Settle, crtcVars, directVars, linkVars
<1>5. CASE PowerOn \/ Comeback
  BY <1>5, <1>r DEF PowerOn, Comeback, directVars, linkVars
<1>6. CASE PowerOff
  BY <1>6, <1>n, <1>0 DEF PowerOff, SwitchOff, crtcVars, directVars, linkVars
<1>7. CASE SessionDisabled \/ SessionEnabled \/ DisplaySettings
  BY <1>7, <1>0 DEF SessionDisabled, SessionEnabled, DisplaySettings, crtcVars, directVars,
                    linkVars
<1>8. CASE MonitorChanges \/ HotplugProbe \/ ProbeIgnored
  BY <1>8, <1>0 DEF MonitorChanges, HotplugProbe, ProbeIgnored, crtcVars, directVars,
                    linkVars, sessionVars
<1>9. CASE Disconnected \/ Reconnected \/ ModeListChanged
  BY <1>9, <1>0 DEF Disconnected, Reconnected, ModeListChanged, crtcVars, directVars,
                    sessionVars
<1>10. CASE SwitchMode
  <2>1. /\ RemoveFbs(Slots \cup imported) \/ RemoveThenQueue(Slots \cup imported, 1)
        /\ scanNext' = 0
    BY <1>10 DEF SwitchMode, Rebuild
  <2>2. /\ InFlightImageKept'
        /\ inFlight' \in Buffers
             => inFlight' = inFlight /\ inFlight \notin Slots \cup imported
    BY <2>1, <1>t, <1>b
  <2>3. QED
    BY <2>2 DEF Kept
<1>11. CASE ApplySettings \/ Replug \/ BlobRefused
  <2>1. /\ Remodeset \/ UNCHANGED crtcVars
        /\ UNCHANGED <<scanNext, imported, mode>>
    BY <1>11 DEF ApplySettings, Replug, BlobRefused, directVars, linkVars
  <2>2. QED
    BY <2>1, <1>r, <1>0 DEF crtcVars
<1>12. CASE RebuildFailed
  <2>1. /\ RemoveFbs(Slots) \/ RemoveThenQueue(Slots, 1)
        /\ scanNext' = 0
        /\ UNCHANGED <<imported, mode>>
    BY <1>12 DEF RebuildFailed, Rebuild, directVars, linkVars
  <2>2. InFlightImageKept' /\ (inFlight' \in Buffers => inFlight' = inFlight)
    BY <2>1, <1>t, <1>b
  <2>3. QED
    BY <2>1, <2>2 DEF Kept
<1>13. ASSUME NEW b \in Buffers, DirectFrame(b) PROVE Kept'
  <2>1. inFlight' = b /\ b \in imported' /\ ModeOf[b] = mode
        /\ UNCHANGED <<scanNext, mode>>
    BY <1>13 DEF DirectFrame, Queue, Flyable, linkVars
  <2>2. QED
    BY <2>1, <1>t DEF Kept, InFlightImageKept
<1>14. ASSUME NEW b \in Buffers, BufferDies(b) PROVE Kept'
  <2>1. /\ RemoveFbs({b}) /\ imported' = imported \ {b}
        /\ UNCHANGED <<scanNext, mode>>
    BY <1>14 DEF BufferDies, linkVars
  <2>2. inFlight' # b /\ (inFlight' = NoFb \/ inFlight' = inFlight)
    BY <2>1, <1>t, RemovedLands
  <2>3. QED
    BY <2>1, <2>2, <1>t DEF Kept, InFlightImageKept
<1>15. ASSUME NEW forced \in BOOLEAN, ComposedFrame(forced) PROVE Kept'
  <2>1. imported \subseteq imported' /\ UNCHANGED mode
    BY <1>15 DEF ComposedFrame, MayTryDirect, directVars
  <2>2. CASE PresentAccepted(scanNext)
    <3>1. inFlight' = scanNext /\ scanNext' = Other(scanNext)
      BY <2>2 DEF PresentAccepted, Queue
    <3>2. QED
      BY <3>1, <1>l, <1>t DEF Kept, InFlightImageKept, LastSlot
  <2>3. CASE PresentRefused
    <3>1. UNCHANGED <<inFlight, scanNext>>
      BY <2>3 DEF PresentRefused, crtcVars
    <3>2. QED
      BY <2>1, <3>1 DEF Kept, InFlightImageKept
  <2>4. QED
    BY <1>15, <2>2, <2>3 DEF ComposedFrame
<1>16. CASE RequestScreenshot \/ ScreenshotPrepare \/ ScreenshotPrepared
  BY <1>16, <1>0 DEF RequestScreenshot, ScreenshotPrepare, ScreenshotPrepared, crtcVars,
                     directVars, linkVars
<1>17. ASSUME NEW on \in BOOLEAN, SetPowerSave(on) PROVE Kept'
  BY <1>17, <1>0 DEF SetPowerSave, crtcVars, directVars
<1>18. CASE UNCHANGED vars
  BY <1>18, <1>0 DEF vars, crtcVars, directVars, linkVars
<1>19. QED
  BY <1>1, <1>2, <1>3, <1>4, <1>5, <1>6, <1>7, <1>8, <1>9, <1>10, <1>11, <1>12,
     <1>13, <1>14, <1>15, <1>16, <1>17, <1>18
     DEF Next, Step, HandleFlips, DrainFlips

\* No frame, not even a forced one, draws into the image of a flip that has not
\* completed, although the program may have given up on that flip and may
\* rebuild its images (presentImage, rebuildScanout).
THEOREM ImageInFlightIsKept == Spec => []InFlightImageKept
<1>1. Kept => InFlightImageKept
  BY DEF Kept
<1>2. QED
  BY <1>1, InitSound, SoundNext, InitKept, KeptNext, PTL DEF Spec

\* The images and the spare fit the mode.
Fitting ==
    /\ \A i \in Slots : slotMode[i] = mode
    /\ screenshotReplacement \in {mode, NoMode}

LEMMA FittingNext ==
    ASSUME Sound, Fitting, [Next]_vars
    PROVE  Fitting'
<1>t. /\ slotMode \in [Slots -> Modes] /\ mode \in Modes /\ SpareAccounted
      /\ loop \in {"replug", "follow"} => probe \in Monitors
  BY DEF Sound, ShotSound, LinkSound
<1>0. ASSUME UNCHANGED <<mode, slotMode, screenshotReplacement>> PROVE Fitting'
  BY <1>0 DEF Fitting
<1>1. CASE FlipCompletes \/ ForeignCommit
  BY <1>1, <1>0 DEF FlipCompletes, ForeignCommit, slotVars, linkVars, shotVars
<1>2. CASE ReadFlips
  <2>1. UNCHANGED mode
    <3>1. UNCHANGED sessionVars
      BY <1>2, Zenon DEF ReadFlips
    <3>2. QED
      BY <3>1 DEF sessionVars
  <2>2. CASE Retires
    <3>1. Retire /\ screenshotState = 3
      BY <1>2, <2>2 DEF ReadFlips, Retires
    <3>2. screenshotReplacement = mode
      BY <3>1, <1>t DEF SpareAccounted, Fitting
    <3>3. QED
      BY <2>1, <3>1, <3>2, <1>t DEF Retire, Fitting
  <2>3. CASE ~Retires
    <3>1. UNCHANGED <<slotVars, screenshotReplacement>>
      BY <1>2, <2>3, Zenon DEF ReadFlips
    <3>2. QED
      BY <2>1, <3>1, <1>0 DEF slotVars
  <2>4. QED
    BY <2>2, <2>3
<1>3. CASE DrainGivesUp
  BY <1>3, <1>0 DEF DrainGivesUp, slotVars, linkVars, shotVars
<1>4. CASE PowerOn \/ PowerOff \/ Settle \/ Comeback
  BY <1>4, <1>0 DEF PowerOn, PowerOff, Settle, Comeback, slotVars, linkVars, shotVars
<1>5. CASE SessionDisabled \/ SessionEnabled \/ DisplaySettings
  BY <1>5, <1>0 DEF SessionDisabled, SessionEnabled, DisplaySettings, slotVars, linkVars,
                    shotVars
<1>6. CASE MonitorChanges \/ HotplugProbe
  BY <1>6, <1>0 DEF MonitorChanges, HotplugProbe, slotVars, linkVars, shotVars
<1>7. CASE ProbeIgnored \/ Disconnected \/ Reconnected \/ ModeListChanged
  BY <1>7, <1>0 DEF ProbeIgnored, Disconnected, Reconnected, ModeListChanged, slotVars,
                    sessionVars, shotVars
<1>8. CASE SwitchMode
  <2>1. screenshotReplacement = NoMode
    BY <1>8, <1>t DEF SwitchMode, MaySwitch, SpareAccounted
  <2>2. slotMode' = [i \in Slots |-> mode'] /\ UNCHANGED screenshotReplacement
    BY <1>8 DEF SwitchMode, Rebuild, shotVars
  <2>3. QED
    BY <2>1, <2>2 DEF Fitting
<1>9. CASE ApplySettings \/ Replug \/ BlobRefused
  BY <1>9, <1>0 DEF ApplySettings, Replug, BlobRefused, slotVars, linkVars, shotVars
<1>10. CASE RebuildFailed
  BY <1>10 DEF RebuildFailed, Rebuild, linkVars, shotVars, Fitting
<1>11. ASSUME NEW b \in Buffers, DirectFrame(b) \/ BufferDies(b) PROVE Fitting'
  BY <1>11, <1>0 DEF DirectFrame, BufferDies, slotVars, linkVars, shotVars
<1>12. ASSUME NEW forced \in BOOLEAN, ComposedFrame(forced) PROVE Fitting'
  <2>1. UNCHANGED <<mode, slotMode>>
    BY <1>12 DEF ComposedFrame
  <2>2. screenshotReplacement' \in {screenshotReplacement, NoMode}
    BY <1>12 DEF ComposedFrame, Submit, Take, TakeFails, shotVars
  <2>3. QED
    BY <2>1, <2>2 DEF Fitting
<1>13. CASE RequestScreenshot \/ ScreenshotPrepared
  BY <1>13, <1>0 DEF RequestScreenshot, ScreenshotPrepared, slotVars, linkVars
<1>14. CASE ScreenshotPrepare
  BY <1>14 DEF ScreenshotPrepare, slotVars, linkVars, Fitting
<1>15. ASSUME NEW on \in BOOLEAN, SetPowerSave(on) PROVE Fitting'
  BY <1>15, <1>0 DEF SetPowerSave, slotVars, shotVars
<1>16. CASE UNCHANGED vars
  BY <1>16, <1>0 DEF vars, slotVars, linkVars, shotVars
<1>17. QED
  BY <1>1, <1>2, <1>3, <1>4, <1>5, <1>6, <1>7, <1>8, <1>9, <1>10, <1>11, <1>12,
     <1>13, <1>14, <1>15, <1>16
     DEF Next, Step, HandleFlips, DrainFlips

\* The images, the spare the worker builds and a client buffer in flight fit the
\* mode, however hotplugs, probes, failures and screenshots interleave
\* (switchMode, screenshotPrepare).
THEOREM EveryImageFits == Spec => []ImagesFitMode
<1>1. Init => Fitting
  BY DEF Init, Fitting
<1>2. Sound /\ Fitting /\ [Next]_vars => Fitting'
  BY FittingNext
<1>3. Kept /\ Fitting => ImagesFitMode
  BY DEF Kept, Fitting, ImagesFitMode
<1>4. QED
  BY <1>1, <1>2, <1>3, InitSound, SoundNext, InitKept, KeptNext, PTL DEF Spec

-----------------------------------------------------------------------------
(* Unless a flip outlasts the 100 ms of drainPendingFlip.                  *)

\* The flip the program waits for is the only one, and once its event is read
\* the image on screen is the last one presented.
FlipsPrompt ==
    /\ Events = (IF flipPending THEN 1 ELSE 0)
    /\ ~flipPending => queuedScan = NoSlot /\ queuedDirect = NoFb
    /\ queuedScan \in {NoSlot, LastSlot}
    /\ ~flipPending => currentScan \in {NoSlot, LastSlot}
    /\ inFlight # NoFb => inFlight = Queued
    /\ leaked = {}

ScreenPrompt ==
    screen \in Slots => screen = (IF unread > 0 THEN queuedScan ELSE currentScan)

\* A handed-off image was shown, or is the one on its way.
ShotPrompt ==
    screenshotState = 3 =>
        /\ screenshotIndex \in Slots
        /\ screenshotWasPresented \/ (flipPending /\ queuedScan = screenshotIndex)
        /\ ~flipPending => scanNext # screenshotIndex

Prompt == FlipsPrompt /\ ScreenPrompt /\ ShotPrompt

LEMMA InitPrompt == Init => Prompt
BY FbAssumption
   DEF Init, CrtcInit, Prompt, FlipsPrompt, ScreenPrompt, ShotPrompt, Events, Fbs

\* What a program that waits for no flip knows.
LEMMA Quiet ==
    ASSUME Sound, Prompt, ~flipPending
    PROVE  /\ inFlight = NoFb /\ unread = 0
           /\ queuedScan = NoSlot /\ queuedDirect = NoFb
           /\ screen \in Slots => screen = currentScan
           /\ screenshotState = 3 =>
                screenshotWasPresented /\ screenshotIndex \in Slots
BY DEF Sound, CrtcSound, Prompt, FlipsPrompt, ScreenPrompt, ShotPrompt, Events

\* Once an event is read, what was queued is on screen.
LEMMA EventRead ==
    ASSUME Sound, Prompt, unread > 0
    PROVE  /\ unread = 1 /\ inFlight = NoFb /\ flipPending
           /\ screen \in Slots => screen = queuedScan
BY DEF Sound, CrtcSound, Prompt, FlipsPrompt, ScreenPrompt, Events

LEMMA PromptNext ==
    ASSUME "slow" \notin Faults, Sound, Prompt, [Next]_vars
    PROVE  Prompt'
<1>t. /\ scanNext \in Slots /\ LastSlot \in Slots /\ LastSlot # scanNext
      /\ NoSlot \notin Slots /\ NoFb \notin Slots /\ NoFb \notin Buffers
      /\ Slots \cap Buffers = {} /\ Foreign \notin Slots
      /\ queuedScan \in Slots \cup {NoSlot}
      /\ Other(Other(scanNext)) = scanNext
  BY FbAssumption DEF Sound, FlipSound, LastSlot, Other, Slots, NoSlot, Fbs
<1>f. \A b : queuedDirect = NoFb /\ leaked = {} /\ Forget(queuedDirect) => leaked' = {}
  BY DEF Forget
<1>0. ASSUME UNCHANGED <<crtcVars, flipVars, scanNext, leaked, screenshotIndex,
                         screenshotWasPresented>>,
             screenshotState' = 3 => screenshotState = 3
      PROVE  Prompt'
  BY <1>0 DEF crtcVars, flipVars, Prompt, FlipsPrompt, ScreenPrompt, ShotPrompt,
              Events, LastSlot, Queued
<1>k. ASSUME ~flipPending, flipPending' = flipPending, UNCHANGED <<inFlight, unread>>,
             screen' \in Slots => screen' = screen,
             queuedScan' = queuedScan, queuedDirect' = NoFb,
             UNCHANGED <<currentScan, scanNext, shotVars, leaked>>
      PROVE  Prompt'
  BY <1>k, Quiet DEF shotVars, Prompt, FlipsPrompt, ScreenPrompt, ShotPrompt, Events,
                     LastSlot
<1>r. ASSUME ~flipPending, RelightAccepted, queuedDirect' = NoFb, leaked' = {},
             UNCHANGED <<scanNext, shotVars>>
      PROVE  Prompt'
  <2>1. /\ inFlight' = LastSlot /\ flipPending' = TRUE /\ queuedScan' = LastSlot
        /\ UNCHANGED <<screen, unread, currentScan>>
    BY <1>r DEF RelightAccepted, Queue
  <2>2. FlipsPrompt'
    BY <1>r, <2>1, <1>t, Quiet DEF FlipsPrompt, Events, LastSlot, Queued
  <2>3. ScreenPrompt' /\ ShotPrompt'
    BY <1>r, <2>1, Quiet DEF shotVars, ScreenPrompt, ShotPrompt
  <2>4. QED
    BY <2>2, <2>3 DEF Prompt
<1>1. CASE FlipCompletes
  <2>1. /\ inFlight # NoFb /\ screen' = inFlight /\ inFlight' = NoFb
        /\ unread' = unread + 1
        /\ UNCHANGED <<flipVars, scanNext, leaked, shotVars>>
    BY <1>1 DEF FlipCompletes, FlipDone
  <2>2. unread = 0 /\ inFlight = Queued /\ queuedDirect \notin Slots
    BY <2>1, <1>t DEF Prompt, FlipsPrompt, Events, Sound, CrtcSound, FlipSound
  <2>3. FlipsPrompt' /\ ShotPrompt'
    BY <2>1, <2>2 DEF flipVars, shotVars, Prompt, FlipsPrompt, ShotPrompt, Events, LastSlot
  <2>4. ScreenPrompt'
    BY <2>1, <2>2 DEF flipVars, ScreenPrompt, Queued
  <2>5. QED
    BY <2>3, <2>4 DEF Prompt
<1>2. CASE ForeignCommit
  BY <1>2, <1>t DEF ForeignCommit, flipVars, shotVars, Prompt, FlipsPrompt,
                    ScreenPrompt, ShotPrompt, Events, LastSlot, Queued
<1>3. CASE ReadFlips
  <2>1. /\ unread = 1 /\ inFlight = NoFb /\ flipPending
        /\ screen \in Slots => screen = queuedScan
        /\ leaked = {}
    BY <1>3, EventRead DEF ReadFlips, Prompt, FlipsPrompt
  <2>2. /\ flipPending' = FALSE /\ queuedScan' = NoSlot /\ queuedDirect' = NoFb
        /\ currentScan' = queuedScan
        /\ UNCHANGED <<scanNext, leaked>>
    BY <1>3, <2>1 DEF ReadFlips, Landed
  <2>3. /\ unread' = 0 /\ inFlight' = NoFb
        /\ screen' = NoFb \/ screen' = screen
    <3>1. \/ screen' = NoFb /\ inFlight' = NoFb /\ unread' = SettledEvents - unread
          \/ unread' = 0 /\ UNCHANGED <<screen, inFlight>>
      BY <1>3 DEF ReadFlips
    <3>2. QED
      BY <3>1, <2>1 DEF SettledEvents
  <2>4. FlipsPrompt'
    BY <2>1, <2>2, <2>3 DEF Prompt, FlipsPrompt, Events, LastSlot
  <2>5. ScreenPrompt'
    BY <2>1, <2>2, <2>3, <1>t DEF ScreenPrompt
  <2>6. ShotPrompt'
    <3>1. CASE Retires
      BY <1>3, <3>1 DEF ReadFlips, Retire, ShotPrompt
    <3>2. CASE ~Retires
      <4>1. /\ screenshotWasPresented' = (screenshotState = 3 /\ Shown)
            /\ UNCHANGED <<screenshotState, screenshotIndex>>
        BY <1>3, <3>2, Zenon DEF ReadFlips
      <4>2. screenshotState = 3 => Shown
        BY DEF Prompt, ShotPrompt, Shown
      <4>3. screenshotState = 3 => queuedScan = screenshotIndex
        BY <3>2, <4>2, <2>1 DEF Retires, Landed
      <4>4. QED
        BY <4>1, <4>2, <4>3, <2>2, <1>t DEF Prompt, ShotPrompt, FlipsPrompt
    <3>3. QED
      BY <3>1, <3>2
  <2>7. QED
    BY <2>4, <2>5, <2>6 DEF Prompt
<1>4. ~DrainGivesUp
  BY DEF DrainGivesUp
<1>5. CASE PowerOn
  <2>1. ~flipPending /\ queuedDirect = NoFb /\ leaked = {}
    BY <1>5, Quiet DEF PowerOn, Drained, Prompt, FlipsPrompt
  <2>2. CASE RelightAccepted /\ queuedDirect' = NoFb /\ Forget(queuedDirect)
    BY <1>5, <2>1, <2>2, <1>r, <1>f DEF PowerOn
  <2>3. CASE RelightRefused /\ UNCHANGED <<queuedDirect, leaked>>
    BY <1>5, <2>1, <2>3, <1>k DEF PowerOn, RelightRefused, crtcVars
  <2>4. QED
    BY <1>5, <2>2, <2>3 DEF PowerOn
<1>6. CASE PowerOff
  <2>1. ~flipPending /\ inFlight = NoFb
    BY <1>6, Quiet DEF PowerOff, Drained
  <2>2. UNCHANGED <<screen, inFlight, unread>>
    BY <1>6, <2>1 DEF PowerOff, SwitchOff, Settled, SettledEvents, crtcVars
  <2>3. QED
    BY <1>6, <2>1, <2>2, <1>k DEF PowerOff
<1>7. CASE SessionDisabled \/ SessionEnabled \/ DisplaySettings
  BY <1>7, <1>0 DEF SessionDisabled, SessionEnabled, DisplaySettings, shotVars
<1>8. CASE Settle
  BY <1>8, <1>k DEF Settle, Drained, crtcVars
<1>9. CASE Comeback
  <2>1. ~flipPending /\ leaked = {}
    BY <1>9 DEF Comeback, Drained, Prompt, FlipsPrompt
  <2>2. CASE RelightAccepted
    BY <1>9, <2>1, <2>2, <1>r DEF Comeback
  <2>3. CASE UNCHANGED <<crtcVars, flipPending, queuedScan, currentScan>>
    BY <1>9, <2>1, <2>3, <1>k DEF Comeback, crtcVars
  <2>4. QED
    BY <1>9, <2>2, <2>3 DEF Comeback, Remodeset, RelightRefused
<1>10. CASE MonitorChanges \/ HotplugProbe
  BY <1>10, <1>0 DEF MonitorChanges, HotplugProbe, shotVars
<1>11. CASE ProbeIgnored \/ Disconnected \/ Reconnected \/ ModeListChanged
  BY <1>11, <1>0 DEF ProbeIgnored, Disconnected, Reconnected, ModeListChanged, shotVars
<1>b. ASSUME ~flipPending, NEW fbs, Slots \subseteq fbs, screenshotState = 0,
             scanNext' = 0, currentScan' = NoSlot, queuedDirect' = NoFb,
             UNCHANGED <<leaked, screenshotState>>,
             \/ RemoveThenQueue(fbs, 1) /\ flipPending' = TRUE /\ queuedScan' = 1
             \/ RemoveFbs(fbs) /\ queuedScan' = NoSlot /\ UNCHANGED flipPending
      PROVE  Prompt'
  <2>1. inFlight = NoFb /\ unread = 0
    BY <1>b, Quiet
  <2>2. screen' \notin Slots /\ unread' = 0
    BY <1>b, <2>1, <1>t DEF RemoveThenQueue, RemoveFbs, Settled, SettledEvents, crtcVars
  <2>3. ScreenPrompt' /\ ShotPrompt'
    BY <1>b, <2>2 DEF ScreenPrompt, ShotPrompt
  <2>4. CASE RemoveThenQueue(fbs, 1) /\ flipPending' = TRUE /\ queuedScan' = 1
    <3>1. inFlight' = 1
      BY <2>4 DEF RemoveThenQueue
    <3>2. QED
      BY <1>b, <2>2, <2>3, <2>4, <3>1, <1>t
         DEF Prompt, FlipsPrompt, Events, LastSlot, Other, Queued, Slots
  <2>5. CASE RemoveFbs(fbs) /\ queuedScan' = NoSlot /\ UNCHANGED flipPending
    <3>1. inFlight' = NoFb
      BY <2>1, <2>5 DEF RemoveFbs, crtcVars
    <3>2. QED
      BY <1>b, <2>2, <2>3, <2>5, <3>1 DEF Prompt, FlipsPrompt, Events
  <2>6. QED
    BY <1>b, <2>4, <2>5
<1>12. CASE SwitchMode
  <2>1. /\ ~flipPending /\ screenshotState = 0 /\ scanNext' = 0
        /\ currentScan' = NoSlot /\ queuedDirect' = NoFb
        /\ UNCHANGED <<leaked, screenshotState>>
        /\ \/ /\ RemoveThenQueue(Slots \cup imported, 1)
              /\ flipPending' = TRUE
              /\ queuedScan' = 1
           \/ /\ RemoveFbs(Slots \cup imported)
              /\ queuedScan' = NoSlot
              /\ UNCHANGED flipPending
    BY <1>12 DEF SwitchMode, Drained, MaySwitch, ReleaseDirect, Rebuild, shotVars
  <2>2. QED
    BY <2>1, <1>b
<1>13. CASE ApplySettings \/ Replug \/ BlobRefused
  <2>1. ~flipPending /\ queuedDirect = NoFb /\ leaked = {}
    BY <1>13, Quiet DEF ApplySettings, Replug, BlobRefused, Drained, Prompt, FlipsPrompt
  <2>2. queuedDirect' = NoFb /\ UNCHANGED <<scanNext, shotVars, leaked>>
    BY <1>13, <2>1 DEF ApplySettings, Replug, BlobRefused, ReleaseDirect
  <2>3. RelightAccepted \/ UNCHANGED <<crtcVars, flipPending, queuedScan, currentScan>>
    BY <1>13 DEF ApplySettings, Replug, BlobRefused, Remodeset, RelightRefused
  <2>4. CASE RelightAccepted
    BY <2>1, <2>2, <2>4, <1>r
  <2>5. CASE UNCHANGED <<crtcVars, flipPending, queuedScan, currentScan>>
    BY <2>1, <2>2, <2>5, <1>k DEF crtcVars
  <2>6. QED
    BY <2>3, <2>4, <2>5
<1>14. CASE RebuildFailed
  <2>1. /\ ~flipPending /\ screenshotState = 0 /\ scanNext' = 0
        /\ currentScan' = NoSlot /\ queuedDirect' = NoFb
        /\ UNCHANGED <<leaked, screenshotState>>
        /\ \/ /\ RemoveThenQueue(Slots, 1)
              /\ flipPending' = TRUE
              /\ queuedScan' = 1
           \/ /\ RemoveFbs(Slots)
              /\ queuedScan' = NoSlot
              /\ UNCHANGED flipPending
    BY <1>14 DEF RebuildFailed, Drained, MaySwitch, ReleaseDirect, Rebuild, shotVars
  <2>2. QED
    BY <2>1, <1>b
<1>15. ASSUME NEW b \in Buffers, DirectFrame(b) PROVE Prompt'
  <2>1. ~flipPending
    BY <1>15 DEF DirectFrame, Ready
  <2>2. /\ inFlight' = b /\ flipPending' = TRUE /\ queuedDirect' = b
        /\ queuedScan' = NoSlot
        /\ UNCHANGED <<screen, unread, currentScan, scanNext, shotVars>>
        /\ Forget(queuedDirect)
    BY <1>15 DEF DirectFrame, Queue
  <2>3. leaked' = {}
    BY <2>1, <2>2, <1>f, Quiet DEF Prompt, FlipsPrompt
  <2>4. FlipsPrompt'
    BY <2>1, <2>2, <2>3, <1>t, Quiet DEF FlipsPrompt, Events, Queued
  <2>5. ScreenPrompt' /\ ShotPrompt'
    BY <2>1, <2>2, Quiet DEF shotVars, ScreenPrompt, ShotPrompt
  <2>6. QED
    BY <2>4, <2>5 DEF Prompt
<1>16. ASSUME NEW b \in Buffers, BufferDies(b) PROVE Prompt'
  <2>1. UNCHANGED <<flipVars, scanNext, leaked, shotVars>>
    BY <1>16 DEF BufferDies
  <2>2. CASE UNCHANGED crtcVars
    BY <2>1, <2>2, <1>0 DEF shotVars
  <2>3. CASE screen' = NoFb /\ inFlight' = NoFb /\ unread' = SettledEvents
    BY <2>1, <2>3, <1>t
       DEF flipVars, shotVars, Prompt, FlipsPrompt, ScreenPrompt, ShotPrompt, Events,
           SettledEvents, LastSlot
  <2>4. QED
    BY <1>16, <2>2, <2>3 DEF BufferDies, RemoveFbs
<1>17. ASSUME NEW forced \in BOOLEAN, ComposedFrame(forced) PROVE Prompt'
  <2>1. CASE PresentAccepted(scanNext)
    <3>1. /\ ~flipPending /\ flipPending' = TRUE /\ inFlight' = scanNext
          /\ queuedScan' = scanNext /\ queuedDirect' = NoFb
          /\ scanNext' = Other(scanNext)
          /\ Forget(queuedDirect)
          /\ UNCHANGED <<screen, unread>>
      BY <2>1 DEF PresentAccepted, Queue
    <3>2. leaked' = {}
      BY <3>1, <1>f, Quiet DEF Prompt, FlipsPrompt
    <3>3. UNCHANGED currentScan
      BY <1>17 DEF ComposedFrame
    <3>4. LastSlot' = scanNext
      BY <3>1, <1>t DEF LastSlot
    <3>5. FlipsPrompt'
      BY <3>1, <3>2, <3>4, <1>t, Quiet DEF FlipsPrompt, Events, Queued
    <3>6. ScreenPrompt'
      BY <3>1, <3>3, Quiet DEF ScreenPrompt
    <3>7. \/ /\ screenshotState' = 3 /\ screenshotIndex' = scanNext
          \/ screenshotState' # 3
          \/ UNCHANGED shotVars
      <4>1. Submit(scanNext) \/ UNCHANGED shotVars
        BY <1>17 DEF ComposedFrame
      <4>2. QED
        BY <4>1 DEF Submit, Take, TakeFails
    <3>8. ShotPrompt'
      BY <3>1, <3>7, <1>t, Quiet DEF ShotPrompt, shotVars
    <3>9. QED
      BY <3>5, <3>6, <3>8 DEF Prompt
  <2>2. CASE PresentRefused /\ UNCHANGED shotVars
    BY <1>17, <2>2
       DEF ComposedFrame, PresentRefused, crtcVars, shotVars, Prompt, FlipsPrompt,
           ScreenPrompt, ShotPrompt, Events, LastSlot, Queued
  <2>3. QED
    BY <1>17, <2>1, <2>2 DEF ComposedFrame
<1>18. CASE RequestScreenshot \/ ScreenshotPrepare \/ ScreenshotPrepared
  BY <1>18, <1>0 DEF RequestScreenshot, ScreenshotPrepare, ScreenshotPrepared
<1>19. ASSUME NEW on \in BOOLEAN, SetPowerSave(on) PROVE Prompt'
  BY <1>19, <1>0 DEF SetPowerSave, shotVars
<1>20. CASE UNCHANGED vars
  BY <1>20, <1>0 DEF vars, shotVars
<1>21. QED
  BY <1>1, <1>2, <1>3, <1>4, <1>5, <1>6, <1>7, <1>8, <1>9, <1>10, <1>11, <1>12,
     <1>13, <1>14, <1>15, <1>16, <1>17, <1>18, <1>19, <1>20
     DEF Next, Step, HandleFlips, DrainFlips

\* The program and the kernel agree on flips, if none outlasts the wait of a
\* callback: one at most is unfinished and it is the one queuedScan and
\* queuedDirect describe, whatever modesets, VT switches and hotplugs come
\* between (pageFlipHandler, commit, remodeset, setPowerSave).
THEOREM FlipsAreAgreed ==
    ASSUME "slow" \notin Faults
    PROVE  Spec => []FlipsAgree
<1>1. Sound /\ Prompt => FlipsAgree
  <2> SUFFICES ASSUME Sound, Prompt PROVE FlipsAgree
    OBVIOUS
  <2>1. /\ unread \in Nat
        /\ queuedDirect \notin Slots /\ currentDirect \notin Slots /\ NoSlot \notin Slots
    BY FbAssumption DEF Sound, CrtcSound, FlipSound, Slots, NoSlot, Fbs
  <2>2. /\ flipPending <=> (inFlight # NoFb \/ unread > 0)
        /\ unread <= (IF inFlight = NoFb THEN 1 ELSE 0)
    BY <2>1 DEF Prompt, FlipsPrompt, Events
  <2>3. inFlight # NoFb => inFlight = Queued
    BY DEF Prompt, FlipsPrompt
  <2>4. screen \in Slots => screen = (IF unread > 0 THEN Queued ELSE Current)
    BY <2>1 DEF Prompt, ScreenPrompt, Queued, Current
  <2>5. QED
    BY <2>2, <2>3, <2>4 DEF FlipsAgree
<1>2. QED
  BY <1>1, InitSound, SoundNext, InitPrompt, PromptNext, PTL DEF Spec

\* If no flip outlasts the wait of a callback, no path overwrites the reference
\* of a queued client frame without releasing it (commit, remodeset).
THEOREM NoFrameIsLeaked ==
    ASSUME "slow" \notin Faults
    PROVE  Spec => []NoFrameLeaked
<1>1. Prompt => NoFrameLeaked
  BY DEF Prompt, FlipsPrompt, NoFrameLeaked
<1>2. QED
  BY <1>1, InitSound, SoundNext, InitPrompt, PromptNext, PTL DEF Spec

\* If no flip outlasts the wait of a callback, acquire() on a ready output never
\* hands out an image that is displayed, in flight or owned by a viewer.
THEOREM AcquiredImageIsFree ==
    ASSUME "slow" \notin Faults
    PROVE  Spec => []AcquiredIsFree
<1>1. Sound /\ Prompt => AcquiredIsFree
  <2> SUFFICES ASSUME Sound, Prompt, Ready PROVE AcquiredIsFree
    BY DEF AcquiredIsFree
  <2>1. ~flipPending /\ scanNext \in Slots
    BY DEF Ready, Sound, FlipSound
  <2>2. LastSlot # scanNext /\ NoSlot \notin Slots /\ NoFb \notin Slots
    BY <2>1, FbAssumption DEF LastSlot, Other, Slots, NoSlot, Fbs
  <2>3. /\ inFlight = NoFb
        /\ screen \in Slots => screen = currentScan
        /\ currentScan \in {NoSlot, LastSlot}
    BY <2>1, Quiet DEF Prompt, FlipsPrompt
  <2>4. screenshotState = 3 => scanNext # screenshotIndex
    BY <2>1 DEF Prompt, ShotPrompt
  <2>5. QED
    BY <2>1, <2>2, <2>3, <2>4 DEF AcquiredIsFree
<1>2. QED
  BY <1>1, InitSound, SoundNext, InitPrompt, PromptNext, PTL DEF Spec

\* A step that ends a hand-off reads a flip, and that flip took the image off
\* the screen.
LEMMA RetiredIsOff ==
    ASSUME "slow" \notin Faults, Sound, Prompt, [Next]_vars,
           screenshotState = 3, screenshotState' = 0
    PROVE  screenshotIndex \notin {screen, inFlight}
<1>1. ReadFlips
  <2>1. UNCHANGED shotVars => FALSE
    BY DEF shotVars
  <2>2. ~(\/ SessionDisabled \/ SessionEnabled \/ DisplaySettings
          \/ Settle \/ Comeback \/ PowerOn \/ PowerOff)
    BY <2>1 DEF SessionDisabled, SessionEnabled, DisplaySettings, Settle, Comeback,
                PowerOn, PowerOff
  <2>3. ~(FlipCompletes \/ ForeignCommit \/ DrainGivesUp \/ MonitorChanges \/ HotplugProbe)
    BY <2>1 DEF FlipCompletes, ForeignCommit, DrainGivesUp, MonitorChanges, HotplugProbe
  <2>4. ~(ProbeIgnored \/ Disconnected \/ Reconnected \/ ModeListChanged)
    BY <2>1 DEF ProbeIgnored, Disconnected, Reconnected, ModeListChanged
  <2>5. ~(SwitchMode \/ ApplySettings \/ Replug \/ BlobRefused \/ RebuildFailed)
    BY <2>1 DEF SwitchMode, ApplySettings, Replug, BlobRefused, RebuildFailed
  <2>6. ~(\E b \in Buffers : DirectFrame(b) \/ BufferDies(b))
    BY <2>1 DEF DirectFrame, BufferDies
  <2>7. ~(\E forced \in BOOLEAN : ComposedFrame(forced))
    BY <2>1 DEF ComposedFrame, Submit
  <2>8. ~(RequestScreenshot \/ ScreenshotPrepare)
    BY DEF RequestScreenshot, ScreenshotPrepare
  <2>9. ~ScreenshotPrepared
    BY DEF ScreenshotPrepared, Sound, ShotSound, SpareAccounted
  <2>10. ~(\E on \in BOOLEAN : SetPowerSave(on))
    BY <2>1 DEF SetPowerSave
  <2>11. ~UNCHANGED vars
    BY <2>1 DEF vars
  <2>12. QED
    BY <2>2, <2>3, <2>4, <2>5, <2>6, <2>7, <2>8, <2>9, <2>10, <2>11
       DEF Next, Step, HandleFlips, DrainFlips
<1>2. Retires
  <2>1. ~Retires => UNCHANGED screenshotState
    BY <1>1, Zenon DEF ReadFlips
  <2>2. QED
    BY <2>1
<1>3. /\ unread = 1 /\ inFlight = NoFb
      /\ screen \in Slots => screen = queuedScan
  BY <1>1, EventRead DEF ReadFlips
<1>4. queuedScan # screenshotIndex
  BY <1>2, <1>3 DEF Retires, Landed
<1>5. screenshotIndex \in Slots /\ NoFb \notin Slots
  BY FbAssumption DEF Prompt, ShotPrompt, Fbs
<1>6. QED
  BY <1>3, <1>4, <1>5

\* If no flip outlasts the wait of a callback, a handed-off image is destroyed
\* only after KMS flipped away from it, whatever flips, modesets and VT switches
\* come between (output.h, retireScreenshot).
THEOREM HandedImageRetiresOffScreen ==
    ASSUME "slow" \notin Faults
    PROVE  Spec => RetiresOffScreen
<1>1. Sound /\ Prompt /\ [Next]_vars
        => [screenshotState = 3 /\ screenshotState' = 0
              => screenshotIndex \notin {screen, inFlight}]_vars
  BY RetiredIsOff
<1>2. QED
  BY <1>1, InitSound, SoundNext, InitPrompt, PromptNext, PTL DEF Spec, RetiresOffScreen

-----------------------------------------------------------------------------
(* Unless a mode switch fails half way, too.                               *)

\* A client buffer on screen is an imported one, and the frame that shows it is
\* the current one.
Held ==
    screen \in Buffers =>
        /\ screen \in imported
        /\ screen = (IF unread > 0 THEN queuedDirect ELSE currentDirect)

\* The frame reference of a client buffer in flight is the queued one.
LEMMA InFlightHeld ==
    ASSUME Sound, Prompt, inFlight \in Buffers
    PROVE  inFlight = queuedDirect
<1>1. inFlight # NoFb /\ inFlight \notin Slots
  BY FbAssumption DEF Fbs
<1>2. QED
  BY <1>1 DEF Prompt, FlipsPrompt, Queued, Sound, FlipSound

LEMMA HeldNext ==
    ASSUME Faults \cap {"slow", "blob", "rebuild"} = {}, Sound, Kept, Prompt, Held,
           [Next]_vars
    PROVE  Held'
<1>t. NoFb \notin Buffers /\ Foreign \notin Buffers /\ Slots \cap Buffers = {}
  BY FbAssumption DEF Fbs
<1>0. ASSUME UNCHANGED <<screen, unread, queuedDirect, currentDirect, imported>>
      PROVE  Held'
  BY <1>0 DEF Held
<1>k. ASSUME ~flipPending, UNCHANGED <<screen, unread, currentDirect>>,
             imported \subseteq imported'
      PROVE  Held'
  BY <1>k, Quiet DEF Held
<1>r. ASSUME RelightAccepted \/ RelightRefused \/ Remodeset
      PROVE  UNCHANGED <<screen, unread>>
  BY <1>r DEF RelightAccepted, RelightRefused, Remodeset, Queue, crtcVars
<1>1. CASE FlipCompletes
  <2>1. /\ inFlight # NoFb /\ screen' = inFlight /\ unread' = unread + 1
        /\ UNCHANGED <<queuedDirect, imported>>
    BY <1>1 DEF FlipCompletes, FlipDone, flipVars, directVars
  <2>2. unread' > 0
    BY <2>1 DEF Sound, CrtcSound
  <2>3. QED
    BY <2>1, <2>2, InFlightHeld DEF Held, Kept
<1>2. CASE ForeignCommit
  BY <1>2, <1>t DEF ForeignCommit, Held
<1>3. CASE ReadFlips
  <2>1. /\ unread = 1
        /\ currentDirect' = IF unread = 1 THEN queuedDirect ELSE NoFb
        /\ UNCHANGED directVars
    BY <1>3, EventRead, Zenon DEF ReadFlips
  <2>2. /\ screen' = screen \/ screen' = NoFb
    BY <1>3 DEF ReadFlips
  <2>3. unread' = 0
    <3>1. unread' = SettledEvents - unread \/ unread' = 0
      BY <1>3 DEF ReadFlips
    <3>2. SettledEvents = unread
      BY <1>3, EventRead DEF ReadFlips, SettledEvents
    <3>3. QED
      BY <2>1, <3>1, <3>2
  <2>4. QED
    BY <2>1, <2>2, <2>3, <1>t DEF Held, directVars
<1>4. ~DrainGivesUp /\ ~BlobRefused /\ ~RebuildFailed
  BY DEF DrainGivesUp, BlobRefused, RebuildFailed
<1>5. CASE PowerOn
  BY <1>5, <1>r, <1>k DEF PowerOn, Drained, directVars
<1>6. CASE PowerOff
  <2>1. ~flipPending /\ inFlight = NoFb
    BY <1>6, Quiet DEF PowerOff, Drained
  <2>2. UNCHANGED <<screen, unread>>
    BY <1>6, <2>1 DEF PowerOff, SwitchOff, Settled, SettledEvents, crtcVars
  <2>3. QED
    BY <1>6, <2>1, <2>2, <1>k DEF PowerOff, directVars
<1>7. CASE SessionDisabled \/ SessionEnabled \/ DisplaySettings
  BY <1>7, <1>0 DEF SessionDisabled, SessionEnabled, DisplaySettings, crtcVars, flipVars,
                    directVars
<1>8. CASE Settle
  BY <1>8, <1>k DEF Settle, Drained, crtcVars, directVars
<1>9. CASE Comeback
  BY <1>9, <1>r, <1>k DEF Comeback, Drained, directVars
<1>10. CASE MonitorChanges \/ HotplugProbe \/ ProbeIgnored
  BY <1>10, <1>0 DEF MonitorChanges, HotplugProbe, ProbeIgnored, crtcVars, flipVars,
                     directVars
<1>11. CASE Disconnected \/ Reconnected \/ ModeListChanged
  BY <1>11, <1>0 DEF Disconnected, Reconnected, ModeListChanged, crtcVars, flipVars,
                     directVars
<1>12. CASE SwitchMode
  <2>1. inFlight = NoFb
    BY <1>12, Quiet DEF SwitchMode, Drained
  <2>2. \/ RemoveThenQueue(Slots \cup imported, 1)
        \/ RemoveFbs(Slots \cup imported)
    BY <1>12 DEF SwitchMode
  <2>3. screen' = NoFb \/ (screen' = screen /\ screen \notin imported)
    BY <2>1, <2>2 DEF RemoveThenQueue, RemoveFbs, Settled, crtcVars
  <2>4. QED
    BY <2>3, <1>t DEF Held
<1>13. CASE ApplySettings \/ Replug
  BY <1>13, <1>r, <1>k DEF ApplySettings, Replug, Drained, directVars
<1>14. ASSUME NEW b \in Buffers, DirectFrame(b) PROVE Held'
  BY <1>14, <1>k DEF DirectFrame, Ready, Queue
<1>15. ASSUME NEW b \in Buffers, BufferDies(b) PROVE Held'
  <2>1. /\ RemoveFbs({b}) /\ imported' = imported \ {b}
        /\ UNCHANGED flipVars
        /\ b # queuedDirect /\ b # currentDirect
    BY <1>15 DEF BufferDies
  <2>2. screen' = NoFb \/ UNCHANGED <<screen, unread>>
    BY <2>1 DEF RemoveFbs, crtcVars
  <2>3. QED
    BY <2>1, <2>2, <1>t DEF flipVars, Held
<1>16. ASSUME NEW forced \in BOOLEAN, ComposedFrame(forced) PROVE Held'
  <2>1. imported \subseteq imported' /\ UNCHANGED currentDirect
    BY <1>16 DEF ComposedFrame, MayTryDirect, directVars
  <2>2. CASE PresentAccepted(scanNext)
    BY <2>1, <2>2, <1>k DEF PresentAccepted, Queue
  <2>3. CASE PresentRefused
    BY <2>1, <2>3 DEF PresentRefused, crtcVars, Held
  <2>4. QED
    BY <1>16, <2>2, <2>3 DEF ComposedFrame
<1>17. CASE RequestScreenshot \/ ScreenshotPrepare \/ ScreenshotPrepared
  BY <1>17, <1>0 DEF RequestScreenshot, ScreenshotPrepare, ScreenshotPrepared, crtcVars,
                     flipVars, directVars
<1>18. ASSUME NEW on \in BOOLEAN, SetPowerSave(on) PROVE Held'
  BY <1>18, <1>0 DEF SetPowerSave, crtcVars, flipVars, directVars
<1>19. CASE UNCHANGED vars
  BY <1>19, <1>0 DEF vars, crtcVars, flipVars, directVars
<1>20. QED
  BY <1>1, <1>2, <1>3, <1>4, <1>5, <1>6, <1>7, <1>8, <1>9, <1>10, <1>11, <1>12,
     <1>13, <1>14, <1>15, <1>16, <1>17, <1>18, <1>19
     DEF Next, Step, HandleFlips, DrainFlips

LEMMA InitHeld == Init => Held
BY FbAssumption DEF Init, CrtcInit, Held, Fbs

\* A client buffer that is on screen or about to be is held by a frame
\* reference, if no flip outlasts the wait of a callback and no mode switch
\* fails: its client is not told to reuse it (frame_resource.h).
THEOREM ScanoutIsHeld ==
    ASSUME Faults \cap {"slow", "blob", "rebuild"} = {}
    PROVE  Spec => []ScanoutHeld
<1>1. Sound /\ Prompt /\ Held => ScanoutHeld
  <2> SUFFICES ASSUME Sound, Prompt, Held, Idle, NEW b \in Buffers, b \in {screen, inFlight}
               PROVE  b \in {queuedDirect, currentDirect}
    BY DEF ScanoutHeld
  <2>1. QED
    BY InFlightHeld DEF Held
<1>2. "slow" \notin Faults
  OBVIOUS
<1>3. Sound /\ Prompt /\ [Next]_vars => Prompt'
  BY <1>2, PromptNext
<1>4. Sound /\ Kept /\ Prompt /\ Held /\ [Next]_vars => Held'
  BY HeldNext
<1>5. QED
  BY <1>1, <1>3, <1>4, InitSound, SoundNext, InitKept, KeptNext, InitPrompt, InitHeld,
     PTL DEF Spec

\* A CRTC that was lit is dark only while the power is off, another VT is shown,
\* or the callback that lights it waits for a flip.
Lit ==
    /\ modesetDone /\ sessionActive /\ powered /\ loop \notin {"powerOn", "comeback"}
         => active
    /\ loop \in {"powerOn", "comeback"} => sessionActive
    /\ loop = "powerOff" => ~powered

LEMMA LitNext ==
    ASSUME Faults \cap {"slow", "blob", "rebuild", "commit"} = {},
           Sound, Prompt, Held, Lit, [Next]_vars
    PROVE  Lit'
<1>0. ASSUME UNCHANGED <<modesetDone, sessionActive, powered, loop, active>>
      PROVE  Lit'
  BY <1>0 DEF Lit
<1>g. ASSUME UNCHANGED <<sessionActive, powered, loop, active>>,
             modesetDone' => modesetDone
      PROVE  Lit'
  BY <1>g DEF Lit
<1>h. ASSUME NEW logged, Feedback(logged) PROVE modesetDone' => modesetDone
  BY <1>h DEF Feedback
<1>d. ASSUME loop' = "idle", active' = TRUE
      PROVE  Lit'
  BY <1>d DEF Lit
<1>c. ASSUME ~flipPending, sessionActive PROVE ~MayRefuse(TRUE)
  BY <1>c, Quiet DEF MayRefuse, CanCommit, Commits
<1>1. CASE FlipCompletes \/ ForeignCommit
  BY <1>1 DEF FlipCompletes, FlipDone, ForeignCommit, linkVars, Lit
<1>2. CASE ReadFlips
  <2>1. UNCHANGED <<sessionVars, loop>> /\ Feedback(signalFeedbackLogged)
    BY <1>2, Zenon DEF ReadFlips
  <2>2. UNCHANGED active
    <3>1. CASE Retires
      <4>1. /\ unread = 1 /\ inFlight = NoFb
            /\ screen \in Slots => screen = queuedScan
        BY <1>2, EventRead DEF ReadFlips
      <4>2. screenshotIndex \in Slots /\ screenshotIndex # queuedScan
        BY <3>1, <4>1 DEF Retires, Landed, Prompt, ShotPrompt
      <4>3. Settled # screenshotIndex
        BY <4>1, <4>2 DEF Settled
      <4>4. QED
        BY <1>2, <3>1, <4>3 DEF ReadFlips
    <3>2. CASE ~Retires
      BY <1>2, <3>2, Zenon DEF ReadFlips
    <3>3. QED
      BY <3>1, <3>2
  <2>3. QED
    BY <2>1, <2>2, <1>g, <1>h DEF sessionVars
<1>3. ~DrainGivesUp /\ ~BlobRefused /\ ~RebuildFailed
  BY DEF DrainGivesUp, BlobRefused, RebuildFailed
<1>4. CASE PowerOn \/ Comeback
  <2>1. ~flipPending /\ sessionActive /\ loop' = "idle" /\ UNCHANGED linkVars
    BY <1>4 DEF PowerOn, Comeback, Drained, Lit
  <2>2. RelightAccepted \/ ~modesetDone
    BY <1>4, <2>1, <1>c DEF PowerOn, Comeback, Remodeset, RelightRefused
  <2>3. CASE RelightAccepted
    <3>1. active' = TRUE
      BY <2>3 DEF RelightAccepted, Queue
    <3>2. QED
      BY <2>1, <3>1, <1>d
  <2>4. CASE ~modesetDone
    BY <2>1, <2>4 DEF linkVars, Lit
  <2>5. QED
    BY <2>2, <2>3, <2>4
<1>5. CASE PowerOff
  BY <1>5 DEF PowerOff, Drained, linkVars, Lit
<1>6. CASE SessionDisabled \/ DisplaySettings
  <2>1. CASE SessionDisabled
    BY <2>1 DEF SessionDisabled, Idle, crtcVars, Lit
  <2>2. CASE DisplaySettings
    BY <2>2 DEF DisplaySettings, Idle, crtcVars, linkVars, Lit
  <2>3. QED
    BY <1>6, <2>1, <2>2
<1>7. CASE SessionEnabled
  BY <1>7 DEF SessionEnabled, Idle, crtcVars, Lit
<1>8. CASE Settle
  BY <1>8 DEF Settle, Drained, crtcVars, linkVars, Lit
<1>9. CASE MonitorChanges \/ HotplugProbe \/ ProbeIgnored
  <2>1. CASE MonitorChanges \/ HotplugProbe
    BY <2>1, <1>0 DEF MonitorChanges, HotplugProbe, crtcVars, linkVars
  <2>2. CASE ProbeIgnored
    <3>1. modesetDone' => modesetDone
      BY <2>2, <1>h DEF ProbeIgnored
    <3>2. UNCHANGED <<crtcVars, sessionVars, loop>>
      BY <2>2, Zenon DEF ProbeIgnored
    <3>3. QED
      BY <3>1, <3>2, <1>g DEF crtcVars, sessionVars
  <2>3. QED
    BY <1>9, <2>1, <2>2
<1>10. CASE Disconnected \/ Reconnected \/ ModeListChanged
  <2>1. CASE Disconnected \/ Reconnected
    BY <2>1 DEF Disconnected, Reconnected, Idle, crtcVars, Lit
  <2>2. CASE ModeListChanged
    <3>1. modesetDone' => modesetDone
      BY <2>2, <1>h DEF ModeListChanged
    <3>2. UNCHANGED <<crtcVars, sessionVars>> /\ loop = "idle" /\ loop' = "follow"
      BY <2>2, Zenon DEF ModeListChanged, Idle
    <3>3. QED
      BY <3>1, <3>2 DEF crtcVars, sessionVars, Lit
  <2>3. QED
    BY <1>10, <2>1, <2>2
<1>11. CASE SwitchMode
  <2>1. loop' = "idle" /\ UNCHANGED <<modesetDone, sessionActive>>
    BY <1>11 DEF SwitchMode, Drained
  <2>2. CASE modesetDone /\ sessionActive
    <3>1. RemoveThenQueue(Slots \cup imported, 1)
      BY <1>11, <2>2 DEF SwitchMode
    <3>2. QED
      BY <3>1, <2>1, <1>d DEF RemoveThenQueue
  <2>3. CASE ~(modesetDone /\ sessionActive)
    BY <2>1, <2>3 DEF Lit
  <2>4. QED
    BY <2>2, <2>3
<1>12. CASE ApplySettings \/ Replug
  <2>1. loop' = "idle" /\ loop \in {"settings", "replug"} /\ UNCHANGED linkVars
    BY <1>12 DEF ApplySettings, Replug, Drained
  <2>2. active' = TRUE \/ UNCHANGED crtcVars
    BY <1>12 DEF ApplySettings, Replug, Remodeset, RelightAccepted, RelightRefused, Queue
  <2>3. QED
    BY <2>1, <2>2, <1>d DEF linkVars, crtcVars, Lit
<1>13. ASSUME NEW b \in Buffers, DirectFrame(b) PROVE Lit'
  <2>1. active' = TRUE /\ loop = "idle" /\ UNCHANGED loop
    BY <1>13 DEF DirectFrame, Queue, Idle
  <2>2. QED
    BY <2>1, <1>d
<1>14. ASSUME NEW b \in Buffers, BufferDies(b) PROVE Lit'
  <2>1. /\ RemoveFbs({b}) /\ b # queuedDirect /\ b # currentDirect
        /\ UNCHANGED <<linkVars, loop>>
    BY <1>14 DEF BufferDies
  <2>2. Settled # b
    BY <2>1, InFlightHeld DEF Settled, Held
  <2>3. UNCHANGED active
    BY <2>1, <2>2 DEF RemoveFbs, crtcVars
  <2>4. QED
    BY <2>1, <2>3, <1>0 DEF linkVars
<1>15. ASSUME NEW forced \in BOOLEAN, ComposedFrame(forced) PROVE Lit'
  <2>1. loop = "idle" /\ UNCHANGED <<sessionActive, powered, loop>>
    BY <1>15 DEF ComposedFrame, Idle
  <2>2. CASE PresentAccepted(scanNext)
    BY <2>1, <2>2, <1>d DEF PresentAccepted, Queue
  <2>3. CASE PresentRefused
    BY <2>1, <2>3, <1>0 DEF PresentRefused, crtcVars
  <2>4. QED
    BY <1>15, <2>2, <2>3 DEF ComposedFrame
<1>16. CASE RequestScreenshot \/ ScreenshotPrepare \/ ScreenshotPrepared
  BY <1>16, <1>0 DEF RequestScreenshot, ScreenshotPrepare, ScreenshotPrepared, crtcVars,
                     linkVars
<1>17. ASSUME NEW on \in BOOLEAN, SetPowerSave(on) PROVE Lit'
  BY <1>17 DEF SetPowerSave, Idle, crtcVars, Lit
<1>18. CASE UNCHANGED vars
  BY <1>18, <1>0 DEF vars, crtcVars, linkVars
<1>19. QED
  BY <1>1, <1>2, <1>3, <1>4, <1>5, <1>6, <1>7, <1>8, <1>9, <1>10, <1>11, <1>12,
     <1>13, <1>14, <1>15, <1>16, <1>17, <1>18
     DEF Next, Step, HandleFlips, DrainFlips

\* A ready output that was lit once is lit, or its first frame will light it, if
\* no flip outlasts the wait of a callback, no mode switch fails and the driver
\* takes the commits it can take: no hotplug, VT switch, screenshot or client
\* buffer leaves it dark (remodeset, rebuildScanout, dropScanoutFb).
THEOREM ReadyIsLit ==
    ASSUME Faults \cap {"slow", "blob", "rebuild", "commit"} = {}
    PROVE  Spec => []LitWhenReady
<1>1. Lit => LitWhenReady
  BY DEF Lit, LitWhenReady, Idle, Ready
<1>2. Init => Lit
  BY DEF Init, Lit
<1>3. "slow" \notin Faults /\ Faults \cap {"slow", "blob", "rebuild"} = {}
  OBVIOUS
<1>4. Sound /\ Prompt /\ [Next]_vars => Prompt'
  BY <1>3, PromptNext
<1>5. Sound /\ Kept /\ Prompt /\ Held /\ [Next]_vars => Held'
  BY <1>3, HeldNext
<1>6. Sound /\ Prompt /\ Held /\ Lit /\ [Next]_vars => Lit'
  BY LitNext
<1>7. QED
  BY <1>1, <1>2, <1>4, <1>5, <1>6, InitSound, SoundNext, InitKept, KeptNext,
     InitPrompt, InitHeld, PTL DEF Spec
=============================================================================
