------------------------ MODULE DisplayPowerProofs ------------------------
(***************************************************************************)
(* Proofs about DisplayPower for any buffers, modes, displays and faults.  *)
(***************************************************************************)
EXTENDS DisplayPower, TLAPS

\* The output carries HDR only on a display that has it.
HdrSound == hdr => HdrDisplay

\* No link is found too shallow for HDR: there is none, or none is shallow.
LinkCarriesHdr == ~HdrDisplay \/ "degraded" \notin Faults

LEMMA SignalKept ==
    ASSUME HdrSound, NEW logged, Feedback(logged)
    PROVE  HdrSound' /\ (LinkCarriesHdr /\ modesetDone => modesetDone')
BY HdrAssumption DEF HdrSound, LinkCarriesHdr, Feedback

LEMMA RemodesetKeepsHdr ==
    ASSUME HdrSound, RelightAccepted \/ RelightRefused \/ Remodeset
    PROVE  HdrSound'
<1>1. UNCHANGED hdr \/ hdr' = FALSE
  BY DEF RelightAccepted, RelightRefused, Remodeset, MayFallBack, signalVars
<1>2. QED
  BY <1>1 DEF HdrSound

\* Only setPowerSave changes powered, and where links carry HDR a modeset done
\* stays done, whatever the kernel, the monitors, the frames, the settings and
\* the screenshots do.
LEMMA StepKeepsPower ==
    ASSUME Step, HdrSound
    PROVE  /\ powered' = powered
           /\ HdrSound'
           /\ LinkCarriesHdr /\ modesetDone => modesetDone'
<1> DEFINE Goal == /\ powered' = powered
                   /\ HdrSound'
                   /\ LinkCarriesHdr /\ modesetDone => modesetDone'
<1>k. UNCHANGED <<linkVars, signalVars>> => Goal
  BY DEF linkVars, signalVars, HdrSound
<1>l. UNCHANGED linkVars /\ HdrSound' => Goal
  BY DEF linkVars
<1>1. CASE FlipCompletes \/ ForeignCommit
  BY <1>1, <1>k, Zenon DEF FlipCompletes, ForeignCommit
<1>2. CASE HandleFlips \/ DrainFlips \/ DrainGivesUp
  <2>1. CASE ReadFlips
    <3>1. Feedback(signalFeedbackLogged) /\ UNCHANGED sessionVars
      BY <2>1, Zenon DEF ReadFlips
    <3>2. QED
      BY <3>1, SignalKept DEF sessionVars
  <2>2. CASE DrainGivesUp
    BY <2>2, <1>k, Zenon DEF DrainGivesUp
  <2>3. QED
    BY <1>2, <2>1, <2>2 DEF HandleFlips, DrainFlips
<1>3. CASE PowerOn \/ Comeback \/ ApplySettings
  BY <1>3, <1>l, RemodesetKeepsHdr DEF PowerOn, Comeback, ApplySettings
<1>4. CASE PowerOff \/ Settle
  BY <1>4, <1>k, Zenon DEF PowerOff, Settle
<1>5. CASE SessionDisabled \/ SessionEnabled
  BY <1>5 DEF SessionDisabled, SessionEnabled, signalVars, HdrSound
<1>6. CASE MonitorChanges \/ HotplugProbe
  BY <1>6, <1>k, Zenon DEF MonitorChanges, HotplugProbe
<1>7. CASE ProbeIgnored \/ ModeListChanged
  <2>1. Feedback(FALSE) \/ UNCHANGED <<modesetDone, signalVars>>
    BY <1>7 DEF ProbeIgnored, ModeListChanged
  <2>2. UNCHANGED sessionVars
    BY <1>7 DEF ProbeIgnored, ModeListChanged
  <2>3. powered' = powered
    BY <2>2 DEF sessionVars
  <2>4. CASE Feedback(FALSE)
    BY <2>3, <2>4, SignalKept
  <2>5. CASE UNCHANGED <<modesetDone, signalVars>>
    BY <2>3, <2>5 DEF signalVars, HdrSound
  <2>6. QED
    BY <2>1, <2>4, <2>5
<1>8. CASE Disconnected \/ Reconnected
  BY <1>8 DEF Disconnected, Reconnected, signalVars, HdrSound
<1>9. CASE SwitchMode
  <2>1. UNCHANGED hdr \/ hdr' = FALSE
    BY <1>9 DEF SwitchMode, MayFallBack
  <2>2. UNCHANGED <<powered, modesetDone>>
    BY <1>9, Zenon DEF SwitchMode
  <2>3. QED
    BY <2>1, <2>2 DEF HdrSound
<1>10. CASE Replug \/ BlobRefused
  <2>1. Remodeset \/ UNCHANGED signalVars
    BY <1>10 DEF Replug, BlobRefused
  <2>2. UNCHANGED linkVars
    BY <1>10, Zenon DEF Replug, BlobRefused
  <2>3. QED
    BY <2>1, <2>2, <1>l, RemodesetKeepsHdr DEF signalVars, HdrSound
<1>11. CASE RebuildFailed
  <2>1. UNCHANGED hdr \/ hdr' = FALSE
    BY <1>11 DEF RebuildFailed, MayFallBack
  <2>2. UNCHANGED linkVars
    BY <1>11, Zenon DEF RebuildFailed
  <2>3. QED
    BY <2>1, <2>2, <1>l DEF HdrSound
<1>12. CASE DisplaySettings
  <2>1. hdr' = FALSE \/ hdr' = HdrDisplay
    BY <1>12 DEF DisplaySettings
  <2>2. UNCHANGED linkVars
    BY <1>12, Zenon DEF DisplaySettings
  <2>3. HdrSound'
    BY <2>1, Zenon DEF HdrSound
  <2>4. QED
    BY <2>2, <2>3, <1>l
<1>13. CASE \E b \in Buffers : DirectFrame(b) \/ BufferDies(b)
  <2>1. UNCHANGED <<linkVars, signalVars>>
    BY <1>13, Zenon DEF DirectFrame, BufferDies
  <2>2. QED
    BY <2>1, <1>k
<1>14. ASSUME NEW forced \in BOOLEAN, ComposedFrame(forced) PROVE Goal
  <2>1. PresentAccepted(scanNext) \/ PresentRefused
    BY <1>14 DEF ComposedFrame
  <2>2. modesetDone => modesetDone'
    BY <2>1 DEF PresentAccepted, PresentRefused
  <2>3. UNCHANGED hdr \/ hdr' = FALSE
    BY <2>1 DEF PresentAccepted, PresentRefused, MayFallBack
  <2>4. powered' = powered
    BY <1>14 DEF ComposedFrame
  <2>5. HdrSound'
    BY <2>3, Zenon DEF HdrSound
  <2>6. QED
    BY <2>2, <2>4, <2>5
<1>15. CASE RequestScreenshot \/ ScreenshotPrepare \/ ScreenshotPrepared
  BY <1>15, <1>k, Zenon DEF RequestScreenshot, ScreenshotPrepare, ScreenshotPrepared
<1>16. QED
  BY <1>1, <1>2, <1>3, <1>4, <1>5, <1>6, <1>7, <1>8, <1>9, <1>10, <1>11, <1>12,
     <1>13, <1>14, <1>15 DEF Step

\* SleeperWakes is not inductive: were the output to forget its modeset or to be
\* asked on another VT, it would ignore the wake the policy believes in, and a
\* timer left over from a setting switched off would sleep for good.
Wakeable ==
    /\ powered \in BOOLEAN
    /\ HdrSound
    /\ dpmsTimer => dpms
    /\ ~powered => dpms /\ dpmsOff /\ modesetDone

LEMMA WakeStep ==
    ASSUME Wakeable, sessionActive \/ powered, Wake
    PROVE  powered' = TRUE /\ HdrSound'
<1>1. CASE dpmsOff /\ ~powered
  BY <1>1 DEF Wake, Ask, SetPowerSave, Wakeable, HdrSound, signalVars
<1>2. CASE powered
  BY <1>2 DEF Wake, Ask, vars, linkVars, Wakeable, HdrSound, signalVars
<1>3. QED
  BY <1>1, <1>2 DEF Wakeable

LEMMA WakeableNext ==
    ASSUME ~Straggling, LinkCarriesHdr, Wakeable, [PowerNext]_powerVars
    PROVE  Wakeable'
<1>1. CASE Step /\ UNCHANGED policy
  BY <1>1, StepKeepsPower DEF Wakeable, policy
<1>2. CASE Sleep
  <2>1. CASE dpmsOff
    BY <1>2, <2>1 DEF Sleep, Wakeable, vars, linkVars, signalVars, HdrSound
  <2>2. CASE ~dpmsOff
    <3>1. powered /\ dpmsOff' = TRUE /\ dpms' = dpms /\ Ask(FALSE)
      BY <1>2, <2>2 DEF Sleep, Wakeable
    <3>2. dpms /\ dpmsTimer' = FALSE
      BY <1>2 DEF Sleep, Wakeable
    <3>3. CASE SetPowerSave(FALSE)
      BY <3>1, <3>2, <3>3 DEF SetPowerSave, Wakeable, HdrSound, signalVars
    <3>4. CASE UNCHANGED vars
      BY <3>1, <3>2, <3>4 DEF Wakeable, vars, linkVars, signalVars, HdrSound
    <3>5. QED
      BY <3>1, <3>3, <3>4 DEF Ask
  <2>3. QED
    BY <2>1, <2>2
<1>3. CASE Activity
  <2>1. sessionActive
    BY <1>3 DEF Activity, InputArrives
  <2>2. CASE dpms
    BY <1>3, <2>1, <2>2, WakeStep DEF Activity, Wakeable
  <2>3. CASE ~dpms
    BY <1>3, <2>3 DEF Activity, Wakeable, vars, linkVars, signalVars, HdrSound
  <2>4. QED
    BY <2>2, <2>3
<1>4. ASSUME NEW on \in BOOLEAN, UpdateDpms(on) PROVE Wakeable'
  <2>1. powered
    BY <1>4 DEF UpdateDpms, Ready
  <2>2. CASE on
    BY <1>4, <2>1, <2>2 DEF UpdateDpms, Wakeable, vars, linkVars, signalVars, HdrSound
  <2>3. CASE ~on
    BY <1>4, <2>1, <2>3, WakeStep DEF UpdateDpms, Wakeable
  <2>4. QED
    BY <2>2, <2>3
<1>5. CASE UNCHANGED powerVars
  BY <1>5 DEF Wakeable, powerVars, policy, vars, linkVars, signalVars, HdrSound
<1>6. QED
  BY <1>1, <1>2, <1>3, <1>4, <1>5 DEF PowerNext

\* If no input is delivered on another VT and no link is found too shallow for
\* the HDR it was asked to carry, a display that sleeps is one the next input
\* wakes, whatever else the output, the kernel, the monitors and the settings do
\* (activity).  A link found too shallow in the sleep is where the code fails.
THEOREM EverySleeperWakes ==
    ASSUME ~Straggling, ~HdrDisplay \/ "degraded" \notin Faults
    PROVE  PowerSpec => []SleeperWakes
<1>1. PowerInit => Wakeable
  <2> SUFFICES ASSUME PowerInit PROVE Wakeable
    OBVIOUS
  <2>1. hdr = FALSE \/ hdr = HdrDisplay
    BY DEF PowerInit, Init
  <2>2. HdrSound
    BY <2>1, Zenon DEF HdrSound
  <2>3. QED
    BY <2>2 DEF PowerInit, Init, Wakeable
<1>2. Wakeable /\ [PowerNext]_powerVars => Wakeable'
  BY WakeableNext DEF LinkCarriesHdr
<1>3. Wakeable => SleeperWakes
  BY DEF Wakeable, SleeperWakes
<1>4. QED
  BY <1>1, <1>2, <1>3, PTL DEF PowerSpec

\* Whoever calls setPowerSave: a display with its policy is an output that any
\* caller may switch, so that what is proved of KmsOutput holds of it too.
THEOREM PolicyImplementsOutput == PowerSpec => Spec
<1>1. PowerInit => Init
  BY DEF PowerInit
<1>2. [PowerNext]_powerVars => [Next]_vars
  <2> SUFFICES ASSUME [PowerNext]_powerVars PROVE [Next]_vars
    OBVIOUS
  <2>1. ASSUME NEW on \in BOOLEAN, Ask(on) PROVE [Next]_vars
    <3>1. SetPowerSave(on) \/ UNCHANGED vars
      BY <2>1 DEF Ask
    <3>2. QED
      BY <3>1, Zenon DEF Next
  <2>2. ASSUME Wake PROVE [Next]_vars
    <3>1. Ask(TRUE) \/ UNCHANGED vars
      BY <2>2, Zenon DEF Wake
    <3>2. QED
      BY <2>1, <3>1
  <2>3. CASE Step
    BY <2>3, Zenon DEF Next
  <2>4. CASE Sleep
    <3>1. Ask(FALSE) \/ UNCHANGED vars
      BY <2>4, Zenon DEF Sleep
    <3>2. QED
      BY <2>1, <3>1
  <2>5. CASE Activity
    <3>1. Wake \/ UNCHANGED vars
      BY <2>5, Zenon DEF Activity
    <3>2. QED
      BY <2>2, <3>1
  <2>6. ASSUME NEW on \in BOOLEAN, UpdateDpms(on) PROVE [Next]_vars
    <3>1. Wake \/ UNCHANGED vars
      BY <2>6, Zenon DEF UpdateDpms
    <3>2. QED
      BY <2>2, <3>1
  <2>7. CASE UNCHANGED powerVars
    BY <2>7, Zenon DEF powerVars
  <2>8. QED
    BY <2>3, <2>4, <2>5, <2>6, <2>7 DEF PowerNext
<1>3. QED
  BY <1>1, <1>2, PTL DEF PowerSpec, Spec
===========================================================================
