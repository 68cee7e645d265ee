---------------------------- MODULE DisplayPower ----------------------------
(***************************************************************************)
(* Who calls setPowerSave (wayland.cpp: dpmsTimerCb, activity, updateDpms) *)
(* on the KMS output: the idle timer puts the display to sleep, input and  *)
(* the settings wake it.  The policy keeps a copy of what it asked for,    *)
(* dpmsOff; the output ignores what it is asked for while another VT is    *)
(* shown, before its first frame, and after it gave HDR up until the next  *)
(* frame.                                                                  *)
(*                                                                         *)
(* A client that inhibits idleness makes the timer start over, which       *)
(* changes no state here.                                                  *)
(***************************************************************************)
EXTENDS KmsOutput

CONSTANT Straggling \* whether input may arrive on another VT

ASSUME StragglingAssumption == Straggling \in BOOLEAN

VARIABLES
    dpms,      \* the setting: dpmsSeconds > 0
    dpmsTimer, \* the timer runs
    dpmsOff    \* WaylandImpl::dpmsOff

policy == <<dpms, dpmsTimer, dpmsOff>>
powerVars == <<vars, policy>>

PowerInit ==
    /\ Init
    /\ dpms \in BOOLEAN
    /\ dpmsTimer = dpms
    /\ dpmsOff = FALSE

\* setPowerSave(on) as its callers see it.
Ask(on) ==
    IF modesetDone /\ sessionActive /\ powered # on
    THEN SetPowerSave(on)
    ELSE UNCHANGED vars

Sleep ==
    /\ Idle
    /\ dpmsTimer
    /\ dpmsTimer' = FALSE
    /\ IF dpmsOff THEN UNCHANGED <<vars, dpmsOff>>
       ELSE dpmsOff' = TRUE /\ Ask(FALSE)
    /\ UNCHANGED dpms

Wake ==
    IF dpmsOff THEN dpmsOff' = FALSE /\ Ask(TRUE) ELSE UNCHANGED <<vars, dpmsOff>>

InputAnywhere == Idle

\* libinput is suspended with the session.
InputArrives == Idle /\ (sessionActive \/ Straggling)

Activity ==
    /\ InputArrives
    /\ IF dpms
       THEN dpmsTimer' = TRUE /\ Wake
       ELSE UNCHANGED <<vars, dpmsTimer, dpmsOff>>
    /\ UNCHANGED dpms

\* A frame of the settings window changes the time.
UpdateDpms(on) ==
    /\ Idle
    /\ Ready
    /\ dpms' = on
    /\ dpmsTimer' = on
    /\ IF on THEN UNCHANGED <<vars, dpmsOff>> ELSE Wake

PowerNext ==
    \/ Step /\ UNCHANGED policy
    \/ Sleep \/ Activity
    \/ \E on \in BOOLEAN : UpdateDpms(on)

PowerSpec == PowerInit /\ [][PowerNext]_powerVars
-----------------------------------------------------------------------------
\* A display that sleeps is one the next input wakes: the policy's copy says
\* that it sleeps, and the setting was not switched off under it, whatever VT
\* switches come between (activity; output.h: setPowerSave(true) brings the
\* display back).  An output that gives HDR up in its sleep breaks it.
SleeperWakes == ~powered => dpms /\ dpmsOff

\* A display that is on has its idle timer running.
AwakeIsTimed == Idle /\ sessionActive /\ powered /\ dpms => dpmsTimer
=============================================================================
