----------------------------- MODULE RadioDevice -----------------------------
(***************************************************************************)
(* The radio of one board and the two tasks that drive it: the main loop   *)
(* (captures, sweeps, lends the RF to the wideband SDR) and the command    *)
(* task (on a satellite, the SPI task).  radio_lock() keeps their use of   *)
(* the 802.15.4 driver apart; the mode is a flag outside the lock.  When   *)
(* the RF comes back from the SDR the driver is enabled again; should that *)
(* fail, it is logged and the board goes on driving a disabled driver.     *)
(* firmware/src/core: radio_capture.c, ed_scan.c, probe.c, sdr_mode.c;     *)
(* usb-sniffer/app_main.c and satellite/app_main.c alike.                  *)
(***************************************************************************)
EXTENDS Naturals, Sequences

CONSTANTS
  Channels,   \* 802.15.4 channels
  HopDwell    \* hop dwell, 0 for a pinned radio

ASSUME DeviceAssumption ==
  /\ Channels # {} /\ Channels \subseteq 11..26
  /\ HopDwell \in Nat

Modes == {"idle", "capture", "ed", "sdr"}
Tasks == {"main", "command"}
Free  == "free"

VARIABLES
  mode,      \* s_mode
  channel,   \* s_channel
  running,   \* s_running
  suspended, \* s_suspended
  failed,    \* s_failed of sdr_mode.c
  sdr,       \* sdr_capture_active()
  enabled,   \* driver: enabled
  tuned,     \* driver: the channel the RF is on
  listening, \* driver: receiving
  lock,      \* the holder of the radio lock
  at,        \* where each task is
  arg,       \* the channel a task is about to set
  broken,    \* history: the last esp_ieee802154_enable() failed
  fault      \* history: the driver was used while disabled, though not broken

settings == <<mode, channel, running, suspended, failed, sdr>>
driver   == <<enabled, tuned, listening, broken, fault>>
vars     == <<settings, driver, lock, at, arg>>

Places == {"idle", "leave", "set", "retune", "start", "stop",
           "sweep", "measure", "restore", "probe", "lend"}

TypeOK ==
  /\ mode \in Modes /\ channel \in Channels /\ tuned \in Channels
  /\ {running, suspended, failed, sdr, enabled, listening, broken, fault} \subseteq BOOLEAN
  /\ lock \in Tasks \cup {Free}
  /\ at \in [Tasks -> Places] /\ arg \in [Tasks -> Channels]

\* app_main: radio_capture_init and radio_capture_start, before the tasks run.
Init ==
  /\ mode = "capture"
  /\ channel \in Channels /\ tuned = channel
  /\ running = TRUE /\ listening = TRUE /\ enabled = TRUE
  /\ suspended = FALSE /\ failed = FALSE /\ sdr = FALSE /\ broken = FALSE /\ fault = FALSE
  /\ lock = Free
  /\ at = [t \in Tasks |-> "idle"] /\ arg = [t \in Tasks |-> channel]

Holds(t) == lock = t
GoTo(t, p) == at' = [at EXCEPT ![t] = p]

\* One locked section of task t begins, and ends.
Take(t, from, to) == at[t] = from /\ lock = Free /\ lock' = t /\ GoTo(t, to)
Done(t)           == lock' = Free /\ GoTo(t, "idle")

\* Driver calls of a task: receive, sleep, and tune to c.  On a disabled
\* driver they are an error without effect.
Drive(on, c) ==
  /\ listening' = (on /\ enabled)
  /\ tuned' = IF enabled THEN c ELSE tuned
  /\ fault' = (fault \/ ~(enabled \/ broken))
  /\ UNCHANGED <<enabled, broken>>

\* radio_capture_resume: enable the driver, retune and listen.  If enable() fails
\* (~back) the rest is done all the same, to a driver that is not there.
Resume(back) ==
  /\ enabled' = back /\ broken' = ~back
  /\ tuned' = IF back THEN channel ELSE tuned
  /\ listening' = (back /\ running)

----------------------------------------------------------------------------
(* What either task does inside the lock                                   *)

\* radio_capture_set_channel, first half: note the channel; park the radio
\* unless the RF is lent.
SetChannel(t) ==
  /\ at[t] = "set" /\ Holds(t)
  /\ channel' = arg[t]
  /\ IF suspended THEN Done(t) /\ UNCHANGED driver
     ELSE Drive(FALSE, tuned) /\ GoTo(t, "retune") /\ UNCHANGED lock
  /\ UNCHANGED <<mode, running, suspended, failed, sdr, arg>>

\* A variant: the radio stays parked after a retune.
RetuneParked(t) ==
  /\ at[t] = "retune" /\ Holds(t)
  /\ Drive(FALSE, channel)
  /\ Done(t)
  /\ UNCHANGED <<settings, arg>>

\* Second half: retune, and listen again if capture was running.
Retune(t) ==
  /\ at[t] = "retune" /\ Holds(t)
  /\ Drive(running, channel)
  /\ Done(t)
  /\ UNCHANGED <<settings, arg>>

\* A variant: the sweep does not look whether the RF is lent.
SweepUnchecked(t) ==
  /\ at[t] = "sweep" /\ Holds(t)
  /\ arg' = [arg EXCEPT ![t] = channel]
  /\ GoTo(t, "measure")
  /\ UNCHANGED <<settings, driver, lock>>

\* ed_sweep: nothing while the RF is lent; else remember the channel.
Sweep(t) ==
  /\ at[t] = "sweep" /\ Holds(t)
  /\ IF suspended THEN Done(t) /\ UNCHANGED arg
     ELSE arg' = [arg EXCEPT ![t] = channel] /\ GoTo(t, "measure") /\ UNCHANGED lock
  /\ UNCHANGED <<settings, driver>>

\* ed_measure on some channel of the mask: the radio is tuned there.
Measure(t) ==
  /\ at[t] = "measure" /\ Holds(t)
  /\ \E c \in Channels : channel' = c /\ Drive(running, c)
  /\ \E p \in {"measure", "restore"} : GoTo(t, p)
  /\ UNCHANGED <<mode, running, suspended, failed, sdr, lock, arg>>

\* A variant: the radio is left on the last channel of the sweep.
RestoreNoTune(t) ==
  /\ at[t] = "restore" /\ Holds(t)
  /\ channel' = arg[t]
  /\ Drive(TRUE, tuned)
  /\ Done(t)
  /\ UNCHANGED <<mode, running, suspended, failed, sdr, arg>>

\* The end of the sweep: back to the channel, and listen.
Restore(t) ==
  /\ at[t] = "restore" /\ Holds(t)
  /\ channel' = arg[t]
  /\ Drive(TRUE, arg[t])
  /\ Done(t)
  /\ UNCHANGED <<mode, running, suspended, failed, sdr, arg>>

----------------------------------------------------------------------------
(* The command task                                                        *)

\* CMD_SET_MODE: no lock.
CmdMode(m) ==
  /\ at["command"] = "idle"
  /\ mode' = m
  /\ UNCHANGED <<channel, running, suspended, failed, sdr, driver, lock, at, arg>>

CmdChannel(c) ==
  /\ Take("command", "idle", "set")
  /\ arg' = [arg EXCEPT !["command"] = c]
  /\ UNCHANGED <<settings, driver>>

CmdStart == Take("command", "idle", "start") /\ UNCHANGED <<settings, driver, arg>>
CmdStop  == Take("command", "idle", "stop") /\ UNCHANGED <<settings, driver, arg>>
CmdScan  == Take("command", "idle", "sweep") /\ UNCHANGED <<settings, driver, arg>>
CmdProbe == Take("command", "idle", "probe") /\ UNCHANGED <<settings, driver, arg>>

\* radio_capture_start and radio_capture_stop.
StartOrStop ==
  \E on \in BOOLEAN :
    /\ at["command"] = (IF on THEN "start" ELSE "stop") /\ Holds("command")
    /\ running' = on
    /\ IF suspended THEN UNCHANGED driver ELSE Drive(on, tuned)
    /\ Done("command")
    /\ UNCHANGED <<mode, channel, suspended, failed, sdr, arg>>

\* radio_capture_start checks what receive() returns: on a driver that did not come
\* back it may abort, and the chip restarts as in Init.
StartAborts ==
  /\ at["command"] = "start" /\ Holds("command") /\ ~suspended /\ ~enabled
  /\ mode' = "capture" /\ running' = TRUE /\ listening' = TRUE /\ enabled' = TRUE
  /\ channel' \in Channels /\ tuned' = channel'
  /\ suspended' = FALSE /\ failed' = FALSE /\ sdr' = FALSE /\ broken' = FALSE
  /\ lock' = Free /\ at' = [t \in Tasks |-> "idle"]
  /\ UNCHANGED <<arg, fault>>

\* probe_send, beacon_request_send and CMD_TX_RAW: the radio is woken to send.
Probe ==
  /\ at["command"] = "probe" /\ Holds("command")
  /\ IF suspended THEN UNCHANGED driver ELSE Drive(TRUE, tuned)
  /\ Done("command")
  /\ UNCHANGED <<settings, arg>>

----------------------------------------------------------------------------
(* The main loop                                                           *)

\* The top of the loop: sdr_mode_leave unless the SDR is wanted.
LeaveSdr ==
  /\ mode # "sdr" /\ sdr
  /\ Take("main", "idle", "leave")
  /\ UNCHANGED <<settings, driver, arg>>

\* A variant: the RF is taken back without the driver being set up again.
ResumeBare ==
  /\ at["main"] = "leave" /\ Holds("main")
  /\ sdr' = FALSE /\ suspended' = FALSE
  /\ enabled' = TRUE /\ listening' = running
  /\ Done("main")
  /\ UNCHANGED <<mode, channel, running, failed, tuned, broken, fault, arg>>

\* sdr_capture_end, then radio_capture_resume.
ResumeCapture ==
  /\ at["main"] = "leave" /\ Holds("main")
  /\ sdr' = FALSE /\ suspended' = FALSE
  /\ \E back \in BOOLEAN : Resume(back)
  /\ Done("main")
  /\ UNCHANGED <<mode, channel, running, failed, fault, arg>>

EdSweep ==
  /\ mode = "ed"
  /\ Take("main", "idle", "sweep")
  /\ UNCHANGED <<settings, driver, arg>>

\* A variant: a failed begin keeps the RF.
LendKeeps ==
  /\ at["main"] = "lend" /\ Holds("main")
  /\ \E ok \in BOOLEAN :
       /\ sdr' = ok /\ suspended' = TRUE /\ enabled' = FALSE /\ listening' = FALSE
       /\ failed' = ~ok
  /\ Done("main")
  /\ UNCHANGED <<mode, channel, running, tuned, broken, fault, arg>>

\* sdr_mode_run: take the RF unless it is taken already, and sweep with it.
SdrRun ==
  /\ mode = "sdr" /\ ~failed
  /\ Take("main", "idle", "lend")
  /\ UNCHANGED <<settings, driver, arg>>

\* radio_capture_suspend and sdr_capture_begin; if that fails, resume at once
\* and never try again.
Lend ==
  /\ at["main"] = "lend" /\ Holds("main")
  /\ \E ok \in (IF sdr THEN {TRUE} ELSE BOOLEAN) :
       /\ sdr' = ok /\ suspended' = ok /\ failed' = ~ok
       /\ IF ok
          THEN enabled' = FALSE /\ broken' = FALSE /\ listening' = FALSE /\ UNCHANGED tuned
          ELSE \E back \in BOOLEAN : Resume(back)
  /\ Done("main")
  /\ UNCHANGED <<mode, channel, running, fault, arg>>

\* A variant: the index in the hop mask is taken for the channel.
HopIndex ==
  /\ HopDwell > 0 /\ mode = "capture"
  /\ Take("main", "idle", "set")
  /\ \E c \in Channels : arg' = [arg EXCEPT !["main"] = c - 11]
  /\ UNCHANGED <<settings, driver>>

\* Channel hopping, in capture mode.
Hop ==
  /\ HopDwell > 0 /\ mode = "capture"
  /\ Take("main", "idle", "set")
  /\ \E c \in Channels : arg' = [arg EXCEPT !["main"] = c]
  /\ UNCHANGED <<settings, driver>>

----------------------------------------------------------------------------
Either(t) == SetChannel(t) \/ Retune(t) \/ Sweep(t) \/ Measure(t) \/ Restore(t)

Next ==
  \/ \E t \in Tasks : SetChannel(t)
  \/ \E t \in Tasks : Retune(t)
  \/ \E t \in Tasks : Sweep(t)
  \/ \E t \in Tasks : Measure(t)
  \/ \E t \in Tasks : Restore(t)
  \/ \E m \in Modes : CmdMode(m)
  \/ \E c \in Channels : CmdChannel(c)
  \/ CmdStart
  \/ CmdStop
  \/ CmdScan
  \/ CmdProbe
  \/ StartOrStop
  \/ StartAborts
  \/ Probe
  \/ LeaveSdr
  \/ ResumeCapture
  \/ EdSweep
  \/ SdrRun
  \/ Lend
  \/ Hop

Spec == Init /\ [][Next]_vars

\* Both tasks run, a sweep measures finitely many channels, and the main loop
\* gets the lock it asks for (a FreeRTOS mutex wakes its waiters in turn).
FairSpec ==
  /\ Spec
  /\ \A t \in Tasks :
       /\ WF_vars(Either(t) /\ ~Measure(t)) /\ SF_vars(Measure(t) /\ at'[t] = "restore")
  /\ WF_vars(StartOrStop \/ Probe)
  /\ WF_vars(ResumeCapture \/ Lend) /\ SF_vars(LeaveSdr)

----------------------------------------------------------------------------
(* Properties                                                              *)

AtRest == lock = Free /\ ~suspended

\* The 802.15.4 driver is never called while the RF is lent to the SDR: every user
\* looks first, inside the lock.  It is enabled whenever the RF is not lent, unless
\* it failed to come back from the last loan, which the code does not look at.
DriverOwned == ~fault /\ (lock = Free => enabled = (~suspended /\ ~broken))

\* A radio that listens does so on its channel.
TunedWhenListening == AtRest /\ listening => tuned = channel

\* A capture that was started and not stopped is listening, unless the driver
\* failed to come back from the last loan.
CaptureListens == AtRest /\ running /\ ~broken => listening

\* Once the SDR is no longer wanted the radio is given back.
RadioGivenBack == []<>(mode = "sdr" \/ ~suspended)
=============================================================================
