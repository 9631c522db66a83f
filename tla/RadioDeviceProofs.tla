--------------------------- MODULE RadioDeviceProofs ---------------------------
(* The two tasks of a board share its 802.15.4 driver safely (TypeOK,            *)
(* DriverOwned, TunedWhenListening and CaptureListens of RadioDevice), for any   *)
(* set of channels, and behaviours of any length.                                *)
EXTENDS RadioDevice, TLAPS

\* A task is somewhere inside a locked section exactly when it holds the lock.
LockAgrees == \A t \in Tasks : at[t] # "idle" <=> lock = t

\* The driver is enabled exactly while the RF is not lent and it came back from the
\* last loan, and whoever found the RF there inside the lock still finds it so: only
\* the holder lends it.
RfOwned ==
  /\ ~fault /\ enabled = (~suspended /\ ~broken)
  /\ \A t \in Tasks : at[t] \in {"retune", "measure", "restore"} => ~suspended

\* Between the two halves of a change of channel, and only there, the radio is
\* parked on the old one.
Retuning == \E t \in Tasks : at[t] = "retune"
Settled ==
  /\ enabled /\ ~Retuning => tuned = channel /\ (running => listening)
  /\ broken => ~listening

DeviceInv == TypeOK /\ LockAgrees /\ RfOwned /\ Settled

--------------------------------------------------------------------------------
\* No task is inside a locked section that neither holds.
LEMMA FreeMeansIdle ==
  ASSUME TypeOK, LockAgrees, lock = Free
  PROVE  \A t \in Tasks : at[t] = "idle"
BY DEF LockAgrees, Tasks, Free

LEMMA DeviceInvInit == Init => DeviceInv
BY DEF Init, DeviceInv, TypeOK, LockAgrees, RfOwned, Settled, Retuning, Tasks, Places, Modes, Free

LEMMA DeviceInvStep == DeviceInv /\ [Next]_vars => DeviceInv'
<1> SUFFICES ASSUME DeviceInv, [Next]_vars PROVE DeviceInv'
  OBVIOUS
<1> USE DEF DeviceInv, TypeOK, LockAgrees, RfOwned, Settled, Retuning, Tasks, Places, Modes, Free,
            Take, Done, GoTo, Holds, Drive, Resume, settings, driver
<1>1. ASSUME NEW t \in Tasks, SetChannel(t) PROVE DeviceInv'
  BY <1>1 DEF SetChannel
<1>2. ASSUME NEW t \in Tasks, Retune(t) PROVE DeviceInv'
  BY <1>2 DEF Retune
<1>3. ASSUME NEW t \in Tasks, Sweep(t) PROVE DeviceInv'
  BY <1>3 DEF Sweep
<1>4. ASSUME NEW t \in Tasks, Measure(t) PROVE DeviceInv'
  BY <1>4 DEF Measure
<1>5. ASSUME NEW t \in Tasks, Restore(t) PROVE DeviceInv'
  BY <1>5 DEF Restore
<1>6. ASSUME NEW m \in Modes, CmdMode(m) PROVE DeviceInv'
  BY <1>6 DEF CmdMode
<1>7. ASSUME NEW c \in Channels, CmdChannel(c) PROVE DeviceInv'
  BY <1>7 DEF CmdChannel
<1>8. CASE CmdStart  BY <1>8 DEF CmdStart
<1>9. CASE CmdStop   BY <1>9 DEF CmdStop
<1>10. CASE CmdScan  BY <1>10 DEF CmdScan
<1>11. CASE CmdProbe  BY <1>11 DEF CmdProbe
<1>12. CASE StartOrStop
  <2>1. PICK on \in BOOLEAN :
          /\ at["command"] = (IF on THEN "start" ELSE "stop") /\ Holds("command")
          /\ running' = on
          /\ IF suspended THEN UNCHANGED driver ELSE Drive(on, tuned)
          /\ Done("command")
          /\ UNCHANGED <<mode, channel, suspended, failed, sdr, arg>>
    BY <1>12 DEF StartOrStop
  <2>2. CASE on = TRUE
    BY <2>1, <2>2
  <2>3. CASE on = FALSE
    BY <2>1, <2>3
  <2> QED
    BY <2>2, <2>3
<1>13. CASE Probe  BY <1>13 DEF Probe
<1>14. CASE LeaveSdr  BY <1>14 DEF LeaveSdr
<1>15. CASE ResumeCapture
  <2>1. PICK back \in BOOLEAN : Resume(back)
    BY <1>15 DEF ResumeCapture
  <2>2. CASE back = TRUE
    BY <1>15, <2>1, <2>2 DEF ResumeCapture
  <2>3. CASE back = FALSE
    BY <1>15, <2>1, <2>3 DEF ResumeCapture
  <2> QED
    BY <2>2, <2>3
<1>21. CASE StartAborts  BY <1>21 DEF StartAborts
<1>16. CASE EdSweep  BY <1>16 DEF EdSweep
<1>17. CASE SdrRun  BY <1>17 DEF SdrRun
<1>18. CASE Lend
  <2>1. PICK ok \in BOOLEAN :
          /\ sdr' = ok /\ suspended' = ok /\ failed' = ~ok
          /\ IF ok
             THEN enabled' = FALSE /\ broken' = FALSE /\ listening' = FALSE /\ UNCHANGED tuned
             ELSE \E back \in BOOLEAN : Resume(back)
    BY <1>18 DEF Lend
  <2>2. CASE ok = TRUE
    BY <1>18, <2>1, <2>2 DEF Lend
  <2>3. CASE ok = FALSE
    <3>1. PICK back \in BOOLEAN : Resume(back)
      BY <2>1, <2>3
    <3>2. CASE back = TRUE
      BY <1>18, <2>1, <2>3, <3>1, <3>2 DEF Lend
    <3>3. CASE back = FALSE
      BY <1>18, <2>1, <2>3, <3>1, <3>3 DEF Lend
    <3> QED
      BY <3>2, <3>3
  <2> QED
    BY <2>2, <2>3
<1>19. CASE Hop  BY <1>19 DEF Hop
<1>20. CASE UNCHANGED vars  BY <1>20 DEF vars
<1> QED
  BY <1>1, <1>2, <1>3, <1>4, <1>5, <1>6, <1>7, <1>8, <1>9, <1>10, <1>11, <1>12, <1>13, <1>14,
     <1>15, <1>16, <1>17, <1>18, <1>19, <1>20, <1>21 DEF Next

LEMMA DeviceInvHolds == Spec => []DeviceInv
BY DeviceInvInit, DeviceInvStep, PTL DEF Spec

\* Outside the lock no radio is between the halves of a change of channel.
LEMMA NotRetuningAtRest == ASSUME DeviceInv, lock = Free PROVE ~Retuning
BY FreeMeansIdle DEF DeviceInv, Retuning

\* At rest the driver is there unless it did not come back.
LEMMA EnabledAtRest == ASSUME DeviceInv, AtRest, ~broken PROVE enabled
<1>1. ~suspended /\ enabled = (~suspended /\ ~broken)
  BY DEF DeviceInv, RfOwned, AtRest
<1> QED
  BY <1>1

\* The state of radio, driver and tasks is of the types declared for it.
THEOREM TypeCorrect == Spec => []TypeOK
<1>1. DeviceInv => TypeOK
  BY DEF DeviceInv
<1> QED
  BY DeviceInvHolds, <1>1, PTL

\* Whatever the two tasks do between them, the driver is never used while the RF is
\* lent, and it is disabled only then or after an enable() that failed on the way back
\* from a loan: the checks of s_suspended inside the lock are enough for the loan
\* (radio_capture.c, ed_scan.c, probe.c).
THEOREM RadioIsOwned == Spec => []DriverOwned
<1>1. ASSUME DeviceInv PROVE DriverOwned
  <2>1. ~fault /\ enabled = (~suspended /\ ~broken)
    BY <1>1 DEF DeviceInv, RfOwned
  <2> QED
    BY <2>1 DEF DriverOwned
<1> QED
  BY DeviceInvHolds, <1>1, PTL

\* Outside the lock a radio that listens does so on the channel that was set
\* last (radio_capture_set_channel, ed_sweep, radio_capture_resume).
THEOREM RadioIsTuned == Spec => []TunedWhenListening
<1>1. DeviceInv => TunedWhenListening
  BY NotRetuningAtRest, EnabledAtRest DEF DeviceInv, Settled, TunedWhenListening, AtRest
<1> QED
  BY DeviceInvHolds, <1>1, PTL

\* Outside the lock a capture that was started and not stopped listens, after
\* any sequence of sweeps, hops, probes and turns of the SDR, unless the driver did
\* not come back from the last of those turns.
THEOREM RadioListens == Spec => []CaptureListens
<1>1. DeviceInv => CaptureListens
  BY NotRetuningAtRest, EnabledAtRest DEF DeviceInv, Settled, CaptureListens, AtRest
<1> QED
  BY DeviceInvHolds, <1>1, PTL
================================================================================
