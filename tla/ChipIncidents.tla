---------------------------- MODULE ChipIncidents ----------------------------
(* The incident engine of the standalone build (standalone/incidents.c), which *)
(* two tasks run without a lock on one core: the SPI poll task, of the higher  *)
(* priority, notes frames; the main task looks for silent devices.  Between    *)
(* any two steps of the main task the poll task may note a frame, and while    *)
(* the poll task waits for the file system the main task goes on.              *)
EXTENDS Integers, Sequences

CONSTANTS
  MaxDevs,    \* MAX_DEVS
  ChipFrames, \* MIN_FRAMES
  LogCap,     \* LOG_CAP_BYTES, in entries
  SilentFor,  \* s_threshold_s
  Chips,      \* short addresses heard; 0xFFFF is no device
  MaxTime     \* bound: time

ASSUME ChipAssumption == MaxDevs \in Nat /\ ChipFrames \in Nat /\ LogCap \in Nat
                         /\ SilentFor \in Nat \ {0} /\ MaxTime \in Nat
                         /\ Chips \subseteq Nat

VARIABLES
  devs,   \* s_devs, the entries in use: address, last heard, frames, down
  time,   \* esp_timer_get_time
  flash,  \* entries of the log
  told,   \* by address: silences told less recoveries told (history variable)
  look,   \* the main task: entry it is at (0: none), step, time it goes by
  noting  \* the poll task: address whose recovery it is about to log, or -1
chipVars == <<devs, time, flash, told, look, noting>>

Idle == [at |-> 0, step |-> "look", by |-> 0]
ChipInit == /\ devs = <<>> /\ time = 0 /\ flash = 0 /\ told = [a \in Chips |-> 0]
            /\ look = Idle /\ noting = -1

Entry(a) == LET at == {i \in DOMAIN devs : devs[i].addr = a}
            IN IF at = {} THEN 0 ELSE CHOOSE i \in at : TRUE
Fresh(a) == [addr |-> a, last |-> 0, count |-> 0, down |-> FALSE]
Tally(a, n) == told' = [told EXCEPT ![a] = @ + n]

\* incidents_note_frame; a device the table has no room for is not followed.
NoteFrame(a) ==
  /\ noting = -1
  /\ LET i == IF Entry(a) # 0 THEN Entry(a)
              ELSE IF Len(devs) < MaxDevs THEN Len(devs) + 1 ELSE 0
         d == IF Entry(a) = 0 THEN Fresh(a) ELSE devs[i]
         heard == [d EXCEPT !.last = time, !.count = IF @ < ChipFrames THEN @ + 1 ELSE @, !.down = FALSE]
     IN /\ i # 0
        /\ devs' = IF i > Len(devs) THEN Append(devs, heard) ELSE [devs EXCEPT ![i] = heard]
        /\ noting' = IF d.down THEN a ELSE -1
  /\ UNCHANGED <<time, flash, told, look>>
LogRecovery ==
  /\ noting # -1 /\ noting' = -1
  /\ flash' = flash + 1 /\ Tally(noting, -1)
  /\ UNCHANGED <<devs, time, look>>

TimePasses == time < MaxTime /\ time' = time + 1 /\ UNCHANGED <<devs, flash, told, look, noting>>

-------------------------------------------------------------------------------
\* incidents_tick: the time is read once, then the table is walked.
TickStarts == /\ look = Idle /\ devs # <<>>
              /\ look' = [at |-> 1, step |-> "look", by |-> time]
              /\ UNCHANGED <<devs, time, flash, told, noting>>
Onward == look' = IF look.at = Len(devs) THEN Idle ELSE [look EXCEPT !.at = @ + 1, !.step = "look"]
At(step) == look.at # 0 /\ look.step = step

\* Unsigned: a frame later than the time read makes the silence enormous.
Silent(d) == d.last > look.by \/ look.by - d.last >= SilentFor

\* A variant of Suspect: that it is already down is not looked at.
SuspectAgain(d) == d.count >= ChipFrames /\ Silent(d)
Suspect(d) == ~d.down /\ d.count >= ChipFrames /\ Silent(d)

LookAt == /\ At("look")
          /\ IF Suspect(devs[look.at]) THEN look' = [look EXCEPT !.step = "flag"] ELSE Onward
          /\ UNCHANGED <<devs, time, flash, told, noting>>
Flag == /\ At("flag") /\ look' = [look EXCEPT !.step = "log"]
        /\ devs' = [devs EXCEPT ![look.at].down = TRUE]
        /\ UNCHANGED <<time, flash, told, noting>>
\* rotate_if_needed removes the whole log.
LogSilence ==
  /\ At("log") /\ Onward
  /\ flash' = (IF flash > LogCap THEN 0 ELSE flash) + 1
  /\ Tally(devs[look.at].addr, 1)
  /\ UNCHANGED <<devs, time, noting>>

ChipNext == \/ \E a \in Chips : NoteFrame(a)
            \/ LogRecovery \/ TimePasses \/ TickStarts \/ LookAt \/ Flag \/ LogSilence

-------------------------------------------------------------------------------
ChipTypeOK ==
  /\ Len(devs) <= MaxDevs /\ look.at \in 0..Len(devs) /\ look.step \in {"look", "flag", "log"}
  /\ \A i, j \in DOMAIN devs : devs[i].addr = devs[j].addr => i = j

\* However the two tasks interleave, a device is flagged exactly while one more
\* silence than recovery was told of it, counting what a task is about to tell:
\* none is told silent twice in a row, and no recovery is lost.
SilencesAgree ==
  \A i \in DOMAIN devs : LET a == devs[i].addr IN
    (IF devs[i].down THEN 1 ELSE 0)
      = told[a] + (IF look.at = i /\ look.step = "log" THEN 1 ELSE 0) - (IF noting = a THEN 1 ELSE 0)
===============================================================================
