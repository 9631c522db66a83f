----------------------------- MODULE OtaDevice ------------------------------
(***************************************************************************)
(* firmware/src/core/ota.c: the OTA state machine every device runs, over  *)
(* two application slots.  The operators below are the effect of one call; *)
(* the modules that extend this one decide who calls them and when.        *)
(***************************************************************************)
EXTENDS OtaImage

CONSTANT MaxFaults     \* bound on failures of flash, links and power
ASSUME FaultAssumption == MaxFaults \in Nat

VARIABLES
  state,      \* s_state
  recv,       \* s_recv, the append position
  erased,     \* s_erasedUpTo
  part,       \* s_part, the slot being written
  flash,      \* the bytes of both slots
  run,        \* the slot the running firmware was started from
  boot,       \* the slot otadata names
  pending,    \* s_reboot_pending of the application
  faults      \* failures so far

devVars == <<state, recv, erased, part, flash, run, boot, pending>>

\* One more failure of the environment.
Fault == faults < MaxFaults /\ faults' = faults + 1

OtaStates == {"IDLE", "RECEIVING", "OK", "ERROR"}

DevTypeOK ==
  /\ state \in OtaStates
  /\ recv \in Nat
  /\ erased \in Nat
  /\ part \in Slots
  /\ flash \in [Slots -> Content]
  /\ run \in Slots
  /\ boot \in Slots
  /\ pending \in BOOLEAN
  /\ faults \in 0 .. MaxFaults

\* A device that booted slot 0; slot 1 is blank or still holds an older image.
DevInit ==
  /\ state = "IDLE"
  /\ recv = 0
  /\ erased = 0
  /\ part = 1
  /\ run = 0
  /\ boot = 0
  /\ pending = FALSE
  /\ faults = 0
  /\ \E i \in Images : \E other \in {Erased} \cup {Burnt(j) : j \in Images} :
        /\ Size[i] <= PartSize
        /\ flash = [s \in Slots |-> IF s = 0 THEN Burnt(i) ELSE other]

\* Mutant: the next slot is taken without wrapping around.
BeginNextSlot(i) ==
  /\ part' = run + 1
  /\ state' = IF Size[i] > PartSize THEN "ERROR" ELSE "RECEIVING"
  /\ recv' = IF Size[i] > PartSize THEN recv ELSE 0
  /\ erased' = IF Size[i] > PartSize THEN erased ELSE 0
  /\ UNCHANGED <<flash, run, boot, pending, faults>>

\* Mutant: the image goes to the slot otadata names.
BeginBootSlot(i) ==
  /\ part' = boot
  /\ state' = IF Size[i] > PartSize THEN "ERROR" ELSE "RECEIVING"
  /\ recv' = 0
  /\ erased' = 0
  /\ UNCHANGED <<flash, run, boot, pending, faults>>

\* ota_begin: nothing is erased yet; a size the slot cannot hold is an error
\* that leaves the append position of the attempt before.
BeginImage(i) ==
  /\ part' = 1 - run
  /\ IF Size[i] > PartSize
     THEN /\ state' = "ERROR"
          /\ UNCHANGED <<recv, erased>>
     ELSE /\ state' = "RECEIVING"
          /\ recv' = 0
          /\ erased' = 0
  /\ UNCHANGED <<flash, run, boot, pending, faults>>

\* The content of a slot after erasing up to the sector that ends at e and
\* writing bytes off..off+n-1 of image i at the append position.
Written(c, i, off, n, e) ==
  [k \in 0 .. PartSize - 1 |->
     IF k \in recv .. recv + n - 1 THEN Byte(i, off + (k - recv))
     ELSE IF k \in erased .. e - 1 THEN Blank
     ELSE c[k]]

\* ota_write of the bytes off..off+n-1 of image i: appends at s_recv whatever
\* off is.  An erase that would run past the slot, or a failing erase or write,
\* leaves the append position alone and ends the attempt.
WriteChunk(i, off, n) ==
  LET end == recv + n
      e   == IF end > erased THEN SectorEnd(end) ELSE erased
  IN \/ /\ state # "RECEIVING"
        /\ UNCHANGED <<devVars, faults>>
     \/ /\ state = "RECEIVING" /\ e <= PartSize
        /\ flash' = [flash EXCEPT ![part] = Written(@, i, off, n, e)]
        /\ recv' = end
        /\ erased' = e
        /\ UNCHANGED <<state, part, run, boot, pending, faults>>
     \/ /\ state = "RECEIVING" /\ e > PartSize
        /\ state' = "ERROR"
        /\ UNCHANGED <<recv, erased, part, flash, run, boot, pending, faults>>
     \/ /\ state = "RECEIVING" /\ e <= PartSize
        /\ Fault
        /\ state' = "ERROR"
        /\ \E a \in {erased, e} :
              /\ flash' = [flash EXCEPT ![part] = Written(@, i, off, 0, a)]
              /\ erased' = a
        /\ UNCHANGED <<recv, part, run, boot, pending>>

\* ota_end, with the flag its caller raises when it succeeds: the slot becomes
\* the boot slot only if it verifies and otadata can be written.
EndImage ==
  \/ /\ state # "RECEIVING"
     /\ UNCHANGED <<devVars, faults>>
  \/ /\ state = "RECEIVING" /\ Verified(flash[part])
     /\ state' = "OK"
     /\ boot' = part
     /\ pending' = TRUE
     /\ UNCHANGED <<recv, erased, part, flash, run, faults>>
  \/ /\ state = "RECEIVING"
     /\ Verified(flash[part]) => Fault
     /\ ~Verified(flash[part]) => UNCHANGED faults
     /\ state' = "ERROR"
     /\ UNCHANGED <<recv, erased, part, flash, run, boot, pending>>

\* ota_abort
AbortImage ==
  /\ state' = "IDLE"
  /\ recv' = 0
  /\ UNCHANGED <<erased, part, flash, run, boot, pending, faults>>

\* A start of the chip: RAM is lost, and the bootloader takes the slot otadata
\* names, or the other one when that slot does not verify.  (s_part becomes NULL;
\* it is not read again before ota_begin sets it, so its old value is kept.)
Restart ==
  /\ run' = IF Verified(flash[boot]) THEN boot ELSE 1 - boot
  /\ state' = "IDLE"
  /\ recv' = 0
  /\ erased' = 0
  /\ pending' = FALSE
  /\ UNCHANGED <<part, flash, boot>>
=============================================================================
