---------------------------- MODULE OtaTransfer -----------------------------
(***************************************************************************)
(* A firmware upload to a satellite: the goroutine of POST /api/ota, the   *)
(* OtaProgress it polls, the two lossy FIFO paths (commands: USB, relay,   *)
(* SPI and the satellite's OTA queue; status: SPI ring, relay, USB, the    *)
(* ingest goroutine), and the satellite's ota_task over core/ota.c.        *)
(* OtaActive lets one upload run at a time; the host may be killed.        *)
(***************************************************************************)
EXTENDS OtaDevice, Sequences

CONSTANTS
  BeginTries,   \* times OTA_BEGIN is sent (4)
  DataTries,    \* times a chunk is sent (8)
  EndWaits,     \* times the reply to OTA_END is awaited (5)
  Depth,        \* bound on the messages in flight each way (s_ota_q holds 48)
  MaxUploads    \* bound on uploads

ASSUME TransferAssumption ==
  /\ BeginTries \in Nat \ {0}
  /\ DataTries \in Nat \ {0}
  /\ EndWaits \in Nat \ {0}
  /\ Depth \in Nat \ {0}
  /\ MaxUploads \in Nat

VARIABLES
  pc,         \* where the upload goroutine is; "idle" when there is none
  img,        \* the image of the last upload started
  off,        \* offset of the chunk being confirmed
  tries,      \* sends (or waits, at the end) of the current message
  prog,       \* OtaProg's entry for the satellite
  cmds,       \* commands on their way to ota_task
  stats,      \* OTA_STATUS messages on their way to OtaProg.Update
  upload,     \* history: number of uploads started
  accepted    \* history: the upload whose OTA_BEGIN the satellite last accepted

hostVars == <<pc, img, off, tries, prog, upload>>
vars == <<hostVars, cmds, stats, accepted, devVars, faults>>

NoProgress == [rcv |-> 0, state |-> "IDLE"]     \* no entry: OtaProg.Reset

Cmds ==
  [op : {"BEGIN"}, img : Images, upload : Nat] \cup
  [op : {"DATA"}, img : Images, off : Nat, len : Nat] \cup
  [op : {"END", "ABORT"}]
Stats == [rcv : Nat, state : OtaStates]

TypeOK ==
  /\ DevTypeOK
  /\ pc \in {"idle", "begin", "data", "end"}
  /\ img \in Images
  /\ off \in Nat
  /\ tries \in Nat
  /\ prog \in Stats
  /\ cmds \in Seq(Cmds)
  /\ stats \in Seq(Stats)
  /\ upload \in Nat
  /\ accepted \in Nat

Init ==
  /\ DevInit
  /\ pc = "idle"
  /\ img \in Images
  /\ off = 0
  /\ tries = 0
  /\ prog = NoProgress
  /\ cmds = <<>>
  /\ stats = <<>>
  /\ upload = 0
  /\ accepted = 0

-----------------------------------------------------------------------------
(* The upload goroutine.                                                   *)

BeginMsg(i, u) == [op |-> "BEGIN", img |-> i, upload |-> u]
DataMsg(i, o) == [op |-> "DATA", img |-> i, off |-> o, len |-> ChunkEnd(i, o) - o]
EndMsg   == [op |-> "END"]
AbortMsg == [op |-> "ABORT"]

\* A message sent into a full path is lost.
Post(q, m) == IF Len(q) < Depth THEN Append(q, m) ELSE q

\* Mutant: the progress of the attempt before is kept.
StartWithoutReset(i) ==
  /\ pc = "idle"
  /\ upload < MaxUploads
  /\ upload' = upload + 1
  /\ img' = i
  /\ pc' = "begin"
  /\ tries' = 1
  /\ off' = 0
  /\ cmds' = Post(cmds, BeginMsg(i, upload + 1))
  /\ UNCHANGED <<prog, stats, accepted, devVars, faults>>

\* POST /api/ota when OtaActive was clear: Reset, then the first OTA_BEGIN.
StartUpload(i) ==
  /\ pc = "idle"
  /\ upload < MaxUploads
  /\ upload' = upload + 1
  /\ img' = i
  /\ prog' = NoProgress
  /\ pc' = "begin"
  /\ tries' = 1
  /\ off' = 0
  /\ cmds' = Post(cmds, BeginMsg(i, upload + 1))
  /\ UNCHANGED <<stats, accepted, devVars, faults>>

\* "OtaProg.State(target) == OtaReceiving": the first chunk goes out.
BeginConfirmed ==
  /\ pc = "begin"
  /\ prog.state = "RECEIVING"
  /\ pc' = "data"
  /\ off' = 0
  /\ tries' = 1
  /\ cmds' = Post(cmds, DataMsg(img, 0))
  /\ UNCHANGED <<img, prog, upload, stats, accepted, devVars, faults>>

\* Two seconds without confirmation: resend, or give up without any message.
BeginTimeout ==
  /\ pc = "begin"
  /\ \/ /\ tries < BeginTries
        /\ tries' = tries + 1
        /\ cmds' = Post(cmds, BeginMsg(img, upload))
        /\ UNCHANGED pc
     \/ /\ tries = BeginTries
        /\ pc' = "idle"
        /\ UNCHANGED <<tries, cmds>>
  /\ UNCHANGED <<img, off, prog, upload, stats, accepted, devVars, faults>>

\* Mutant: the next chunk follows at a fixed pace, as for the primary.
ChunkPaced ==
  /\ pc = "data"
  /\ off' = ChunkEnd(img, off)
  /\ tries' = 1
  /\ pc' = IF off' < Size[img] THEN "data" ELSE "end"
  /\ cmds' = Post(cmds, IF off' < Size[img] THEN DataMsg(img, off') ELSE EndMsg)
  /\ UNCHANGED <<img, prog, upload, stats, accepted, devVars, faults>>

\* "OtaProg.Get(target) >= want": on to the next chunk, or OTA_END.
ChunkConfirmed ==
  /\ pc = "data"
  /\ prog.rcv >= ChunkEnd(img, off)
  /\ off' = ChunkEnd(img, off)
  /\ tries' = 1
  /\ \/ /\ off' < Size[img]
        /\ cmds' = Post(cmds, DataMsg(img, off'))
        /\ UNCHANGED pc
     \/ /\ off' >= Size[img]
        /\ cmds' = Post(cmds, EndMsg)
        /\ pc' = "end"
  /\ UNCHANGED <<img, prog, upload, stats, accepted, devVars, faults>>

\* Five seconds without confirmation: resend the chunk, or abort the upload.
ChunkTimeout ==
  /\ pc = "data"
  /\ \/ /\ tries < DataTries
        /\ tries' = tries + 1
        /\ cmds' = Post(cmds, DataMsg(img, off))
        /\ UNCHANGED pc
     \/ /\ tries = DataTries
        /\ cmds' = Post(cmds, AbortMsg)
        /\ pc' = "idle"
        /\ UNCHANGED tries
  /\ UNCHANGED <<img, off, prog, upload, stats, accepted, devVars, faults>>

\* The state of the last status ends the wait, whichever way the upload ended.
EndConfirmed ==
  /\ pc = "end"
  /\ prog.state \in {"OK", "ERROR"}
  /\ pc' = "idle"
  /\ UNCHANGED <<img, off, tries, prog, upload, cmds, stats, accepted, devVars, faults>>

\* Mutant: OTA_END is sent once.
EndWithoutResend ==
  /\ pc = "end"
  /\ tries' = tries + 1
  /\ pc' = IF tries < EndWaits THEN "end" ELSE "idle"
  /\ UNCHANGED <<img, off, prog, upload, cmds, stats, accepted, devVars, faults>>

\* Two seconds without it: resend after every wait, the last one included.
EndTimeout ==
  /\ pc = "end"
  /\ cmds' = Post(cmds, EndMsg)
  /\ \/ /\ tries < EndWaits
        /\ tries' = tries + 1
        /\ UNCHANGED pc
     \/ /\ tries = EndWaits
        /\ pc' = "idle"
        /\ UNCHANGED tries
  /\ UNCHANGED <<img, off, prog, upload, stats, accepted, devVars, faults>>

\* The host process dies (no ABORT is sent) and is started again.
HostCrash ==
  /\ Fault
  /\ pc' = "idle"
  /\ prog' = NoProgress
  /\ UNCHANGED <<img, off, tries, upload, cmds, stats, accepted, devVars>>

\* ingest: OtaProg.Update with the next status.
RecvStatus ==
  /\ stats # <<>>
  /\ prog' = Head(stats)
  /\ stats' = Tail(stats)
  /\ UNCHANGED <<pc, img, off, tries, upload, cmds, accepted, devVars, faults>>

-----------------------------------------------------------------------------
(* The satellite's ota_task: one command from the head of the queue, then  *)
(* an OTA_STATUS.                                                          *)

\* sat_send_ota_status after the call: the state and count it leaves behind.
Report == stats' = Post(stats, [rcv |-> recv', state |-> state'])

Receive(op) ==
  /\ cmds # <<>>
  /\ Head(cmds).op = op
  /\ cmds' = Tail(cmds)

SatBegin ==
  /\ Receive("BEGIN")
  /\ BeginImage(Head(cmds).img)
  /\ accepted' = IF state' = "RECEIVING" THEN Head(cmds).upload ELSE accepted
  /\ Report
  /\ UNCHANGED hostVars

\* Mutant: a chunk is appended without a look at its offset.
ApplyAnyData(c) == WriteChunk(c.img, c.off, c.len)

\* A chunk is written only at the offset already reached: below it, it was
\* written before and only the reply was lost; above it, there is a gap.
ApplyData(c) ==
  \/ /\ c.off # recv
     /\ UNCHANGED <<devVars, faults>>
  \/ /\ c.off = recv
     /\ WriteChunk(c.img, c.off, c.len)

SatData ==
  /\ Receive("DATA")
  /\ ApplyData(Head(cmds))
  /\ Report
  /\ UNCHANGED <<hostVars, accepted>>

SatEnd ==
  /\ Receive("END")
  /\ EndImage
  /\ Report
  /\ UNCHANGED <<hostVars, accepted>>

SatAbort ==
  /\ Receive("ABORT")
  /\ AbortImage
  /\ Report
  /\ UNCHANGED <<hostVars, accepted>>

\* The main loop restarts the chip 400 ms after the flag is raised.
SatReboot ==
  /\ pending
  /\ Restart
  /\ UNCHANGED <<hostVars, cmds, stats, accepted, faults>>

\* Power is lost and comes back.
PowerCycle ==
  /\ Fault
  /\ Restart
  /\ UNCHANGED <<hostVars, cmds, stats, accepted>>

\* A command lost on the way, refused by a full s_ota_q, or in it at a restart.
LoseCommand ==
  /\ cmds # <<>>
  /\ Fault
  /\ cmds' = Tail(cmds)
  /\ UNCHANGED <<hostVars, stats, accepted, devVars>>

\* A status the ring refused twenty times, or lost on the way to the host.
LoseStatus ==
  /\ stats # <<>>
  /\ Fault
  /\ stats' = Tail(stats)
  /\ UNCHANGED <<hostVars, cmds, accepted, devVars>>

-----------------------------------------------------------------------------
Satellite == SatBegin \/ SatData \/ SatEnd \/ SatAbort \/ SatReboot
Advance   == BeginConfirmed \/ ChunkConfirmed \/ EndConfirmed
Timeout   == BeginTimeout \/ ChunkTimeout \/ EndTimeout
Failure   == HostCrash \/ PowerCycle \/ LoseCommand \/ LoseStatus

Step == Satellite \/ Advance \/ Timeout \/ Failure \/ RecvStatus

\* Whatever the delays: an upload may start while messages of an earlier one
\* are still on their way.
Next == Step \/ \E i \in Images : StartUpload(i)
Spec == Init /\ [][Next]_vars

\* Uploads start when the link has drained and the device has restarted.
Quiet == cmds = <<>> /\ stats = <<>> /\ ~pending
QuietNext == Step \/ (Quiet /\ \E i \in Images : StartUpload(i))
QuietSpec == Init /\ [][QuietNext]_vars

\* Waits outlast the round trip: a timeout fires only when no answer can come.
Answered ==
  \/ (pc = "begin" /\ prog.state = "RECEIVING")
  \/ (pc = "data" /\ prog.rcv >= ChunkEnd(img, off))
  \/ (pc = "end" /\ prog.state \in {"OK", "ERROR"})
PromptTimeout == Quiet /\ ~Answered /\ Timeout
SoundSatellite == Satellite /\ UNCHANGED faults
PromptNext ==
  \/ SoundSatellite \/ Advance \/ RecvStatus \/ PromptTimeout
  \/ LoseCommand \/ LoseStatus
  \/ (Quiet /\ \E i \in Images : StartUpload(i))
PromptSpec ==
  /\ Init /\ [][PromptNext]_vars
  /\ WF_vars(SoundSatellite) /\ WF_vars(Advance) /\ WF_vars(RecvStatus)
  /\ WF_vars(PromptTimeout)

-----------------------------------------------------------------------------
(* Properties.                                                             *)

\* Under any loss, delay, retry, abort, crash or power cycle, every byte the
\* satellite counts as received lies at its own offset: a resent chunk is never
\* appended twice and a missing one never shifts what follows (ota_task's test
\* of the offset against ota_received()).
InPlace ==
  \A k \in 0 .. recv - 1 : k < PartSize /\ \E i \in Images : flash[part][k] = Byte(i, k)

\* Once the upload goroutine has passed the OTA_BEGIN wait, the BEGIN the
\* satellite last accepted is this upload's (OtaProg.Reset before the wait).
GateIsFresh == pc \in {"data", "end"} => accepted = upload

\* What the goroutine believes confirmed is in the slot, byte for byte and of
\* this image, through retries, lost replies and restarts of the satellite.
ConfirmedIsWritten == pc \in {"data", "end"} => IsPrefix(flash[part], img, off)

\* The slot otadata names always holds a complete image, so the device starts
\* whatever was lost: the update slot is another one until it has verified.
BootSlotIsWhole == Verified(flash[boot])

\* The image the device will boot, and the image last asked for.
Booted    == ImageOf(flash[boot])
Requested == IF upload = 0 THEN NoImage ELSE img

Install == INSTANCE OtaInstall WITH requested <- Requested, booted <- Booted

\* The transfer implements an installer that only ever installs what was asked
\* for last.
InstallsRequested == Install!Spec

\* With fewer losses than resends, an upload of an image that fits is installed.
UploadSucceeds ==
  \A i \in Images :
    (pc = "begin" /\ img = i /\ Size[i] <= PartSize) ~> (run = boot /\ Booted = i)

-----------------------------------------------------------------------------
(* The inductive invariant of QuietSpec behind the last four properties.   *)

HasCmd(op) == \E j \in 1 .. Len(cmds) : cmds[j].op = op

\* The satellite works for the upload in progress (or the last one).
Live == upload > 0 /\ accepted = upload

Confirmed(n) == IsPrefix(flash[part], img, n)

\* Every command in flight belongs to the last upload, BEGINs before the rest.
CmdsCurrent ==
  /\ upload = 0 => pc = "idle" /\ cmds = <<>> /\ stats = <<>>
  /\ accepted <= upload
  /\ \A j \in 1 .. Len(cmds) :
        /\ cmds[j].op = "BEGIN" => cmds[j] = BeginMsg(img, upload)
        /\ cmds[j].op = "DATA" =>
              cmds[j] = DataMsg(img, cmds[j].off) /\ cmds[j].off < Size[img]
  /\ \A k \in 1 .. Len(cmds) : \A j \in 1 .. k :
        cmds[k].op = "BEGIN" => cmds[j].op = "BEGIN"
  /\ pc = "begin" \/ (upload > 0 /\ ~Live) =>
        \A j \in 1 .. Len(cmds) : cmds[j].op = "BEGIN"

\* Until its BEGIN is accepted, no status of this upload can open the gate.
Unaccepted ==
  upload > 0 /\ ~Live =>
    /\ pc \in {"idle", "begin"}
    /\ ~pending
    /\ prog.state # "RECEIVING"
    /\ \A j \in 1 .. Len(stats) : stats[j].state # "RECEIVING"
    /\ Size[img] <= PartSize => stats = <<>> /\ prog.rcv = 0

\* While a BEGIN may still reset the satellite, nothing counts as confirmed.
Early ==
  Live /\ (pc = "begin" \/ HasCmd("BEGIN")) =>
    /\ recv = 0
    /\ prog.rcv = 0
    /\ \A j \in 1 .. Len(stats) : stats[j].rcv = 0
    /\ pc \in {"data", "end"} => off = 0
    /\ ~HasCmd("END")
    /\ ~pending

\* Every acknowledged count is backed by the slot, and the satellite, while it
\* receives, is at least that far.
Backed ==
  /\ Live =>
       /\ Size[img] <= PartSize
       /\ Confirmed(recv) /\ Confirmed(prog.rcv)
       /\ \A j \in 1 .. Len(stats) : Confirmed(stats[j].rcv)
       /\ state = "RECEIVING" =>
            /\ prog.rcv <= recv
            /\ \A j \in 1 .. Len(stats) : stats[j].rcv <= recv
  /\ pc \in {"data", "end"} =>
       /\ Live
       /\ Confirmed(off)
       /\ state = "RECEIVING" => off <= recv
  /\ pc = "data" => off < Size[img]
  /\ pc = "end" => off = Size[img]
  /\ HasCmd("END") =>
       /\ Live
       /\ Confirmed(Size[img])
       /\ state = "RECEIVING" => Size[img] <= recv

\* The boot slot verifies and is never the slot being written.
SlotsApart ==
  /\ Verified(flash[boot])
  /\ pending <=> boot # run
  /\ state = "RECEIVING" =>
       part # boot /\ ~pending /\ recv <= erased /\ erased <= PartSize

IInv ==
  /\ TypeOK
  /\ CmdsCurrent
  /\ Unaccepted
  /\ Early
  /\ Backed
  /\ SlotsApart
=============================================================================
