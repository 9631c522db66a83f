-------------------------- MODULE OtaTransferProofs -------------------------
(***************************************************************************)
(* Proofs about OtaTransfer for every set of images, slot, sector and      *)
(* chunk size, channel depth, number of retries, uploads and failures.     *)
(***************************************************************************)
EXTENDS OtaTransfer, TLAPS

USE ImageAssumption, FaultAssumption, TransferAssumption

-----------------------------------------------------------------------------
(* Arithmetic and channels.                                                *)

\* A whole number of sectors covers the prefix it was computed for.
LEMMA SectorCovers ==
  ASSUME NEW n \in Nat
  PROVE  SectorEnd(n) \in Nat /\ n <= SectorEnd(n)
<1> DEFINE q == (n + Sector - 1) \div Sector
<1>1. q \in Nat
  OBVIOUS
<1>2. n + Sector - 1 = Sector * q + ((n + Sector - 1) % Sector)
  OBVIOUS
<1>3. (n + Sector - 1) % Sector \in 0 .. Sector - 1
  OBVIOUS
<1> HIDE DEF q
<1>4. q * Sector \in Nat /\ q * Sector = Sector * q
  BY <1>1
<1>5. n <= q * Sector
  BY <1>2, <1>3, <1>4
<1> QED
  BY <1>4, <1>5 DEF SectorEnd, q

\* A chunk of an image is not empty and ends within the image.
LEMMA ChunkBounds ==
  ASSUME NEW i \in Images, NEW o \in Nat, o < Size[i]
  PROVE  /\ ChunkEnd(i, o) \in Nat
         /\ o < ChunkEnd(i, o)
         /\ ChunkEnd(i, o) <= Size[i]
BY DEF ChunkEnd

\* Sending keeps what is queued and adds at most the new message, at the end.
LEMMA PostEffect ==
  ASSUME NEW S, NEW q \in Seq(S), NEW m \in S
  PROVE  /\ Post(q, m) \in Seq(S)
         /\ Len(Post(q, m)) \in Nat
         /\ Len(q) \in Nat
         /\ Len(q) <= Len(Post(q, m))
         /\ \A j \in 1 .. Len(q) : Post(q, m)[j] = q[j]
         /\ \A j \in 1 .. Len(Post(q, m)) :
               j \in 1 .. Len(q) \/ (j = Len(q) + 1 /\ Post(q, m)[j] = m)
BY DEF Post

\* Receiving takes the first message and moves the others up.
LEMMA TailEffect ==
  ASSUME NEW S, NEW q \in Seq(S), q # <<>>
  PROVE  /\ Tail(q) \in Seq(S)
         /\ Len(q) \in Nat \ {0}
         /\ Len(Tail(q)) = Len(q) - 1
         /\ Head(q) = q[1]
         /\ Head(q) \in S
         /\ \A j \in 1 .. Len(Tail(q)) : j + 1 \in 1 .. Len(q) /\ Tail(q)[j] = q[j + 1]
OBVIOUS

-----------------------------------------------------------------------------
(* Type correctness.                                                       *)

\* A slot after a write is a slot.
LEMMA WrittenType ==
  ASSUME NEW c \in Content, NEW i \in Images, NEW o \in Nat, NEW n \in Nat,
         NEW e \in Nat, recv \in Nat, erased \in Nat
  PROVE  Written(c, i, o, n, e) \in Content
<1>1. ASSUME NEW k \in 0 .. PartSize - 1, k \in recv .. recv + n - 1
      PROVE  Byte(i, o + (k - recv)) \in Bytes
  BY <1>1 DEF Byte, Bytes
<1>2. Blank \in Bytes
  BY DEF Blank, Bytes
<1> QED
  BY <1>1, <1>2 DEF Written, Content

LEMMA BurntType == \A i \in Images : Burnt(i) \in Content
BY DEF Burnt, Content, Bytes, Byte, Blank

LEMMA ErasedType == Erased \in Content
BY DEF Erased, Content, Bytes, Blank

\* The calls of ota.c keep the device's variables in their types.
LEMMA BeginType ==
  ASSUME DevTypeOK, NEW i \in Images, BeginImage(i)
  PROVE  DevTypeOK'
BY DEF DevTypeOK, BeginImage, OtaStates, Slots

LEMMA WriteType ==
  ASSUME DevTypeOK, NEW i \in Images, NEW o \in Nat, NEW n \in Nat, WriteChunk(i, o, n)
  PROVE  DevTypeOK'
<1> DEFINE end == recv + n
           e   == IF end > erased THEN SectorEnd(end) ELSE erased
<1>1. end \in Nat /\ e \in Nat
  BY SectorCovers DEF DevTypeOK
<1>2. \A m, a \in Nat : Written(flash[part], i, o, m, a) \in Content
  BY WrittenType DEF DevTypeOK
<1> HIDE DEF end, e
<1>3. CASE UNCHANGED <<devVars, faults>>
  BY <1>3 DEF DevTypeOK, devVars
<1>4. CASE /\ flash' = [flash EXCEPT ![part] = Written(@, i, o, n, e)]
           /\ recv' = end
           /\ erased' = e
           /\ UNCHANGED <<state, part, run, boot, pending, faults>>
  BY <1>1, <1>2, <1>4 DEF DevTypeOK
<1>5. CASE /\ state' = "ERROR"
           /\ UNCHANGED <<recv, erased, part, flash, run, boot, pending, faults>>
  BY <1>5 DEF DevTypeOK, OtaStates
<1>6. CASE /\ Fault
           /\ state' = "ERROR"
           /\ \E a \in {erased, e} :
                 /\ flash' = [flash EXCEPT ![part] = Written(@, i, o, 0, a)]
                 /\ erased' = a
           /\ UNCHANGED <<recv, part, run, boot, pending>>
  <2>1. PICK a \in {erased, e} :
                 /\ flash' = [flash EXCEPT ![part] = Written(@, i, o, 0, a)]
                 /\ erased' = a
    BY <1>6
  <2>2. a \in Nat
    BY <1>1 DEF DevTypeOK
  <2>3. flash' \in [Slots -> Content]
    BY <1>2, <2>1, <2>2 DEF DevTypeOK
  <2> QED
    BY <1>6, <2>1, <2>2, <2>3 DEF DevTypeOK, Fault, OtaStates
<1> QED
  BY <1>3, <1>4, <1>5, <1>6 DEF WriteChunk, end, e

LEMMA EndType ==
  ASSUME DevTypeOK, EndImage
  PROVE  DevTypeOK'
<1>1. CASE UNCHANGED <<devVars, faults>>
  BY <1>1 DEF DevTypeOK, devVars
<1>2. CASE /\ state' = "OK"
           /\ boot' = part
           /\ pending' = TRUE
           /\ UNCHANGED <<recv, erased, part, flash, run, faults>>
  BY <1>2 DEF DevTypeOK, OtaStates
<1>3. CASE /\ faults' = faults \/ Fault
           /\ state' = "ERROR"
           /\ UNCHANGED <<recv, erased, part, flash, run, boot, pending>>
  BY <1>3 DEF DevTypeOK, OtaStates, Fault
<1> QED
  BY <1>1, <1>2, <1>3, Zenon DEF EndImage

LEMMA AbortType ==
  ASSUME DevTypeOK, AbortImage
  PROVE  DevTypeOK'
BY DEF DevTypeOK, AbortImage, OtaStates

LEMMA RestartType ==
  ASSUME DevTypeOK, Restart, faults' \in 0 .. MaxFaults
  PROVE  DevTypeOK'
<1>1. run' \in Slots
  <2>1. run' = boot \/ run' = 1 - boot
    BY Zenon DEF Restart
  <2> QED
    BY <2>1 DEF DevTypeOK, Slots
<1> QED
  BY <1>1 DEF DevTypeOK, Restart, OtaStates

LEMMA HeadType ==
  ASSUME TypeOK, cmds # <<>>
  PROVE  /\ Head(cmds) \in Cmds
         /\ Tail(cmds) \in Seq(Cmds)
BY TailEffect DEF TypeOK

LEMMA ReportType ==
  ASSUME TypeOK, DevTypeOK', Report
  PROVE  stats' \in Seq(Stats)
<1>1. [rcv |-> recv', state |-> state'] \in Stats
  BY DEF DevTypeOK, Stats
<1> QED
  BY <1>1, PostEffect DEF TypeOK, Report

LEMMA MsgType ==
  ASSUME TypeOK
  PROVE  /\ \A i \in Images, u \in Nat : BeginMsg(i, u) \in Cmds
         /\ EndMsg \in Cmds
         /\ AbortMsg \in Cmds
         /\ \A i \in Images, o \in Nat : o < Size[i] => DataMsg(i, o) \in Cmds
<1>1. ASSUME NEW i \in Images, NEW o \in Nat, o < Size[i]
      PROVE  ChunkEnd(i, o) - o \in Nat
  BY <1>1, ChunkBounds
<1> QED
  BY <1>1 DEF BeginMsg, EndMsg, AbortMsg, DataMsg, Cmds

\* Every command path holds commands after a send.
LEMMA PostType ==
  ASSUME TypeOK, NEW m \in Cmds
  PROVE  Post(cmds, m) \in Seq(Cmds)
BY PostEffect DEF TypeOK

\* The chunk being confirmed starts inside the image.
ChunkInside == pc = "data" => off < Size[img]

TypeInv == TypeOK /\ ChunkInside

LEMMA InitType == Init => TypeInv
<1> SUFFICES ASSUME Init PROVE TypeInv
  OBVIOUS
<1>1. flash \in [Slots -> Content]
  BY BurntType, ErasedType DEF Init, DevInit
<1>a. /\ state = "IDLE" /\ recv = 0 /\ erased = 0 /\ part = 1
      /\ run = 0 /\ boot = 0 /\ pending = FALSE /\ faults = 0
  BY DEF Init, DevInit
<1>b. pending \in BOOLEAN
  BY <1>a, Zenon
<1>c. faults \in 0 .. MaxFaults
  BY <1>a
<1>2. DevTypeOK
  BY <1>1, <1>a, <1>b, <1>c DEF DevTypeOK, OtaStates, Slots
<1>3. prog \in Stats
  BY DEF Init, NoProgress, Stats, OtaStates
<1> QED
  BY <1>2, <1>3 DEF Init, TypeInv, TypeOK, ChunkInside

LEMMA HostType ==
  ASSUME TypeInv,
         \/ \E i \in Images : StartUpload(i)
         \/ Advance \/ Timeout \/ HostCrash \/ RecvStatus
  PROVE  TypeInv'
<1> USE DEF TypeInv, ChunkInside
<1>2. CASE \E i \in Images : StartUpload(i)
  <2>1. PICK i \in Images : StartUpload(i)
    BY <1>2
  <2>2. cmds' \in Seq(Cmds)
    BY <2>1, MsgType, PostType DEF StartUpload, TypeOK
  <2> QED
    BY <2>1, <2>2 DEF StartUpload, TypeOK, DevTypeOK, devVars, NoProgress, Stats, OtaStates
<1>3. CASE BeginConfirmed
  <2>1. cmds' \in Seq(Cmds)
    BY <1>3, MsgType, PostType DEF BeginConfirmed, TypeOK
  <2> QED
    BY <1>3, <2>1 DEF BeginConfirmed, TypeOK, DevTypeOK, devVars
<1>4. CASE ChunkConfirmed
  <2>1. ChunkEnd(img, off) \in Nat
    BY <1>4, ChunkBounds DEF ChunkConfirmed, TypeOK
  <2>2. cmds' \in Seq(Cmds)
    BY <1>4, <2>1, MsgType, PostType DEF ChunkConfirmed, TypeOK
  <2> QED
    BY <1>4, <2>1, <2>2 DEF ChunkConfirmed, TypeOK, DevTypeOK, devVars
<1>5. CASE EndConfirmed
  BY <1>5 DEF EndConfirmed, TypeOK, DevTypeOK, devVars
<1>6. CASE BeginTimeout
  <2>1. cmds' \in Seq(Cmds)
    BY <1>6, MsgType, PostType DEF BeginTimeout, TypeOK
  <2> QED
    BY <1>6, <2>1 DEF BeginTimeout, TypeOK, DevTypeOK, devVars
<1>7. CASE ChunkTimeout
  <2>1. cmds' \in Seq(Cmds)
    BY <1>7, MsgType, PostType DEF ChunkTimeout, TypeOK
  <2> QED
    BY <1>7, <2>1 DEF ChunkTimeout, TypeOK, DevTypeOK, devVars
<1>8. CASE EndTimeout
  <2>1. cmds' \in Seq(Cmds)
    BY <1>8, MsgType, PostType DEF EndTimeout, TypeOK
  <2> QED
    BY <1>8, <2>1 DEF EndTimeout, TypeOK, DevTypeOK, devVars
<1>9. CASE HostCrash
  BY <1>9 DEF HostCrash, Fault, TypeOK, DevTypeOK, devVars, NoProgress, Stats, OtaStates
<1>10. CASE RecvStatus
  <2>1. Head(stats) \in Stats /\ Tail(stats) \in Seq(Stats)
    BY <1>10, TailEffect DEF RecvStatus, TypeOK
  <2> QED
    BY <1>10, <2>1 DEF RecvStatus, TypeOK, DevTypeOK, devVars
<1> QED
  BY <1>2, <1>3, <1>4, <1>5, <1>6, <1>7, <1>8, <1>9, <1>10 DEF Advance, Timeout

LEMMA DeviceType ==
  ASSUME TypeInv, Satellite \/ PowerCycle \/ LoseCommand \/ LoseStatus
  PROVE  TypeInv'
<1> USE DEF TypeInv, ChunkInside
<1>1. CASE SatBegin
  <2>1. Head(cmds) \in Cmds /\ Head(cmds).op = "BEGIN"
    BY <1>1, HeadType DEF SatBegin, Receive
  <2>2. Head(cmds).img \in Images /\ Head(cmds).upload \in Nat
    BY <2>1 DEF Cmds
  <2>3. DevTypeOK'
    BY <1>1, <2>2, BeginType DEF SatBegin, TypeOK
  <2>4. accepted' \in Nat
    BY <1>1, <2>2 DEF SatBegin, TypeOK
  <2> QED
    BY <1>1, <2>3, <2>4, HeadType, ReportType DEF SatBegin, Receive, TypeOK, hostVars
<1>2. CASE SatData
  <2>1. Head(cmds) \in Cmds /\ Head(cmds).op = "DATA"
    BY <1>2, HeadType DEF SatData, Receive
  <2>2. /\ Head(cmds).img \in Images
        /\ Head(cmds).off \in Nat
        /\ Head(cmds).len \in Nat
    BY <2>1 DEF Cmds
  <2>3. ASSUME UNCHANGED <<devVars, faults>>
        PROVE  DevTypeOK'
    BY <2>3 DEF TypeOK, DevTypeOK, devVars
  <2>4. ASSUME WriteChunk(Head(cmds).img, Head(cmds).off, Head(cmds).len)
        PROVE  DevTypeOK'
    BY <2>2, <2>4, WriteType DEF TypeOK
  <2>5. DevTypeOK'
    BY <1>2, <2>3, <2>4 DEF SatData, ApplyData
  <2> QED
    BY <1>2, <2>5, HeadType, ReportType DEF SatData, Receive, TypeOK, hostVars
<1>3. CASE SatEnd
  <2>1. DevTypeOK'
    BY <1>3, EndType DEF SatEnd, TypeOK
  <2> QED
    BY <1>3, <2>1, HeadType, ReportType DEF SatEnd, Receive, TypeOK, hostVars
<1>4. CASE SatAbort
  <2>1. DevTypeOK'
    BY <1>4, AbortType DEF SatAbort, TypeOK
  <2> QED
    BY <1>4, <2>1, HeadType, ReportType DEF SatAbort, Receive, TypeOK, hostVars
<1>5. CASE SatReboot
  <2>1. DevTypeOK'
    BY <1>5, RestartType DEF SatReboot, TypeOK, DevTypeOK
  <2> QED
    BY <1>5, <2>1 DEF SatReboot, TypeOK, hostVars
<1>6. CASE PowerCycle
  <2>1. DevTypeOK'
    BY <1>6, RestartType DEF PowerCycle, Fault, TypeOK, DevTypeOK
  <2> QED
    BY <1>6, <2>1 DEF PowerCycle, TypeOK, hostVars
<1>7. CASE LoseCommand
  BY <1>7, HeadType DEF LoseCommand, Fault, TypeOK, DevTypeOK, devVars, hostVars
<1>8. CASE LoseStatus
  <2>1. Tail(stats) \in Seq(Stats)
    BY <1>8, TailEffect DEF LoseStatus, TypeOK
  <2> QED
    BY <1>8, <2>1 DEF LoseStatus, Fault, TypeOK, DevTypeOK, devVars, hostVars
<1> QED
  BY <1>1, <1>2, <1>3, <1>4, <1>5, <1>6, <1>7, <1>8 DEF Satellite

LEMMA StepType == TypeInv /\ [Next]_vars => TypeInv'
<1> SUFFICES ASSUME TypeInv, [Next]_vars PROVE TypeInv'
  OBVIOUS
<1>1. CASE Next
  BY <1>1, HostType, DeviceType DEF Next, Step, Failure
<1>2. CASE UNCHANGED vars
  BY <1>2 DEF vars, hostVars, devVars, TypeInv, ChunkInside, TypeOK, DevTypeOK
<1> QED
  BY <1>1, <1>2

\* Every behaviour keeps the host's, the device's and the channels' variables in
\* their types, whatever is lost or restarted (the whole of OtaTransfer).
THEOREM TypeCorrect == Spec => []TypeOK
<1>1. TypeInv => TypeOK
  BY DEF TypeInv
<1> QED
  BY <1>1, InitType, StepType, PTL DEF Spec

-----------------------------------------------------------------------------
(* The slot being written, under any behaviour of links, host and power.   *)

\* What a write does to the slots: it appends, and destroys nothing before the
\* append position.
LEMMA WriteEffect ==
  ASSUME DevTypeOK, state = "RECEIVING", recv <= erased, erased <= PartSize,
         NEW i \in Images, NEW o \in Nat, NEW n \in Nat, WriteChunk(i, o, n)
  PROVE  /\ \A s \in Slots : s # part => flash'[s] = flash[s]
         /\ UNCHANGED <<part, run, boot, pending>>
         /\ \A k \in 0 .. recv - 1 : flash'[part][k] = flash[part][k]
         /\ \/ state' = "ERROR" /\ recv' = recv
            \/ /\ state' = "RECEIVING"
               /\ recv' = recv + n
               /\ recv' <= erased'
               /\ erased' <= PartSize
               /\ \A k \in recv .. recv + n - 1 :
                     flash'[part][k] = Byte(i, o + (k - recv))
<1> DEFINE end == recv + n
           e   == IF end > erased THEN SectorEnd(end) ELSE erased
<1>1. /\ end \in Nat
      /\ e \in Nat
      /\ end <= e
      /\ recv \in Nat
      /\ erased \in Nat
      /\ recv <= PartSize
  BY SectorCovers DEF DevTypeOK
<1>2. part \in Slots /\ flash \in [Slots -> Content]
  BY DEF DevTypeOK
<1>3. ASSUME NEW m \in Nat, NEW a \in Nat
      PROVE  \A k \in 0 .. recv - 1 : Written(flash[part], i, o, m, a)[k] = flash[part][k]
  BY <1>1 DEF Written
<1>4. ASSUME NEW a \in Nat, end <= PartSize
      PROVE  \A k \in recv .. recv + n - 1 :
                Written(flash[part], i, o, n, a)[k] = Byte(i, o + (k - recv))
  BY <1>1, <1>4 DEF Written
<1> HIDE DEF end, e
<1>5. CASE /\ state = "RECEIVING" /\ e <= PartSize
           /\ flash' = [flash EXCEPT ![part] = Written(@, i, o, n, e)]
           /\ recv' = end
           /\ erased' = e
           /\ UNCHANGED <<state, part, run, boot, pending, faults>>
  <2>1. flash'[part] = Written(flash[part], i, o, n, e)
    BY <1>2, <1>5
  <2>2. \A s \in Slots : s # part => flash'[s] = flash[s]
    BY <1>2, <1>5
  <2>3. end <= PartSize
    BY <1>1, <1>5
  <2>4. \A k \in recv .. recv + n - 1 : flash'[part][k] = Byte(i, o + (k - recv))
    BY <1>1, <1>4, <2>1, <2>3
  <2>5. \A k \in 0 .. recv - 1 : flash'[part][k] = flash[part][k]
    BY <1>1, <1>3, <2>1
  <2> QED
    BY <1>1, <1>5, <2>2, <2>4, <2>5 DEF end
<1>6. CASE /\ state' = "ERROR"
           /\ UNCHANGED <<recv, erased, part, flash, run, boot, pending, faults>>
  BY <1>6
<1>7. CASE /\ state' = "ERROR"
           /\ \E a \in {erased, e} :
                 /\ flash' = [flash EXCEPT ![part] = Written(@, i, o, 0, a)]
                 /\ erased' = a
           /\ UNCHANGED <<recv, part, run, boot, pending>>
  <2>1. PICK a \in {erased, e} : flash' = [flash EXCEPT ![part] = Written(@, i, o, 0, a)]
    BY <1>7
  <2>2. flash'[part] = Written(flash[part], i, o, 0, a) /\ a \in Nat
    BY <1>1, <1>2, <2>1
  <2>3. \A s \in Slots : s # part => flash'[s] = flash[s]
    BY <1>2, <2>1
  <2>4. \A k \in 0 .. recv - 1 : flash'[part][k] = flash[part][k]
    BY <1>3, <2>2
  <2> QED
    BY <1>7, <2>3, <2>4
<1> QED
  BY <1>5, <1>6, <1>7 DEF WriteChunk, end, e

\* The append position never passes the erased area, which is in the slot the
\* device did not start from.
WriteAhead ==
  /\ state = "RECEIVING" => recv <= erased /\ erased <= PartSize
  /\ state = "RECEIVING" \/ recv > 0 => part = 1 - run

AsyncInv == TypeInv /\ InPlace /\ WriteAhead

LEMMA InitAsync == Init => AsyncInv
<1> SUFFICES ASSUME Init PROVE AsyncInv
  OBVIOUS
<1>1. recv = 0 /\ state = "IDLE"
  BY DEF Init, DevInit
<1> QED
  BY <1>1, InitType DEF AsyncInv, InPlace, WriteAhead

LEMMA StepAsync == AsyncInv /\ [Next]_vars => AsyncInv'
<1> SUFFICES ASSUME AsyncInv, [Next]_vars PROVE InPlace' /\ WriteAhead'
  BY StepType DEF AsyncInv
<1> USE DEF AsyncInv, TypeInv, InPlace, WriteAhead
<1>0. DevTypeOK
  BY DEF TypeOK
<1>1. CASE UNCHANGED devVars
  BY <1>1 DEF devVars
<1>2. CASE SatBegin
  <2>1. \/ recv' = 0 /\ erased' = 0 /\ state' = "RECEIVING"
        \/ recv' = recv /\ state' = "ERROR"
    BY <1>2 DEF SatBegin, BeginImage
  <2>2. part' = 1 - run /\ run' = run /\ flash' = flash
    BY <1>2 DEF SatBegin, BeginImage
  <2> QED
    BY <1>0, <2>1, <2>2 DEF DevTypeOK
<1>3. CASE SatData
  <2>1. Head(cmds) \in Cmds /\ Head(cmds).op = "DATA"
    BY <1>3, HeadType DEF SatData, Receive
  <2> DEFINE c == Head(cmds)
  <2>2. c.img \in Images /\ c.off \in Nat /\ c.len \in Nat
    BY <2>1 DEF Cmds
  <2>3. CASE UNCHANGED devVars
    BY <1>1, <2>3
  <2>4. CASE /\ state = "RECEIVING"
             /\ c.off = recv
             /\ WriteChunk(c.img, c.off, c.len)
    <3> HIDE DEF c
    <3>1. /\ UNCHANGED <<part, run, boot, pending>>
          /\ \A k \in 0 .. recv - 1 : flash'[part][k] = flash[part][k]
          /\ \/ state' = "ERROR" /\ recv' = recv
             \/ /\ state' = "RECEIVING"
                /\ recv' = recv + c.len
                /\ recv' <= erased'
                /\ erased' <= PartSize
                /\ \A k \in recv .. recv + c.len - 1 :
                      flash'[part][k] = Byte(c.img, c.off + (k - recv))
      BY <1>0, <2>2, <2>4, WriteEffect
    <3>2. CASE state' = "ERROR" /\ recv' = recv
      BY <1>0, <3>1, <3>2 DEF DevTypeOK
    <3>3. CASE /\ state' = "RECEIVING"
               /\ recv' = recv + c.len
               /\ recv' <= erased'
               /\ erased' <= PartSize
               /\ \A k \in recv .. recv + c.len - 1 :
                     flash'[part][k] = Byte(c.img, c.off + (k - recv))
      <4>1. \A k \in recv .. recv + c.len - 1 : flash'[part][k] = Byte(c.img, k)
        BY <1>0, <2>2, <2>4, <3>3 DEF DevTypeOK
      <4>2. erased' \in Nat /\ recv \in Nat
        BY StepType, <1>0 DEF DevTypeOK, TypeOK
      <4>3. WriteAhead'
        <5>1. part' = 1 - run
          BY <2>4, <3>1
        <5> QED
          BY <3>1, <3>3, <5>1
      <4>4. ASSUME NEW k \in 0 .. recv' - 1
            PROVE  k < PartSize /\ \E i \in Images : flash'[part'][k] = Byte(i, k)
        <5>1. k < PartSize
          BY <2>2, <3>3, <4>2
        <5>2. CASE k \in 0 .. recv - 1
          BY <3>1, <5>1, <5>2
        <5>3. CASE k \in recv .. recv + c.len - 1
          BY <2>2, <3>1, <4>1, <5>1, <5>3
        <5> QED
          BY <2>2, <3>3, <4>2, <5>2, <5>3
      <4> QED
        BY <4>3, <4>4
    <3> QED
      BY <3>1, <3>2, <3>3
  <2> QED
    BY <1>3, <2>3, <2>4 DEF SatData, ApplyData, WriteChunk
<1>4. CASE SatEnd
  <2>1. UNCHANGED <<recv, erased, part, flash, run>> /\ (state' = "RECEIVING" => state = "RECEIVING")
    BY <1>4 DEF SatEnd, EndImage, devVars
  <2> QED
    BY <2>1
<1>5. CASE SatAbort
  BY <1>5 DEF SatAbort, AbortImage
<1>6. CASE Restart
  <2>1. recv' = 0 /\ state' = "IDLE"
    BY <1>6 DEF Restart
  <2> QED
    BY <2>1
<1> QED
  BY <1>1, <1>2, <1>3, <1>4, <1>5, <1>6
     DEF Next, Step, Satellite, Advance, Timeout, Failure, vars, StartUpload,
         BeginConfirmed, ChunkConfirmed, EndConfirmed, BeginTimeout, ChunkTimeout,
         EndTimeout, HostCrash, RecvStatus, SatReboot, PowerCycle, LoseCommand, LoseStatus

\* Every byte counted as received lies at its own offset in the slot, whatever
\* the links lose or delay, however often chunks are resent, and whichever
\* uploads are abandoned (the offset test of ota_task, the append of ota_write).
THEOREM InPlaceCorrect == Spec => []InPlace
<1>1. AsyncInv => InPlace
  BY DEF AsyncInv
<1> QED
  BY <1>1, InitAsync, StepAsync, PTL DEF Spec

-----------------------------------------------------------------------------
(***************************************************************************)
(* From here on an upload starts on a link that has drained (QuietSpec):   *)
(* its inductive invariant, what follows from it, and that the transfer    *)
(* implements OtaInstall.                                                  *)
(***************************************************************************)

-----------------------------------------------------------------------------
(* Images in slots.                                                        *)

\* A confirmed prefix contains every shorter one.
LEMMA PrefixMonotone ==
  ASSUME NEW c, NEW i, NEW m \in Nat, NEW n \in Nat, n <= m, IsPrefix(c, i, m)
  PROVE  IsPrefix(c, i, n)
BY DEF IsPrefix

LEMMA EmptyPrefix == \A c, i : IsPrefix(c, i, 0)
BY DEF IsPrefix

\* The first byte of a slot that verifies names the only image it holds.
LEMMA HoldsOne ==
  ASSUME NEW c, NEW i \in Images, Holds(c, i)
  PROVE  Verified(c) /\ ImageOf(c) = i
<1>1. Verified(c)
  BY DEF Verified
<1>2. ASSUME NEW j \in Images, Holds(c, j)
      PROVE  j = i
  <2>1. 0 \in 0 .. Size[i] - 1 /\ 0 \in 0 .. Size[j] - 1
    OBVIOUS
  <2>2. c[0] = Byte(i, 0) /\ c[0] = Byte(j, 0)
    BY <1>2, <2>1 DEF Holds, IsPrefix
  <2> QED
    BY <2>2 DEF Byte
<1> QED
  BY <1>1, <1>2 DEF ImageOf

LEMMA BurntHolds ==
  ASSUME NEW i \in Images, Size[i] <= PartSize
  PROVE  Holds(Burnt(i), i)
BY DEF Holds, IsPrefix, Burnt

LEMMA InitQuiet == Init => IInv
<1> SUFFICES ASSUME Init PROVE IInv
  OBVIOUS
<1>1. /\ pc = "idle" /\ cmds = <<>> /\ stats = <<>> /\ upload = 0 /\ accepted = 0
      /\ state = "IDLE" /\ boot = 0 /\ run = 0 /\ ~pending
  BY DEF Init, DevInit
<1>2. PICK i \in Images : Size[i] <= PartSize /\ flash[0] = Burnt(i)
  BY DEF Init, DevInit, Slots
<1>3. Verified(flash[boot])
  BY <1>1, <1>2, BurntHolds DEF Verified
<1>4. TypeOK
  BY InitType DEF TypeInv
<1>5. CmdsCurrent
  BY <1>1 DEF CmdsCurrent
<1>6. Unaccepted /\ Early /\ Backed
  BY <1>1 DEF Unaccepted, Early, Backed, Live, HasCmd
<1>7. SlotsApart
  BY <1>1, <1>3 DEF SlotsApart
<1> QED
  BY <1>4, <1>5, <1>6, <1>7 DEF IInv

\* Starting an upload on a quiet link.
LEMMA StartStep ==
  ASSUME IInv, TypeOK', Quiet, NEW i \in Images, StartUpload(i)
  PROVE  IInv'
<1> DEFINE m == BeginMsg(i, upload + 1)
<1>1. m \in Cmds
  BY MsgType DEF IInv, TypeOK
<1>2. \A j \in 1 .. Len(cmds') : cmds'[j] = m
  <2>1. cmds' = Post(cmds, m) /\ cmds \in Seq(Cmds) /\ Len(cmds) = 0
    BY DEF StartUpload, Quiet, IInv, TypeOK
  <2> HIDE DEF m
  <2>2. \A j \in 1 .. Len(Post(cmds, m)) : j \in 1 .. Len(cmds) \/ Post(cmds, m)[j] = m
    BY <1>1, <2>1, PostEffect
  <2> QED
    BY <2>1, <2>2
<1>3. /\ stats' = <<>> /\ ~pending' /\ upload' > 0 /\ accepted' < upload' /\ pc' = "begin"
      /\ prog' = NoProgress
  BY DEF StartUpload, Quiet, IInv, TypeOK, CmdsCurrent, devVars
<1>4. CmdsCurrent'
  <2>1. m = BeginMsg(img', upload') /\ m.op = "BEGIN"
    BY DEF StartUpload, BeginMsg
  <2>2. accepted' <= upload' /\ upload' # 0
    BY <1>3 DEF IInv, TypeOK
  <2> HIDE DEF m
  <2> QED
    BY <1>2, <2>1, <2>2 DEF CmdsCurrent
<1>5. Unaccepted' /\ Early'
  BY <1>3 DEF Unaccepted, Early, Live, NoProgress, IInv, TypeOK
<1>6. Backed'
  BY <1>2, <1>3 DEF Backed, Live, HasCmd, BeginMsg, IInv, TypeOK
<1>7. SlotsApart'
  BY DEF StartUpload, SlotsApart, IInv, devVars
<1> QED
  BY <1>4, <1>5, <1>6, <1>7 DEF IInv

\* The commands in flight after a send.
LEMMA PostCmds ==
  ASSUME TypeOK, NEW m \in Cmds, cmds' = Post(cmds, m)
  PROVE  /\ Len(cmds) \in Nat /\ Len(cmds') \in Nat
         /\ \A j \in 1 .. Len(cmds') :
               \/ j \in 1 .. Len(cmds) /\ cmds'[j] = cmds[j]
               \/ j = Len(cmds) + 1 /\ cmds'[j] = m
         /\ \A op : HasCmd(op)' => HasCmd(op) \/ m.op = op
<1>1. /\ Len(cmds) \in Nat /\ Len(Post(cmds, m)) \in Nat
      /\ \A j \in 1 .. Len(cmds) : Post(cmds, m)[j] = cmds[j]
      /\ \A j \in 1 .. Len(Post(cmds, m)) :
            j \in 1 .. Len(cmds) \/ (j = Len(cmds) + 1 /\ Post(cmds, m)[j] = m)
  <2>1. cmds \in Seq(Cmds)
    BY DEF TypeOK
  <2> QED
    BY ONLY <2>1, m \in Cmds, PostEffect
<1> QED
  BY <1>1 DEF HasCmd

\* The commands in flight after one was received or lost.
LEMMA TailCmds ==
  ASSUME TypeOK, cmds # <<>>, cmds' = Tail(cmds)
  PROVE  /\ Len(cmds) \in Nat \ {0}
         /\ Head(cmds) = cmds[1]
         /\ \A j \in 1 .. Len(cmds') : j + 1 \in 1 .. Len(cmds) /\ cmds'[j] = cmds[j + 1]
         /\ Len(cmds') = Len(cmds) - 1
         /\ \A op : HasCmd(op)' => HasCmd(op)
<1>1. /\ Len(cmds) \in Nat \ {0}
      /\ Head(cmds) = cmds[1]
      /\ Len(Tail(cmds)) = Len(cmds) - 1
      /\ \A j \in 1 .. Len(Tail(cmds)) : j + 1 \in 1 .. Len(cmds) /\ Tail(cmds)[j] = cmds[j + 1]
  BY TailEffect DEF TypeOK
<1> QED
  BY <1>1 DEF HasCmd

\* Sending a command of the upload in progress.
LEMMA PostCurrent ==
  ASSUME IInv, NEW m \in Cmds, cmds' = Post(cmds, m),
         UNCHANGED <<img, upload, accepted>>, upload > 0,
         pc' = "begin" => pc = "begin",
         m.op = "BEGIN" => m = BeginMsg(img, upload) /\ pc = "begin",
         m.op = "DATA" => m = DataMsg(img, m.off) /\ m.off < Size[img],
         m.op # "BEGIN" => Live /\ pc' # "begin"
  PROVE  CmdsCurrent'
<1> USE DEF IInv, CmdsCurrent
<1>1. /\ Len(cmds) \in Nat /\ Len(cmds') \in Nat
      /\ \A j \in 1 .. Len(cmds') :
            \/ j \in 1 .. Len(cmds) /\ cmds'[j] = cmds[j]
            \/ j = Len(cmds) + 1 /\ cmds'[j] = m
  BY PostCmds
<1>2. upload' = upload /\ upload' # 0 /\ accepted' <= upload' /\ (Live' <=> Live)
  BY DEF TypeOK, Live
<1>3. \A j \in 1 .. Len(cmds') :
        /\ cmds'[j].op = "BEGIN" => cmds'[j] = BeginMsg(img', upload')
        /\ cmds'[j].op = "DATA" =>
              cmds'[j] = DataMsg(img', cmds'[j].off) /\ cmds'[j].off < Size[img']
  BY <1>1
<1>4. \A k \in 1 .. Len(cmds') : \A j \in 1 .. k :
        cmds'[k].op = "BEGIN" => cmds'[j].op = "BEGIN"
  <2> SUFFICES ASSUME NEW k \in 1 .. Len(cmds'), NEW j \in 1 .. k, cmds'[k].op = "BEGIN"
               PROVE  cmds'[j].op = "BEGIN"
    OBVIOUS
  <2>1. j \in 1 .. Len(cmds')
    BY <1>1
  <2>2. CASE k \in 1 .. Len(cmds) /\ cmds'[k] = cmds[k]
    <3>1. j \in 1 .. Len(cmds) /\ cmds[k].op = "BEGIN"
      BY <1>1, <2>2
    <3>2. cmds'[j] = cmds[j]
      BY <1>1, <2>1, <3>1
    <3> QED
      BY <2>2, <3>1, <3>2
  <2>3. CASE cmds'[k] = m
    BY <1>1, <2>1, <2>3
  <2> QED
    BY <1>1, <2>2, <2>3
<1>5. pc' = "begin" \/ (upload' > 0 /\ ~Live') =>
        \A j \in 1 .. Len(cmds') : cmds'[j].op = "BEGIN"
  BY <1>1, <1>2
<1> QED
  BY <1>2, <1>3, <1>4, <1>5

\* Receiving or losing a command.
LEMMA TailCurrent ==
  ASSUME IInv, cmds # <<>>, cmds' = Tail(cmds),
         UNCHANGED <<pc, img, upload>>, accepted' <= upload', Live => Live'
  PROVE  CmdsCurrent'
<1> USE DEF IInv, CmdsCurrent
<1>1. /\ Len(cmds) \in Nat \ {0}
      /\ Len(cmds') = Len(cmds) - 1
      /\ \A j \in 1 .. Len(cmds') : j + 1 \in 1 .. Len(cmds) /\ cmds'[j] = cmds[j + 1]
  BY TailCmds
<1>2. upload' # 0
  BY DEF TypeOK
<1>3. \A k \in 1 .. Len(cmds') : \A j \in 1 .. k :
        cmds'[k].op = "BEGIN" => cmds'[j].op = "BEGIN"
  <2> SUFFICES ASSUME NEW k \in 1 .. Len(cmds'), NEW j \in 1 .. k, cmds'[k].op = "BEGIN"
               PROVE  cmds'[j].op = "BEGIN"
    OBVIOUS
  <2>1. /\ k + 1 \in 1 .. Len(cmds) /\ j + 1 \in 1 .. k + 1 /\ j \in 1 .. Len(cmds')
        /\ cmds'[k] = cmds[k + 1] /\ cmds'[j] = cmds[j + 1]
    BY <1>1
  <2> QED
    BY <2>1
<1>4. \A j \in 1 .. Len(cmds') :
        /\ cmds'[j].op = "BEGIN" => cmds'[j] = BeginMsg(img', upload')
        /\ cmds'[j].op = "DATA" =>
              cmds'[j] = DataMsg(img', cmds'[j].off) /\ cmds'[j].off < Size[img']
  BY <1>1
<1>5. pc' = "begin" \/ (upload' > 0 /\ ~Live') =>
        \A j \in 1 .. Len(cmds') : cmds'[j].op = "BEGIN"
  BY <1>1
<1> QED
  BY <1>2, <1>3, <1>4, <1>5

\* What the upload goroutine leaves alone: the device and the status path.
LEMMA SlotsKept ==
  ASSUME SlotsApart, UNCHANGED devVars
  PROVE  SlotsApart'
BY DEF SlotsApart, devVars

LEMMA BeginConfirmedStep ==
  ASSUME IInv, TypeOK', BeginConfirmed
  PROVE  IInv'
<1> USE DEF IInv
<1>1. /\ upload > 0 /\ Live /\ pc = "begin" /\ pc' = "data" /\ off' = 0
      /\ UNCHANGED <<img, prog, upload, stats, accepted, devVars>>
  BY DEF BeginConfirmed, Unaccepted, CmdsCurrent, TypeOK
<1>2. 0 < Size[img] /\ DataMsg(img, 0) \in Cmds /\ cmds' = Post(cmds, DataMsg(img, 0))
  BY MsgType DEF BeginConfirmed, TypeOK
<1>3. \A op : HasCmd(op)' => HasCmd(op) \/ DataMsg(img, 0).op = op
  BY <1>2, PostCmds
<1>4. CmdsCurrent'
  BY <1>1, <1>2, PostCurrent DEF DataMsg
<1>5. Unaccepted'
  BY <1>1 DEF Unaccepted, Live
<1>6. Early'
  BY <1>1, <1>3 DEF Early, Live, devVars, DataMsg
<1>7. Backed'
  BY <1>1, <1>2, <1>3, EmptyPrefix
     DEF Backed, Live, Confirmed, devVars, DataMsg, TypeOK, DevTypeOK
<1> QED
  BY <1>1, <1>4, <1>5, <1>6, <1>7, SlotsKept

LEMMA BeginTimeoutStep ==
  ASSUME IInv, TypeOK', BeginTimeout
  PROVE  IInv'
<1> USE DEF IInv
<1>1. /\ pc = "begin" /\ pc' \in {"begin", "idle"} /\ upload > 0
      /\ UNCHANGED <<img, off, prog, upload, stats, accepted, devVars>>
  BY DEF BeginTimeout, CmdsCurrent, TypeOK
<1>2. CASE cmds' = Post(cmds, BeginMsg(img, upload))
  <2>1. BeginMsg(img, upload) \in Cmds
    BY MsgType DEF TypeOK
  <2>2. \A op : HasCmd(op)' => HasCmd(op) \/ BeginMsg(img, upload).op = op
    BY <1>2, <2>1, PostCmds
  <2>3. CmdsCurrent'
    BY <1>1, <1>2, <2>1, PostCurrent DEF BeginMsg
  <2>4. Unaccepted' /\ Early'
    BY <1>1, <2>2 DEF Unaccepted, Early, Live, devVars, BeginMsg
  <2>5. Backed'
    BY <1>1, <2>2 DEF Backed, Live, Confirmed, devVars, BeginMsg
  <2> QED
    BY <1>1, <2>3, <2>4, <2>5, SlotsKept
<1>3. CASE cmds' = cmds
  <2>1. \A op : HasCmd(op)' <=> HasCmd(op)
    BY <1>3 DEF HasCmd
  <2>2. CmdsCurrent'
    BY <1>1, <1>3 DEF CmdsCurrent, Live
  <2>3. Unaccepted' /\ Early'
    BY <1>1, <2>1 DEF Unaccepted, Early, Live, devVars
  <2>4. Backed'
    BY <1>1, <2>1 DEF Backed, Live, Confirmed, devVars
  <2> QED
    BY <1>1, <2>2, <2>3, <2>4, SlotsKept
<1> QED
  BY <1>2, <1>3 DEF BeginTimeout

LEMMA ChunkConfirmedStep ==
  ASSUME IInv, TypeOK', ChunkConfirmed
  PROVE  IInv'
<1> USE DEF IInv
<1> DEFINE next == ChunkEnd(img, off)
<1>1. /\ next \in Nat /\ off < next /\ next <= Size[img] /\ next <= prog.rcv
      /\ prog.rcv \in Nat
  BY ChunkBounds DEF ChunkConfirmed, Backed, TypeOK, Stats
<1>2. Live /\ pc = "data" /\ ~HasCmd("BEGIN") /\ upload > 0
  BY <1>1 DEF ChunkConfirmed, Backed, Early, TypeOK, Live
<1>3. /\ off' = next /\ pc' \in {"data", "end"}
      /\ pc' = "data" => next < Size[img]
      /\ pc' = "end" => next = Size[img]
      /\ UNCHANGED <<img, prog, upload, stats, accepted, devVars>>
  BY <1>1 DEF ChunkConfirmed, TypeOK
<1>4. Confirmed(next)
  BY <1>1, <1>2, PrefixMonotone DEF Backed, Confirmed
<1>5. \E m \in Cmds : /\ cmds' = Post(cmds, m)
                      /\ m.op = "DATA" => m = DataMsg(img, m.off) /\ m.off < Size[img]
                      /\ m.op # "BEGIN"
                      /\ m.op = "END" => next = Size[img]
  <2>1. CASE next < Size[img] /\ cmds' = Post(cmds, DataMsg(img, next))
    <3>1. DataMsg(img, next) \in Cmds
      BY <1>1, <2>1, MsgType DEF TypeOK
    <3> QED
      BY <2>1, <3>1 DEF DataMsg
  <2>2. CASE next >= Size[img] /\ cmds' = Post(cmds, EndMsg)
    BY <1>1, <2>2, MsgType DEF TypeOK, EndMsg
  <2> QED
    BY <2>1, <2>2 DEF ChunkConfirmed
<1> HIDE DEF next
<1>6. PICK m \in Cmds : /\ cmds' = Post(cmds, m)
                        /\ m.op = "DATA" => m = DataMsg(img, m.off) /\ m.off < Size[img]
                        /\ m.op # "BEGIN"
                        /\ m.op = "END" => next = Size[img]
  BY <1>5
<1>7. \A op : HasCmd(op)' => HasCmd(op) \/ m.op = op
  BY <1>6, PostCmds
<1>8. CmdsCurrent'
  BY <1>2, <1>3, <1>6, PostCurrent
<1>9. Unaccepted' /\ Early'
  BY <1>2, <1>3, <1>6, <1>7 DEF Unaccepted, Early, Live
<1>10. Backed'
  <2>1. state = "RECEIVING" => next <= recv
    <3>1. recv \in Nat
      BY DEF TypeOK, DevTypeOK
    <3>2. state = "RECEIVING" => prog.rcv <= recv
      BY <1>2 DEF Backed
    <3> QED
      BY <1>1, <3>1, <3>2
  <2>2. HasCmd("END")' => /\ Confirmed(Size[img])
                          /\ state = "RECEIVING" => Size[img] <= recv
    BY <1>4, <1>6, <1>7, <2>1 DEF Backed
  <2> QED
    BY <1>2, <1>3, <1>4, <2>1, <2>2 DEF Backed, Live, Confirmed, devVars
<1> QED
  BY <1>3, <1>8, <1>9, <1>10, SlotsKept

LEMMA ChunkTimeoutStep ==
  ASSUME IInv, TypeOK', ChunkTimeout
  PROVE  IInv'
<1> USE DEF IInv
<1>1. /\ Live /\ upload > 0 /\ pc = "data" /\ pc' \in {"data", "idle"}
      /\ off < Size[img]
      /\ UNCHANGED <<img, off, prog, upload, stats, accepted, devVars>>
  BY DEF ChunkTimeout, Backed, Live
<1>2. \E m \in Cmds : /\ cmds' = Post(cmds, m)
                      /\ m.op = "DATA" => m = DataMsg(img, m.off) /\ m.off < Size[img]
                      /\ m.op # "BEGIN" /\ m.op # "END"
  <2>1. DataMsg(img, off) \in Cmds /\ AbortMsg \in Cmds
    BY <1>1, MsgType DEF TypeOK
  <2> QED
    BY <1>1, <2>1 DEF ChunkTimeout, DataMsg, AbortMsg
<1>3. PICK m \in Cmds : /\ cmds' = Post(cmds, m)
                        /\ m.op = "DATA" => m = DataMsg(img, m.off) /\ m.off < Size[img]
                        /\ m.op # "BEGIN" /\ m.op # "END"
  BY <1>2
<1>4. \A op : HasCmd(op)' => HasCmd(op) \/ m.op = op
  BY <1>3, PostCmds
<1>5. CmdsCurrent'
  BY <1>1, <1>3, PostCurrent
<1>6. Unaccepted' /\ Early'
  BY <1>1, <1>3, <1>4 DEF Unaccepted, Early, Live, devVars
<1>7. Backed'
  BY <1>1, <1>3, <1>4 DEF Backed, Live, Confirmed, devVars
<1> QED
  BY <1>1, <1>5, <1>6, <1>7, SlotsKept

LEMMA EndTimeoutStep ==
  ASSUME IInv, TypeOK', EndTimeout
  PROVE  IInv'
<1> USE DEF IInv
<1>1. /\ Live /\ upload > 0 /\ pc = "end" /\ pc' \in {"end", "idle"}
      /\ off = Size[img]
      /\ UNCHANGED <<img, off, prog, upload, stats, accepted, devVars>>
      /\ cmds' = Post(cmds, EndMsg)
  BY DEF EndTimeout, Backed, Live
<1>2. EndMsg \in Cmds /\ EndMsg.op = "END"
  BY MsgType DEF EndMsg
<1>3. \A op : HasCmd(op)' => HasCmd(op) \/ EndMsg.op = op
  BY <1>1, <1>2, PostCmds
<1>4. ~HasCmd("BEGIN")
  BY <1>1 DEF Early, TypeOK
<1>5. CmdsCurrent'
  BY <1>1, <1>2, PostCurrent
<1>6. Unaccepted' /\ Early'
  BY <1>1, <1>2, <1>3, <1>4 DEF Unaccepted, Early, Live, devVars
<1>7. Backed'
  BY <1>1, <1>2, <1>3 DEF Backed, Live, Confirmed, devVars
<1> QED
  BY <1>1, <1>5, <1>6, <1>7, SlotsKept

LEMMA EndConfirmedStep ==
  ASSUME IInv, TypeOK', EndConfirmed
  PROVE  IInv'
<1> USE DEF IInv
<1>1. /\ pc = "end" /\ pc' = "idle"
      /\ UNCHANGED <<img, off, tries, prog, upload, cmds, stats, accepted, devVars>>
  BY DEF EndConfirmed
<1>2. \A op : HasCmd(op)' <=> HasCmd(op)
  BY <1>1 DEF HasCmd
<1>3. CmdsCurrent'
  BY <1>1 DEF CmdsCurrent, Live
<1>4. Unaccepted' /\ Early'
  BY <1>1, <1>2 DEF Unaccepted, Early, Live, devVars
<1>5. Backed'
  BY <1>1, <1>2 DEF Backed, Live, Confirmed, devVars
<1> QED
  BY <1>1, <1>3, <1>4, <1>5, SlotsKept

LEMMA HostCrashStep ==
  ASSUME IInv, TypeOK', HostCrash
  PROVE  IInv'
<1> USE DEF IInv
<1>1. /\ pc' = "idle" /\ prog'.rcv = 0 /\ prog'.state = "IDLE"
      /\ UNCHANGED <<img, off, tries, upload, cmds, stats, accepted, devVars>>
  BY DEF HostCrash, NoProgress
<1>2. \A op : HasCmd(op)' <=> HasCmd(op)
  BY <1>1 DEF HasCmd
<1>3. CmdsCurrent'
  BY <1>1 DEF CmdsCurrent, Live
<1>4. Unaccepted' /\ Early'
  BY <1>1, <1>2 DEF Unaccepted, Early, Live, devVars
<1>5. recv \in Nat
  BY DEF TypeOK, DevTypeOK
<1>6. Backed'
  BY <1>1, <1>2, <1>5, EmptyPrefix DEF Backed, Live, Confirmed, devVars
<1> QED
  BY <1>1, <1>3, <1>4, <1>6, SlotsKept

LEMMA RecvStatusStep ==
  ASSUME IInv, TypeOK', RecvStatus \/ LoseStatus
  PROVE  IInv'
<1> USE DEF IInv
<1>1. /\ stats # <<>> /\ stats' = Tail(stats) /\ (prog' = prog \/ prog' = stats[1])
      /\ UNCHANGED <<pc, img, off, tries, upload, cmds, accepted, devVars>>
  BY TailEffect DEF RecvStatus, LoseStatus, TypeOK, hostVars
<1>2. /\ Len(stats) \in Nat \ {0} /\ 1 \in 1 .. Len(stats)
      /\ \A j \in 1 .. Len(stats') : j + 1 \in 1 .. Len(stats) /\ stats'[j] = stats[j + 1]
  BY <1>1, TailEffect DEF TypeOK
<1>3. \A op : HasCmd(op)' <=> HasCmd(op)
  BY <1>1 DEF HasCmd
<1>4. CmdsCurrent'
  BY <1>1 DEF CmdsCurrent, Live, TypeOK
<1>5. Unaccepted'
  BY <1>1, <1>2 DEF Unaccepted, Live, devVars
<1>6. Early'
  BY <1>1, <1>2, <1>3 DEF Early, Live, devVars
<1>7. Backed'
  BY <1>1, <1>2, <1>3 DEF Backed, Live, Confirmed, devVars
<1> QED
  BY <1>1, <1>4, <1>5, <1>6, <1>7, SlotsKept

-----------------------------------------------------------------------------
(* The satellite's steps.                                                  *)

\* The statuses in flight after a report.
LEMMA ReportStats ==
  ASSUME TypeOK, TypeOK', Report
  PROVE  /\ Len(stats) \in Nat
         /\ \A j \in 1 .. Len(stats') :
               \/ j \in 1 .. Len(stats) /\ stats'[j] = stats[j]
               \/ stats'[j] = [rcv |-> recv', state |-> state']
<1> DEFINE m == [rcv |-> recv', state |-> state']
<1>1. m \in Stats /\ stats \in Seq(Stats)
  BY DEF TypeOK, DevTypeOK, Stats
<1>2. stats' = Post(stats, m)
  BY DEF Report
<1> HIDE DEF m
<1>3. /\ Len(stats) \in Nat
      /\ \A j \in 1 .. Len(stats) : Post(stats, m)[j] = stats[j]
      /\ \A j \in 1 .. Len(Post(stats, m)) :
            j \in 1 .. Len(stats) \/ (j = Len(stats) + 1 /\ Post(stats, m)[j] = m)
  BY ONLY <1>1, PostEffect
<1> QED
  BY <1>2, <1>3 DEF m

\* A command other than BEGIN at the head: its upload is in progress past the
\* BEGIN, and no BEGIN is on its way.
LEMMA HeadLive ==
  ASSUME IInv, cmds # <<>>, Head(cmds).op # "BEGIN"
  PROVE  Live /\ upload > 0 /\ pc # "begin" /\ ~HasCmd("BEGIN")
<1> USE DEF IInv, CmdsCurrent
<1>1. Len(cmds) \in Nat \ {0} /\ Head(cmds) = cmds[1] /\ 1 \in 1 .. Len(cmds)
  BY TailEffect DEF TypeOK
<1>2. upload > 0
  BY DEF TypeOK
<1>3. \A k \in 1 .. Len(cmds) : 1 \in 1 .. k
  BY <1>1
<1> QED
  BY <1>1, <1>2, <1>3 DEF HasCmd

LEMMA SatBeginStep ==
  ASSUME IInv, TypeOK', SatBegin
  PROVE  IInv'
<1> USE DEF IInv
<1>1. /\ cmds # <<>> /\ cmds' = Tail(cmds) /\ Head(cmds).op = "BEGIN"
      /\ UNCHANGED <<pc, img, off, prog, upload, flash, run, boot, pending>>
      /\ part' = 1 - run
  BY DEF SatBegin, Receive, BeginImage, hostVars
<1>2. Len(cmds) \in Nat \ {0} /\ Head(cmds) = cmds[1] /\ 1 \in 1 .. Len(cmds)
  BY <1>1, TailCmds
<1>3. Head(cmds) = BeginMsg(img, upload) /\ upload > 0
  BY <1>1, <1>2 DEF CmdsCurrent, TypeOK
<1>4. Head(cmds).img = img /\ Head(cmds).upload = upload
  BY <1>3 DEF BeginMsg
<1>5. HasCmd("BEGIN")
  BY <1>1, <1>2 DEF HasCmd
<1>6. ~HasCmd("END") /\ ~pending
  BY <1>3, <1>5 DEF Early, Unaccepted, Backed
<1>7. \A op : HasCmd(op)' => HasCmd(op)
  BY <1>1, TailCmds
<1>8. /\ Len(stats) \in Nat
      /\ \A j \in 1 .. Len(stats') :
            \/ j \in 1 .. Len(stats) /\ stats'[j] = stats[j]
            \/ stats'[j] = [rcv |-> recv', state |-> state']
  BY ReportStats DEF SatBegin
<1>9. boot = run /\ boot' = run' /\ ~pending'
  BY <1>1, <1>6 DEF SlotsApart
<1>10. CASE Size[img] <= PartSize
  <2>1. state' = "RECEIVING" /\ recv' = 0 /\ erased' = 0 /\ accepted' = upload
    BY <1>4, <1>10 DEF SatBegin, BeginImage, TypeOK
  <2>2. Live'
    BY <1>1, <1>3, <2>1 DEF Live
  <2>3. CmdsCurrent'
    BY <1>1, <2>1, <2>2, TailCurrent DEF TypeOK
  <2>4. prog.rcv = 0 /\ \A j \in 1 .. Len(stats) : stats[j].rcv = 0
    BY <1>3, <1>5, <1>10 DEF Early, Unaccepted
  <2>5. pc \in {"data", "end"} => off = 0
    BY <1>3, <1>5 DEF Early, Unaccepted
  <2>6. \A j \in 1 .. Len(stats') : stats'[j].rcv = 0
    BY <1>8, <2>1, <2>4
  <2>7. Unaccepted' /\ Early'
    BY <1>1, <1>6, <1>7, <1>9, <2>1, <2>2, <2>4, <2>5, <2>6 DEF Unaccepted, Early
  <2>8. Backed'
    BY <1>1, <1>6, <1>7, <1>10, <2>1, <2>2, <2>4, <2>5, <2>6, EmptyPrefix
       DEF Backed, Confirmed
  <2>9. SlotsApart'
    <3>1. part' # boot'
      BY <1>1, <1>9 DEF TypeOK, DevTypeOK, Slots
    <3> QED
      BY <1>1, <1>9, <2>1, <3>1 DEF SlotsApart
  <2> QED
    BY <2>3, <2>7, <2>8, <2>9
<1>11. CASE ~(Size[img] <= PartSize)
  <2>1. ~Live
    BY <1>11 DEF Backed
  <2>2. state' = "ERROR" /\ accepted' = accepted
    BY <1>4, <1>11 DEF SatBegin, BeginImage, TypeOK
  <2>3. ~Live'
    BY <1>1, <2>1, <2>2 DEF Live
  <2>4. CmdsCurrent'
    BY <1>1, <2>1, <2>2, TailCurrent DEF CmdsCurrent
  <2>5. \A j \in 1 .. Len(stats') : stats'[j].state # "RECEIVING"
    BY <1>3, <1>8, <2>1, <2>2 DEF Unaccepted
  <2>6. Unaccepted' /\ Early'
    BY <1>1, <1>3, <1>9, <1>11, <2>1, <2>3, <2>5 DEF Unaccepted, Early
  <2>7. Backed'
    BY <1>1, <1>3, <1>6, <1>7, <2>1, <2>3 DEF Backed, Unaccepted
  <2>8. SlotsApart'
    BY <1>1, <2>2 DEF SlotsApart
  <2> QED
    BY <2>4, <2>6, <2>7, <2>8
<1> QED
  BY <1>10, <1>11

\* A write of the next chunk of the upload in progress.
LEMMA WriteStep ==
  ASSUME IInv, TypeOK', NEW n \in Nat, state = "RECEIVING", Live, upload > 0,
         pc # "begin", ~HasCmd("BEGIN"), recv < Size[img],
         n = ChunkEnd(img, recv) - recv, WriteChunk(img, recv, n), Report,
         UNCHANGED <<pc, img, off, prog, upload, accepted>>,
         \A op : HasCmd(op)' => HasCmd(op)
  PROVE  Unaccepted' /\ Early' /\ Backed' /\ SlotsApart'
<1> USE DEF IInv
<1> DEFINE After(k) == IsPrefix(flash'[part'], img', k)
<1>1. /\ recv \in Nat /\ part \in Slots /\ boot \in Slots /\ part # boot
      /\ recv <= erased /\ erased <= PartSize /\ prog.rcv \in Nat /\ off \in Nat
      /\ recv' \in Nat /\ erased' \in Nat /\ Size[img] \in Nat /\ img \in Images
      /\ DevTypeOK
  BY DEF TypeOK, DevTypeOK, SlotsApart, Stats
<1>2. /\ \A s \in Slots : s # part => flash'[s] = flash[s]
      /\ UNCHANGED <<part, run, boot, pending>>
      /\ \A k \in 0 .. recv - 1 : flash'[part][k] = flash[part][k]
      /\ \/ state' = "ERROR" /\ recv' = recv
         \/ /\ state' = "RECEIVING"
            /\ recv' = recv + n
            /\ recv' <= erased'
            /\ erased' <= PartSize
            /\ \A k \in recv .. recv + n - 1 :
                  flash'[part][k] = Byte(img, recv + (k - recv))
  BY <1>1, WriteEffect
<1>3. Live'
  BY DEF Live
<1>4. ASSUME NEW k \in Nat, k <= recv, Confirmed(k)
      PROVE  After(k)
  BY <1>1, <1>2, <1>4 DEF Confirmed, IsPrefix
<1>5. recv <= recv' /\ After(recv)
  BY <1>1, <1>2, <1>4 DEF Backed
<1>6. After(recv')
  <2>1. CASE recv' = recv
    BY <1>1, <1>4, <2>1 DEF Backed, Confirmed
  <2>2. CASE /\ recv' = recv + n
             /\ recv' <= erased'
             /\ erased' <= PartSize
             /\ \A k \in recv .. recv + n - 1 :
                   flash'[part][k] = Byte(img, recv + (k - recv))
    <3>1. \A k \in recv .. recv' - 1 : flash'[part'][k] = Byte(img', k)
      BY <1>1, <1>2, <2>2
    <3>2. \A k \in 0 .. recv - 1 : flash'[part'][k] = Byte(img', k)
      BY <1>1, <1>5 DEF Confirmed, IsPrefix
    <3> QED
      BY <1>1, <2>2, <3>1, <3>2 DEF Confirmed, IsPrefix
  <2> QED
    BY <1>2, <2>1, <2>2
<1>7. /\ Len(stats) \in Nat
      /\ \A j \in 1 .. Len(stats') :
            \/ j \in 1 .. Len(stats) /\ stats'[j] = stats[j]
            \/ stats'[j] = [rcv |-> recv', state |-> state']
  BY ReportStats
<1>8. \A j \in 1 .. Len(stats) : stats[j].rcv \in Nat
  <2>1. stats \in Seq(Stats)
    BY DEF TypeOK
  <2>2. \A j \in 1 .. Len(stats) : stats[j] \in Stats
    BY <2>1
  <2> QED
    BY <2>2 DEF Stats
<1>9. /\ After(prog.rcv) /\ prog.rcv <= recv
      /\ \A j \in 1 .. Len(stats) : After(stats[j].rcv) /\ stats[j].rcv <= recv
  BY <1>1, <1>4, <1>8 DEF Backed
<1>10. \A j \in 1 .. Len(stats') :
          After(stats'[j].rcv) /\ stats'[j].rcv <= recv'
  <2> SUFFICES ASSUME NEW j \in 1 .. Len(stats')
               PROVE  After(stats'[j].rcv) /\ stats'[j].rcv <= recv'
    OBVIOUS
  <2>1. CASE j \in 1 .. Len(stats) /\ stats'[j] = stats[j]
    BY <1>1, <1>5, <1>8, <1>9, <2>1 DEF Confirmed
  <2>2. CASE stats'[j] = [rcv |-> recv', state |-> state']
    <3>1. stats'[j].rcv = recv'
      BY <2>2
    <3> QED
      BY <1>1, <1>6, <3>1 DEF Confirmed
  <2> QED
    BY <1>7, <2>1, <2>2
<1>11. Unaccepted' /\ Early'
  BY <1>3 DEF Unaccepted, Early
<1>12. Backed'
  <2>1. After(prog'.rcv) /\ prog'.rcv <= recv'
    BY <1>1, <1>5, <1>9 DEF Confirmed
  <2>2. pc' \in {"data", "end"} => After(off') /\ off' <= recv'
    <3>1. pc \in {"data", "end"} => Confirmed(off) /\ off <= recv
      BY DEF Backed
    <3> QED
      BY <1>1, <1>4, <1>5, <3>1
  <2>3. HasCmd("END")' => After(Size[img']) /\ Size[img'] <= recv'
    BY <1>1, <1>4, <1>5 DEF Backed, Confirmed
  <2> QED
    BY <1>3, <1>6, <1>10, <2>1, <2>2, <2>3 DEF Backed, Confirmed
<1>13. SlotsApart'
  BY <1>1, <1>2 DEF SlotsApart
<1> QED
  BY <1>11, <1>12, <1>13

\* A satellite step of the upload in progress that leaves slots and host alone.
LEMMA IdleStep ==
  ASSUME IInv, TypeOK', Live, upload > 0, pc # "begin", ~HasCmd("BEGIN"), Report,
         UNCHANGED <<pc, img, off, prog, upload, accepted, part, flash>>,
         recv' \in {0, recv}, state' = "RECEIVING" => state = "RECEIVING" /\ recv' = recv,
         \A op : HasCmd(op)' => HasCmd(op)
  PROVE  Unaccepted' /\ Early' /\ Backed'
<1> USE DEF IInv
<1> DEFINE After(k) == IsPrefix(flash'[part'], img', k)
<1>1. Live' /\ recv \in Nat
  BY DEF Live, TypeOK, DevTypeOK
<1>2. After(recv')
  BY <1>1, EmptyPrefix DEF Backed, Confirmed
<1>3. /\ Len(stats) \in Nat
      /\ \A j \in 1 .. Len(stats') :
            \/ j \in 1 .. Len(stats) /\ stats'[j] = stats[j]
            \/ stats'[j] = [rcv |-> recv', state |-> state']
  BY ReportStats
<1>4. \A j \in 1 .. Len(stats') :
         /\ After(stats'[j].rcv)
         /\ state' = "RECEIVING" => stats'[j].rcv <= recv'
  <2> SUFFICES ASSUME NEW j \in 1 .. Len(stats')
               PROVE  /\ After(stats'[j].rcv)
                      /\ state' = "RECEIVING" => stats'[j].rcv <= recv'
    OBVIOUS
  <2>1. CASE j \in 1 .. Len(stats) /\ stats'[j] = stats[j]
    BY <1>1, <2>1 DEF Backed, Confirmed
  <2>2. CASE stats'[j] = [rcv |-> recv', state |-> state']
    <3>1. stats'[j].rcv = recv'
      BY <2>2
    <3> QED
      BY <1>1, <1>2, <3>1 DEF Confirmed
  <2> QED
    BY <1>3, <2>1, <2>2
<1>5. Unaccepted' /\ Early'
  BY <1>1 DEF Unaccepted, Early
<1>6. Backed'
  BY <1>1, <1>2, <1>4 DEF Backed, Confirmed
<1> QED
  BY <1>5, <1>6

LEMMA SatDataStep ==
  ASSUME IInv, TypeOK', SatData
  PROVE  IInv'
<1> USE DEF IInv
<1> DEFINE c == Head(cmds)
<1>1. /\ cmds # <<>> /\ cmds' = Tail(cmds) /\ c.op = "DATA" /\ Report
      /\ UNCHANGED <<pc, img, off, prog, upload, accepted>>
  BY DEF SatData, Receive, hostVars
<1>2. Live /\ upload > 0 /\ pc # "begin" /\ ~HasCmd("BEGIN")
  BY <1>1, HeadLive
<1>3. Len(cmds) \in Nat \ {0} /\ c = cmds[1] /\ 1 \in 1 .. Len(cmds)
  BY <1>1, TailCmds
<1>4. /\ c = DataMsg(img, c.off) /\ c.off < Size[img]
  BY <1>1, <1>3 DEF CmdsCurrent
<1>5. c \in Cmds
  BY <1>1, HeadType
<1>6. c.img = img /\ c.len = ChunkEnd(img, c.off) - c.off /\ c.len \in Nat
  BY <1>1, <1>4, <1>5 DEF DataMsg, Cmds
<1>7. \A op : HasCmd(op)' => HasCmd(op)
  BY <1>1, TailCmds
<1>8. CmdsCurrent'
  BY <1>1, TailCurrent DEF CmdsCurrent, Live
<1> HIDE DEF c
<1>9. CASE UNCHANGED <<devVars, faults>>
  <2>1. Unaccepted' /\ Early' /\ Backed'
    BY <1>1, <1>2, <1>7, <1>9, IdleStep DEF devVars
  <2> QED
    BY <1>8, <1>9, <2>1, SlotsKept
<1>10. CASE state = "RECEIVING" /\ c.off = recv /\ WriteChunk(c.img, c.off, c.len)
  <2>1. Unaccepted' /\ Early' /\ Backed' /\ SlotsApart'
    BY <1>1, <1>2, <1>4, <1>6, <1>7, <1>10, WriteStep
  <2> QED
    BY <1>8, <2>1
<1> QED
  BY <1>9, <1>10 DEF SatData, ApplyData, WriteChunk, c

LEMMA SatEndStep ==
  ASSUME IInv, TypeOK', SatEnd
  PROVE  IInv'
<1> USE DEF IInv
<1>1. /\ cmds # <<>> /\ cmds' = Tail(cmds) /\ Head(cmds).op = "END" /\ Report /\ EndImage
      /\ UNCHANGED <<pc, img, off, prog, upload, accepted>>
  BY DEF SatEnd, Receive, hostVars
<1>2. Live /\ upload > 0 /\ pc # "begin" /\ ~HasCmd("BEGIN")
  BY <1>1, HeadLive
<1>3. \A op : HasCmd(op)' => HasCmd(op)
  BY <1>1, TailCmds
<1>4. CmdsCurrent'
  BY <1>1, TailCurrent DEF CmdsCurrent, Live
<1>5. /\ UNCHANGED <<recv, erased, part, flash, run>>
      /\ state' = "RECEIVING" => state = "RECEIVING"
  BY <1>1 DEF EndImage, devVars
<1>6. Unaccepted' /\ Early' /\ Backed'
  BY <1>1, <1>2, <1>3, <1>5, IdleStep
<1>7. CASE /\ state = "RECEIVING" /\ Verified(flash[part])
           /\ state' = "OK" /\ boot' = part /\ pending' = TRUE
  <2>1. Verified(flash'[boot'])
    BY <1>5, <1>7, Zenon
  <2>2. boot' # run'
    <3>1. part # boot /\ ~pending
      BY <1>7 DEF SlotsApart
    <3>2. boot = run
      BY <3>1 DEF SlotsApart
    <3> QED
      BY <1>5, <1>7, <3>1, <3>2
  <2>3. SlotsApart'
    BY <1>7, <2>1, <2>2 DEF SlotsApart
  <2> QED
    BY <1>4, <1>6, <2>3
<1>8. CASE UNCHANGED <<boot, pending>>
  BY <1>4, <1>5, <1>6, <1>8 DEF SlotsApart
<1> QED
  BY <1>1, <1>7, <1>8, Zenon DEF EndImage, devVars

LEMMA SatAbortStep ==
  ASSUME IInv, TypeOK', SatAbort
  PROVE  IInv'
<1> USE DEF IInv
<1>1. /\ cmds # <<>> /\ cmds' = Tail(cmds) /\ Head(cmds).op = "ABORT" /\ Report
      /\ state' = "IDLE" /\ recv' = 0
      /\ UNCHANGED <<pc, img, off, prog, upload, accepted, part, flash, run, boot, pending>>
  BY DEF SatAbort, AbortImage, Receive, hostVars
<1>2. Live /\ upload > 0 /\ pc # "begin" /\ ~HasCmd("BEGIN")
  BY <1>1, HeadLive
<1>3. \A op : HasCmd(op)' => HasCmd(op)
  BY <1>1, TailCmds
<1>4. CmdsCurrent'
  BY <1>1, TailCurrent DEF CmdsCurrent, Live
<1>5. Unaccepted' /\ Early' /\ Backed'
  BY <1>1, <1>2, <1>3, IdleStep
<1> QED
  BY <1>1, <1>4, <1>5 DEF SlotsApart

LEMMA RestartStep ==
  ASSUME IInv, TypeOK', SatReboot \/ PowerCycle
  PROVE  IInv'
<1> USE DEF IInv
<1>1. Restart /\ UNCHANGED <<pc, img, off, prog, upload, cmds, stats, accepted>>
  BY DEF SatReboot, PowerCycle, hostVars
<1>2. /\ state' = "IDLE" /\ recv' = 0 /\ pending' = FALSE
      /\ UNCHANGED <<part, flash, boot>>
  BY <1>1 DEF Restart
<1>3. run' = boot
  BY <1>1, Zenon DEF Restart, SlotsApart
<1>4. \A op : HasCmd(op)' <=> HasCmd(op)
  BY <1>1 DEF HasCmd
<1>5. CmdsCurrent'
  BY <1>1 DEF CmdsCurrent, Live
<1>6. Unaccepted' /\ Early'
  BY <1>1, <1>2, <1>4 DEF Unaccepted, Early, Live
<1>7. Backed'
  BY <1>1, <1>2, <1>4, EmptyPrefix DEF Backed, Live, Confirmed
<1>8. SlotsApart'
  BY <1>2, <1>3 DEF SlotsApart
<1> QED
  BY <1>5, <1>6, <1>7, <1>8

LEMMA LoseCommandStep ==
  ASSUME IInv, TypeOK', LoseCommand
  PROVE  IInv'
<1> USE DEF IInv
<1>1. /\ cmds # <<>> /\ cmds' = Tail(cmds)
      /\ UNCHANGED <<pc, img, off, prog, upload, stats, accepted, devVars>>
  BY DEF LoseCommand, hostVars
<1>2. \A op : HasCmd(op)' => HasCmd(op)
  BY <1>1, TailCmds
<1>3. CmdsCurrent'
  BY <1>1, TailCurrent DEF CmdsCurrent, Live
<1>4. Unaccepted' /\ Early'
  BY <1>1, <1>2 DEF Unaccepted, Early, Live, devVars
<1>5. Backed'
  BY <1>1, <1>2 DEF Backed, Live, Confirmed, devVars
<1> QED
  BY <1>1, <1>3, <1>4, <1>5, SlotsKept

-----------------------------------------------------------------------------
(* The invariant and what follows from it.                                 *)

LEMMA StepQuiet == IInv /\ [QuietNext]_vars => IInv'
<1> SUFFICES ASSUME IInv, [QuietNext]_vars PROVE IInv'
  OBVIOUS
<1>1. TypeInv
  BY DEF IInv, TypeInv, ChunkInside, Backed
<1>2. [Next]_vars
  BY DEF QuietNext, Next
<1>3. TypeOK'
  BY <1>1, <1>2, StepType DEF TypeInv
<1>4. CASE Satellite
  BY <1>3, <1>4, SatBeginStep, SatDataStep, SatEndStep, SatAbortStep, RestartStep
     DEF Satellite
<1>5. CASE Advance
  BY <1>3, <1>5, BeginConfirmedStep, ChunkConfirmedStep, EndConfirmedStep DEF Advance
<1>6. CASE Timeout
  BY <1>3, <1>6, BeginTimeoutStep, ChunkTimeoutStep, EndTimeoutStep DEF Timeout
<1>7. CASE Failure \/ RecvStatus
  BY <1>3, <1>7, HostCrashStep, RestartStep, LoseCommandStep, RecvStatusStep DEF Failure
<1>8. CASE Quiet /\ \E i \in Images : StartUpload(i)
  BY <1>3, <1>8, StartStep
<1>9. CASE UNCHANGED vars
  <2>1. UNCHANGED <<devVars, faults, pc, img, off, tries, prog, upload, cmds, stats, accepted>>
    BY <1>9 DEF vars, hostVars
  <2>2. \A op : HasCmd(op)' <=> HasCmd(op)
    BY <2>1 DEF HasCmd
  <2>3. CmdsCurrent'
    BY <2>1 DEF IInv, CmdsCurrent, Live
  <2>4. Unaccepted' /\ Early'
    BY <2>1, <2>2 DEF IInv, Unaccepted, Early, Live, devVars
  <2>5. Backed'
    BY <2>1, <2>2 DEF IInv, Backed, Live, Confirmed, devVars
  <2> QED
    BY <1>3, <2>1, <2>3, <2>4, <2>5, SlotsKept DEF IInv
<1> QED
  BY <1>4, <1>5, <1>6, <1>7, <1>8, <1>9 DEF QuietNext, Step

LEMMA QuietInvariant == QuietSpec => []IInv
BY InitQuiet, StepQuiet, PTL DEF QuietSpec

\* A gate opened for this upload was opened by this upload's OTA_BEGIN: the
\* status of an attempt before it never starts the chunks (OtaProg.Reset, and
\* the wait for "RECEIVING", on a link that has drained).
THEOREM GateCorrect == QuietSpec => []GateIsFresh
<1>1. IInv => GateIsFresh
  BY DEF IInv, Backed, GateIsFresh, Live
<1> QED
  BY <1>1, QuietInvariant, PTL

\* The offset the upload goroutine has confirmed is backed by the slot's bytes,
\* for every image, chunk size and number of retries, losses and restarts.
THEOREM ConfirmedCorrect == QuietSpec => []ConfirmedIsWritten
<1>1. IInv => ConfirmedIsWritten
  BY DEF IInv, Backed, ConfirmedIsWritten, Confirmed
<1> QED
  BY <1>1, QuietInvariant, PTL

\* otadata never names a slot that does not verify (ota_begin's choice of the
\* other slot, esp_ota_end before esp_ota_set_boot_partition).
THEOREM BootCorrect == QuietSpec => []BootSlotIsWhole
<1>1. IInv => BootSlotIsWhole
  BY DEF IInv, SlotsApart, BootSlotIsWhole
<1> QED
  BY <1>1, QuietInvariant, PTL

-----------------------------------------------------------------------------
(* The transfer implements OtaInstall.                                     *)

LEMMA InstallInit == Init => Install!Init
<1> SUFFICES ASSUME Init PROVE Install!Init
  OBVIOUS
<1>1. PICK i \in Images : Size[i] <= PartSize /\ flash[0] = Burnt(i)
  BY DEF Init, DevInit, Slots
<1>2. Booted = i
  BY <1>1, BurntHolds, HoldsOne DEF Init, DevInit, Booted
<1> QED
  BY <1>2 DEF Init, Install!Init, Requested

\* A step that keeps the boot slot and its content keeps the installed image.
LEMMA SameBooted ==
  ASSUME boot' = boot, flash'[boot] = flash[boot]
  PROVE  Booted' = Booted
BY DEF Booted, ImageOf, Verified, Holds, IsPrefix

LEMMA InstallStep ==
  IInv /\ [QuietNext]_vars => [Install!Next]_<<Requested, Booted>>
<1> SUFFICES ASSUME IInv, [QuietNext]_vars
             PROVE  [Install!Next]_<<Requested, Booted>>
  OBVIOUS
<1> USE DEF IInv
<1>1. CASE UNCHANGED <<img, upload, flash, boot>>
  BY <1>1, SameBooted DEF Requested
<1>2. CASE SatData
  <2>1. UNCHANGED <<img, upload>>
    BY <1>2 DEF SatData, hostVars
  <2>2. /\ boot' = boot
        /\ flash' = flash \/ (state = "RECEIVING" /\
              \A s \in Slots : s # part => flash'[s] = flash[s])
    <3>1. CASE UNCHANGED devVars
      BY <3>1 DEF devVars
    <3>2. CASE state = "RECEIVING" /\
               WriteChunk(Head(cmds).img, Head(cmds).off, Head(cmds).len)
      <4>1. /\ Head(cmds).img \in Images
            /\ Head(cmds).off \in Nat
            /\ Head(cmds).len \in Nat
        BY <1>2, HeadType DEF SatData, Receive, Cmds
      <4>2. recv <= erased /\ erased <= PartSize /\ DevTypeOK
        BY <3>2 DEF SlotsApart, TypeOK
      <4> QED
        BY <3>2, <4>1, <4>2, WriteEffect
    <3> QED
      BY <1>2, <3>1, <3>2 DEF SatData, ApplyData, WriteChunk
  <2>3. flash'[boot] = flash[boot] /\ boot' = boot
    BY <2>2 DEF SlotsApart, TypeOK, DevTypeOK
  <2> QED
    BY <2>1, <2>3, SameBooted DEF Requested
<1>3. CASE SatEnd
  <2>1. UNCHANGED <<img, upload, flash>> /\ cmds # <<>> /\ Head(cmds).op = "END"
    BY <1>3 DEF SatEnd, Receive, EndImage, hostVars, devVars
  <2>2. CASE boot' = boot
    BY <1>1, <2>1, <2>2
  <2>3. CASE boot' = part /\ state = "RECEIVING"
    <3>1. Live /\ upload > 0
      BY <2>1, HeadLive
    <3>2. HasCmd("END")
      BY <2>1, TailEffect DEF HasCmd, TypeOK
    <3>3. Size[img] <= PartSize /\ Confirmed(Size[img])
      BY <3>1, <3>2 DEF Backed
    <3>4. Holds(flash'[boot'], img)
      BY <2>1, <2>3, <3>3 DEF Holds, Confirmed
    <3>5. Booted' = img
      BY <3>4, HoldsOne DEF Booted, TypeOK
    <3>6. Requested = img /\ Requested' = img /\ Requested # NoImage
      BY <2>1, <3>1 DEF Requested, TypeOK
    <3> QED
      BY <3>5, <3>6 DEF Install!Next, Install!Switch
  <2> QED
    BY <1>3, <2>2, <2>3 DEF SatEnd, EndImage, devVars
<1>4. ASSUME NEW i \in Images, StartUpload(i)
      PROVE  Install!Next
  <2>1. UNCHANGED <<flash, boot>> /\ upload' > 0 /\ img' = i
    BY <1>4 DEF StartUpload, devVars, TypeOK
  <2>2. Booted' = Booted /\ Requested' = i
    BY <2>1, SameBooted DEF Requested
  <2> QED
    BY <2>2 DEF Install!Next, Install!Request
<1> QED
  BY <1>1, <1>2, <1>3, <1>4
     DEF QuietNext, Step, Satellite, Advance, Timeout, Failure, vars, devVars, hostVars,
         SatBegin, BeginImage, SatAbort, AbortImage, Restart,
         BeginConfirmed, ChunkConfirmed, EndConfirmed, BeginTimeout, ChunkTimeout,
         EndTimeout, HostCrash, RecvStatus, SatReboot, PowerCycle, LoseCommand, LoseStatus

\* On a link that has drained, an upload only ever replaces the image the device
\* boots by the whole image asked for last: the transfer implements OtaInstall.
THEOREM InstallCorrect == QuietSpec => InstallsRequested
BY InstallInit, InstallStep, QuietInvariant, PTL
   DEF QuietSpec, InstallsRequested, Install!Spec
=============================================================================
