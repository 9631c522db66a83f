------------------------------ MODULE WireStream ------------------------------
(* The framing of proto/proto.go and the host's decoder of a byte stream.  A   *)
(* frame is                                                                    *)
(*     Magic0 Magic1 Ver Type Length Payload... Crc                            *)
(* with the 16-bit length and CRC as one symbol each.  The stream is cut into  *)
(* reads anywhere, and bytes of it may be changed or lost on the way.          *)
EXTENDS Integers, SequencesExt, Listing

CONSTANTS
  Magic0, Magic1, Ver,
  MaxPayload,
  HeaderLen,           \* fixed part of a payload, by message type
  FrameType, SpectrumType,  \* the types with a variable part
  FftAt, ScaleAt, MaxFft,  \* bytes of a spectrum header that are checked
  Traffic,   \* <<type, payload>> pairs that are sent
  Noise,      \* values a damaged byte may take
  MaxSent, MaxFaults   \* bounds: messages sent, bytes damaged or lost

ASSUME WireAssumption ==
  /\ Magic0 # Magic1 /\ {Magic0, Magic1, Ver} \cup Noise \subseteq Nat
  /\ MaxPayload \in Nat /\ {FrameType, SpectrumType} \subseteq DOMAIN HeaderLen
  /\ Traffic \subseteq Nat \X Seq(Nat) /\ \A m \in Traffic : Len(m[2]) <= MaxPayload

VARIABLES
  line,    \* bytes under way, each with the message it is of
  buf,     \* StreamDecoder.buf, its bytes as on the line
  got,     \* messages decoded and parsed
  sent,    \* messages sent (history variable)
  hurt     \* messages that lost or changed a byte (history variable)
wireVars == <<line, buf, got, sent, hurt>>

\* A checksum of 16 bits: it tells a damaged body from the one it was made for.
CRC16(body) == FoldLeft(LAMBDA acc, b : (acc * 257 + b + 1) % 65521, 1, body)

Encode(m) ==
  LET body == <<Ver, m[1], Len(m[2])>> \o m[2]
  IN <<Magic0, Magic1>> \o body \o <<CRC16(body)>>

\* A payload too short for its type, or whose inner length runs over its end,
\* is no message, nor is one of an unknown type.
ParsePayload(type, p) ==
  /\ type \in DOMAIN HeaderLen
  /\ Len(p) >= HeaderLen[type]
  /\ type = FrameType => HeaderLen[type] + p[HeaderLen[type]] <= Len(p)
  /\ type = SpectrumType => /\ p[FftAt] <= MaxFft /\ p[ScaleAt] # 0
                        /\ Len(p) >= HeaderLen[type] + 2 ^ p[FftAt]

\* What the read loop hands on of a frame: a message, if it parses.
Message(type, p) == IF ParsePayload(type, p) THEN <<<<type, p>>>> ELSE <<>>

-------------------------------------------------------------------------------
\* A variant of AfterBadCRC: the frame is skipped whole.
AfterBadCRCWhole(total) == total
\* Where the scan goes on after a frame with a bad checksum: one byte further.
AfterBadCRC(total) == 1

\* What the scan does at position i of b: wait for more, move on, or take a frame.
Look(b, i) ==
  LET magic == i + 1 > Len(b) \/ (b[i] = Magic0 /\ b[i + 1] = Magic1)
      plen == b[i + 4]
      total == 6 + plen
      wait == [move |-> 0, msgs |-> <<>>]
      past(n) == [move |-> n, msgs |-> <<>>]
  IN IF ~magic THEN past(1)
     ELSE IF i + 4 > Len(b) THEN wait
     ELSE IF b[i + 2] # Ver \/ plen \notin 0..MaxPayload THEN past(1)
     ELSE IF i + total - 1 > Len(b) THEN wait
     ELSE IF CRC16(SubSeq(b, i + 2, i + 4 + plen)) # b[i + total - 1] THEN past(AfterBadCRC(total))
     ELSE [move |-> total, msgs |-> Message(b[i + 3], SubSeq(b, i + 5, i + 4 + plen))]

\* From each position of b: the messages the scan finds, and where it ends.
Scan(b) ==
  LET scan[i \in 1..(Len(b) + 1)] ==
        LET l == Look(b, i)
        IN IF l.move = 0 THEN [msgs |-> <<>>, at |-> i]
           ELSE LET later == scan[i + l.move]
                IN [msgs |-> l.msgs \o later.msgs, at |-> later.at]
  IN scan
Feed(b) == Scan(b)[1]

Bytes(s) == [i \in DOMAIN s |-> s[i].v]

-------------------------------------------------------------------------------
WireInit == line = <<>> /\ buf = <<>> /\ got = <<>> /\ sent = <<>> /\ hurt = {}

Send(m) ==
  /\ Len(sent) < MaxSent
  /\ sent' = Append(sent, m)
  /\ LET bytes == Encode(m)
     IN line' = line \o [i \in DOMAIN bytes |-> [v |-> bytes[i], of |-> Len(sent) + 1]]
  /\ UNCHANGED <<buf, got, hurt>>

Damage(i, v) ==
  /\ Cardinality(hurt) < MaxFaults /\ line[i].v # v
  /\ line' = [line EXCEPT ![i].v = v]
  /\ hurt' = hurt \cup {line[i].of}
  /\ UNCHANGED <<buf, got, sent>>

LoseByte(i) ==
  /\ Cardinality(hurt) < MaxFaults
  /\ line' = RemoveAt(line, i)
  /\ hurt' = hurt \cup {line[i].of}
  /\ UNCHANGED <<buf, got, sent>>

\* A read of n bytes from the port.
ReadChunk(n) ==
  /\ LET all == buf \o SubSeq(line, 1, n)
         f == Feed(Bytes(all))
     IN buf' = SubSeq(all, f.at, Len(all)) /\ got' = got \o f.msgs
  /\ line' = SubSeq(line, n + 1, Len(line))
  /\ UNCHANGED <<sent, hurt>>

WireNext ==
  \/ \E m \in Traffic : Send(m)
  \/ \E i \in DOMAIN line, v \in Noise : Damage(i, v)
  \/ \E i \in DOMAIN line : LoseByte(i)
  \/ \E n \in 1..Len(line) : ReadChunk(n)

WireSpec == WireInit /\ [][WireNext]_wireVars

-------------------------------------------------------------------------------
\* What is held back and under way, and after it enough quiet to end a wait for
\* a length that never was.
Stream == buf \o line
Quiet == [i \in 1..(MaxPayload + 6) |-> Magic1]
\* What was decoded, and what the rest of the stream will be decoded to.
Decoded == got \o Feed(Bytes(Stream) \o Quiet).msgs

\* The checksum is good enough: no byte of a damaged message starts a frame.
NoForgery ==
  \A i \in DOMAIN Stream : Stream[i].of \in hurt => Look(Bytes(Stream) \o Quiet, i).move = 1

WireTypeOK ==
  /\ got \in Seq(Traffic) /\ sent \in Seq(Traffic)
  /\ hurt \subseteq DOMAIN sent
  /\ Len(buf) < MaxPayload + 6

\* The messages that parse and that no fault touched.
Intact == {j \in DOMAIN sent : j \notin hurt /\ ParsePayload(sent[j][1], sent[j][2])}
\* Every message that no fault touched comes out once, in order and unchanged,
\* wherever the reads cut the stream, and nothing else ever does.
NothingSkipped ==
  LET due == InOrder(Intact, <) IN Decoded = [k \in DOMAIN due |-> sent[due[k]]]
===============================================================================
