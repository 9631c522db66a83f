------------------------------ MODULE OtaImage ------------------------------
(***************************************************************************)
(* Firmware images and flash contents, shared by the OTA modules.  An      *)
(* image is an opaque name with a length; byte k of image i is <<i, k>>,   *)
(* so two different images differ in every byte and a byte that landed at  *)
(* the wrong place can be told from one that landed at the right place.    *)
(***************************************************************************)
EXTENDS Integers, FiniteSets

CONSTANTS
  Images,       \* the firmware files an operator may upload
  Size,         \* Size[i] is the length of image i in bytes
  PartSize,     \* size of an application slot in bytes (s_part->size)
  Sector,       \* flash erase unit in bytes (4096 on the chip)
  Chunk,        \* bytes per OTA_DATA message (200 for a satellite)
  NoImage       \* stands for "no image": an erased byte, a slot that does not verify

ASSUME ImageAssumption ==
  /\ Size \in [Images -> Nat \ {0}]
  /\ PartSize \in Nat \ {0}
  /\ Chunk \in Nat \ {0}
  /\ Sector \in Nat \ {0}
  /\ PartSize % Sector = 0
  /\ NoImage \notin Images

Slots   == {0, 1}                        \* ota_0 and ota_1
Byte(i, k) == <<i, k>>
Blank   == <<NoImage, 0>>
Bytes   == (Images \cup {NoImage}) \X Nat
Content == [0 .. PartSize - 1 -> Bytes]

\* "(end + 4095) & ~4095u": the end of the last sector an n-byte prefix touches.
SectorEnd(n) == ((n + Sector - 1) \div Sector) * Sector

\* The slice bounds of the upload loop: "end := off + chunk", clipped to the image.
ChunkEnd(i, off) == IF off + Chunk > Size[i] THEN Size[i] ELSE off + Chunk

\* The first n bytes of content c are the first n bytes of image i.
IsPrefix(c, i, n) == n <= PartSize /\ \A k \in 0 .. n - 1 : c[k] = Byte(i, k)

\* esp_image_verify: the header at the start of the slot gives the length, and
\* the checksum covers that many bytes, wherever they came from.
Holds(c, i) == Size[i] <= PartSize /\ IsPrefix(c, i, Size[i])

Verified(c) == \E i \in Images : Holds(c, i)

ImageOf(c) == IF Verified(c) THEN CHOOSE i \in Images : Holds(c, i) ELSE NoImage

Erased   == [k \in 0 .. PartSize - 1 |-> Blank]
Burnt(i) == [k \in 0 .. PartSize - 1 |-> IF k < Size[i] THEN Byte(i, k) ELSE Blank]
=============================================================================
