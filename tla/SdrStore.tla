------------------------------- MODULE SdrStore -------------------------------
(* The host's wideband traces (sdr/sdr.go): the segments of a sweep, one per   *)
(* LO, are collected per radio until all are in or one of another sweep comes, *)
(* stitched into a trace and kept in a bounded history.                        *)
(*                                                                             *)
(* Frequencies are counted in bins.  A level is the set of segments it is      *)
(* taken from: none (missing), one (measured) or two (bridged between them).   *)
EXTENDS Integers, SequencesExt

CONSTANTS
  Radios,      \* ids of the sweeping radios, the collision bit stripped
  Plan,        \* LO of each segment of a sweep, by radio
  Bins,        \* bins of a segment, over the sample rate
  UsableHalf,  \* bins either side of the LO that are trusted
  DcBins, MaxGapFill, HistoryLen,
  MaxSweeps    \* bound: sweeps a radio makes

ASSUME SdrAssumption ==
  /\ \A r \in Radios : Plan[r] \in Seq(Nat) /\ Plan[r] # <<>>
  /\ {Bins, UsableHalf, HistoryLen} \subseteq Nat \ {0}
  /\ {DcBins, MaxGapFill, MaxSweeps} \subseteq Nat

VARIABLES
  board,  \* the radio's next segment: sweep and index
  pend,   \* the sweep being collected, or NoSweep
  hist,   \* the traces kept, oldest first
  lost    \* segments that did not come or were cleared (history variable)
sdrVars == <<board, pend, hist, lost>>

NoSweep == [sweep |-> -1, segs |-> {}, count |-> 0]
SdrInit ==
  /\ board = [r \in Radios |-> [sweep |-> 0, idx |-> 1]]
  /\ pend = [r \in Radios |-> NoSweep]
  /\ hist = [r \in Radios |-> <<>>]
  /\ lost = {}

-------------------------------------------------------------------------------
Distance(a, b) == IF a < b THEN b - a ELSE a - b
Half == Min({UsableHalf, Bins \div 2 - 1})

\* fillGaps: holes of at most MaxGapFill points with a level on both sides.
FillGaps(v) ==
  LET before(j) == {i \in DOMAIN v : i < j /\ v[i] # {}}
      after(j) == {i \in DOMAIN v : i > j /\ v[i] # {}}
      bridged(j) == /\ before(j) # {} /\ after(j) # {}
                    /\ Min(after(j)) - Max(before(j)) - 1 <= MaxGapFill
  IN [j \in DOMAIN v |-> IF v[j] = {} /\ bridged(j)
                         THEN v[Max(before(j))] \cup v[Min(after(j))] ELSE v[j]]

\* The nearest LO wins, the first of equals; its DC notch stays a hole.
Levels(usable) ==
  LET lo(g) == g.lo
      points == (Min({lo(g) : g \in usable}) - UsableHalf)..(Max({lo(g) : g \in usable}) + UsableHalf)
      near(f) == {g \in usable : Distance(f, g.lo) <= Half}
      best(f) == CHOOSE g \in near(f) : \A h \in near(f) :
                   \/ Distance(f, g.lo) < Distance(f, h.lo)
                   \/ Distance(f, g.lo) = Distance(f, h.lo) /\ g.idx <= h.idx
  IN [f \in points |-> IF near(f) = {} THEN {}
                       ELSE IF Distance(f, best(f).lo) <= DcBins THEN {} ELSE {best(f).idx}]

Stitch(p) ==
  LET usable == {g \in p.segs : ~g.failed}
      missing == IF p.count > Cardinality(p.segs) THEN p.count - Cardinality(p.segs) ELSE 0
  IN [sweep |-> p.sweep, missing |-> missing, dropped |-> missing > 0,
      failed |-> Cardinality(p.segs) - Cardinality(usable),
      levels |-> IF usable = {} THEN <<>> ELSE FillGaps(Levels(usable))]

Keep(h, t) == LET a == Append(h, t)
              IN IF Len(a) > HistoryLen THEN SubSeq(a, Len(a) - HistoryLen + 1, Len(a)) ELSE a
History(r, n) == IF n > 0 /\ Len(hist[r]) > n
                 THEN SubSeq(hist[r], Len(hist[r]) - n + 1, Len(hist[r])) ELSE hist[r]

\* A variant of Collect: a segment of the next sweep joins the one under way.
CollectAny(p, h, seg, count) ==
  LET q == IF p = NoSweep THEN [sweep |-> seg.sweep, segs |-> {}, count |-> count] ELSE p
      q1 == [q EXCEPT !.segs = {g \in @ : g.idx # seg.idx} \cup {seg}]
      whole == count > 0 /\ Cardinality(q1.segs) >= q.count
  IN [pend |-> IF whole THEN NoSweep ELSE q1, hist |-> IF whole THEN Keep(h, Stitch(q1)) ELSE h]
\* One segment: it may end the sweep before it, and may complete its own.
Collect(p, h, seg, count) ==
  LET other == p # NoSweep /\ p.sweep # seg.sweep
      h1 == IF other THEN Keep(h, Stitch(p)) ELSE h
      q == IF other \/ p = NoSweep
           THEN [sweep |-> seg.sweep, segs |-> {}, count |-> count] ELSE p
      q1 == [q EXCEPT !.segs = {g \in @ : g.idx # seg.idx} \cup {seg}]
      whole == count > 0 /\ Cardinality(q1.segs) >= q.count
  IN [pend |-> IF whole THEN NoSweep ELSE q1, hist |-> IF whole THEN Keep(h1, Stitch(q1)) ELSE h1]

-------------------------------------------------------------------------------
NextSegment(r) == IF board[r].idx < Len(Plan[r]) THEN [board[r] EXCEPT !.idx = @ + 1]
                  ELSE [sweep |-> board[r].sweep + 1, idx |-> 1]
Sweeping(r) == board[r].sweep < MaxSweeps

\* A segment arrives, its capture failed or not.
Add(r) ==
  /\ Sweeping(r)
  /\ \E failed \in BOOLEAN :
       LET b == board[r]
           seg == [sweep |-> b.sweep, idx |-> b.idx, lo |-> Plan[r][b.idx], failed |-> failed]
           c == Collect(pend[r], hist[r], seg, Len(Plan[r]))
       IN pend' = [pend EXCEPT ![r] = c.pend] /\ hist' = [hist EXCEPT ![r] = c.hist]
  /\ board' = [board EXCEPT ![r] = NextSegment(r)]
  /\ UNCHANGED lost

\* A segment is lost on the SPI ring, the relay or the serial line.
Lose(r) ==
  /\ Sweeping(r)
  /\ lost' = lost \cup {<<r, board[r].sweep, board[r].idx>>}
  /\ board' = [board EXCEPT ![r] = NextSegment(r)]
  /\ UNCHANGED <<pend, hist>>

\* /api/sdr/clear drops the history and the sweeps under way.
Clear ==
  /\ lost' = lost \cup UNION {{<<r, pend[r].sweep, g.idx>> : g \in pend[r].segs} : r \in Radios}
  /\ pend' = [r \in Radios |-> NoSweep]
  /\ hist' = [r \in Radios |-> <<>>]
  /\ UNCHANGED board

SdrNext == (\E r \in Radios : Add(r) \/ Lose(r)) \/ Clear

-------------------------------------------------------------------------------
SdrTypeOK ==
  /\ board \in [Radios -> [sweep : 0..MaxSweeps, idx : Nat]]
  /\ \A r \in Radios : board[r].idx \in DOMAIN Plan[r] /\ Len(hist[r]) <= HistoryLen
  /\ \A r \in Radios : pend[r] = NoSweep \/ pend[r].segs # {}

\* A trace shows one sweep: it counts as missing exactly the segments that did
\* not come, its levels are from its own LOs, a level bridges neighbours only,
\* and traces follow each other in the order of the sweeps.
TraceIsSweep ==
  \A r \in Radios : \A k \in DOMAIN hist[r] :
    LET t == hist[r][k]
        came == {i \in DOMAIN Plan[r] : <<r, t.sweep, i>> \notin lost}
        measured == UNION {t.levels[f] : f \in DOMAIN t.levels}
    IN /\ t.missing = Len(Plan[r]) - Cardinality(came)
       /\ measured \subseteq came
       /\ \A f \in DOMAIN t.levels : Cardinality(t.levels[f]) <= 2
       /\ k > 1 => hist[r][k - 1].sweep < t.sweep
===============================================================================
