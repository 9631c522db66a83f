------------------------------- MODULE SpiLink -------------------------------
(***************************************************************************)
(* The SPI link between the primary and one satellite.  The satellite is   *)
(* the slave: it can only answer when the primary clocks a transaction,    *)
(* with what it put in the transmit buffer beforehand, and it asks for one *)
(* by raising DATA_READY (satellite/transport_spi.c).  The primary's poll  *)
(* task owns every transaction; commands to relay wait in a queue          *)
(* (standalone/spi_master.c).                                              *)
(*                                                                         *)
(* Messages and commands are numbers in the order they are handed over; a  *)
(* transaction carries up to Xfer messages and one command.  On the        *)
(* satellite's one core the SPI task has the highest priority, so no other *)
(* task of it runs between two steps of the SPI task that do not block.    *)
(* The semaphore s_wake only shortens the poll task's wait, which ends     *)
(* after 50 ms without it, and is left out.                                *)
(***************************************************************************)
EXTENDS Naturals, Sequences, SequencesExt

CONSTANTS
  Xfer,       \* messages a transaction carries
  RingSize,   \* messages the satellite's ring holds
  OutDepth,   \* commands the primary's queue holds
  MaxSends,   \* bound: messages handed to the link
  MaxCommands \* bound: commands handed to the link

ASSUME SpiAssumption ==
  /\ Xfer \in Nat \ {0} /\ RingSize \in Nat \ {0} /\ OutDepth \in Nat \ {0}
  /\ MaxSends \in Nat /\ MaxCommands \in Nat

VARIABLES
  ring,      \* s_ring
  tx,        \* the satellite's transmit buffer
  slave,     \* spi_task: "fill", "armed" (transaction queued) or "handle"
  rx,        \* the command the last transaction brought, 0 if none
  ready,     \* the DATA_READY line
  raising,   \* senders that have appended and not yet raised the line
  out,       \* s_out_q
  master,    \* poll_task: "look", "transact" or "wait"
  item,      \* the command poll_task took from the queue, 0 if none
  sends,     \* messages tried so far
  sent,      \* history: messages accepted into the ring
  delivered, \* history: messages the primary decoded
  issued,    \* commands queued so far
  obeyed     \* history: commands the satellite decoded

satVars == <<ring, tx, slave, rx, raising, sends, sent, obeyed>>
priVars == <<out, master, item, issued, delivered>>
vars    == <<satVars, priVars, ready>>

TypeOK ==
  /\ ring \in Seq(1..MaxSends) /\ Len(ring) <= RingSize
  /\ tx \in Seq(1..MaxSends) /\ Len(tx) <= Xfer
  /\ slave \in {"fill", "armed", "handle"}
  /\ rx \in 0..MaxCommands /\ item \in 0..MaxCommands
  /\ ready \in BOOLEAN /\ raising \in Nat
  /\ out \in Seq(1..MaxCommands) /\ Len(out) <= OutDepth
  /\ master \in {"look", "transact", "wait"}
  /\ sends \in 0..MaxSends /\ issued \in 0..MaxCommands
  /\ sent \in Seq(1..MaxSends) /\ delivered \in Seq(1..MaxSends)
  /\ obeyed \in Seq(1..MaxCommands)

Init ==
  /\ ring = <<>> /\ tx = <<>> /\ slave = "fill" /\ rx = 0
  /\ ready = FALSE /\ raising = 0
  /\ out = <<>> /\ master = "look" /\ item = 0
  /\ sends = 0 /\ sent = <<>> /\ delivered = <<>>
  /\ issued = 0 /\ obeyed = <<>>

----------------------------------------------------------------------------
(* The satellite                                                           *)

\* spi_slave_send, in the lock: append, or refuse when the ring is full.
Send ==
  /\ sends < MaxSends
  /\ sends' = sends + 1
  /\ IF Len(ring) < RingSize
     THEN ring' = Append(ring, sends') /\ sent' = Append(sent, sends') /\ raising' = raising + 1
     ELSE UNCHANGED <<ring, sent, raising>>
  /\ UNCHANGED <<tx, slave, rx, obeyed, priVars, ready>>

\* ... then, outside it, DATA_READY goes up.
Raise ==
  /\ raising > 0
  /\ raising' = raising - 1
  /\ ready' = TRUE
  /\ UNCHANGED <<ring, tx, slave, rx, sends, sent, obeyed, priVars>>

\* A variant: the line goes down whenever the buffer was filled.
FillLowers ==
  LET n == IF Len(ring) < Xfer THEN Len(ring) ELSE Xfer IN
  /\ slave = "fill"
  /\ tx' = SubSeq(ring, 1, n)
  /\ ring' = SubSeq(ring, n + 1, Len(ring))
  /\ ready' = FALSE
  /\ slave' = "armed"
  /\ UNCHANGED <<rx, raising, sends, sent, obeyed, priVars>>

\* A variant: the buffer takes the whole ring.
FillAll ==
  /\ slave = "fill"
  /\ tx' = ring /\ ring' = <<>> /\ ready' = FALSE
  /\ slave' = "armed"
  /\ UNCHANGED <<rx, raising, sends, sent, obeyed, priVars>>

\* fill_tx: what the next transaction will carry leaves the ring now; the line
\* goes down if that empties it.  Then the transaction is queued.
Fill ==
  LET n == IF Len(ring) < Xfer THEN Len(ring) ELSE Xfer IN
  /\ slave = "fill"
  /\ tx' = SubSeq(ring, 1, n)
  /\ ring' = SubSeq(ring, n + 1, Len(ring))
  /\ ready' = IF ring' = <<>> THEN FALSE ELSE ready
  /\ slave' = "armed"
  /\ UNCHANGED <<rx, raising, sends, sent, obeyed, priVars>>

\* spi_task decodes what came in and runs the command (on_command).
Handle ==
  /\ slave = "handle"
  /\ obeyed' = IF rx = 0 THEN obeyed ELSE Append(obeyed, rx)
  /\ rx' = 0
  /\ slave' = "fill"
  /\ UNCHANGED <<ring, tx, raising, sends, sent, priVars, ready>>

----------------------------------------------------------------------------
(* The primary                                                             *)

\* spi_master_send_to blocks while the queue is full.
Queue ==
  /\ issued < MaxCommands /\ Len(out) < OutDepth
  /\ issued' = issued + 1
  /\ out' = Append(out, issued')
  /\ UNCHANGED <<master, item, delivered, satVars, ready>>

\* A variant: only queued commands start a transaction.
LookOut ==
  /\ master = "look"
  /\ IF out = <<>> THEN item' = 0 /\ UNCHANGED out ELSE item' = Head(out) /\ out' = Tail(out)
  /\ master' = IF out # <<>> THEN "transact" ELSE "wait"
  /\ UNCHANGED <<issued, delivered, satVars, ready>>

\* poll_task takes a command if there is one and reads the line; with neither
\* it waits.
Look ==
  /\ master = "look"
  /\ IF out = <<>> THEN item' = 0 /\ UNCHANGED out ELSE item' = Head(out) /\ out' = Tail(out)
  /\ master' = IF out # <<>> \/ ready THEN "transact" ELSE "wait"
  /\ UNCHANGED <<issued, delivered, satVars, ready>>

\* The wait ends after 50 ms at the latest.
Wait ==
  /\ master = "wait"
  /\ master' = "look"
  /\ UNCHANGED <<out, item, issued, delivered, satVars, ready>>

\* A variant: the primary counts on the answer whether or not it was clocked.
TransactAgain ==
  /\ master = "transact"
  /\ delivered' = delivered \o tx
  /\ slave' = IF slave = "armed" THEN "handle" ELSE slave
  /\ rx' = IF slave = "armed" THEN item ELSE rx
  /\ master' = "look" /\ item' = 0
  /\ UNCHANGED <<ring, tx, raising, sends, sent, obeyed, out, issued, ready>>

\* A variant: a command the satellite missed goes back to the queue's end.
TransactRequeue ==
  /\ master = "transact"
  /\ IF slave = "armed"
     THEN /\ delivered' = delivered \o tx /\ tx' = <<>>
          /\ rx' = item /\ slave' = "handle" /\ UNCHANGED out
     ELSE /\ out' = IF item = 0 THEN out ELSE Append(out, item)
          /\ UNCHANGED <<delivered, tx, rx, slave>>
  /\ master' = "look" /\ item' = 0
  /\ UNCHANGED <<ring, raising, sends, sent, obeyed, issued, ready>>

\* One transaction, both ways at once.  A satellite that has not queued its
\* side yet neither sends nor receives: the command is lost.
Transact ==
  /\ master = "transact"
  /\ IF slave = "armed"
     THEN /\ delivered' = delivered \o tx /\ tx' = <<>>
          /\ rx' = item /\ slave' = "handle"
     ELSE UNCHANGED <<delivered, tx, rx, slave>>
  /\ master' = "look" /\ item' = 0
  /\ UNCHANGED <<ring, raising, sends, sent, obeyed, out, issued, ready>>

Next ==
  \/ Send
  \/ Raise
  \/ Fill
  \/ Handle
  \/ Queue
  \/ Look
  \/ Wait
  \/ Transact

Spec == Init /\ [][Next]_vars

\* Every task gets its turn; nobody is obliged to send.
FairSpec ==
  /\ Spec
  /\ WF_vars(Raise) /\ WF_vars(Fill \/ Handle)
  /\ WF_vars(Look \/ Wait \/ Transact)

----------------------------------------------------------------------------
(* Properties                                                              *)

\* What the ring accepted is delivered once and in order: it is in the
\* primary's hands, in the buffer or in the ring.
NothingLost == delivered \o tx \o ring = sent

\* Commands arrive in the order they were queued and none twice.
ObeyedInOrder == \A i, j \in DOMAIN obeyed : i < j => obeyed[i] < obeyed[j]

\* The satellite waits for the primary and no sender is half done.
Settled == slave = "armed" /\ raising = 0

\* A ring that holds something has the line up.
RingSignalled == Settled /\ ring # <<>> => ready

\* The ring drains into the buffer, and what waits in the buffer is delivered
\* at the latest when another message is behind it: the heartbeat flushes.
NextDelivers ==
  \A n \in 1..MaxSends :
    /\ Contains(ring, n) ~> ~Contains(ring, n)
    /\ Contains(tx, n) /\ ring # <<>> ~> Contains(delivered, n)
=============================================================================
