------------------------------ MODULE MCLinks ------------------------------
(***************************************************************************)
(* The two links a message crosses in pieces, one at a time: a direction   *)
(* of a BLE connection and a direction of the UART.                        *)
(***************************************************************************)
EXTENDS UartFrame, Integers

CONSTANTS
  Ids, IndexMask, MtuLen, Limits, Timeout, QueueCap,      \* BleLink
  MaxSent, MaxClosed, MaxBack

VARIABLES
  part,
  pending, nextId, fifo, rx, sent, limits, late, delivered, closed, back

Ble == INSTANCE BleLink

ASSUME LinksAssumption == Ble!BleAssumption

\* The stack fails too seldom for the ids to come round unseen.
ASSUME TurnAssumption == MaxFaults <= Ids

bleVars  == <<pending, nextId, fifo, rx, sent, limits, late, delivered, closed, back>>
uartVars == <<reader, received, line, sending, boundary, intact, faulty, quiet, frames>>

\* Two bytes of checksum: the length and a weighted sum.
SumCrc(p) ==
  LET sum[i \in 0 .. Len(p)] == IF i = 0 THEN 1 ELSE 2 * sum[i - 1] + p[i]
  IN  <<Len(p) % (MaxCode + 1), sum[Len(p)] % (MaxCode + 1)>>

\* Empty, all zeroes, and one that fills the buffer with a full block.
MCPayloads == {<<>>, <<0, 0>>, <<1, 2, 3>>}

LinksInit ==
  /\ part \in {"ble", "uart"}
  /\ Ble!Init /\ Init
  /\ part = "ble" => line = <<>>

LinksNext ==
  /\ UNCHANGED part
  /\ \/ part = "ble" /\ Ble!Next /\ UNCHANGED uartVars
     \/ part = "uart" /\ Next /\ UNCHANGED bleVars

\* Nothing of BleLink's is enabled while the UART runs.
LinksSpec == LinksInit /\ [][LinksNext]_<<part, bleVars, uartVars, faults>> /\ Ble!Fairness

(* BleLink: what is handed up is what was enqueued.                        *)
DeliveredAsSent == Ble!DeliveredAsSent
(* BleLink: a partial assembly ends.                                       *)
AssemblyEnds == Ble!AssemblyEnds
(* BleLink: what met no trouble arrives.                                   *)
EnqueuedArrives == Ble!EnqueuedArrives
=============================================================================
