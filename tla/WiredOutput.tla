------------------------------ MODULE WiredOutput -----------------------------
(***************************************************************************)
(* Frames to the wired network: the driver writes the pbufs of a frame into *)
(* the circular memory of the chip, one after the other, and tells it to    *)
(* send (ethernetif_linkoutput, lowlevel_skeleton.cpp, w5100.cpp and        *)
(* w5500.cpp).  It never asks how much room there is, and waits until the   *)
(* command is accepted, not until the frame is sent: the chip sends while   *)
(* the next frame is written.  For every pbuf it reads the pointer back     *)
(* from the chip, of which both drivers' headers say that it does not seem  *)
(* to be updated before the command (w5100.h:182, w5500.h:143): what is     *)
(* read is the pointer either as it was written last or as it was at the    *)
(* last command.  The chip is external.                                     *)
(***************************************************************************)
EXTENDS Integers, Sequences

CONSTANTS
  TxSize,       \* cells of the transmit memory: SSIZE
  TxPointers,   \* pointers count modulo TxPointers, a multiple of TxSize
  Chains,       \* frames of lwip: the sizes of their pbufs
  MaxWaiting,   \* bound: frames that wait
  TxIds         \* bound: frames are numbered modulo TxIds

(* A pbuf is no longer than a frame, and the memory holds a frame.          *)
ASSUME WiredOutputAssumption ==
  /\ TxSize \in Nat \ {0} /\ TxPointers \in Nat \ {0} /\ TxPointers % TxSize = 0
  /\ Chains \subseteq Seq(1..TxSize) \ {<<>>} /\ TxIds \in Nat \ {0}

VARIABLES
  board,      \* the driver the gateway is built with
  txMem,      \* the memory of the chip
  Sn_TX_WR,   \* the pointer the driver moves
  Sn_TX_RD,   \* the pointer of the chip
  atSend,     \* Sn_TX_WR at the last command to send
  chain,      \* the sizes of the pbufs that the driver has still to write
  given,      \* history: the cells of the frame that it has written
  stale,      \* history: one of its pbufs went where the last frame had ended
  waiting,    \* the frames that the chip was told to send, and their ends in unsent
  unsent,     \* history: the cells that were written and are to be sent, in order
  high,       \* history: how far beyond Sn_TX_RD anything was written
  onWire,     \* the last frame that left, and what was written beyond the memory then
  txId

wiredOutputVars ==
  <<board, txMem, Sn_TX_WR, Sn_TX_RD, atSend, chain, given, stale, waiting, unsent, high,
    onWire, txId>>

NoFrame == [left |-> <<>>, over |-> 0, of |-> [end |-> 0, id |-> 0, size |-> 0, stale |-> FALSE]]

WiredOutputInit ==
  /\ board \in {"W5100", "W5500"}
  /\ txMem = [a \in 0..(TxSize - 1) |-> <<>>]
  /\ Sn_TX_WR = 0 /\ Sn_TX_RD = 0 /\ atSend = 0 /\ chain = <<>> /\ given = 0 /\ stale = FALSE
  /\ waiting = <<>> /\ unsent = <<>> /\ high = 0 /\ onWire = NoFrame /\ txId = 0

-------------------------------------------------------------------------------
(* Cells into the memory, one after the other: the W5100 is written by      *)
(* address, the W5500 by a pointer that goes round its memory.              *)
W5100write(mem, addr, cells) ==
  [a \in 0..(TxSize - 1) |-> IF a - addr \in 0..(Len(cells) - 1) THEN cells[a - addr + 1] ELSE mem[a]]
W5500write(mem, addr, cells) ==
  [a \in 0..(TxSize - 1) |->
     LET i == 1 + ((a - addr) % TxSize) IN IF i <= Len(cells) THEN cells[i] ELSE mem[a]]

Moved(ptr, data) == (ptr + Len(data)) % TxPointers

W5100send_data_processingFault(chip, data) ==   \* the split is decided by the length alone
  LET offset == chip.ptr % TxSize
      size == TxSize - offset
  IN [ptr |-> Moved(chip.ptr, data),
      mem |-> IF Len(data) > TxSize
              THEN W5100write(W5100write(chip.mem, offset, SubSeq(data, 1, size)),
                              0, SubSeq(data, size + 1, Len(data)))
              ELSE W5100write(chip.mem, offset, data)]

(* The driver of the W5100 splits what runs over the end.                   *)
W5100send_data_processing(chip, data) ==
  LET offset == chip.ptr % TxSize
      size == TxSize - offset
  IN [ptr |-> Moved(chip.ptr, data),
      mem |-> IF offset + Len(data) > TxSize
              THEN W5100write(W5100write(chip.mem, offset, SubSeq(data, 1, size)),
                              0, SubSeq(data, size + 1, Len(data)))
              ELSE W5100write(chip.mem, offset, data)]

W5500send_data_processing(chip, data) ==
  [ptr |-> Moved(chip.ptr, data), mem |-> W5500write(chip.mem, chip.ptr, data)]

send_data_processing(chip, data) ==
  IF board = "W5100" THEN W5100send_data_processing(chip, data)
  ELSE W5500send_data_processing(chip, data)

(* Where in unsent the frame begins that is written.                        *)
Begun == IF waiting = <<>> THEN 0 ELSE waiting[Len(waiting)].end
Highest(m, n) == IF m > n THEN m ELSE n

ethernetif_linkoutput(p) ==
  /\ chain = <<>> /\ given = 0
  /\ Len(waiting) < MaxWaiting
  /\ chain' = p
  /\ UNCHANGED <<board, txMem, Sn_TX_WR, Sn_TX_RD, atSend, given, stale, waiting, unsent, high,
                 onWire, txId>>

(* One pbuf after the other.  Behind a pointer that was not updated, a pbuf  *)
(* is written over those of the frame that went before it.                  *)
low_level_output ==
  \E old \in BOOLEAN :
    LET data == [i \in 1..chain[1] |-> <<txId, given + i>>]
        kept == IF old THEN SubSeq(unsent, 1, Begun) ELSE unsent
        out == send_data_processing([mem |-> txMem, ptr |-> IF old THEN atSend ELSE Sn_TX_WR], data)
    IN
    /\ chain # <<>> /\ chain' = Tail(chain)
    /\ txMem' = out.mem /\ Sn_TX_WR' = out.ptr
    /\ unsent' = kept \o data /\ high' = Highest(high, Len(unsent'))
    /\ given' = given + chain[1] /\ stale' = (stale \/ old)
    /\ UNCHANGED <<board, Sn_TX_RD, atSend, waiting, onWire, txId>>

(* SEND_MAC is accepted at once: the frame is sent when its turn comes.     *)
low_level_endoutput ==
  /\ chain = <<>> /\ given # 0
  /\ waiting' = Append(waiting, [end |-> Len(unsent), id |-> txId, size |-> given, stale |-> stale])
  /\ atSend' = Sn_TX_WR /\ given' = 0 /\ stale' = FALSE
  /\ txId' = (txId + 1) % TxIds
  /\ UNCHANGED <<board, txMem, Sn_TX_WR, Sn_TX_RD, chain, unsent, high, onWire>>

(* External: the chip sends a frame from its memory.                        *)
FrameLeaves ==
  /\ waiting # <<>>
  /\ LET n == waiting[1].end IN
       /\ onWire' = [left |-> [i \in 1..n |-> txMem[(Sn_TX_RD + i - 1) % TxSize]],
                     over |-> high - TxSize, of |-> waiting[1]]
       /\ Sn_TX_RD' = (Sn_TX_RD + n) % TxPointers
       /\ unsent' = SubSeq(unsent, n + 1, Len(unsent)) /\ high' = high - n
       /\ waiting' = [i \in 1..(Len(waiting) - 1) |-> [waiting[i + 1] EXCEPT !.end = @ - n]]
  /\ UNCHANGED <<board, txMem, Sn_TX_WR, atSend, chain, given, stale, txId>>

WiredOutputRestart ==
  /\ txMem' = [a \in 0..(TxSize - 1) |-> <<>>]
  /\ Sn_TX_WR' = 0 /\ Sn_TX_RD' = 0 /\ atSend' = 0 /\ chain' = <<>> /\ given' = 0 /\ stale' = FALSE
  /\ waiting' = <<>> /\ unsent' = <<>> /\ high' = 0 /\ onWire' = NoFrame /\ txId' = 0
  /\ UNCHANGED board

WiredOutputNext ==
  \/ \E p \in Chains : ethernetif_linkoutput(p)
  \/ low_level_output \/ low_level_endoutput
  \/ FrameLeaves \/ WiredOutputRestart

WiredOutputSpec == WiredOutputInit /\ [][WiredOutputNext]_wiredOutputVars

-------------------------------------------------------------------------------
(* What leaves is the end of a frame of lwip, in its order, whatever the    *)
(* sizes of its pbufs and wherever it lies in the memory: all of it as long *)
(* as the pointer reads back, and otherwise the pbufs from the last that    *)
(* went to the start of the frame, the frames around it whole.  Only cells  *)
(* that lie a memory's length behind one written later may be lost to it.   *)
FramesLeaveWhole ==
  LET before == onWire.of.size - Len(onWire.left) IN
  /\ \A i \in 1..Len(onWire.left) : i > onWire.over => onWire.left[i] = <<onWire.of.id, before + i>>
  /\ onWire.of.stale \/ before = 0

(* "The packet is contained in chained pbufs, so this function will be      *)
(* called for each chunk" (lowlevel_skeleton.cpp:66): the chunks make up the *)
(* frame.  They do not when the pointer is not updated.                     *)
ChunksMakeUpTheFrame == Len(onWire.left) = onWire.of.size

(* "0 if the packet couldn't be sent (no space on chip)"                    *)
(* (lowlevel_skeleton.cpp:54): nothing is written over a frame that waits.  *)
SpaceIsAsked == onWire.over <= 0
================================================================================
