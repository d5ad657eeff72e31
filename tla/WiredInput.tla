------------------------------ MODULE WiredInput ------------------------------
(***************************************************************************)
(* Frames from the wired network: the chip (W5100 or W5500) stores each of  *)
(* them behind its length in a circular memory, and the driver takes them   *)
(* out for lwip, one per tick of a timer (ethernetif_driver.cpp,            *)
(* lowlevel_skeleton.cpp, w5100.cpp, w5500.cpp).  A cell of the memory is a *)
(* byte, and a length takes two: either may lie over the end.  Pointers     *)
(* count modulo 2^16.  The chip, the network and the heap are external.     *)
(***************************************************************************)
EXTENDS Integers, Sequences

CONSTANTS
  Size,       \* cells of the receive memory: RSIZE
  Pointers,   \* pointers count modulo Pointers, a multiple of Size: 2^16
  EthBytes,   \* the Ethernet header: 14
  MaxBytes,   \* the largest frame: the MTU with that header
  Ids         \* bound: frames are numbered modulo Ids

ASSUME WiredInputAssumption ==
  /\ Size \in Nat \ {0} /\ Pointers \in Nat \ {0} /\ Pointers % Size = 0
  /\ EthBytes \in Nat \ {0} /\ MaxBytes \in Nat /\ Ids \in Nat \ {0}

VARIABLES
  shield,     \* the driver the gateway is built with
  rxMem,      \* the memory of the chip: lengths, and bytes of frames
  Sn_RX_RD,   \* the pointer the driver moves, and the chip follows
  Sn_RX_RSR,  \* the cells that the chip offers from there on
  length,     \* what low_level_startinput has returned, 0 between two ticks
  input,      \* what lwip was given last
  inChip,     \* history: what arrived and was not passed yet, in its order
  expected,   \* history: the frame that was due then, or input when out of step
  lostStep,   \* history: memory was short, and a frame was left without its length
  nextId

wiredInputVars ==
  <<shield, rxMem, Sn_RX_RD, Sn_RX_RSR, length, input, inChip, expected, lostStep, nextId>>

(* A frame and the length before it, which counts itself.                   *)
Header == 2
LengthByte(n, i) == [frame |-> -1, index |-> i, length |-> n]
IsLength(cell) == cell.frame = -1 /\ cell.index = 1
Frame(id, n) == [i \in 1..n |-> [frame |-> id, index |-> i, length |-> 0]]
Arriving(id, n) == <<LengthByte(Header + n, 1), LengthByte(Header + n, 2)>> \o Frame(id, n)
Put(mem, at, cells) ==
  [a \in 0..(Size - 1) |->
     LET i == 1 + ((a - at) % Size) IN IF i <= Len(cells) THEN cells[i] ELSE mem[a]]

Emptied == [a \in 0..(Size - 1) |-> LengthByte(0, 0)]

WiredInputInit ==
  /\ shield \in {"W5100", "W5500"}
  /\ rxMem = Emptied /\ Sn_RX_RD = 0 /\ Sn_RX_RSR = 0 /\ length = 0
  /\ input = <<>> /\ inChip = <<>> /\ expected = <<>>
  /\ lostStep = FALSE /\ nextId = 0

-------------------------------------------------------------------------------
(* Cells of the memory, one after the other: the W5100 is read by address,  *)
(* the W5500 by a pointer that goes round its memory.                       *)
W5100read(addr, n) == [i \in 1..n |-> rxMem[addr + i - 1]]
W5500read(addr, n) == [i \in 1..n |-> rxMem[(addr + i - 1) % Size]]

W5100read_dataFault(src, n) ==   \* the rest is read from the cell it began at
  LET src_mask == src % Size
      size == IF src_mask + n > Size THEN Size - src_mask ELSE n
  IN W5100read(src_mask, size) \o W5100read(src_mask, n - size)

(* The driver of the W5100 splits what runs over the end.                   *)
W5100read_data(src, n) ==
  LET src_mask == src % Size
      size == Size - src_mask
  IN IF src_mask + n > Size THEN W5100read(src_mask, size) \o W5100read(0, n - size)
     ELSE W5100read(src_mask, n)

W5500read_data(src, n) == W5500read(src, n)

read_data(src, n) ==
  IF shield = "W5100" THEN W5100read_data(src, n) ELSE W5500read_data(src, n)

(* History: what is left when n cells are passed, if a frame begins there,   *)
(* and what goes before the next frame.                                     *)
Behind(cells, n) == SubSeq(cells, n + 1, Len(cells))
InStep(cells) == cells = <<>> \/ IsLength(cells[1])
BeforeNext(cells) ==
  LET n == CHOOSE n \in 0..Len(cells) :
             (\A i \in 1..n : ~IsLength(cells[i])) /\ InStep(Behind(cells, n))
  IN SubSeq(cells, 1, n)

(* The pointer moves over n cells, and RECV makes the chip follow.          *)
recv_data_processing(n) ==
  /\ Sn_RX_RD' = (Sn_RX_RD + n) % Pointers
  /\ Sn_RX_RSR' = Sn_RX_RSR - n
  /\ inChip' = Behind(inChip, n)

(* A size that changes while it is read is read again; a zero is not.       *)
getRXReceivedSize == {0, Sn_RX_RSR}

(* Two bytes that are not those of one length say anything.                 *)
Lengths(bytes) ==
  IF IsLength(bytes[1]) /\ bytes[2] = LengthByte(bytes[1].length, 2) THEN {bytes[1].length}
  ELSE 0..(Header + MaxBytes + 1)

(* A length that cannot be, or a frame that is not all there: the driver    *)
(* takes the whole memory for one frame.                                    *)
low_level_startinput ==
  \E rxLen \in getRXReceivedSize :
    /\ rxLen >= Header + EthBytes
    /\ \E pktLen \in Lengths(read_data(Sn_RX_RD, Header)) :
         length' = IF \/ pktLen < Header + EthBytes \/ pktLen > Header + MaxBytes
                      \/ rxLen < pktLen
                   THEN rxLen - Header ELSE pktLen - Header
    /\ recv_data_processing(Header)

(* The timer, when there is heap to spare.                                  *)
StartInput ==
  /\ length = 0
  /\ low_level_startinput
  /\ UNCHANGED <<shield, rxMem, input, expected, lostStep, nextId>>

(* The frame goes to lwip, or is freed there when its type makes no sense.  *)
low_level_input ==
  /\ length # 0 /\ length' = 0
  /\ input' = read_data(Sn_RX_RD, length)
  /\ expected' = IF lostStep THEN input' ELSE BeforeNext(inChip)
  /\ recv_data_processing(length)
  /\ lostStep' = ~InStep(inChip')
  /\ UNCHANGED <<shield, rxMem, nextId>>

(* No pbuf for it: the frame stays in the chip, without its length.         *)
low_level_input_nomem ==
  /\ length # 0 /\ length' = 0
  /\ lostStep' = TRUE
  /\ UNCHANGED <<shield, rxMem, Sn_RX_RD, Sn_RX_RSR, input, inChip, expected, nextId>>

(* Every start opens the socket anew: its memory is empty.                  *)
WiredInputRestart ==
  /\ rxMem' = Emptied /\ Sn_RX_RD' = 0 /\ Sn_RX_RSR' = 0 /\ length' = 0
  /\ input' = <<>> /\ inChip' = <<>> /\ expected' = <<>>
  /\ lostStep' = FALSE /\ nextId' = 0
  /\ UNCHANGED shield

-------------------------------------------------------------------------------
(* External: the chip takes a frame if there is room for it.                *)
FrameArrives(bytes) ==
  /\ Sn_RX_RSR + Header + bytes <= Size
  /\ rxMem' = Put(rxMem, (Sn_RX_RD + Sn_RX_RSR) % Size, Arriving(nextId, bytes))
  /\ inChip' = inChip \o Arriving(nextId, bytes)
  /\ Sn_RX_RSR' = Sn_RX_RSR + Header + bytes
  /\ nextId' = (nextId + 1) % Ids
  /\ UNCHANGED <<shield, Sn_RX_RD, length, input, expected, lostStep>>

WiredInputNext ==
  \/ StartInput \/ low_level_input \/ low_level_input_nomem \/ WiredInputRestart
  \/ \E bytes \in EthBytes..MaxBytes : FrameArrives(bytes)

WiredInputSpec == WiredInputInit /\ [][WiredInputNext]_wiredInputVars

-------------------------------------------------------------------------------
(* lwip is given the frames that arrived, whole and in their order, however *)
(* they lie in the memory and whenever the next ones come - unless memory   *)
(* ran short, which lasts until the driver has taken all there is.          *)
FramesReadWhole ==
  lostStep \/ (input = expected /\ (length = 0 => InStep(inChip)))
================================================================================
