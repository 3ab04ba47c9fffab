---------------------------- MODULE UartExchange ----------------------------
(***************************************************************************)
(* One exchange after the other on an RS485 port that does not speak       *)
(* Modbus: uart_custom_exchange (User/usart/bsp_rs485.c), run by the port  *)
(* task, and the custom branch of the interrupt handler                    *)
(* (mbport/mbportserial.c), on the registers of one UART.  The request is  *)
(* sent by interrupts; the last of them turns the bus round and opens the  *)
(* receive window; what is heard goes through a ring to the task.          *)
(*                                                                         *)
(* The handler interrupts the task between any two of its steps, and bytes *)
(* (the answer, an echo, a late answer, noise) end between any two steps   *)
(* of either.  A byte is its number since the window opened.  The task     *)
(* waits in ticks.  The repair of a 143-byte answer by its CRC is left out.*)
(* When a request takes too long the task gives up while interrupts are    *)
(* still enabled: the handler may turn the bus round after all.            *)
(***************************************************************************)
EXTENDS Integers, Sequences

CONSTANTS
  TxLen,        \* tx_len
  RX_MAX_LEN,   \* rx_max_len
  RING_SIZE,    \* UART_RX_RING_SIZE
  QUIET, QUIET_MAX,          \* UART_BUS_QUIET_MS, UART_BUS_QUIET_MAX_MS
  FirstTimeout, GapTimeout,  \* first_byte_timeout_ms, inter_byte_timeout_ms
  MaxBytes      \* bound: bytes that arrive while a window is open

ASSUME ExchangeAssumption ==
  /\ \A n \in {TxLen, RX_MAX_LEN, QUIET, QUIET_MAX, FirstTimeout, GapTimeout} : n \in Nat \ {0}
  /\ RING_SIZE \in Nat /\ RING_SIZE > 1
  /\ MaxBytes \in Nat

VARIABLES
  pc, waited, total,        \* the task: where it is, and how long it has waited
  used, arrived, rx_buf,    \* its other locals
  de,                       \* the pin that drives the bus
  cr1,                      \* the interrupts enabled: "TXE", "TC", "RXNE"
  sr,                       \* the flags "RXNE", "ORE", "ERR" (framing, noise), "TC"
  rdr,                      \* the byte in the receive data register
  pipe,                     \* bytes in the transmit data and shift registers
  tx_idx, tx_active, tx_done,
  buffer, head, tail, rx_active,
  isr,                      \* the handler: "out", or its next part
  isr_sr, isr_cr1,          \* the flags it has read last, the interrupts it has found
  count,                    \* history: how many bytes have come since the window opened
  heard,                    \* history: those of them that have not been lost
  out                       \* history: bytes of the request that have left

taskVars == <<pc, waited, total, used, arrived, rx_buf>>
txVars   == <<tx_idx, tx_active, tx_done>>
ringVars == <<buffer, head, tail, rx_active>>
isrVars  == <<isr, isr_sr, isr_cr1>>
history  == <<count, heard>>
vars == <<taskVars, de, cr1, sr, rdr, pipe, txVars, ringVars, isrVars, history, out>>

Foreign == 0    \* a byte of another time
Errors  == {"ORE", "ERR"}
Full    == (head + 1) % RING_SIZE = tail
Used    == (head - tail) % RING_SIZE       \* UART_RX_RING_USED
InRing  == [k \in 1 .. Used |-> buffer[(tail + k - 1) % RING_SIZE]]
TxEmpty == pipe < 2                         \* USART_SR_TXE

Init ==
  /\ pc = "idle" /\ waited = 0 /\ total = 0 /\ used = 0 /\ arrived = 0 /\ rx_buf = <<>>
  /\ de = FALSE /\ cr1 = {} /\ sr = {"TC"} /\ rdr = Foreign /\ pipe = 0
  /\ tx_idx = 0 /\ tx_active = FALSE /\ tx_done = FALSE
  /\ buffer = [k \in 0 .. RING_SIZE - 1 |-> Foreign] /\ head = 0 /\ tail = 0 /\ rx_active = FALSE
  /\ isr = "out" /\ isr_sr = {} /\ isr_cr1 = {}
  /\ count = 0 /\ heard = <<>> /\ out = 0

-----------------------------------------------------------------------------
(* The task: uart_custom_exchange. *)

TaskRuns(at) == isr = "out" /\ pc = at
Goto(next)   == pc' = next
Hardware     == UNCHANGED <<de, cr1, sr, rdr, pipe>>
Others       == UNCHANGED <<isrVars, history, out>>

Called ==
  /\ TaskRuns("idle") /\ Goto("quiet")
  /\ UNCHANGED <<waited, total, used, arrived, rx_buf, txVars, ringVars>> /\ Hardware /\ Others

\* Mutation: the wait for a quiet bus has no end of its own.
QuietOver_uncapped(quiet) == quiet >= QUIET

\* A quiet bus, or UART_BUS_QUIET_MAX_MS of noise.
QuietOver(quiet) == quiet >= QUIET \/ total + 1 >= QUIET_MAX

AwaitQuiet ==
  LET quiet == IF "RXNE" \in sr THEN 0 ELSE waited IN
  /\ TaskRuns("quiet")
  /\ sr' = IF "RXNE" \in sr THEN sr \ ({"RXNE"} \cup Errors) ELSE sr
  /\ IF QuietOver(quiet) THEN Goto("transmit") /\ waited' = 0 /\ total' = 0
     ELSE /\ waited' = quiet + 1 /\ UNCHANGED pc
          /\ total' = IF total < QUIET_MAX THEN total + 1 ELSE total
  /\ UNCHANGED <<used, arrived, rx_buf, de, cr1, rdr, pipe, txVars, ringVars>> /\ Others

Transmit ==
  /\ TaskRuns("transmit") /\ Goto("sending")
  /\ sr' = {} /\ de' = TRUE
  /\ tx_idx' = 0 /\ tx_active' = TRUE /\ tx_done' = FALSE
  /\ cr1' = (cr1 \ {"TC"}) \cup {"TXE"}
  /\ out' = -pipe
  /\ UNCHANGED <<waited, total, used, arrived, rx_buf, rdr, pipe, ringVars, isrVars, history>>

AwaitSent ==
  /\ TaskRuns("sending")
  /\ IF tx_done THEN Goto("first") /\ waited' = 0 /\ tx_active' = FALSE
     ELSE /\ IF waited > FirstTimeout THEN Goto("abort") /\ UNCHANGED waited
             ELSE waited' = waited + 1 /\ UNCHANGED pc
          /\ UNCHANGED tx_active
  /\ UNCHANGED <<total, used, arrived, rx_buf, tx_idx, tx_done, ringVars>> /\ Hardware /\ Others

\* Its locals go, and with them what the window was about.
Returns ==
  /\ Goto("idle") /\ waited' = 0 /\ total' = 0 /\ used' = 0 /\ arrived' = 0 /\ rx_buf' = <<>>
  /\ count' = 0 /\ heard' = <<>>
  /\ UNCHANGED <<isrVars, out>>

\* The sending has taken too long.  If the handler has turned the bus round meanwhile, the
\* window stays open; or, turned round between the read and the write of CR1 by which the
\* task disables an interrupt, its interrupt is lost while rx_active stays.
Abort ==
  /\ TaskRuns("abort") /\ Returns
  /\ cr1' \in {cr1 \ {"TXE", "TC"}} \cup (IF tx_done THEN {{}} ELSE {})
  /\ de' = FALSE
  /\ tx_active' = FALSE /\ tx_done' = FALSE
  /\ UNCHANGED <<sr, rdr, pipe, tx_idx, ringVars>>

\* Mutation: the handler is not told that the exchange is over.
CloseWindow_active_kept == cr1' = cr1 \ {"RXNE"} /\ UNCHANGED rx_active /\ Returns

CloseWindow == cr1' = cr1 \ {"RXNE"} /\ rx_active' = FALSE /\ Returns

AwaitFirst ==
  /\ TaskRuns("first")
  /\ \/ /\ Used # 0 /\ Goto("loop") /\ arrived' = Used /\ waited' = 0
        /\ UNCHANGED <<total, used, rx_buf, cr1, rx_active>> /\ Others
     \/ /\ Used = 0 /\ waited <= FirstTimeout /\ waited' = waited + 1
        /\ UNCHANGED <<pc, total, used, arrived, rx_buf, cr1, rx_active>> /\ Others
     \/ Used = 0 /\ waited > FirstTimeout /\ CloseWindow
  /\ UNCHANGED <<de, sr, rdr, pipe, txVars, buffer, head, tail>>

LoopStarts ==
  /\ TaskRuns("loop") /\ Goto("drain") /\ used' = Used
  /\ UNCHANGED <<waited, total, arrived, rx_buf, txVars, ringVars>> /\ Hardware /\ Others

Drains ==
  /\ TaskRuns("drain") /\ used # 0 /\ Len(rx_buf) < RX_MAX_LEN
  /\ rx_buf' = Append(rx_buf, buffer[tail]) /\ tail' = (tail + 1) % RING_SIZE
  /\ used' = used - 1 /\ waited' = 0
  /\ UNCHANGED <<pc, total, arrived, txVars, buffer, head, rx_active>> /\ Hardware /\ Others

\* The end of a round: the buffer is full, bytes have come, or none for too long.
Drained ==
  LET now == Len(rx_buf) + Used IN
  /\ TaskRuns("drain") /\ (used = 0 \/ Len(rx_buf) >= RX_MAX_LEN)
  /\ IF Len(rx_buf) >= RX_MAX_LEN THEN Goto("tail") /\ UNCHANGED <<waited, arrived>>
     ELSE IF now # arrived THEN Goto("loop") /\ arrived' = now /\ waited' = 1
     ELSE IF waited > GapTimeout THEN Goto("tail") /\ UNCHANGED <<waited, arrived>>
     ELSE Goto("loop") /\ waited' = waited + 1 /\ UNCHANGED arrived
  /\ UNCHANGED <<total, used, rx_buf, txVars, ringVars>> /\ Hardware /\ Others

\* A byte that nobody has taken is read from the register, a moment after the flag.
TailWaits == Len(rx_buf) < RX_MAX_LEN /\ "RXNE" \in sr

FindTail ==
  /\ TaskRuns("tail") /\ TailWaits /\ Goto("take")
  /\ UNCHANGED <<waited, total, used, arrived, rx_buf, txVars, ringVars>> /\ Hardware /\ Others

NoTail ==
  /\ TaskRuns("tail") /\ ~TailWaits /\ CloseWindow
  /\ UNCHANGED <<de, sr, rdr, pipe, txVars, buffer, head, tail>>

TakeTail ==
  /\ TaskRuns("take") /\ CloseWindow
  /\ sr' = sr \ ({"RXNE"} \cup Errors)
  /\ UNCHANGED <<de, rdr, pipe, txVars, buffer, head, tail>>

TaskStep ==
  \/ AwaitQuiet \/ Transmit \/ AwaitSent \/ Abort \/ AwaitFirst
  \/ LoopStarts \/ Drains \/ Drained \/ FindTail \/ NoTail \/ TakeTail

-----------------------------------------------------------------------------
(* The interrupt handler.  What it does to the registers is computed part  *)
(* by part from the flags it found when it was entered.                    *)

Pending ==
  \/ "RXNE" \in cr1 /\ sr \cap {"RXNE", "ORE"} # {}
  \/ "TXE" \in cr1 /\ TxEmpty
  \/ "TC" \in cr1 /\ "TC" \in sr

IsrEnters ==
  /\ isr = "out" /\ Pending
  /\ isr' = "send"
  /\ isr_sr' = sr \cup (IF TxEmpty THEN {"TXE"} ELSE {}) /\ isr_cr1' = cr1
  /\ UNCHANGED <<taskVars, txVars, ringVars, history, out>> /\ Hardware

\* Mutation: the last byte is forgotten.
MoreToSend_but_one == tx_active /\ tx_idx + 1 < TxLen

MoreToSend == tx_active /\ tx_idx < TxLen

\* TXE: the next byte, or, after the last one, wait for TC.  Writing DR clears TC.
IsrTransmits ==
  /\ isr = "send" /\ isr' = "turn"
  /\ IF {"TXE"} \subseteq isr_sr \cap isr_cr1
     THEN IF MoreToSend
          THEN /\ pipe' = pipe + 1 /\ tx_idx' = tx_idx + 1 /\ sr' = sr \ {"TC"}
               /\ UNCHANGED cr1
          ELSE cr1' = (cr1 \ {"TXE"}) \cup {"TC"} /\ UNCHANGED <<pipe, tx_idx, sr>>
     ELSE UNCHANGED <<pipe, tx_idx, sr, cr1>>
  /\ UNCHANGED <<taskVars, de, rdr, tx_active, tx_done, ringVars, isr_sr, isr_cr1, history, out>>

Shifted == "TC" \in isr_cr1 /\ "TC" \in isr_sr

\* Mutation: the flags found on entry are kept.
Flushed_flags_kept == sr' = sr \ ({"TC", "RXNE"} \cup Errors) /\ UNCHANGED isr_sr

\* A byte that came while the request went out is thrown away, from the register and from
\* the flags found on entry.
Flushed ==
  /\ sr' = sr \ ({"TC", "RXNE"} \cup Errors)
  /\ isr_sr' = isr_sr \ ({"RXNE"} \cup Errors)

\* TC: the bus is turned round and the receive window opened.
IsrTurnsRound ==
  /\ isr = "turn" /\ isr' = "receive"
  /\ IF Shifted
     THEN /\ Flushed /\ de' = FALSE
          /\ head' = 0 /\ tail' = 0 /\ rx_active' = TRUE
          /\ cr1' = (cr1 \ {"TC"}) \cup {"RXNE"}
          /\ tx_active' = FALSE /\ tx_done' = TRUE
          /\ count' = 0 /\ heard' = <<>>
     ELSE UNCHANGED <<sr, de, head, tail, rx_active, cr1, tx_active, tx_done, history, isr_sr>>
  /\ UNCHANGED <<taskVars, rdr, pipe, tx_idx, buffer, isr_cr1, out>>

Store(b) == buffer' = [buffer EXCEPT ![head] = b] /\ head' = (head + 1) % RING_SIZE
Forget   == heard' = SubSeq(heard, 1, Len(heard) - 1)     \* the byte in the register is lost

\* Reading DR clears RXNE, and the errors that were there when SR was read.
ReadDR == sr' = sr \ ({"RXNE"} \cup (Errors \cap isr_sr))
Leaves == isr' = "out" /\ isr_sr' = {} /\ isr_cr1' = {}

IsrReceives ==
  /\ isr = "receive" /\ isr' = "errors"
  /\ IF "RXNE" \in isr_sr
     THEN /\ ReadDR
          /\ \/ rx_active /\ ~Full /\ Store(rdr) /\ UNCHANGED heard
             \/ rx_active /\ Full /\ Forget /\ UNCHANGED <<buffer, head>>
             \/ ~rx_active /\ UNCHANGED <<buffer, head, heard>>
     ELSE UNCHANGED <<sr, buffer, head, heard>>
  /\ UNCHANGED <<taskVars, de, cr1, rdr, pipe, txVars, tail, rx_active, isr_sr, isr_cr1,
                 count, out>>

\* Errors are cleared by reading SR and DR; a byte that has come since is saved.
KeepsByte == "RXNE" \in sr /\ rx_active /\ ~Full

IsrChecksErrors ==
  /\ isr = "errors"
  /\ \/ isr_sr \cap Errors = {} /\ Leaves
     \/ /\ isr_sr \cap Errors # {} /\ isr' = (IF KeepsByte THEN "save" ELSE "again")
        /\ isr_sr' = sr /\ UNCHANGED isr_cr1
  /\ UNCHANGED <<taskVars, txVars, ringVars, history, out>> /\ Hardware

IsrSaves ==
  /\ isr = "save" /\ Leaves
  /\ ReadDR /\ Store(rdr)
  /\ UNCHANGED <<taskVars, de, cr1, rdr, pipe, txVars, tail, rx_active, history, out>>

IsrReadsAgain ==
  /\ isr = "again" /\ isr' = "away" /\ isr_sr' = sr /\ UNCHANGED isr_cr1
  /\ UNCHANGED <<taskVars, txVars, ringVars, history, out>> /\ Hardware

\* A byte that was not there when KeepsByte was tested is read away with the errors.
IsrReadsAway ==
  /\ isr = "away" /\ Leaves
  /\ ReadDR
  /\ IF "RXNE" \in sr /\ rx_active THEN Forget ELSE UNCHANGED heard
  /\ UNCHANGED <<taskVars, de, cr1, rdr, pipe, txVars, ringVars, count, out>>

IsrStep ==
  \/ IsrEnters \/ IsrTransmits \/ IsrTurnsRound \/ IsrReceives
  \/ IsrChecksErrors \/ IsrSaves \/ IsrReadsAgain \/ IsrReadsAway

-----------------------------------------------------------------------------
(* The UART and the bus. *)

\* The last bit of a byte has left; TC once nothing is left to send.
ByteLeaves ==
  /\ pipe > 0 /\ pipe' = pipe - 1
  /\ sr' = IF pipe' = 0 THEN sr \cup {"TC"} ELSE sr
  /\ out' = IF de THEN out + 1 ELSE out
  /\ UNCHANGED <<taskVars, de, cr1, rdr, txVars, ringVars, isrVars, history>>

\* A byte ends.  If the one before has not been read, the new one is lost.
ByteArrives ==
  LET b == IF rx_active /\ tx_done THEN count + 1 ELSE Foreign IN
  /\ count < MaxBytes
  /\ count' = IF rx_active THEN count + 1 ELSE count
  /\ IF "RXNE" \in sr
     THEN sr' = sr \cup {"ORE"} /\ UNCHANGED <<rdr, heard>>
     ELSE /\ rdr' = b /\ heard' = IF b # Foreign THEN Append(heard, b) ELSE heard
          /\ \E e \in {{}, {"ERR"}} : sr' = sr \cup {"RXNE"} \cup e
  /\ UNCHANGED <<taskVars, de, cr1, pipe, txVars, ringVars, isrVars, out>>

Next == Called \/ TaskStep \/ IsrStep \/ ByteLeaves \/ ByteArrives

Spec == Init /\ [][Next]_vars

\* The task is scheduled and interrupts are served.  The UART may stop sending for good.
FairSpec == Spec /\ WF_vars(TaskStep) /\ WF_vars(IsrStep)

-----------------------------------------------------------------------------
Bytes == 0 .. MaxBytes
Flags == {"RXNE", "ORE", "ERR", "TC"}

TypeOK ==
  /\ pc \in {"idle", "quiet", "transmit", "sending", "abort", "first", "loop", "drain", "tail", "take"}
  /\ waited \in Nat /\ total \in 0 .. QUIET_MAX - 1
  /\ used \in 0 .. RING_SIZE - 1 /\ arrived \in 0 .. RX_MAX_LEN + RING_SIZE
  /\ rx_buf \in Seq(Bytes) /\ Len(rx_buf) <= RX_MAX_LEN
  /\ de \in BOOLEAN /\ cr1 \subseteq {"TXE", "TC", "RXNE"} /\ sr \subseteq Flags
  /\ rdr \in Bytes /\ pipe \in 0 .. 2
  /\ tx_idx \in 0 .. TxLen /\ tx_active \in BOOLEAN /\ tx_done \in BOOLEAN
  /\ buffer \in [0 .. RING_SIZE - 1 -> Bytes]
  /\ head \in 0 .. RING_SIZE - 1 /\ tail \in 0 .. RING_SIZE - 1 /\ rx_active \in BOOLEAN
  /\ isr \in {"out", "send", "turn", "receive", "errors", "save", "again", "away"}
  /\ isr_sr \subseteq Flags \cup {"TXE"} /\ isr_cr1 \subseteq {"TXE", "TC", "RXNE"}
  /\ count \in Bytes /\ heard \in Seq(Bytes)
  /\ out \in -2 .. TxLen

Receiving == pc \in {"first", "loop", "drain"}

(***************************************************************************)
(* bsp_rs485.h:182-205: what the task has copied, what is in the ring and  *)
(* what the UART still holds is, byte for byte and in order, what has been *)
(* heard since the bus was turned round: no byte of the time before, none  *)
(* twice, and none missing but those lost at three places: when the UART   *)
(* overruns, when the ring is full, and when a byte ends after the handler *)
(* has looked whether there is one to save and before it reads the errors  *)
(* away (mbportserial.c:551, 565-566).  What the task does after the last  *)
(* round (bsp_rs485.c:1002-1003) is not part of it.                        *)
(***************************************************************************)
InUart == IF "RXNE" \in sr THEN <<rdr>> ELSE <<>>

HeardIsKept == Receiving => rx_buf \o InRing \o InUart = heard

(***************************************************************************)
(* mbportserial.c:441-443: the bus is turned round when the request has    *)
(* left to the last bit, and by then it is all out.                        *)
(***************************************************************************)
RequestSentWhole == Receiving => out = TxLen /\ pipe = 0 /\ ~de

(***************************************************************************)
(* bsp_rs485.c:751-752, "[为什么不污染 ring]": when an exchange begins, the   *)
(* bus is not driven and no interrupt is left that would send; and the     *)
(* window is closed, so that the wait for a quiet bus sees every byte,     *)
(* unless the last exchange was given up for its sending (tx_done = FALSE),*)
(* in which case the handler may have opened it meanwhile.                 *)
(***************************************************************************)
ClosedBetweenExchanges ==
  pc \in {"idle", "quiet", "transmit"} =>
    /\ ~de /\ cr1 \subseteq {"RXNE"}
    /\ tx_done => cr1 = {} /\ ~rx_active /\ isr = "out"

(***************************************************************************)
(* Whatever the bus does, and even if the UART stops sending, an exchange  *)
(* returns: the port task cannot be held up by its line.                   *)
(***************************************************************************)
EveryExchangeReturns == pc # "idle" ~> pc = "idle"
=============================================================================
