----------------------------- MODULE AxleCounter -----------------------------
(***************************************************************************)
(* The acknowledgement protocol between the board and the axle counters of *)
(* one RS485 port.  The board polls a module, echoing the code of the last *)
(* answer it has read and asking for as many pulses as that answer said    *)
(* were unread (User/main.c).  The counter drops the pulses it had sent    *)
(* with a code up to the echo, and sends the oldest of the rest again      *)
(* (PC_Server/modbus_slave_simulator/axle_counter_handler.py).  The board  *)
(* makes one frame per channel of the pulses it reads and hands it to the  *)
(* curve FIFO of the TCP client.                                           *)
(*                                                                         *)
(* A pulse is the module that counted it and its number there.  All pulses *)
(* have the same number of samples; which channel a pulse is on is a       *)
(* constant.  Registers, addresses and times are left out.                 *)
(***************************************************************************)
EXTENDS Integers, Sequences, FiniteSets

CONSTANTS
  Modules, Channels,
  ChannelOf,             \* the channel of the n-th pulse of a module
  Samples,               \* samples of a pulse
  REALTIME_BYTES,        \* profile->realtime_bytes
  RX_MAX,                \* UART_SERIAL_BUF_SIZE - 11
  AXLE_MAX_CHANNELS,
  MAX_PULSES_PER_REQ,    \* the most pulses in one answer
  CODE_LIMIT,            \* the code that is never sent: 1 comes instead
  Passage,               \* pulses of one passing axle group
  MaxPulses, MaxLost, MaxLate, MaxResets    \* bounds

ASSUME AxleAssumption ==
  /\ \A n \in {Samples, REALTIME_BYTES, RX_MAX, AXLE_MAX_CHANNELS, MAX_PULSES_PER_REQ, Passage,
               MaxPulses} : n \in Nat \ {0}
  /\ CODE_LIMIT \in Nat /\ CODE_LIMIT > 2
  /\ {MaxLost, MaxLate, MaxResets} \subseteq Nat
  /\ ChannelOf \in [1..MaxPulses -> Channels]

VARIABLES
  comm_confirm, pending_pulse_count,    \* axle_counter_state, of each module
  uploaded,          \* history: the pulses handed to the curve FIFO, by module and channel
  cut,               \* history: the pulses no frame had room for, by module
  _pulse_events, _current_code,         \* of each counter
  made,              \* pulses each counter has counted
  bus,               \* the exchange under way
  late,              \* answers to exchanges the board has given up
  lost, delayed, resets,    \* bounded counters
  confused           \* history: what the echo may have got wrong

historyVars == <<uploaded, cut>>
boardVars   == <<comm_confirm, pending_pulse_count, historyVars>>
counterVars == <<_pulse_events, _current_code, made>>
faultVars   == <<lost, delayed, resets, confused>>
vars == <<boardVars, counterVars, bus, late, faultVars>>

Pulses == Modules \X (1..MaxPulses)
None == 0    \* the code of a pulse that was never sent
Idle == [phase |-> "idle"]
Request(m) == [phase |-> "request", to |-> m, confirm |-> comm_confirm[m],
               count |-> pending_pulse_count[m]]
Silent(m) == [phase |-> "silent", to |-> m]

Least(a, b) == IF a < b THEN a ELSE b

Init ==
  /\ comm_confirm = [m \in Modules |-> 0]
  /\ pending_pulse_count = [m \in Modules |-> 0]
  /\ uploaded = [m \in Modules |-> [c \in Channels |-> <<>>]]
  /\ cut = [m \in Modules |-> {}]
  /\ _pulse_events = [m \in Modules |-> <<>>]
  /\ _current_code = [m \in Modules |-> 0]
  /\ made = [m \in Modules |-> 0]
  /\ bus = Idle
  /\ late = {}
  /\ lost = 0 /\ delayed = 0 /\ resets = 0
  /\ confused = {}

-----------------------------------------------------------------------------
(* The board *)

RecordBytes(pulses) == Len(pulses) * (8 + Samples)
AnswerBytes(pulses) ==
  REALTIME_BYTES + 12 + (IF pulses = <<>> THEN 0 ELSE 2 + RecordBytes(pulses))

\* The first channels of a packet, in the order they appear.
ch_list(pulses) ==
  LET ch(i) == ChannelOf[pulses[i][2]]
      before(i) == {ch(j) : j \in 1..(i - 1)}
  IN  {ch(i) : i \in {i \in DOMAIN pulses : Cardinality(before(i) \ {ch(i)}) < AXLE_MAX_CHANNELS}}

\* The pulses of one channel, record by record.
own(pulses, c) ==
  LET upto[n \in 0..Len(pulses)] ==
        IF n = 0 THEN <<>>
        ELSE IF ChannelOf[pulses[n][2]] = c THEN Append(upto[n - 1], pulses[n])
                                            ELSE upto[n - 1]
  IN  upto[Len(pulses)]

\* Those of them that fit between the records and the end of the buffer.
frame(pulses, c) ==
  LET room == (RX_MAX - RecordBytes(pulses) - 22) \div (3 + Samples)
  IN  IF c \in ch_list(pulses) /\ room > 0
      THEN SubSeq(own(pulses, c), 1, Least(room, Len(own(pulses, c)))) ELSE <<>>

\* The place of a pulse in the frame of its channel.
Place(pulses, i) ==
  Cardinality({j \in 1..i : ChannelOf[pulses[j][2]] = ChannelOf[pulses[i][2]]})

\* The pulses of a packet that no frame has room for: those of a channel too many, and those
\* whose place lies beyond the end of the buffer.
CutOff(pulses) ==
  LET fits(i) == /\ ChannelOf[pulses[i][2]] \in ch_list(pulses)
                 /\ RecordBytes(pulses) + 22 + Place(pulses, i) * (3 + Samples) <= RX_MAX
  IN  {pulses[i][2] : i \in {i \in DOMAIN pulses : ~fits(i)}}

\* uart_axle_counter_upload_pulse
uart_axle_counter_upload_pulse(m, pulses) ==
  /\ uploaded' = [uploaded EXCEPT ![m] = [c \in Channels |-> @[c] \o frame(pulses, c)]]
  /\ cut' = [cut EXCEPT ![m] = @ \cup CutOff(pulses)]

\* Mutation: the count of this request is read after it was replaced by the next one.
uart_axle_counter_online_late_count(m, answer) ==
  /\ comm_confirm' = [comm_confirm EXCEPT ![m] = answer.code]
  /\ IF answer.unread > 0
     THEN uart_axle_counter_upload_pulse(m, answer.pulses)
     ELSE UNCHANGED historyVars
  /\ pending_pulse_count' = [pending_pulse_count EXCEPT ![m] = answer.unread]

\* Mutation: what is unread is saved only when pulses were asked for.
uart_axle_counter_online_count_kept(m, answer) ==
  /\ comm_confirm' = [comm_confirm EXCEPT ![m] = answer.code]
  /\ IF pending_pulse_count[m] > 0
     THEN /\ uart_axle_counter_upload_pulse(m, answer.pulses)
          /\ pending_pulse_count' = [pending_pulse_count EXCEPT ![m] = answer.unread]
     ELSE UNCHANGED <<historyVars, pending_pulse_count>>

\* uart_axle_counter_online: the code is saved whether or not the pulses are read.
uart_axle_counter_online(m, answer) ==
  /\ comm_confirm' = [comm_confirm EXCEPT ![m] = answer.code]
  /\ IF pending_pulse_count[m] > 0
     THEN uart_axle_counter_upload_pulse(m, answer.pulses)
     ELSE UNCHANGED historyVars
  /\ pending_pulse_count' = [pending_pulse_count EXCEPT ![m] = answer.unread]

\* The request of uart_axle_counter_module_exchange.  The wait for a quiet bus throws away
\* the late answers that come while it lasts.
SendRequest(m) ==
  /\ bus = Idle
  /\ bus' = Request(m)
  /\ late' \in SUBSET late
  /\ UNCHANGED <<boardVars, counterVars, faultVars>>

\* What uart_axle_counter_module_exchange can use: an answer that fits the receive buffer.  One
\* that is cut off fails its CRC.
Readable == bus.phase = "answer" /\ AnswerBytes(bus.answer.pulses) <= RX_MAX

HearAnswer ==
  /\ Readable
  /\ uart_axle_counter_online(bus.to, bus.answer)
  /\ bus' = Idle
  /\ UNCHANGED <<counterVars, late, faultVars>>

\* No answer before the timeout, or none of use: uart_axle_counter_offline.
HearNothing ==
  /\ bus.phase \in {"silent", "answer"} /\ ~Readable
  /\ bus' = Idle
  /\ UNCHANGED <<boardVars, counterVars, late, faultVars>>

\* An answer to an exchange given up comes while this one waits.  Its address is not compared
\* with the one that was asked.
HearLateAnswer ==
  /\ bus.phase = "silent"
  /\ \E answer \in late :
       /\ AnswerBytes(answer.pulses) <= RX_MAX
       /\ uart_axle_counter_online(bus.to, answer)
       /\ late' = late \ {answer}
  /\ bus' = Idle
  /\ confused' = confused \cup {"late"}
  /\ UNCHANGED <<counterVars, lost, delayed, resets>>

\* Pulses sent in an answer the board has not read.
SentUnheard(m) ==
  _pulse_events[m] # <<>> /\ _pulse_events[m][1].seq \notin {None, comm_confirm[m]}

\* A reset clears axle_counter_state.
BoardResets ==
  /\ resets < MaxResets
  /\ resets' = resets + 1
  /\ comm_confirm' = [m \in Modules |-> 0]
  /\ pending_pulse_count' = [m \in Modules |-> 0]
  /\ bus' = Idle
  /\ late' = {}
  /\ confused' = IF \E m \in Modules : SentUnheard(m) THEN confused \cup {"reset"} ELSE confused
  /\ UNCHANGED <<historyVars, counterVars, lost, delayed>>

-----------------------------------------------------------------------------
(* The axle counter *)

\* An axle group passes.
AxlesPass(m) ==
  /\ made[m] + Passage <= MaxPulses
  /\ made' = [made EXCEPT ![m] = @ + Passage]
  /\ _pulse_events' = [_pulse_events EXCEPT ![m] =
                         @ \o [i \in 1..Passage |-> [pulse |-> <<m, made[m] + i>>, seq |-> None]]]
  /\ UNCHANGED <<_current_code, boardVars, bus, late, faultVars>>

\* Mutation: the echoed code itself is not confirmed.
Confirmed_below(events, echo) ==
  LET sent(i) == events[i].seq # None /\ events[i].seq < echo
  IN  IF echo = 0 THEN 0
      ELSE Cardinality({i \in DOMAIN events : \A j \in 1..i : sent(j)})

\* The events at the head of a queue that the echo confirms.
Confirmed(events, echo) ==
  LET sent(i) == events[i].seq # None /\ events[i].seq <= echo
  IN  IF echo = 0 THEN 0
      ELSE Cardinality({i \in DOMAIN events : \A j \in 1..i : sent(j)})

\* Mutation: the limit itself is sent.
NextCode_off_by_one(c) == IF c + 1 > CODE_LIMIT THEN 1 ELSE c + 1

NextCode(c) == IF c + 1 >= CODE_LIMIT THEN 1 ELSE c + 1

\* _handle_axle_request
_handle_axle_request ==
  /\ bus.phase = "request"
  /\ LET m == bus.to
         code == NextCode(_current_code[m])
         events == _pulse_events[m]
         kept == SubSeq(events, Confirmed(events, bus.confirm) + 1, Len(events))
         take == Least(bus.count, Least(Len(kept), MAX_PULSES_PER_REQ))
     IN  /\ _current_code' = [_current_code EXCEPT ![m] = code]
         /\ _pulse_events' = [_pulse_events EXCEPT ![m] =
              [i \in DOMAIN kept |-> IF i <= take THEN [kept[i] EXCEPT !.seq = code] ELSE kept[i]]]
         /\ bus' = [phase |-> "answer", to |-> m,
                    answer |-> [code |-> code, unread |-> Len(kept) - take,
                                pulses |-> [i \in 1..take |-> kept[i].pulse]]]
         /\ confused' = IF \/ bus.confirm > _current_code[m] /\ events # <<>> /\ events[1].seq # None
                           \/ \E i \in (take + 1)..Len(kept) : kept[i].seq > code
                           \/ take > 0 /\ code = bus.confirm
                        THEN confused \cup {"wrapped"} ELSE confused
  /\ UNCHANGED <<made, boardVars, late, lost, delayed, resets>>

-----------------------------------------------------------------------------
(* The wire *)

\* A request or an answer is destroyed: no module answers, or the CRC of the answer is wrong.
Lose ==
  /\ bus.phase \in {"request", "answer"}
  /\ lost < MaxLost
  /\ lost' = lost + 1
  /\ bus' = Silent(bus.to)
  /\ UNCHANGED <<boardVars, counterVars, late, delayed, resets, confused>>

\* A counter answers after the board has stopped waiting.
Delay ==
  /\ bus.phase = "answer"
  /\ delayed < MaxLate
  /\ delayed' = delayed + 1
  /\ late' = late \cup {bus.answer}
  /\ bus' = Idle
  /\ UNCHANGED <<boardVars, counterVars, lost, resets, confused>>

-----------------------------------------------------------------------------
BoardStep == HearAnswer \/ HearNothing \/ HearLateAnswer

Next ==
  \/ \E m \in Modules : AxlesPass(m) \/ SendRequest(m)
  \/ BoardStep
  \/ _handle_axle_request
  \/ Lose \/ Delay
  \/ BoardResets

Spec == Init /\ [][Next]_vars

\* The port task never stops polling, and comes back to every module: an offline one every
\* UART_MODULE_OFFLINE_PROBE_CYCLES rounds.  A counter that hears a request answers it.
FairSpec ==
  /\ Spec
  /\ \A m \in Modules : SF_vars(SendRequest(m))
  /\ WF_vars(BoardStep)
  /\ WF_vars(_handle_axle_request)
-----------------------------------------------------------------------------
(* Properties *)

UploadedPulses(m) == UNION {{uploaded[m][c][i] : i \in DOMAIN uploaded[m][c]} : c \in Channels}
QueuedPulses(m) == {_pulse_events[m][i].pulse : i \in DOMAIN _pulse_events[m]}

Codes == 0..(CODE_LIMIT - 1)
Answers == [code : Codes, unread : 0..MaxPulses, pulses : Seq(Pulses)]

TypeOK ==
  /\ comm_confirm \in [Modules -> Codes]
  /\ pending_pulse_count \in [Modules -> 0..MaxPulses]
  /\ uploaded \in [Modules -> [Channels -> Seq(Pulses)]]
  /\ cut \in [Modules -> SUBSET (1..MaxPulses)]
  /\ _pulse_events \in [Modules -> Seq([pulse : Pulses, seq : Codes])]
  /\ _current_code \in [Modules -> Codes]
  /\ made \in [Modules -> 0..MaxPulses]
  /\ bus \in {Idle} \cup [phase : {"request"}, to : Modules, confirm : Codes, count : 0..MaxPulses]
       \cup [phase : {"silent"}, to : Modules]
       \cup [phase : {"answer"}, to : Modules, answer : Answers]
  /\ late \subseteq Answers
  /\ lost \in 0..MaxLost /\ delayed \in 0..MaxLate /\ resets \in 0..MaxResets
  /\ confused \subseteq {"late", "wrapped", "reset"}

\* Every pulse ever counted is still with the counter, or has been handed to the curve FIFO in
\* a frame of its own module and channel, or had no room in the frame of its packet.
PulsesAreSomewhere ==
  \A m \in Modules : \A n \in 1..made[m] :
    \/ <<m, n>> \in QueuedPulses(m)
    \/ \E i \in DOMAIN uploaded[m][ChannelOf[n]] : uploaded[m][ChannelOf[n]][i] = <<m, n>>
    \/ n \in cut[m]

\* Saving a code acknowledges the pulses sent with it and before (comm_confirm is echoed whether
\* or not uart_axle_counter_upload_pulse could use the pulses), and the counter then drops them.
\* No pulse is dropped before it has been uploaded, whatever answers are lost and whenever the
\* board resets, but for two cases the code lets happen.  One is that a packet has more pulses
\* than the upload buffer has room for beside their records: those beyond its end, and only
\* they, are dropped for good (cut).  The other is that the echo is of another exchange: of an
\* answer that came late, from before the codes started over, or of a poll that follows a reset.
NothingLost == confused = {} => PulsesAreSomewhere

\* A pulse that is sent again because an answer was lost has not been uploaded before: each
\* channel gets its pulses in the order they were counted, none twice.  This outlives a reset of
\* the board, which forgets the code it would have echoed: the answer to its first poll carries
\* no pulses, and the echo of that answer confirms all that was sent before.
InOrderAndOnce ==
  confused = {} =>
    \A m \in Modules, c \in Channels :
      \A i, j \in DOMAIN uploaded[m][c] : i < j => uploaded[m][c][i][2] < uploaded[m][c][j][2]

\* Every pulse is uploaded, or cut off at the end of the upload buffer, in the end: the two-step
\* read (first how many are unread, then the pulses) never stops short, whatever is lost, as
\* long as no echo was of another exchange.
PulsesArrive ==
  \A p \in Pulses :
    (made[p[1]] >= p[2]) ~>
      (p \in UploadedPulses(p[1]) \/ p[2] \in cut[p[1]] \/ confused # {})
===============================================================================
