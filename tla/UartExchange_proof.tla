-------------------------- MODULE UartExchange_proof --------------------------
(***************************************************************************)
(* The exchanges on an RS485 port that does not speak Modbus, for every    *)
(* length of the request, the answer and the ring, and for every order of  *)
(* the steps of the task, of the interrupt handler and of the UART.        *)
(***************************************************************************)
EXTENDS UartExchange, SequenceTheorems, TLAPS

Size == RING_SIZE

-------------------------------------------------------------------------------
(* The inductive invariant. *)

\* The receive window is open, whether or not the task has seen that it is.
Opened ==
  \/ pc \in {"first", "loop", "drain", "tail", "take"}
  \/ pc \in {"sending", "abort"} /\ tx_done
Sending == pc \in {"sending", "abort"} /\ ~tx_done
Between == pc \in {"idle", "quiet", "transmit"}

\* What the flags say of the registers, now and when the handler was entered.
LineInv ==
  /\ "TC" \in sr => pipe = 0
  /\ isr = "send" /\ "TXE" \in isr_sr => pipe < 2
  /\ isr \in {"send", "turn", "receive"} /\ "RXNE" \in isr_sr => "RXNE" \in sr
  /\ isr = "save" => "RXNE" \in sr /\ rx_active /\ ~Full

\* After an exchange given up the window may be open, and bytes go into the ring.
BetweenInv ==
  Between =>
    /\ ~de /\ cr1 \subseteq {"RXNE"}
    /\ isr \in {"send", "turn"} => isr_cr1 \subseteq {"RXNE"}
    /\ tx_done => cr1 = {} /\ ~rx_active /\ isr = "out"

SendInv ==
  Sending =>
    /\ de /\ tx_active
    /\ out + pipe = tx_idx
    /\ "TC" \in cr1 => "TXE" \notin cr1 /\ tx_idx = TxLen
    /\ isr \in {"send", "turn"} /\ "TC" \in isr_cr1 =>
         "TC" \in cr1 /\ "TXE" \notin isr_cr1 /\ ("TC" \in isr_sr => pipe = 0)

OpenInv ==
  Opened =>
    /\ ~de /\ rx_active /\ tx_done /\ cr1 = {"RXNE"} /\ out = TxLen /\ pipe = 0
    /\ isr \in {"send", "turn"} => isr_cr1 = {"RXNE"}

KeptInv ==
  /\ Opened => rx_buf \o InRing \o InUart = heard
  /\ pc \notin {"loop", "drain", "tail", "take"} => rx_buf = <<>>
  /\ pc = "drain" => used <= Used

ExchangeInv == TypeOK /\ LineInv /\ BetweenInv /\ SendInv /\ OpenInv /\ KeptInv

-------------------------------------------------------------------------------
(* Arithmetic of the ring. *)

LEMMA SizeFacts == Size \in Nat /\ Size > 1
BY ExchangeAssumption DEF Size

LEMMA ModSmall == ASSUME NEW d \in Nat \ {0}, NEW x \in 0 .. (d - 1) PROVE x % d = x
OBVIOUS
LEMMA ModBig == ASSUME NEW d \in Nat \ {0}, NEW x \in d .. (2 * d - 1) PROVE x % d = x - d
OBVIOUS
LEMMA ModNeg == ASSUME NEW d \in Nat \ {0}, NEW x \in (-d) .. (-1) PROVE x % d = x + d
OBVIOUS

\* The sums and differences that occur wrap around at most once.
LEMMA Wraps ==
  ASSUME NEW x \in (-Size) .. (2 * Size - 1)
  PROVE  /\ x % Size = IF x < 0 THEN x + Size ELSE IF x < Size THEN x ELSE x - Size
         /\ x % Size \in 0 .. (Size - 1)
<1>1. Size \in Nat \ {0} BY SizeFacts
<1>2. CASE x < 0
  <2>1. x \in (-Size) .. (-1) BY <1>1, <1>2
  <2>2. x % Size = x + Size BY <1>1, <2>1, ModNeg
  <2>. QED BY <1>1, <1>2, <2>2
<1>3. CASE 0 <= x /\ x < Size
  <2>1. x \in 0 .. (Size - 1) BY <1>1, <1>3
  <2>2. x % Size = x BY <1>1, <2>1, ModSmall
  <2>. QED BY <1>1, <1>3, <2>2
<1>4. CASE Size <= x
  <2>1. x \in Size .. (2 * Size - 1) BY <1>1, <1>4
  <2>2. x % Size = x - Size BY <1>1, <2>1, ModBig
  <2>. QED BY <1>1, <1>4, <2>2
<1>. QED BY <1>1, <1>2, <1>3, <1>4

\* How many bytes there are between two indexes, and where the k-th of them is.
Span(h, t) == (h - t) % Size
At(t, k)   == (t + k - 1) % Size
Next1(i)   == (i + 1) % Size

LEMMA SpanFacts ==
  ASSUME NEW h \in 0 .. (Size - 1), NEW t \in 0 .. (Size - 1)
  PROVE  /\ Span(h, t) = IF h < t THEN h - t + Size ELSE h - t
         /\ Span(h, t) \in 0 .. (Size - 1)
<1>1. PICK x \in Int : x = h - t OBVIOUS
<1>2. x \in (-Size) .. (2 * Size - 1) BY <1>1, SizeFacts
<1>3. /\ x % Size = IF x < 0 THEN x + Size ELSE IF x < Size THEN x ELSE x - Size
      /\ x % Size \in 0 .. (Size - 1)
  BY <1>2, Wraps
<1>4. Span(h, t) = x % Size BY <1>1 DEF Span
<1>. QED BY <1>1, <1>3, <1>4, SizeFacts

LEMMA AtFacts ==
  ASSUME NEW t \in 0 .. (Size - 1), NEW k \in 1 .. Size
  PROVE  /\ At(t, k) = IF t + k - 1 < Size THEN t + k - 1 ELSE t + k - 1 - Size
         /\ At(t, k) \in 0 .. (Size - 1)
<1>1. PICK x \in Int : x = t + k - 1 OBVIOUS
<1>2. x \in (-Size) .. (2 * Size - 1) /\ ~(x < 0) BY <1>1, SizeFacts
<1>3. /\ x % Size = IF x < 0 THEN x + Size ELSE IF x < Size THEN x ELSE x - Size
      /\ x % Size \in 0 .. (Size - 1)
  BY <1>2, Wraps
<1>4. At(t, k) = x % Size BY <1>1 DEF At
<1>. QED BY <1>1, <1>2, <1>3, <1>4, SizeFacts

LEMMA NextFacts ==
  ASSUME NEW i \in 0 .. (Size - 1)
  PROVE  /\ Next1(i) = IF i + 1 < Size THEN i + 1 ELSE 0
         /\ Next1(i) \in 0 .. (Size - 1)
<1>1. PICK x \in Int : x = i + 1 OBVIOUS
<1>2. x \in (-Size) .. (2 * Size - 1) /\ ~(x < 0) BY <1>1, SizeFacts
<1>3. /\ x % Size = IF x < 0 THEN x + Size ELSE IF x < Size THEN x ELSE x - Size
      /\ x % Size \in 0 .. (Size - 1)
  BY <1>2, Wraps
<1>4. Next1(i) = x % Size BY <1>1 DEF Next1
<1>. QED BY <1>1, <1>2, <1>3, <1>4, SizeFacts

\* The bytes in a ring, oldest first.
RingOf(b, h, t) == [k \in 1 .. Span(h, t) |-> b[At(t, k)]]

IsRing(r, S, b, h, t) ==
  /\ r \in Seq(S) /\ Len(r) = Span(h, t)
  /\ \A k \in 1 .. Span(h, t) : r[k] = b[At(t, k)]

LEMMA FunctionIsSeq ==
  ASSUME NEW S, NEW n \in Nat, NEW f \in [1 .. n -> S]
  PROVE  f \in Seq(S) /\ Len(f) = n
<1>1. f \in Seq(S) BY SeqDef
<1>2. DOMAIN f = 1 .. Len(f) /\ Len(f) \in Nat BY <1>1, LenProperties
<1>. QED BY <1>1, <1>2

LEMMA RingOfFacts ==
  ASSUME NEW S, NEW b \in [0 .. (Size - 1) -> S],
         NEW h \in 0 .. (Size - 1), NEW t \in 0 .. (Size - 1)
  PROVE  IsRing(RingOf(b, h, t), S, b, h, t)
<1>1. Span(h, t) \in Nat /\ Span(h, t) < Size
  <2>1. PICK n \in 0 .. (Size - 1) : n = Span(h, t) BY SpanFacts
  <2>. QED BY <2>1, SizeFacts
<1>2. \A k \in 1 .. Span(h, t) : At(t, k) \in 0 .. (Size - 1)
  <2>1. \A k \in 1 .. Span(h, t) : k \in 1 .. Size BY <1>1, SizeFacts
  <2>. QED BY <2>1, AtFacts
<1>3. RingOf(b, h, t) \in [1 .. Span(h, t) -> S] BY <1>2 DEF RingOf
<1>4. RingOf(b, h, t) \in Seq(S) /\ Len(RingOf(b, h, t)) = Span(h, t)
  BY <1>1, <1>3, FunctionIsSeq
<1>. QED BY <1>4 DEF RingOf, IsRing

\* A byte that is stored becomes the last of the ring.
LEMMA RingStores ==
  ASSUME NEW S, NEW b \in [0 .. (Size - 1) -> S], NEW v \in S,
         NEW h \in 0 .. (Size - 1), NEW t \in 0 .. (Size - 1), Next1(h) # t
  PROVE  /\ RingOf([b EXCEPT ![h] = v], Next1(h), t) = Append(RingOf(b, h, t), v)
         /\ Span(Next1(h), t) = Span(h, t) + 1
<1>1. PICK n \in 0 .. (Size - 1) : n = Span(h, t) BY SpanFacts
<1>2. PICK g \in 0 .. (Size - 1) : g = Next1(h) BY NextFacts
<1>3. n = IF h < t THEN h - t + Size ELSE h - t BY <1>1, SpanFacts
<1>4. g = IF h + 1 < Size THEN h + 1 ELSE 0 BY <1>2, NextFacts
<1>5. Span(g, t) = IF g < t THEN g - t + Size ELSE g - t BY SpanFacts
<1>6. Span(g, t) = n + 1 BY <1>2, <1>3, <1>4, <1>5, SizeFacts
<1>7. \A k \in 1 .. n : At(t, k) # h
  <2>1. SUFFICES ASSUME NEW k \in 1 .. n PROVE At(t, k) # h OBVIOUS
  <2>2. k \in 1 .. Size BY SizeFacts
  <2>3. At(t, k) = IF t + k - 1 < Size THEN t + k - 1 ELSE t + k - 1 - Size
    BY <2>2, AtFacts
  <2>. QED BY <1>3, <2>3, SizeFacts
<1>8. At(t, n + 1) = h
  <2>1. n + 1 \in 1 .. Size BY SizeFacts
  <2>2. At(t, n + 1) = IF t + (n + 1) - 1 < Size THEN t + (n + 1) - 1
                       ELSE t + (n + 1) - 1 - Size
    BY <2>1, AtFacts
  <2>. QED BY <1>3, <2>2, SizeFacts
<1>9. PICK c : c = [b EXCEPT ![h] = v] OBVIOUS
<1>10. /\ c \in [0 .. (Size - 1) -> S] /\ c[h] = v
       /\ \A i \in 0 .. (Size - 1) : i # h => c[i] = b[i]
  BY <1>9
<1>11. PICK old \in Seq(S) : /\ old = RingOf(b, h, t) /\ Len(old) = n
                             /\ \A k \in 1 .. n : old[k] = b[At(t, k)]
  <2>1. IsRing(RingOf(b, h, t), S, b, h, t) BY RingOfFacts
  <2>. QED BY <1>1, <2>1 DEF IsRing
<1>12. PICK new \in Seq(S) : /\ new = RingOf(c, g, t) /\ Len(new) = n + 1
                             /\ \A k \in 1 .. (n + 1) : new[k] = c[At(t, k)]
  <2>1. IsRing(RingOf(c, g, t), S, c, g, t) BY <1>10, RingOfFacts
  <2>. QED BY <1>6, <2>1 DEF IsRing
<1>13. /\ Append(old, v) \in Seq(S) /\ Len(Append(old, v)) = n + 1
       /\ \A k \in 1 .. n : Append(old, v)[k] = old[k]
       /\ Append(old, v)[n + 1] = v
  BY <1>11, AppendProperties
<1>14. \A k \in 1 .. (n + 1) : new[k] = Append(old, v)[k]
  <2>1. ASSUME NEW k \in 1 .. n PROVE new[k] = Append(old, v)[k]
    <3>1. k \in 1 .. (n + 1) /\ k \in 1 .. Size BY SizeFacts
    <3>2. At(t, k) \in 0 .. (Size - 1) /\ At(t, k) # h BY <1>7, <3>1, AtFacts
    <3>3. c[At(t, k)] = b[At(t, k)] BY <1>10, <3>2
    <3>. QED BY <1>11, <1>12, <1>13, <3>1, <3>3
  <2>2. new[n + 1] = v
    <3>1. n + 1 \in 1 .. (n + 1) OBVIOUS
    <3>. QED BY <1>8, <1>10, <1>12, <3>1
  <2>3. \A k \in 1 .. (n + 1) : k \in 1 .. n \/ k = n + 1 OBVIOUS
  <2>. QED BY <1>13, <2>1, <2>2, <2>3
<1>15. new = Append(old, v) BY <1>12, <1>13, <1>14, SeqEqual
<1>. QED BY <1>1, <1>2, <1>6, <1>9, <1>11, <1>12, <1>15

\* The task takes the first byte of a ring that is not empty.
LEMMA RingGives ==
  ASSUME NEW S, NEW b \in [0 .. (Size - 1) -> S],
         NEW h \in 0 .. (Size - 1), NEW t \in 0 .. (Size - 1), Span(h, t) # 0
  PROVE  /\ RingOf(b, h, t) = <<b[t]>> \o RingOf(b, h, Next1(t))
         /\ Span(h, Next1(t)) = Span(h, t) - 1
<1>1. PICK n \in 1 .. (Size - 1) : n = Span(h, t) BY SpanFacts
<1>2. PICK u \in 0 .. (Size - 1) : u = Next1(t) BY NextFacts
<1>3. n = IF h < t THEN h - t + Size ELSE h - t BY <1>1, SpanFacts
<1>4. u = IF t + 1 < Size THEN t + 1 ELSE 0 BY <1>2, NextFacts
<1>5. Span(h, u) = IF h < u THEN h - u + Size ELSE h - u BY SpanFacts
<1>6. Span(h, u) = n - 1 BY <1>3, <1>4, <1>5, SizeFacts
<1>7. \A k \in 1 .. (n - 1) : At(u, k) = At(t, k + 1)
  <2>1. SUFFICES ASSUME NEW k \in 1 .. (n - 1) PROVE At(u, k) = At(t, k + 1) OBVIOUS
  <2>2. k \in 1 .. Size /\ k + 1 \in 1 .. Size BY SizeFacts
  <2>3. At(u, k) = IF u + k - 1 < Size THEN u + k - 1 ELSE u + k - 1 - Size
    BY <2>2, AtFacts
  <2>4. At(t, k + 1) = IF t + (k + 1) - 1 < Size THEN t + (k + 1) - 1
                       ELSE t + (k + 1) - 1 - Size
    BY <2>2, AtFacts
  <2>. QED BY <1>4, <2>3, <2>4, SizeFacts
<1>8. At(t, 1) = t
  <2>1. 1 \in 1 .. Size BY SizeFacts
  <2>2. At(t, 1) = IF t + 1 - 1 < Size THEN t + 1 - 1 ELSE t + 1 - 1 - Size
    BY <2>1, AtFacts
  <2>. QED BY <2>2, SizeFacts
<1>. DEFINE old == RingOf(b, h, t)
            new == RingOf(b, h, u)
            v   == b[t]
<1>9. /\ old \in Seq(S) /\ Len(old) = n
      /\ \A k \in 1 .. n : old[k] = b[At(t, k)]
  <2>1. IsRing(old, S, b, h, t) BY RingOfFacts
  <2>. HIDE DEF old
  <2>. QED BY <1>1, <2>1 DEF IsRing
<1>10. /\ new \in Seq(S) /\ Len(new) = n - 1
       /\ \A k \in 1 .. (n - 1) : new[k] = b[At(u, k)]
  <2>1. IsRing(new, S, b, h, u) BY RingOfFacts
  <2>. HIDE DEF new
  <2>. QED BY <1>6, <2>1 DEF IsRing
<1>11. v \in S OBVIOUS
<1>. HIDE DEF old, new, v
<1>12. <<v>> \in Seq(S) /\ Len(<<v>>) = 1 /\ <<v>>[1] = v BY <1>11
<1>13. /\ <<v>> \o new \in Seq(S) /\ Len(<<v>> \o new) = 1 + (n - 1)
       /\ \A k \in 1 .. (1 + (n - 1)) :
            (<<v>> \o new)[k] = IF k <= 1 THEN <<v>>[k] ELSE new[k - 1]
  BY <1>10, <1>12, ConcatProperties
<1>14. \A k \in 1 .. n : old[k] = (<<v>> \o new)[k]
  <2>1. SUFFICES ASSUME NEW k \in 1 .. n PROVE old[k] = (<<v>> \o new)[k] OBVIOUS
  <2>2. CASE k = 1 BY <1>8, <1>9, <1>12, <1>13, <2>2 DEF v
  <2>3. CASE k # 1
    <3>1. k - 1 \in 1 .. (n - 1) /\ (k - 1) + 1 = k /\ ~(k <= 1) BY <2>3
    <3>2. At(u, k - 1) = At(t, k) BY <1>7, <3>1
    <3>. QED BY <1>9, <1>10, <1>13, <3>1, <3>2
  <2>. QED BY <2>2, <2>3
<1>15. Len(<<v>> \o new) = n BY <1>13
<1>16. old = <<v>> \o new BY <1>9, <1>13, <1>14, <1>15, SeqEqual
<1>. QED BY <1>1, <1>2, <1>6, <1>16 DEF old, new, v

-------------------------------------------------------------------------------
(* The ring of the state. *)

LEMMA RingIs ==
  /\ InRing = RingOf(buffer, head, tail) /\ Used = Span(head, tail)
  /\ Full <=> Next1(head) = tail
BY DEF InRing, Used, Full, RingOf, Span, At, Next1, Size

LEMMA RingIsNext == InRing' = RingOf(buffer', head', tail') /\ Used' = Span(head', tail')
BY DEF InRing, Used, RingOf, Span, At, Size

LEMMA RingType ==
  ASSUME TypeOK
  PROVE  /\ buffer \in [0 .. (Size - 1) -> Bytes]
         /\ head \in 0 .. (Size - 1) /\ tail \in 0 .. (Size - 1)
         /\ InRing \in Seq(Bytes) /\ Used \in 0 .. (Size - 1)
<1>1. /\ buffer \in [0 .. (Size - 1) -> Bytes]
      /\ head \in 0 .. (Size - 1) /\ tail \in 0 .. (Size - 1)
  BY DEF TypeOK, Size
<1>2. IsRing(RingOf(buffer, head, tail), Bytes, buffer, head, tail) BY <1>1, RingOfFacts
<1>3. Span(head, tail) \in 0 .. (Size - 1) BY <1>1, SpanFacts
<1>. QED BY <1>1, <1>2, <1>3, RingIs DEF IsRing

LEMMA SameRing ==
  ASSUME UNCHANGED <<buffer, head, tail>>
  PROVE  InRing' = InRing /\ Used' = Used
BY RingIs, RingIsNext

\* The handler stores a byte.
LEMMA Stored ==
  ASSUME TypeOK, ~Full, NEW v \in Bytes, Store(v), tail' = tail
  PROVE  /\ buffer' \in [0 .. RING_SIZE - 1 -> Bytes] /\ head' \in 0 .. RING_SIZE - 1
         /\ InRing' = Append(InRing, v) /\ Used' = Used + 1
<1>1. /\ buffer \in [0 .. (Size - 1) -> Bytes]
      /\ head \in 0 .. (Size - 1) /\ tail \in 0 .. (Size - 1)
  BY RingType
<1>2. buffer' = [buffer EXCEPT ![head] = v] /\ head' = Next1(head)
  BY DEF Store, Next1, Size
<1>3. Next1(head) \in 0 .. (Size - 1) BY <1>1, NextFacts
<1>4. Next1(head) # tail BY RingIs
<1>5. /\ RingOf([buffer EXCEPT ![head] = v], Next1(head), tail)
           = Append(RingOf(buffer, head, tail), v)
      /\ Span(Next1(head), tail) = Span(head, tail) + 1
  BY <1>1, <1>4, RingStores
<1>6. InRing' = Append(InRing, v) /\ Used' = Used + 1
  BY <1>2, <1>5, RingIs, RingIsNext
<1>. QED BY <1>1, <1>2, <1>3, <1>6 DEF Size

\* The task takes one.
LEMMA Taken ==
  ASSUME TypeOK, Used # 0, tail' = (tail + 1) % RING_SIZE, UNCHANGED <<buffer, head>>
  PROVE  /\ tail' \in 0 .. RING_SIZE - 1 /\ buffer[tail] \in Bytes
         /\ InRing = <<buffer[tail]>> \o InRing' /\ Used' = Used - 1
         /\ InRing' \in Seq(Bytes)
<1>1. /\ buffer \in [0 .. (Size - 1) -> Bytes]
      /\ head \in 0 .. (Size - 1) /\ tail \in 0 .. (Size - 1)
  BY RingType
<1>2. tail' = Next1(tail) BY DEF Next1, Size
<1>3. Next1(tail) \in 0 .. (Size - 1) BY <1>1, NextFacts
<1>4. Span(head, tail) # 0 BY RingIs
<1>5. /\ RingOf(buffer, head, tail) = <<buffer[tail]>> \o RingOf(buffer, head, Next1(tail))
      /\ Span(head, Next1(tail)) = Span(head, tail) - 1
  BY <1>1, <1>4, RingGives
<1>6. InRing' = RingOf(buffer, head, Next1(tail)) /\ Used' = Span(head, Next1(tail))
  BY <1>2, RingIsNext
<1>7. IsRing(RingOf(buffer, head, Next1(tail)), Bytes, buffer, head, Next1(tail))
  BY <1>1, <1>3, RingOfFacts
<1>. QED BY <1>1, <1>2, <1>3, <1>5, <1>6, <1>7, RingIs DEF Size, IsRing

-------------------------------------------------------------------------------
(* What is heard, as it moves from the register into the ring and out of it. *)

LEMMA MovesIn ==
  ASSUME NEW S, NEW r \in Seq(S), NEW q \in Seq(S), NEW v \in S
  PROVE  r \o Append(q, v) \o <<>> = r \o q \o <<v>>
<1>1. Append(q, v) = q \o <<v>> /\ Append(q, v) \in Seq(S) /\ <<v>> \in Seq(S)
  BY AppendIsConcat, AppendProperties
<1>2. r \o Append(q, v) \in Seq(S) BY <1>1, ConcatProperties
<1>3. r \o Append(q, v) \o <<>> = r \o Append(q, v) BY <1>2, ConcatEmptySeq
<1>4. (r \o q) \o <<v>> = r \o (q \o <<v>>) BY <1>1, ConcatAssociative
<1>. QED BY <1>1, <1>3, <1>4

LEMMA MovesOut ==
  ASSUME NEW S, NEW r \in Seq(S), NEW q \in Seq(S), NEW v \in S
  PROVE  r \o (<<v>> \o q) = Append(r, v) \o q
<1>1. Append(r, v) = r \o <<v>> /\ <<v>> \in Seq(S) BY AppendIsConcat
<1>2. (r \o <<v>>) \o q = r \o (<<v>> \o q) BY <1>1, ConcatAssociative
<1>. QED BY <1>1, <1>2

LEMMA Arrives ==
  ASSUME NEW S, NEW r \in Seq(S), NEW q \in Seq(S), NEW v \in S, NEW w,
         r \o q \o <<>> = w
  PROVE  r \o q \o <<v>> = Append(w, v)
<1>1. r \o q \in Seq(S) BY ConcatProperties
<1>2. r \o q \o <<>> = r \o q BY <1>1, ConcatEmptySeq
<1>3. Append(r \o q, v) = (r \o q) \o <<v>> BY <1>1, AppendIsConcat
<1>. QED BY <1>2, <1>3

\* The last byte of a sequence is forgotten.
Shorter(w) == SubSeq(w, 1, Len(w) - 1)

LEMMA ShorterIsSeq == ASSUME NEW S, NEW w \in Seq(S) PROVE Shorter(w) \in Seq(S)
BY DEF Shorter

LEMMA Forgotten ==
  ASSUME NEW S, NEW r \in Seq(S), NEW q \in Seq(S), NEW v \in S
  PROVE  Shorter(r \o q \o <<v>>) = r \o q \o <<>>
<1>. DEFINE w == r \o q
<1>1. w \in Seq(S) BY ConcatProperties
<1>2. r \o q \o <<>> = w BY <1>1, ConcatEmptySeq
<1>. HIDE DEF w
<1>3. w \o <<v>> = Append(w, v) BY <1>1, AppendIsConcat
<1>4. /\ Append(w, v) \in Seq(S) /\ Len(Append(w, v)) = Len(w) + 1 /\ Len(w) \in Nat
      /\ \A i \in 1 .. Len(w) : Append(w, v)[i] = w[i]
  BY <1>1, AppendProperties
<1>5. /\ SubSeq(Append(w, v), 1, Len(w)) \in Seq(S)
      /\ Len(SubSeq(Append(w, v), 1, Len(w))) = Len(w)
      /\ \A i \in 1 .. Len(w) : SubSeq(Append(w, v), 1, Len(w))[i] = Append(w, v)[i]
  BY <1>4, SubSeqProperties
<1>6. SubSeq(Append(w, v), 1, Len(w)) = w BY <1>1, <1>4, <1>5, SeqEqual
<1>7. Shorter(Append(w, v)) = w BY <1>4, <1>6 DEF Shorter
<1>. QED BY <1>2, <1>3, <1>7 DEF w

-------------------------------------------------------------------------------
(* Steps of the task. *)

LEMMA ConstantTypes ==
  /\ TxLen \in Nat \ {0} /\ RX_MAX_LEN \in Nat \ {0} /\ RING_SIZE \in Nat /\ RING_SIZE > 1
  /\ QUIET_MAX \in Nat \ {0} /\ MaxBytes \in Nat /\ 0 \in 0 .. RING_SIZE - 1
<1>1. TxLen \in Nat \ {0} BY ExchangeAssumption
<1>2. RX_MAX_LEN \in Nat \ {0} BY ExchangeAssumption
<1>3. QUIET_MAX \in Nat \ {0} BY ExchangeAssumption
<1>4. RING_SIZE \in Nat /\ RING_SIZE > 1 /\ MaxBytes \in Nat BY ExchangeAssumption
<1>5. 0 \in 0 .. RING_SIZE - 1 BY <1>4
<1>. QED BY <1>1, <1>2, <1>3, <1>4, <1>5

\* TypeOK in parts.
TaskTypes ==
  /\ pc \in {"idle", "quiet", "transmit", "sending", "abort", "first", "loop", "drain", "tail",
             "take"}
  /\ waited \in Nat /\ total \in 0 .. QUIET_MAX - 1
  /\ used \in 0 .. RING_SIZE - 1 /\ arrived \in 0 .. RX_MAX_LEN + RING_SIZE
  /\ rx_buf \in Seq(Bytes) /\ Len(rx_buf) <= RX_MAX_LEN

LineTypes ==
  /\ de \in BOOLEAN /\ cr1 \subseteq {"TXE", "TC", "RXNE"} /\ sr \subseteq Flags
  /\ rdr \in Bytes /\ pipe \in 0 .. 2

TxTypes ==
  /\ tx_idx \in 0 .. TxLen /\ tx_active \in BOOLEAN /\ tx_done \in BOOLEAN
  /\ out \in -2 .. TxLen

RingTypes ==
  /\ buffer \in [0 .. RING_SIZE - 1 -> Bytes]
  /\ head \in 0 .. RING_SIZE - 1 /\ tail \in 0 .. RING_SIZE - 1 /\ rx_active \in BOOLEAN

IsrTypes ==
  /\ isr \in {"out", "send", "turn", "receive", "errors", "save", "again", "away"}
  /\ isr_sr \subseteq Flags \cup {"TXE"} /\ isr_cr1 \subseteq {"TXE", "TC", "RXNE"}
  /\ count \in Bytes /\ heard \in Seq(Bytes)

LEMMA TypeParts ==
  /\ TypeOK <=> TaskTypes /\ LineTypes /\ TxTypes /\ RingTypes /\ IsrTypes
  /\ TypeOK' <=> TaskTypes' /\ LineTypes' /\ TxTypes' /\ RingTypes' /\ IsrTypes'
BY DEF TypeOK, TaskTypes, LineTypes, TxTypes, RingTypes, IsrTypes

\* The steps that leave the ring, its copy and what has been heard alone.
LEMMA KeptSame ==
  ASSUME KeptInv, UNCHANGED <<buffer, head, tail, rx_buf, heard, rdr>>,
         Opened' => Opened, "RXNE" \in sr' <=> "RXNE" \in sr,
         pc' \notin {"loop", "drain", "tail", "take"} => rx_buf = <<>>,
         pc' = "drain" => used' <= Used
  PROVE  KeptInv'
<1>1. InRing' = InRing /\ Used' = Used BY SameRing
<1>2. InUart' = InUart
  <2>1. CASE "RXNE" \in sr BY <2>1 DEF InUart
  <2>2. CASE "RXNE" \notin sr BY <2>2 DEF InUart
  <2>. QED BY <2>1, <2>2
<1>3. Opened' => rx_buf' \o InRing' \o InUart' = heard'
  BY <1>1, <1>2 DEF KeptInv
<1>4. pc' \notin {"loop", "drain", "tail", "take"} => rx_buf' = <<>> OBVIOUS
<1>5. pc' = "drain" => used' <= Used' BY <1>1
<1>. QED BY <1>3, <1>4, <1>5 DEF KeptInv

\* Between two exchanges nobody receives.
LEMMA KeptBetween ==
  ASSUME Between', rx_buf' = <<>> PROVE KeptInv'
BY DEF Between, KeptInv, Opened

\* The history of a window that has just been opened, or closed.
LEMMA NoneHeard == ASSUME count' = 0, heard' = <<>> PROVE heard' \in Seq(Bytes) /\ count' \in Bytes
<1>1. heard' \in Seq(Bytes)
  <2>1. <<>> \in Seq(Bytes) OBVIOUS
  <2>. QED BY <2>1
<1>2. count' \in Bytes BY ConstantTypes DEF Bytes
<1>. QED BY <1>1, <1>2

LEMMA CalledKeeps == ASSUME ExchangeInv, Called PROVE ExchangeInv'
<1>. USE DEF ExchangeInv, Called, TaskRuns, Goto, Hardware, Others
<1>1. TypeOK' BY DEF TypeOK, txVars, ringVars, isrVars, history
<1>2. LineInv' BY DEF LineInv, txVars, ringVars, isrVars
<1>3. BetweenInv' BY DEF BetweenInv, Between, txVars, ringVars, isrVars
<1>4. SendInv' /\ OpenInv' BY DEF SendInv, OpenInv, Sending, Opened
<1>5. rx_buf' = <<>> BY DEF KeptInv
<1>6. KeptInv' BY <1>5, KeptBetween DEF Between
<1>. QED BY <1>1, <1>2, <1>3, <1>4, <1>6

LEMMA AwaitQuietKeeps == ASSUME ExchangeInv, AwaitQuiet PROVE ExchangeInv'
<1>. USE DEF ExchangeInv
<1>1. /\ pc = "quiet" /\ isr = "out" /\ pc' \in {"quiet", "transmit"}
      /\ sr' = IF "RXNE" \in sr THEN sr \ ({"RXNE"} \cup Errors) ELSE sr
      /\ UNCHANGED <<used, arrived, rx_buf, de, cr1, rdr, pipe, txVars, ringVars>>
      /\ UNCHANGED <<isrVars, history, out>>
  BY DEF AwaitQuiet, TaskRuns, Goto, Others
<1>2. waited' \in Nat /\ total' \in 0 .. QUIET_MAX - 1
  BY ConstantTypes DEF AwaitQuiet, TaskRuns, Goto, QuietOver, TypeOK
<1>3. TypeOK' BY <1>1, <1>2 DEF TypeOK, txVars, ringVars, isrVars, history
<1>4. LineInv' BY <1>1 DEF LineInv, Errors, ringVars, isrVars
<1>5. BetweenInv' BY <1>1 DEF BetweenInv, Between, txVars, ringVars, isrVars
<1>6. SendInv' /\ OpenInv' BY <1>1 DEF SendInv, OpenInv, Sending, Opened
<1>7. rx_buf' = <<>> BY <1>1 DEF KeptInv
<1>8. KeptInv' BY <1>1, <1>7, KeptBetween DEF Between
<1>. QED BY <1>3, <1>4, <1>5, <1>6, <1>8

LEMMA TransmitKeeps == ASSUME ExchangeInv, Transmit PROVE ExchangeInv'
<1>. USE DEF ExchangeInv
<1>1. /\ pc = "transmit" /\ isr = "out" /\ pc' = "sending"
      /\ sr' = {} /\ de' = TRUE
      /\ tx_idx' = 0 /\ tx_active' = TRUE /\ tx_done' = FALSE
      /\ cr1' = (cr1 \ {"TC"}) \cup {"TXE"}
      /\ out' = -pipe
      /\ UNCHANGED <<waited, total, used, arrived, rx_buf, rdr, pipe, ringVars, isrVars,
                     history>>
  BY DEF Transmit, TaskRuns, Goto
<1>2. pipe \in 0 .. 2 BY <1>1 DEF TypeOK
<1>3. TypeOK'
  <2>1. TaskTypes /\ LineTypes /\ TxTypes /\ RingTypes /\ IsrTypes BY TypeParts
  <2>2. TaskTypes' BY <2>1, <1>1, <1>2, ConstantTypes DEF TaskTypes, ringVars, isrVars
  <2>3. LineTypes' BY <2>1, <1>1, <1>2, ConstantTypes DEF LineTypes, ringVars, isrVars
  <2>4. TxTypes'
    <3>1. TxLen \in Nat /\ 0 \in 0 .. TxLen BY ConstantTypes
    <3>2. out' \in -2 .. TxLen BY <1>1, <1>2, <3>1
    <3>. QED BY <1>1, <3>1, <3>2 DEF TxTypes
  <2>5. RingTypes' BY <2>1, <1>1, <1>2, ConstantTypes DEF RingTypes, ringVars, isrVars
  <2>6. IsrTypes' BY <2>1, <1>1, <1>2, ConstantTypes DEF IsrTypes, ringVars, isrVars, history
  <2>. QED BY <2>2, <2>3, <2>4, <2>5, <2>6, TypeParts
<1>4. LineInv' BY <1>1 DEF LineInv, isrVars
<1>5. BetweenInv' BY <1>1 DEF BetweenInv, Between
<1>6. SendInv'
  <2>1. out' + pipe' = tx_idx' BY <1>1, <1>2
  <2>2. "TC" \notin cr1' BY <1>1
  <2>. QED BY <1>1, <2>1, <2>2 DEF SendInv, Sending, isrVars
<1>7. OpenInv' BY <1>1 DEF OpenInv, Opened
<1>8. KeptInv'
  <2>1. rx_buf' = <<>> BY <1>1 DEF KeptInv
  <2>. QED BY <1>1, <2>1 DEF KeptInv, Opened
<1>. QED BY <1>3, <1>4, <1>5, <1>6, <1>7, <1>8

LEMMA AwaitSentKeeps == ASSUME ExchangeInv, AwaitSent PROVE ExchangeInv'
<1>. USE DEF ExchangeInv
<1>1. /\ pc = "sending" /\ isr = "out"
      /\ UNCHANGED <<total, used, arrived, rx_buf, tx_idx, tx_done, ringVars>>
      /\ UNCHANGED <<de, cr1, sr, rdr, pipe>> /\ UNCHANGED <<isrVars, history, out>>
      /\ \/ tx_done /\ pc' = "first" /\ waited' = 0 /\ tx_active' = FALSE
         \/ ~tx_done /\ pc' = "abort" /\ UNCHANGED <<waited, tx_active>>
         \/ ~tx_done /\ pc' = "sending" /\ waited' = waited + 1 /\ UNCHANGED tx_active
  BY DEF AwaitSent, TaskRuns, Goto, Hardware, Others
<1>2. TypeOK'
  <2>1. TaskTypes /\ LineTypes /\ TxTypes /\ RingTypes /\ IsrTypes BY TypeParts
  <2>2. TaskTypes' BY <2>1, <1>1 DEF TaskTypes, ringVars, isrVars
  <2>3. LineTypes' BY <2>1, <1>1 DEF LineTypes, ringVars, isrVars
  <2>4. TxTypes' BY <2>1, <1>1 DEF TxTypes, ringVars, isrVars
  <2>5. RingTypes' BY <2>1, <1>1 DEF RingTypes, ringVars, isrVars
  <2>6. IsrTypes' BY <2>1, <1>1 DEF IsrTypes, ringVars, isrVars, history
  <2>. QED BY <2>2, <2>3, <2>4, <2>5, <2>6, TypeParts
<1>3. LineInv' BY <1>1 DEF LineInv, isrVars
<1>4. BetweenInv' BY <1>1 DEF BetweenInv, Between
<1>5. SendInv' BY <1>1 DEF SendInv, Sending, ringVars, isrVars
<1>6. OpenInv' BY <1>1 DEF OpenInv, Opened, ringVars, isrVars
<1>7. KeptInv'
  <2>1. Opened' => Opened BY <1>1 DEF Opened
  <2>2. rx_buf = <<>> BY <1>1 DEF KeptInv
  <2>. QED BY <1>1, <2>1, <2>2, KeptSame DEF ringVars, history
<1>. QED BY <1>2, <1>3, <1>4, <1>5, <1>6, <1>7

LEMMA AbortKeeps == ASSUME ExchangeInv, Abort PROVE ExchangeInv'
<1>. USE DEF ExchangeInv
<1>1. /\ pc = "abort" /\ isr = "out" /\ pc' = "idle"
      /\ waited' = 0 /\ total' = 0 /\ used' = 0 /\ arrived' = 0 /\ rx_buf' = <<>>
      /\ count' = 0 /\ heard' = <<>>
      /\ cr1' \subseteq cr1 \ {"TXE", "TC"} /\ de' = FALSE
      /\ tx_active' = FALSE /\ tx_done' = FALSE
      /\ UNCHANGED <<sr, rdr, pipe, tx_idx, ringVars>> /\ UNCHANGED <<isrVars, out>>
  BY DEF Abort, TaskRuns, Returns, Goto
<1>2. TypeOK'
  <2>1. TaskTypes /\ LineTypes /\ TxTypes /\ RingTypes /\ IsrTypes BY TypeParts
  <2>2. TaskTypes' BY <2>1, <1>1, ConstantTypes DEF TaskTypes, ringVars, isrVars
  <2>3. LineTypes' BY <2>1, <1>1, ConstantTypes DEF LineTypes, ringVars, isrVars
  <2>4. TxTypes' BY <2>1, <1>1, ConstantTypes DEF TxTypes, ringVars, isrVars
  <2>5. RingTypes' BY <2>1, <1>1, ConstantTypes DEF RingTypes, ringVars, isrVars
  <2>6. IsrTypes'
    <3>1. heard' \in Seq(Bytes) /\ count' \in Bytes BY <1>1, NoneHeard
    <3>2. UNCHANGED <<isr, isr_sr, isr_cr1>> BY <1>1 DEF isrVars
    <3>. QED BY <2>1, <3>1, <3>2 DEF IsrTypes
  <2>. QED BY <2>2, <2>3, <2>4, <2>5, <2>6, TypeParts
<1>3. LineInv' BY <1>1 DEF LineInv, isrVars
<1>4. BetweenInv'
  <2>1. cr1 \subseteq {"TXE", "TC", "RXNE"} BY DEF TypeOK
  <2>2. cr1' \subseteq {"RXNE"} BY <1>1, <2>1
  <2>. QED BY <1>1, <2>2 DEF BetweenInv, isrVars
<1>5. SendInv' /\ OpenInv' BY <1>1 DEF SendInv, OpenInv, Sending, Opened
<1>6. KeptInv' BY <1>1, KeptBetween DEF Between
<1>. QED BY <1>2, <1>3, <1>4, <1>5, <1>6

\* The window is closed: AwaitFirst without an answer, NoTail and TakeTail.
LEMMA CloseKeeps ==
  ASSUME ExchangeInv, isr = "out", pc \in {"first", "tail", "take"}, CloseWindow,
         sr' \subseteq sr, UNCHANGED <<de, rdr, pipe, txVars, buffer, head, tail>>
  PROVE  ExchangeInv'
<1>. USE DEF ExchangeInv
<1>1. /\ pc' = "idle"
      /\ waited' = 0 /\ total' = 0 /\ used' = 0 /\ arrived' = 0 /\ rx_buf' = <<>>
      /\ count' = 0 /\ heard' = <<>>
      /\ cr1' = cr1 \ {"RXNE"} /\ rx_active' = FALSE
      /\ UNCHANGED <<de, rdr, pipe, txVars, buffer, head, tail>> /\ UNCHANGED <<isrVars, out>>
  BY DEF CloseWindow, Returns, Goto
<1>2. TypeOK'
  <2>1. TaskTypes /\ LineTypes /\ TxTypes /\ RingTypes /\ IsrTypes BY TypeParts
  <2>2. TaskTypes' BY <2>1, <1>1, ConstantTypes DEF TaskTypes, txVars, isrVars
  <2>3. LineTypes' BY <2>1, <1>1, ConstantTypes DEF LineTypes, txVars, isrVars
  <2>4. TxTypes' BY <2>1, <1>1, ConstantTypes DEF TxTypes, txVars, isrVars
  <2>5. RingTypes' BY <2>1, <1>1, ConstantTypes DEF RingTypes, txVars, isrVars
  <2>6. IsrTypes'
    <3>1. heard' \in Seq(Bytes) /\ count' \in Bytes BY <1>1, NoneHeard
    <3>2. UNCHANGED <<isr, isr_sr, isr_cr1>> BY <1>1 DEF isrVars
    <3>. QED BY <2>1, <3>1, <3>2 DEF IsrTypes
  <2>. QED BY <2>2, <2>3, <2>4, <2>5, <2>6, TypeParts
<1>3. LineInv' BY <1>1 DEF LineInv, isrVars
<1>4. BetweenInv'
  <2>1. cr1' = {} /\ ~de BY <1>1 DEF OpenInv, Opened
  <2>. QED BY <1>1, <2>1 DEF BetweenInv, isrVars
<1>5. SendInv' /\ OpenInv' BY <1>1 DEF SendInv, OpenInv, Sending, Opened
<1>6. KeptInv' BY <1>1, KeptBetween DEF Between
<1>. QED BY <1>2, <1>3, <1>4, <1>5, <1>6

\* The task goes on receiving; the registers and the handler are as they were.
LEMMA ReceivingKeeps ==
  ASSUME ExchangeInv, pc \in {"first", "loop", "drain", "tail"},
         pc' \in {"first", "loop", "drain", "tail", "take"},
         isr = "out",
         UNCHANGED <<total, de, cr1, sr, rdr, pipe, txVars, head, buffer, rx_active, isrVars,
                     history, out>>,
         waited' \in Nat, used' \in 0 .. RING_SIZE - 1,
         arrived' \in 0 .. RX_MAX_LEN + RING_SIZE, rx_buf' \in Seq(Bytes),
         Len(rx_buf') <= RX_MAX_LEN, tail' \in 0 .. RING_SIZE - 1, KeptInv'
  PROVE  ExchangeInv'
<1>. USE DEF ExchangeInv
<1>1. TypeOK' BY DEF TypeOK, txVars, isrVars, history
<1>2. LineInv' BY DEF LineInv, isrVars
<1>3. BetweenInv' BY DEF BetweenInv, Between
<1>4. SendInv' /\ OpenInv'
  BY DEF SendInv, OpenInv, Sending, Opened, txVars, isrVars
<1>. QED BY <1>1, <1>2, <1>3, <1>4

LEMMA AwaitFirstKeeps == ASSUME ExchangeInv, AwaitFirst PROVE ExchangeInv'
<1>1. /\ pc = "first" /\ isr = "out" /\ UNCHANGED <<de, sr, rdr, pipe, txVars, buffer, head, tail>>
      /\ \/ /\ Used # 0 /\ pc' = "loop" /\ arrived' = Used /\ waited' = 0
            /\ UNCHANGED <<total, used, rx_buf, cr1, rx_active>> /\ Others
         \/ /\ Used = 0 /\ waited <= FirstTimeout /\ waited' = waited + 1
            /\ UNCHANGED <<pc, total, used, arrived, rx_buf, cr1, rx_active>> /\ Others
         \/ Used = 0 /\ waited > FirstTimeout /\ CloseWindow
  BY DEF AwaitFirst, TaskRuns, Goto
<1>2. CASE CloseWindow
  <2>1. sr' \subseteq sr BY <1>1
  <2>. QED BY <1>1, <1>2, <2>1, CloseKeeps
<1>3. CASE ~CloseWindow
  <2>1. /\ pc' \in {"first", "loop"} /\ UNCHANGED <<total, used, rx_buf, cr1, rx_active>>
        /\ UNCHANGED <<isrVars, history, out>>
        /\ arrived' \in {arrived, Used} /\ waited' \in {0, waited + 1}
    BY <1>1, <1>3 DEF Others
  <2>2. Used \in 0 .. (RING_SIZE - 1) BY RingType DEF ExchangeInv, Size
  <2>3. /\ waited' \in Nat /\ used' \in 0 .. RING_SIZE - 1
        /\ arrived' \in 0 .. RX_MAX_LEN + RING_SIZE /\ rx_buf' \in Seq(Bytes)
        /\ Len(rx_buf') <= RX_MAX_LEN /\ tail' \in 0 .. RING_SIZE - 1
    BY <1>1, <2>1, <2>2, ConstantTypes DEF ExchangeInv, TypeOK
  <2>4. KeptInv'
    <3>1. Opened BY <1>1 DEF Opened
    <3>2. rx_buf = <<>> BY <1>1 DEF ExchangeInv, KeptInv
    <3>. QED BY <1>1, <2>1, <3>1, <3>2, KeptSame DEF ExchangeInv, history
  <2>. QED BY <1>1, <2>1, <2>3, <2>4, ReceivingKeeps
<1>. QED BY <1>2, <1>3

LEMMA LoopStartsKeeps == ASSUME ExchangeInv, LoopStarts PROVE ExchangeInv'
<1>1. /\ pc = "loop" /\ isr = "out" /\ pc' = "drain" /\ used' = Used
      /\ UNCHANGED <<waited, total, arrived, rx_buf, txVars, ringVars>>
      /\ UNCHANGED <<de, cr1, sr, rdr, pipe>> /\ UNCHANGED <<isrVars, history, out>>
  BY DEF LoopStarts, TaskRuns, Goto, Hardware, Others
<1>2. Used \in 0 .. (RING_SIZE - 1) /\ Used <= Used
  BY RingType, ConstantTypes DEF ExchangeInv, Size
<1>3. /\ waited' \in Nat /\ used' \in 0 .. RING_SIZE - 1
      /\ arrived' \in 0 .. RX_MAX_LEN + RING_SIZE /\ rx_buf' \in Seq(Bytes)
      /\ Len(rx_buf') <= RX_MAX_LEN /\ tail' \in 0 .. RING_SIZE - 1
  BY <1>1, <1>2 DEF ExchangeInv, TypeOK, ringVars
<1>4. KeptInv'
  <2>1. Opened BY <1>1 DEF Opened
  <2>. QED BY <1>1, <1>2, <2>1, KeptSame DEF ExchangeInv, ringVars, history
<1>. QED BY <1>1, <1>3, <1>4, ReceivingKeeps DEF ringVars

LEMMA DrainsKeeps == ASSUME ExchangeInv, Drains PROVE ExchangeInv'
<1>1. /\ pc = "drain" /\ isr = "out" /\ used # 0 /\ Len(rx_buf) < RX_MAX_LEN
      /\ rx_buf' = Append(rx_buf, buffer[tail]) /\ tail' = (tail + 1) % RING_SIZE
      /\ used' = used - 1 /\ waited' = 0
      /\ UNCHANGED <<pc, total, arrived, txVars, buffer, head, rx_active>>
      /\ UNCHANGED <<de, cr1, sr, rdr, pipe>> /\ UNCHANGED <<isrVars, history, out>>
  BY DEF Drains, TaskRuns, Hardware, Others
<1>2. /\ used \in 1 .. (RING_SIZE - 1) /\ used <= Used /\ Used \in 0 .. (RING_SIZE - 1)
      /\ rx_buf \in Seq(Bytes)
  BY <1>1, RingType, ConstantTypes DEF ExchangeInv, Size, TypeOK, KeptInv
<1>3. Used # 0 BY <1>2, ConstantTypes
<1>4. /\ tail' \in 0 .. RING_SIZE - 1 /\ buffer[tail] \in Bytes
      /\ InRing = <<buffer[tail]>> \o InRing' /\ Used' = Used - 1
      /\ InRing' \in Seq(Bytes)
  BY <1>1, <1>3, Taken DEF ExchangeInv
<1>5. rx_buf' \in Seq(Bytes) /\ Len(rx_buf') <= RX_MAX_LEN
  <2>1. Append(rx_buf, buffer[tail]) \in Seq(Bytes)
        /\ Len(Append(rx_buf, buffer[tail])) = Len(rx_buf) + 1
    BY <1>2, <1>4, AppendProperties
  <2>2. Len(rx_buf) \in Nat BY <1>2, LenProperties
  <2>. QED BY <1>1, <2>1, <2>2, ConstantTypes
<1>6. KeptInv'
  <2>1. rx_buf \o InRing = rx_buf' \o InRing' BY <1>1, <1>2, <1>4, MovesOut
  <2>2. InUart' = InUart BY <1>1 DEF InUart
  <2>3. rx_buf \o InRing \o InUart = heard
    BY <1>1 DEF ExchangeInv, KeptInv, Opened
  <2>4. used' <= Used' BY <1>1, <1>2, <1>4, ConstantTypes
  <2>. QED BY <1>1, <2>1, <2>2, <2>3, <2>4 DEF KeptInv, history
<1>7. /\ waited' \in Nat /\ used' \in 0 .. RING_SIZE - 1
      /\ arrived' \in 0 .. RX_MAX_LEN + RING_SIZE
  BY <1>1, <1>2, ConstantTypes DEF ExchangeInv, TypeOK
<1>. QED BY <1>1, <1>4, <1>5, <1>6, <1>7, ReceivingKeeps

LEMMA DrainedKeeps == ASSUME ExchangeInv, Drained PROVE ExchangeInv'
<1>1. /\ pc = "drain" /\ isr = "out"
      /\ UNCHANGED <<total, used, rx_buf, txVars, ringVars>>
      /\ UNCHANGED <<de, cr1, sr, rdr, pipe>> /\ UNCHANGED <<isrVars, history, out>>
      /\ pc' \in {"loop", "tail"} /\ waited' \in {waited, 1, waited + 1}
      /\ arrived' \in {arrived, Len(rx_buf) + Used}
  BY DEF Drained, TaskRuns, Goto, Hardware, Others
<1>2. Used \in 0 .. (RING_SIZE - 1) /\ Len(rx_buf) \in Nat
  BY RingType, LenProperties DEF ExchangeInv, Size, TypeOK
<1>3. /\ waited' \in Nat /\ used' \in 0 .. RING_SIZE - 1
      /\ rx_buf' \in Seq(Bytes) /\ Len(rx_buf') <= RX_MAX_LEN /\ tail' \in 0 .. RING_SIZE - 1
  BY <1>1 DEF ExchangeInv, TypeOK, ringVars
<1>4. arrived' \in 0 .. RX_MAX_LEN + RING_SIZE
  <2>1. Len(rx_buf) + Used \in 0 .. RX_MAX_LEN + RING_SIZE
    BY <1>2, ConstantTypes DEF ExchangeInv, TypeOK
  <2>. QED BY <1>1, <2>1 DEF ExchangeInv, TypeOK
<1>5. KeptInv'
  <2>1. Opened BY <1>1 DEF Opened
  <2>. QED BY <1>1, <2>1, KeptSame DEF ExchangeInv, ringVars, history
<1>. QED BY <1>1, <1>3, <1>4, <1>5, ReceivingKeeps DEF ringVars

LEMMA FindTailKeeps == ASSUME ExchangeInv, FindTail PROVE ExchangeInv'
<1>1. /\ pc = "tail" /\ isr = "out" /\ pc' = "take"
      /\ UNCHANGED <<waited, total, used, arrived, rx_buf, txVars, ringVars>>
      /\ UNCHANGED <<de, cr1, sr, rdr, pipe>> /\ UNCHANGED <<isrVars, history, out>>
  BY DEF FindTail, TaskRuns, Goto, Hardware, Others
<1>2. /\ waited' \in Nat /\ used' \in 0 .. RING_SIZE - 1
      /\ arrived' \in 0 .. RX_MAX_LEN + RING_SIZE /\ rx_buf' \in Seq(Bytes)
      /\ Len(rx_buf') <= RX_MAX_LEN /\ tail' \in 0 .. RING_SIZE - 1
  BY <1>1 DEF ExchangeInv, TypeOK, ringVars
<1>3. KeptInv'
  <2>1. Opened BY <1>1 DEF Opened
  <2>. QED BY <1>1, <2>1, KeptSame DEF ExchangeInv, ringVars, history
<1>. QED BY <1>1, <1>2, <1>3, ReceivingKeeps DEF ringVars

LEMMA TailKeeps == ASSUME ExchangeInv, NoTail \/ TakeTail PROVE ExchangeInv'
<1>1. /\ isr = "out" /\ pc \in {"tail", "take"} /\ CloseWindow /\ sr' \subseteq sr
      /\ UNCHANGED <<de, rdr, pipe, txVars, buffer, head, tail>>
  BY DEF NoTail, TakeTail, TaskRuns
<1>. QED BY <1>1, CloseKeeps

LEMMA TaskKeeps == ASSUME ExchangeInv, Called \/ TaskStep PROVE ExchangeInv'
BY CalledKeeps, AwaitQuietKeeps, TransmitKeeps, AwaitSentKeeps, AbortKeeps, AwaitFirstKeeps,
   LoopStartsKeeps, DrainsKeeps, DrainedKeeps, FindTailKeeps, TailKeeps, Zenon DEF TaskStep

-------------------------------------------------------------------------------
(* Steps of the handler. *)

\* While the handler runs, the window of the last exchange, if it came to one, is open.
LEMMA HandlerRuns ==
  ASSUME ExchangeInv, isr # "out"
  PROVE  /\ Opened \/ Sending \/ (Between /\ ~tx_done)
         /\ Opened => rx_active
BY DEF ExchangeInv, TypeOK, BetweenInv, OpenInv, Between, Opened, Sending

LEMMA EntersKeeps == ASSUME ExchangeInv, IsrEnters PROVE ExchangeInv'
<1>. USE DEF ExchangeInv
<1>1. /\ isr = "out" /\ Pending /\ isr' = "send" /\ isr_cr1' = cr1
      /\ isr_sr' = sr \cup (IF TxEmpty THEN {"TXE"} ELSE {})
      /\ UNCHANGED <<taskVars, txVars, ringVars, history, out>>
      /\ UNCHANGED <<de, cr1, sr, rdr, pipe>>
  BY DEF IsrEnters, Hardware
<1>2. TypeOK'
  <2>1. TaskTypes /\ LineTypes /\ TxTypes /\ RingTypes /\ IsrTypes BY TypeParts
  <2>2. TaskTypes' BY <1>1, <2>1 DEF TaskTypes, taskVars
  <2>3. LineTypes' BY <1>1, <2>1 DEF LineTypes
  <2>4. TxTypes' BY <1>1, <2>1 DEF TxTypes, txVars
  <2>5. RingTypes' BY <1>1, <2>1 DEF RingTypes, ringVars
  <2>6. IsrTypes' BY <1>1, <2>1 DEF IsrTypes, LineTypes, history
  <2>. QED BY <2>2, <2>3, <2>4, <2>5, <2>6, TypeParts
<1>3. LineInv'
  <2>1. "TXE" \in isr_sr' => pipe < 2 BY <1>1 DEF TypeOK, Flags, TxEmpty
  <2>2. "RXNE" \in isr_sr' => "RXNE" \in sr BY <1>1
  <2>. QED BY <1>1, <2>1, <2>2 DEF LineInv
<1>4. BetweenInv'
  <2>. SUFFICES ASSUME Between PROVE BetweenInv'
    BY <1>1 DEF BetweenInv, Between, taskVars
  <2>1. ~tx_done BY <1>1 DEF BetweenInv, Pending
  <2>2. ~de /\ cr1 \subseteq {"RXNE"} BY DEF BetweenInv
  <2>. QED BY <1>1, <2>1, <2>2 DEF BetweenInv, txVars
<1>5. SendInv'
  <2>1. "TC" \in isr_sr' => "TC" \in sr BY <1>1
  <2>2. "TC" \in sr => pipe = 0 BY DEF LineInv
  <2>. QED BY <1>1, <2>1, <2>2 DEF SendInv, Sending, taskVars, txVars
<1>6. OpenInv' BY <1>1 DEF OpenInv, Opened, taskVars, txVars, ringVars
<1>7. KeptInv'
  <2>1. Opened' => Opened BY <1>1 DEF Opened, taskVars, txVars
  <2>. QED BY <1>1, <2>1, KeptSame DEF KeptInv, taskVars, ringVars, history
<1>. QED BY <1>2, <1>3, <1>4, <1>5, <1>6, <1>7

LEMMA TransmitsKeeps == ASSUME ExchangeInv, IsrTransmits PROVE ExchangeInv'
<1>. USE DEF ExchangeInv
<1>1. /\ isr = "send" /\ isr' = "turn"
      /\ UNCHANGED <<taskVars, de, rdr, tx_active, tx_done, ringVars, isr_sr, isr_cr1>>
      /\ UNCHANGED <<history, out>>
      /\ \/ /\ "TXE" \in isr_sr /\ "TXE" \in isr_cr1 /\ tx_active /\ tx_idx < TxLen
            /\ pipe' = pipe + 1 /\ tx_idx' = tx_idx + 1 /\ sr' = sr \ {"TC"} /\ UNCHANGED cr1
         \/ /\ "TXE" \in isr_sr /\ "TXE" \in isr_cr1 /\ ~(tx_active /\ tx_idx < TxLen)
            /\ cr1' = (cr1 \ {"TXE"}) \cup {"TC"} /\ UNCHANGED <<pipe, tx_idx, sr>>
         \/ UNCHANGED <<pipe, tx_idx, sr, cr1>>
  <2>1. ({"TXE"} \subseteq isr_sr \cap isr_cr1) <=> ("TXE" \in isr_sr /\ "TXE" \in isr_cr1)
    OBVIOUS
  <2>. QED BY <2>1 DEF IsrTransmits, MoreToSend
<1>2. /\ tx_idx \in 0 .. TxLen /\ pipe \in 0 .. 2 /\ TxLen \in Nat
      /\ "TXE" \in isr_sr => pipe < 2
  BY <1>1, ConstantTypes DEF TypeOK, LineInv
<1>3. TypeOK'
  <2>1. TaskTypes /\ LineTypes /\ TxTypes /\ RingTypes /\ IsrTypes BY TypeParts
  <2>2. TaskTypes' BY <1>1, <2>1 DEF TaskTypes, taskVars
  <2>3. LineTypes'
    <3>1. pipe' \in 0 .. 2 BY <1>1, <1>2
    <3>2. sr' \subseteq Flags /\ cr1' \subseteq {"TXE", "TC", "RXNE"}
      BY <1>1, <2>1 DEF LineTypes
    <3>. QED BY <1>1, <2>1, <3>1, <3>2 DEF LineTypes
  <2>4. TxTypes'
    <3>1. tx_idx' \in 0 .. TxLen BY <1>1, <1>2
    <3>. QED BY <1>1, <2>1, <3>1 DEF TxTypes
  <2>5. RingTypes' BY <1>1, <2>1 DEF RingTypes, ringVars
  <2>6. IsrTypes' BY <1>1, <2>1 DEF IsrTypes, history
  <2>. QED BY <2>2, <2>3, <2>4, <2>5, <2>6, TypeParts
<1>4. "RXNE" \in sr' <=> "RXNE" \in sr BY <1>1
<1>5. LineInv'
  <2>1. "TC" \in sr' => pipe' = 0 BY <1>1 DEF LineInv
  <2>2. "RXNE" \in isr_sr' => "RXNE" \in sr' BY <1>1, <1>4 DEF LineInv
  <2>. QED BY <1>1, <2>1, <2>2 DEF LineInv
<1>6. "TXE" \notin isr_cr1 => UNCHANGED <<pipe, cr1>> BY <1>1
<1>7. BetweenInv'
  <2>. SUFFICES ASSUME Between PROVE BetweenInv'
    BY <1>1 DEF BetweenInv, Between, taskVars
  <2>1. isr_cr1 \subseteq {"RXNE"} /\ ~tx_done /\ ~de /\ cr1 \subseteq {"RXNE"}
    BY <1>1 DEF BetweenInv
  <2>2. "TXE" \notin isr_cr1 BY <2>1
  <2>. QED BY <1>1, <1>6, <2>1, <2>2 DEF BetweenInv
<1>8. SendInv'
  <2>. SUFFICES ASSUME Sending PROVE SendInv'
    BY <1>1 DEF SendInv, Sending, taskVars
  <2>1. /\ de /\ tx_active /\ out + pipe = tx_idx /\ out \in Int
        /\ "TC" \in cr1 => "TXE" \notin cr1 /\ tx_idx = TxLen
    BY DEF SendInv, TypeOK
  <2>2. "TC" \in isr_cr1 =>
          "TC" \in cr1 /\ "TXE" \notin isr_cr1 /\ ("TC" \in isr_sr => pipe = 0)
    BY <1>1 DEF SendInv
  <2>3. out' + pipe' = tx_idx' BY <1>1, <1>2, <2>1
  <2>4. "TC" \in cr1' => "TXE" \notin cr1' /\ tx_idx' = TxLen
    <3>1. CASE "TC" \in cr1 BY <1>1, <1>2, <2>1, <3>1
    <3>2. CASE "TC" \notin cr1 BY <1>1, <1>2, <2>1, <3>2
    <3>. QED BY <3>1, <3>2
  <2>. QED BY <1>1, <1>6, <2>1, <2>2, <2>3, <2>4 DEF SendInv
<1>9. OpenInv'
  <2>. SUFFICES ASSUME Opened PROVE OpenInv'
    BY <1>1 DEF OpenInv, Opened, taskVars
  <2>1. isr_cr1 = {"RXNE"} BY <1>1 DEF OpenInv
  <2>2. "TXE" \notin isr_cr1 BY <2>1
  <2>. QED BY <1>1, <1>6, <2>1, <2>2 DEF OpenInv, ringVars
<1>10. KeptInv'
  <2>1. Opened' => Opened BY <1>1 DEF Opened, taskVars
  <2>. QED BY <1>1, <1>4, <2>1, KeptSame DEF KeptInv, taskVars, ringVars, history
<1>. QED BY <1>3, <1>5, <1>7, <1>8, <1>9, <1>10

\* The bus is turned round, with the request out and an empty ring.
LEMMA TurnsRoundKeeps == ASSUME ExchangeInv, IsrTurnsRound, Shifted PROVE ExchangeInv'
<1>. USE DEF ExchangeInv
<1>1. /\ isr = "turn" /\ isr' = "receive"
      /\ UNCHANGED <<taskVars, rdr, pipe, tx_idx, buffer, isr_cr1, out>>
      /\ sr' = sr \ ({"TC", "RXNE"} \cup Errors) /\ isr_sr' = isr_sr \ ({"RXNE"} \cup Errors)
      /\ de' = FALSE /\ head' = 0 /\ tail' = 0 /\ rx_active' = TRUE
      /\ cr1' = (cr1 \ {"TC"}) \cup {"RXNE"}
      /\ tx_active' = FALSE /\ tx_done' = TRUE /\ count' = 0 /\ heard' = <<>>
  BY DEF IsrTurnsRound, Flushed
<1>2. "TC" \in isr_cr1 /\ "TC" \in isr_sr BY DEF Shifted
<1>3. Sending
  <2>1. ~Opened BY <1>1, <1>2 DEF OpenInv
  <2>2. ~Between BY <1>1, <1>2 DEF BetweenInv
  <2>. QED BY <1>1, <2>1, <2>2, HandlerRuns
<1>4. /\ "TC" \in cr1 /\ "TXE" \notin cr1 /\ cr1 \subseteq {"TXE", "TC", "RXNE"}
      /\ pipe = 0 /\ out = TxLen /\ rx_buf = <<>>
  <2>1. "TC" \in cr1 /\ pipe = 0 /\ out + pipe = tx_idx BY <1>1, <1>2, <1>3 DEF SendInv
  <2>2. "TXE" \notin cr1 /\ tx_idx = TxLen BY <1>3, <2>1 DEF SendInv
  <2>3. out \in Int /\ cr1 \subseteq {"TXE", "TC", "RXNE"} BY DEF TypeOK
  <2>4. rx_buf = <<>> BY <1>3 DEF KeptInv, Sending
  <2>. QED BY <2>1, <2>2, <2>3, <2>4
<1>5. TypeOK'
  <2>1. TaskTypes /\ LineTypes /\ TxTypes /\ RingTypes /\ IsrTypes BY TypeParts
  <2>2. TaskTypes' BY <1>1, <2>1 DEF TaskTypes, taskVars
  <2>3. LineTypes' BY <1>1, <1>4, <2>1 DEF LineTypes
  <2>4. TxTypes' BY <1>1, <2>1 DEF TxTypes
  <2>5. RingTypes' BY <1>1, <2>1, ConstantTypes DEF RingTypes
  <2>6. IsrTypes'
    <3>1. heard' \in Seq(Bytes) /\ count' \in Bytes BY <1>1, NoneHeard
    <3>2. isr_sr' \subseteq Flags \cup {"TXE"} /\ isr_cr1' = isr_cr1 BY <1>1, <2>1 DEF IsrTypes
    <3>. QED BY <1>1, <2>1, <3>1, <3>2 DEF IsrTypes
  <2>. QED BY <2>2, <2>3, <2>4, <2>5, <2>6, TypeParts
<1>6. LineInv'
  <2>1. "RXNE" \notin isr_sr' /\ "TC" \notin sr' BY <1>1
  <2>. QED BY <1>1, <2>1 DEF LineInv
<1>7. BetweenInv' BY <1>1, <1>3 DEF BetweenInv, Between, Sending, taskVars
<1>8. SendInv' BY <1>1 DEF SendInv, Sending
<1>9. OpenInv'
  <2>1. cr1' = {"RXNE"} BY <1>1, <1>4
  <2>. QED BY <1>1, <1>4, <2>1 DEF OpenInv
<1>10. KeptInv'
  <2>1. InUart' = <<>>
    <3>1. "RXNE" \notin sr' BY <1>1
    <3>. QED BY <3>1 DEF InUart
  <2>2. InRing' = <<>>
    <3>1. 0 \in 0 .. (Size - 1) BY ConstantTypes DEF Size
    <3>2. Span(0, 0) = 0 BY <3>1, SpanFacts, SizeFacts
    <3>3. buffer \in [0 .. (Size - 1) -> Bytes] BY RingType
    <3>4. IsRing(RingOf(buffer, 0, 0), Bytes, buffer, 0, 0) BY <3>1, <3>3, RingOfFacts
    <3>5. RingOf(buffer, 0, 0) \in Seq(Bytes) /\ Len(RingOf(buffer, 0, 0)) = 0
      BY <3>2, <3>4 DEF IsRing
    <3>6. InRing' = RingOf(buffer, 0, 0) BY <1>1, RingIsNext
    <3>. QED BY <3>5, <3>6, EmptySeq
  <2>3. rx_buf' = <<>> /\ pc' \in {"sending", "abort"} BY <1>1, <1>3, <1>4 DEF taskVars, Sending
  <2>4. <<>> \o <<>> \o <<>> = <<>>
    <3>1. <<>> \in Seq(Bytes) OBVIOUS
    <3>. QED BY <3>1, ConcatEmptySeq
  <2>. QED BY <1>1, <2>1, <2>2, <2>3, <2>4 DEF KeptInv
<1>. QED BY <1>5, <1>6, <1>7, <1>8, <1>9, <1>10

\* The handler goes on, and with it at most the flags, the ring and what has been heard.
LEMMA HandlerKeeps ==
  ASSUME ExchangeInv, isr \in {"turn", "receive", "errors", "save", "again", "away"},
         isr' \in {"receive", "errors", "save", "again", "away", "out"},
         UNCHANGED <<taskVars, de, cr1, rdr, pipe, txVars, tail, rx_active, count, out>>,
         isr' = "receive" => isr = "turn" /\ UNCHANGED <<isr_sr, sr>>,
         isr' = "save" => "RXNE" \in sr' /\ rx_active' /\ ~Full',
         sr' \subseteq sr, isr_sr' \subseteq Flags \cup {"TXE"}, isr_cr1' \subseteq isr_cr1,
         heard' \in Seq(Bytes),
         buffer' \in [0 .. RING_SIZE - 1 -> Bytes], head' \in 0 .. RING_SIZE - 1, KeptInv'
  PROVE  ExchangeInv'
<1>. USE DEF ExchangeInv
<1>1. TypeOK'
  <2>1. TaskTypes /\ LineTypes /\ TxTypes /\ RingTypes /\ IsrTypes BY TypeParts
  <2>2. TaskTypes' BY <2>1 DEF TaskTypes, taskVars
  <2>3. LineTypes' BY <2>1 DEF LineTypes
  <2>4. TxTypes' BY <2>1 DEF TxTypes, txVars
  <2>5. RingTypes' BY <2>1 DEF RingTypes
  <2>6. IsrTypes' BY <2>1 DEF IsrTypes
  <2>. QED BY <2>2, <2>3, <2>4, <2>5, <2>6, TypeParts
<1>2. LineInv'
  <2>1. "TC" \in sr' => pipe' = 0 BY DEF LineInv
  <2>2. isr' = "receive" /\ "RXNE" \in isr_sr' => "RXNE" \in sr'
    <3>. SUFFICES ASSUME isr' = "receive", "RXNE" \in isr_sr' PROVE "RXNE" \in sr' OBVIOUS
    <3>1. isr = "turn" /\ UNCHANGED <<isr_sr, sr>> OBVIOUS
    <3>. QED BY <3>1 DEF LineInv
  <2>. QED BY <2>1, <2>2 DEF LineInv
<1>3. BetweenInv'
  <2>1. Between => ~tx_done /\ ~de /\ cr1 \subseteq {"RXNE"} BY DEF BetweenInv
  <2>. QED BY <2>1 DEF BetweenInv, Between, taskVars, txVars
<1>4. SendInv' BY DEF SendInv, Sending, taskVars, txVars
<1>5. OpenInv' BY DEF OpenInv, Opened, taskVars, txVars
<1>. QED BY <1>1, <1>2, <1>3, <1>4, <1>5

\* The handler reads a byte from the register: into the ring, or away.
LEMMA ReadsByte ==
  ASSUME TypeOK, KeptInv, "RXNE" \in sr, "RXNE" \notin sr', Opened => rx_active,
         UNCHANGED <<taskVars, tx_done, tail>>,
         \/ ~Full /\ Store(rdr) /\ UNCHANGED heard
         \/ Forget /\ UNCHANGED <<buffer, head>>
         \/ ~rx_active /\ UNCHANGED <<buffer, head, heard>>
  PROVE  /\ KeptInv' /\ heard' \in Seq(Bytes)
         /\ buffer' \in [0 .. RING_SIZE - 1 -> Bytes] /\ head' \in 0 .. RING_SIZE - 1
<1>1. /\ rdr \in Bytes /\ rx_buf \in Seq(Bytes) /\ InRing \in Seq(Bytes)
      /\ Used \in 0 .. (RING_SIZE - 1)
      /\ heard \in Seq(Bytes)
      /\ buffer \in [0 .. RING_SIZE - 1 -> Bytes] /\ head \in 0 .. RING_SIZE - 1
  BY RingType DEF TypeOK, Size
<1>2. InUart = <<rdr>> /\ InUart' = <<>> BY DEF InUart
<1>3. /\ UNCHANGED <<rx_buf, pc, used>> /\ (Opened' <=> Opened)
      /\ pc \notin {"loop", "drain", "tail", "take"} => rx_buf = <<>>
      /\ pc = "drain" => used <= Used
  BY DEF taskVars, Opened, KeptInv
<1>4. CASE ~Full /\ Store(rdr) /\ UNCHANGED heard
  <2>1. /\ buffer' \in [0 .. RING_SIZE - 1 -> Bytes] /\ head' \in 0 .. RING_SIZE - 1
        /\ InRing' = Append(InRing, rdr) /\ Used' = Used + 1
    BY <1>1, <1>4, Stored
  <2>2. rx_buf \o Append(InRing, rdr) \o <<>> = rx_buf \o InRing \o <<rdr>>
    BY <1>1, MovesIn
  <2>3. Opened' => rx_buf' \o InRing' \o InUart' = heard'
    BY <1>2, <1>3, <1>4, <2>1, <2>2 DEF KeptInv
  <2>4. pc = "drain" => used <= Used /\ used \in Int BY DEF KeptInv, TypeOK
  <2>5. pc' = "drain" => used' <= Used' BY <1>1, <1>3, <2>1, <2>4, ConstantTypes
  <2>6. KeptInv' BY <1>3, <2>3, <2>5 DEF KeptInv
  <2>. QED BY <1>1, <1>4, <2>1, <2>6
<1>5. CASE Forget /\ UNCHANGED <<buffer, head>>
  <2>1. InRing' = InRing /\ Used' = Used BY <1>5, SameRing
  <2>2. heard' = Shorter(heard) BY <1>5 DEF Forget, Shorter
  <2>3. heard' \in Seq(Bytes) BY <1>1, <2>2, ShorterIsSeq
  <2>4. Opened' => rx_buf' \o InRing' \o InUart' = heard'
    <3>1. Opened => heard = rx_buf \o InRing \o <<rdr>> BY <1>2 DEF KeptInv
    <3>2. Shorter(rx_buf \o InRing \o <<rdr>>) = rx_buf \o InRing \o <<>> BY <1>1, Forgotten
    <3>. QED BY <1>2, <1>3, <2>1, <2>2, <3>1, <3>2
  <2>5. KeptInv' BY <1>3, <2>1, <2>4 DEF KeptInv
  <2>. QED BY <1>1, <1>5, <2>3, <2>5
<1>6. CASE ~rx_active /\ UNCHANGED <<buffer, head, heard>>
  <2>1. Used' = Used BY <1>6, SameRing
  <2>2. KeptInv' BY <1>3, <1>6, <2>1 DEF KeptInv
  <2>. QED BY <1>1, <1>6, <2>2
<1>. QED BY <1>4, <1>5, <1>6

\* Nothing is read.
LEMMA ReadsNothing ==
  ASSUME TypeOK, KeptInv, "RXNE" \in sr' <=> "RXNE" \in sr,
         UNCHANGED <<taskVars, tx_done, tail, heard, rdr, buffer, head>>
  PROVE  /\ KeptInv' /\ heard' \in Seq(Bytes)
         /\ buffer' \in [0 .. RING_SIZE - 1 -> Bytes] /\ head' \in 0 .. RING_SIZE - 1
<1>1. Opened' => Opened BY DEF taskVars, Opened
<1>2. KeptInv' BY <1>1, KeptSame DEF KeptInv, taskVars
<1>. QED BY <1>2 DEF TypeOK

LEMMA ReceivesKeeps == ASSUME ExchangeInv, IsrReceives PROVE ExchangeInv'
<1>1. /\ isr = "receive" /\ isr' = "errors"
      /\ UNCHANGED <<taskVars, de, cr1, rdr, pipe, txVars, tail, rx_active, isr_sr, isr_cr1,
                     count, out>>
  BY DEF IsrReceives
<1>2. TypeOK /\ KeptInv /\ (Opened => rx_active) BY <1>1, HandlerRuns DEF ExchangeInv
<1>3. sr' \subseteq sr BY DEF IsrReceives, ReadDR
<1>4. /\ KeptInv' /\ heard' \in Seq(Bytes)
      /\ buffer' \in [0 .. RING_SIZE - 1 -> Bytes] /\ head' \in 0 .. RING_SIZE - 1
  <2>1. CASE "RXNE" \in isr_sr
    <3>1. "RXNE" \in sr BY <1>1, <2>1 DEF ExchangeInv, LineInv
    <3>2. "RXNE" \notin sr' BY <2>1 DEF IsrReceives, ReadDR
    <3>3. \/ ~Full /\ Store(rdr) /\ UNCHANGED heard
          \/ Forget /\ UNCHANGED <<buffer, head>>
          \/ ~rx_active /\ UNCHANGED <<buffer, head, heard>>
      BY <2>1 DEF IsrReceives
    <3>. QED BY <1>1, <1>2, <3>1, <3>2, <3>3, ReadsByte DEF txVars
  <2>2. CASE "RXNE" \notin isr_sr
    <3>1. UNCHANGED <<sr, buffer, head, heard>> BY <2>2 DEF IsrReceives
    <3>. QED BY <1>1, <1>2, <3>1, ReadsNothing DEF txVars
  <2>. QED BY <2>1, <2>2
<1>5. isr_sr' \subseteq Flags \cup {"TXE"} BY <1>1, <1>2 DEF TypeOK
<1>. QED BY <1>1, <1>3, <1>4, <1>5, HandlerKeeps

\* The handler only reads the flags.
LEMMA LooksKeeps ==
  ASSUME ExchangeInv, IsrChecksErrors \/ IsrReadsAgain PROVE ExchangeInv'
<1>1. /\ isr \in {"errors", "again"} /\ isr' \in {"out", "save", "again", "away"}
      /\ isr' = "save" => KeepsByte
      /\ isr_sr' \in {{}, sr} /\ isr_cr1' \in {{}, isr_cr1}
      /\ UNCHANGED <<taskVars, txVars, ringVars, history, out>>
      /\ UNCHANGED <<de, cr1, sr, rdr, pipe>>
  BY DEF IsrChecksErrors, IsrReadsAgain, Leaves, Hardware
<1>2. TypeOK /\ KeptInv BY DEF ExchangeInv
<1>3. /\ KeptInv' /\ heard' \in Seq(Bytes)
      /\ buffer' \in [0 .. RING_SIZE - 1 -> Bytes] /\ head' \in 0 .. RING_SIZE - 1
  BY <1>1, <1>2, ReadsNothing DEF txVars, ringVars, history
<1>4. isr' = "save" => "RXNE" \in sr' /\ rx_active' /\ ~Full'
  BY <1>1 DEF KeepsByte, Full, ringVars
<1>5. isr_sr' \subseteq Flags \cup {"TXE"} BY <1>1, <1>2 DEF TypeOK
<1>6. isr_cr1' \subseteq isr_cr1 /\ sr' \subseteq sr BY <1>1
<1>. QED BY <1>1, <1>3, <1>4, <1>5, <1>6, HandlerKeeps DEF ringVars, history

LEMMA SavesKeeps == ASSUME ExchangeInv, IsrSaves PROVE ExchangeInv'
<1>1. /\ isr = "save" /\ isr' = "out" /\ isr_sr' = {} /\ isr_cr1' = {}
      /\ sr' = sr \ ({"RXNE"} \cup (Errors \cap isr_sr)) /\ Store(rdr)
      /\ UNCHANGED <<taskVars, de, cr1, rdr, pipe, txVars, tail, rx_active, history, out>>
  BY DEF IsrSaves, Leaves, ReadDR
<1>2. TypeOK /\ KeptInv /\ (Opened => rx_active) BY <1>1, HandlerRuns DEF ExchangeInv
<1>3. "RXNE" \in sr /\ ~Full BY <1>1 DEF ExchangeInv, LineInv
<1>4. "RXNE" \notin sr' /\ sr' \subseteq sr BY <1>1
<1>5. /\ KeptInv' /\ heard' \in Seq(Bytes)
      /\ buffer' \in [0 .. RING_SIZE - 1 -> Bytes] /\ head' \in 0 .. RING_SIZE - 1
  BY <1>1, <1>2, <1>3, <1>4, ReadsByte DEF txVars, history
<1>6. isr_sr' \subseteq Flags \cup {"TXE"} /\ isr_cr1' \subseteq isr_cr1 BY <1>1
<1>. QED BY <1>1, <1>4, <1>5, <1>6, HandlerKeeps DEF history

LEMMA ReadsAwayKeeps == ASSUME ExchangeInv, IsrReadsAway PROVE ExchangeInv'
<1>1. /\ isr = "away" /\ isr' = "out" /\ isr_sr' = {} /\ isr_cr1' = {}
      /\ sr' = sr \ ({"RXNE"} \cup (Errors \cap isr_sr))
      /\ IF "RXNE" \in sr /\ rx_active THEN Forget ELSE UNCHANGED heard
      /\ UNCHANGED <<taskVars, de, cr1, rdr, pipe, txVars, ringVars, count, out>>
  BY DEF IsrReadsAway, Leaves, ReadDR
<1>2. TypeOK /\ KeptInv /\ (Opened => rx_active) BY <1>1, HandlerRuns DEF ExchangeInv
<1>3. "RXNE" \notin sr' /\ sr' \subseteq sr BY <1>1
<1>4. /\ KeptInv' /\ heard' \in Seq(Bytes)
      /\ buffer' \in [0 .. RING_SIZE - 1 -> Bytes] /\ head' \in 0 .. RING_SIZE - 1
  <2>1. CASE "RXNE" \in sr
    <3>1. \/ Forget /\ UNCHANGED <<buffer, head>>
          \/ ~rx_active /\ UNCHANGED <<buffer, head, heard>>
      BY <1>1, <2>1 DEF ringVars
    <3>. QED BY <1>1, <1>2, <1>3, <2>1, <3>1, ReadsByte DEF txVars, ringVars
  <2>2. CASE "RXNE" \notin sr
    BY <1>1, <1>2, <1>3, <2>2, ReadsNothing DEF txVars, ringVars
  <2>. QED BY <2>1, <2>2
<1>5. isr_sr' \subseteq Flags \cup {"TXE"} /\ isr_cr1' \subseteq isr_cr1 BY <1>1
<1>. QED BY <1>1, <1>3, <1>4, <1>5, HandlerKeeps DEF ringVars

LEMMA TurnKeeps == ASSUME ExchangeInv, IsrTurnsRound PROVE ExchangeInv'
<1>1. CASE Shifted BY <1>1, TurnsRoundKeeps
<1>2. CASE ~Shifted
  <2>1. /\ isr = "turn" /\ isr' = "receive"
        /\ UNCHANGED <<sr, de, head, tail, rx_active, cr1, tx_active, tx_done, history, isr_sr>>
        /\ UNCHANGED <<taskVars, rdr, pipe, tx_idx, buffer, isr_cr1, out>>
    BY <1>2 DEF IsrTurnsRound
  <2>2. /\ KeptInv' /\ heard' \in Seq(Bytes)
        /\ buffer' \in [0 .. RING_SIZE - 1 -> Bytes] /\ head' \in 0 .. RING_SIZE - 1
    BY <2>1, ReadsNothing DEF ExchangeInv, history
  <2>3. sr' \subseteq sr /\ isr_sr' \subseteq Flags \cup {"TXE"} /\ isr_cr1' \subseteq isr_cr1
    BY <2>1 DEF ExchangeInv, TypeOK
  <2>. QED BY <2>1, <2>2, <2>3, HandlerKeeps DEF txVars, history
<1>. QED BY <1>1, <1>2

LEMMA HandlerStepKeeps == ASSUME ExchangeInv, IsrStep PROVE ExchangeInv'
BY EntersKeeps, TransmitsKeeps, TurnKeeps, ReceivesKeeps, LooksKeeps, SavesKeeps, ReadsAwayKeeps
DEF IsrStep

-------------------------------------------------------------------------------
(* Steps of the UART. *)

LEMMA LeavesKeeps == ASSUME ExchangeInv, ByteLeaves PROVE ExchangeInv'
<1>. USE DEF ExchangeInv
<1>1. /\ pipe > 0 /\ pipe' = pipe - 1 /\ pipe \in 0 .. 2
      /\ sr' = IF pipe' = 0 THEN sr \cup {"TC"} ELSE sr
      /\ out' = IF de THEN out + 1 ELSE out
      /\ UNCHANGED <<taskVars, de, cr1, rdr, txVars, ringVars, isrVars, history>>
  BY DEF ByteLeaves, TypeOK
<1>2. ~Opened BY <1>1 DEF OpenInv
<1>3. ~Opened' BY <1>1, <1>2 DEF Opened, taskVars, txVars
<1>4. de => Sending
  <2>1. Between \/ Opened \/ Sending
    BY DEF Between, Opened, Sending, TypeOK
  <2>. QED BY <1>2, <2>1 DEF BetweenInv
<1>5. TypeOK'
  <2>1. TaskTypes /\ LineTypes /\ TxTypes /\ RingTypes /\ IsrTypes BY TypeParts
  <2>2. TaskTypes' BY <1>1, <2>1 DEF TaskTypes, taskVars
  <2>3. LineTypes'
    <3>1. sr' \subseteq Flags BY <1>1, <2>1 DEF LineTypes, Flags
    <3>2. pipe' \in 0 .. 2 BY <1>1
    <3>. QED BY <1>1, <2>1, <3>1, <3>2 DEF LineTypes
  <2>4. TxTypes'
    <3>1. CASE de
      <4>1. out + pipe = tx_idx /\ tx_idx \in 0 .. TxLen /\ TxLen \in Nat /\ out \in Int
        BY <1>4, <3>1, <2>1, ConstantTypes DEF SendInv, TxTypes
      <4>2. out' \in -2 .. TxLen BY <1>1, <3>1, <4>1
      <4>. QED BY <1>1, <2>1, <4>2 DEF TxTypes, txVars
    <3>2. CASE ~de BY <1>1, <2>1, <3>2 DEF TxTypes, txVars
    <3>. QED BY <3>1, <3>2
  <2>5. RingTypes' BY <1>1, <2>1 DEF RingTypes, ringVars
  <2>6. IsrTypes' BY <1>1, <2>1 DEF IsrTypes, isrVars, history
  <2>. QED BY <2>2, <2>3, <2>4, <2>5, <2>6, TypeParts
<1>6. "RXNE" \in sr' <=> "RXNE" \in sr BY <1>1
<1>7. LineInv' /\ BetweenInv'
  <2>1. "TC" \in sr' => pipe' = 0 BY <1>1 DEF LineInv
  <2>2. Full' <=> Full BY <1>1 DEF Full, ringVars
  <2>3. LineInv' BY <1>1, <1>6, <2>1, <2>2 DEF LineInv, ringVars, isrVars
  <2>4. BetweenInv' BY <1>1 DEF BetweenInv, Between, taskVars, txVars, ringVars, isrVars
  <2>. QED BY <2>3, <2>4
<1>8. SendInv'
  <2>. SUFFICES ASSUME Sending PROVE SendInv'
    BY <1>1 DEF SendInv, Sending, taskVars, txVars
  <2>1. out' + pipe' = tx_idx'
    <3>1. out + pipe = tx_idx /\ de /\ out \in Int BY DEF SendInv, TypeOK
    <3>. QED BY <1>1, <3>1 DEF txVars
  <2>. QED BY <1>1, <2>1 DEF SendInv, taskVars, txVars, ringVars, isrVars
<1>9. OpenInv' BY <1>3 DEF OpenInv
<1>10. KeptInv' BY <1>1, <1>3, <1>6, KeptSame DEF KeptInv, taskVars, ringVars, history
<1>. QED BY <1>5, <1>7, <1>8, <1>9, <1>10

LEMMA ArrivesKeeps == ASSUME ExchangeInv, ByteArrives PROVE ExchangeInv'
<1>. USE DEF ExchangeInv
<1>1. /\ UNCHANGED <<taskVars, de, cr1, pipe, txVars, ringVars, isrVars, out>>
      /\ count < MaxBytes /\ count' = IF rx_active THEN count + 1 ELSE count
  BY DEF ByteArrives
<1>2. PICK b \in Bytes : b = IF rx_active /\ tx_done THEN count + 1 ELSE Foreign
  BY <1>1, ConstantTypes DEF Bytes, Foreign, TypeOK
<1>3. \/ /\ "RXNE" \in sr /\ sr' = sr \cup {"ORE"} /\ UNCHANGED <<rdr, heard>>
      \/ /\ "RXNE" \notin sr /\ rdr' = b
         /\ heard' = IF b # Foreign THEN Append(heard, b) ELSE heard
         /\ \E e \in {{}, {"ERR"}} : sr' = sr \cup {"RXNE"} \cup e
  BY <1>2 DEF ByteArrives
<1>4. /\ "RXNE" \in sr' /\ sr \subseteq sr' /\ sr' \subseteq sr \cup {"RXNE", "ORE", "ERR"}
      /\ rdr' \in {rdr, b}
  BY <1>3
<1>5. heard' \in Seq(Bytes) /\ count' \in Bytes
  <2>1. Append(heard, b) \in Seq(Bytes) /\ heard \in Seq(Bytes)
    BY <1>2, AppendProperties DEF TypeOK
  <2>2. count' \in Bytes BY <1>1, ConstantTypes DEF TypeOK, Bytes
  <2>. QED BY <1>3, <2>1, <2>2
<1>6. TypeOK'
  <2>1. TaskTypes /\ LineTypes /\ TxTypes /\ RingTypes /\ IsrTypes BY TypeParts
  <2>2. TaskTypes' BY <1>1, <2>1 DEF TaskTypes, taskVars
  <2>3. LineTypes'
    <3>1. sr' \subseteq Flags BY <1>4, <2>1 DEF LineTypes, Flags
    <3>. QED BY <1>1, <1>4, <2>1, <3>1 DEF LineTypes
  <2>4. TxTypes' BY <1>1, <2>1 DEF TxTypes, txVars
  <2>5. RingTypes' BY <1>1, <2>1 DEF RingTypes, ringVars
  <2>6. IsrTypes' BY <1>1, <1>4, <1>5, <2>1 DEF IsrTypes, isrVars
  <2>. QED BY <2>2, <2>3, <2>4, <2>5, <2>6, TypeParts
<1>7. "TC" \in sr' <=> "TC" \in sr BY <1>4
<1>8. LineInv' /\ BetweenInv'
  <2>1. Full' <=> Full BY <1>1 DEF Full, ringVars
  <2>2. LineInv' BY <1>1, <1>4, <1>7, <2>1 DEF LineInv, ringVars, isrVars
  <2>3. BetweenInv' BY <1>1 DEF BetweenInv, Between, taskVars, txVars, ringVars, isrVars
  <2>. QED BY <2>2, <2>3
<1>9. SendInv' BY <1>1 DEF SendInv, Sending, taskVars, txVars, ringVars, isrVars
<1>10. OpenInv' BY <1>1 DEF OpenInv, Opened, taskVars, txVars, ringVars, isrVars
<1>11. KeptInv'
  <2>1. InRing' = InRing /\ Used' = Used BY <1>1, SameRing DEF ringVars
  <2>2. ASSUME Opened'
        PROVE  rx_buf' \o InRing' \o InUart' = heard'
    <3>1. Opened /\ rx_active /\ tx_done
      BY <1>1, <2>2 DEF Opened, OpenInv, taskVars, txVars
    <3>2. rx_buf \o InRing \o InUart = heard /\ rx_buf' = rx_buf
      BY <1>1, <3>1 DEF KeptInv, taskVars
    <3>3. CASE "RXNE" \in sr
      <4>1. InUart' = InUart /\ heard' = heard BY <1>3, <1>4, <3>3 DEF InUart
      <4>. QED BY <2>1, <3>2, <4>1
    <3>4. CASE "RXNE" \notin sr
      <4>1. b # Foreign BY <1>2, <3>1 DEF Foreign, TypeOK, Bytes
      <4>2. rdr' = b /\ heard' = Append(heard, b) BY <1>3, <3>4, <4>1
      <4>3. InUart = <<>> /\ InUart' = <<b>> BY <1>4, <3>4, <4>2 DEF InUart
      <4>4. rx_buf \in Seq(Bytes) /\ InRing \in Seq(Bytes) BY RingType DEF TypeOK
      <4>5. rx_buf \o InRing \o <<b>> = Append(heard, b)
        <5>1. \A w : rx_buf \o InRing \o <<>> = w => rx_buf \o InRing \o <<b>> = Append(w, b)
          BY <4>4, Arrives
        <5>. QED BY <3>2, <4>3, <5>1
      <4>. QED BY <2>1, <3>2, <4>2, <4>3, <4>5
    <3>. QED BY <3>3, <3>4
  <2>. QED BY <1>1, <2>1, <2>2 DEF KeptInv, taskVars
<1>. QED BY <1>6, <1>8, <1>9, <1>10, <1>11

-------------------------------------------------------------------------------
LEMMA InitExchange == Init => ExchangeInv
<1>. SUFFICES ASSUME Init PROVE ExchangeInv OBVIOUS
<1>1. TypeOK
  <2>1. TaskTypes
    <3>1. <<>> \in Seq(Bytes) /\ Len(<<>>) = 0 BY EmptySeq
    <3>. QED BY <3>1, ConstantTypes DEF Init, TaskTypes
  <2>2. LineTypes
    <3>1. Foreign \in Bytes BY ConstantTypes DEF Foreign, Bytes
    <3>2. {"TC"} \subseteq Flags BY DEF Flags
    <3>3. de = FALSE /\ cr1 = {} /\ pipe = 0 BY DEF Init
    <3>4. sr \subseteq Flags /\ rdr \in Bytes BY <3>1, <3>2 DEF Init
    <3>5. cr1 \subseteq {"TXE", "TC", "RXNE"} BY <3>3
    <3>6. de \in BOOLEAN BY <3>3
    <3>7. pipe \in 0 .. 2 BY <3>3
    <3>. QED BY <3>4, <3>5, <3>6, <3>7 DEF LineTypes
  <2>3. TxTypes BY ConstantTypes DEF Init, TxTypes
  <2>4. RingTypes
    <3>1. Foreign \in Bytes BY ConstantTypes DEF Foreign, Bytes
    <3>. QED BY <3>1, ConstantTypes DEF Init, RingTypes
  <2>5. IsrTypes
    <3>1. <<>> \in Seq(Bytes) /\ 0 \in Bytes BY ConstantTypes DEF Bytes
    <3>. QED BY <3>1 DEF Init, IsrTypes
  <2>. QED BY <2>1, <2>2, <2>3, <2>4, <2>5, TypeParts
<1>2. LineInv /\ BetweenInv BY DEF Init, LineInv, BetweenInv
<1>3. SendInv /\ OpenInv /\ KeptInv
  BY DEF Init, SendInv, OpenInv, KeptInv, Sending, Opened
<1>. QED BY <1>1, <1>2, <1>3 DEF ExchangeInv

LEMMA NothingChanges == ASSUME ExchangeInv, UNCHANGED vars PROVE ExchangeInv'
<1>. USE DEF ExchangeInv, vars
<1>1. TypeOK' BY DEF TypeOK, taskVars, txVars, ringVars, isrVars, history
<1>2. LineInv' /\ BetweenInv'
  <2>1. LineInv' BY DEF LineInv, Full, ringVars, isrVars
  <2>2. BetweenInv' BY DEF BetweenInv, Between, taskVars, txVars, ringVars, isrVars
  <2>. QED BY <2>1, <2>2
<1>3. SendInv' BY DEF SendInv, Sending, taskVars, txVars, ringVars, isrVars
<1>4. OpenInv' BY DEF OpenInv, Opened, taskVars, txVars, ringVars, isrVars
<1>5. KeptInv'
  <2>1. Opened' => Opened BY DEF Opened, taskVars, txVars
  <2>. QED BY <2>1, KeptSame DEF KeptInv, taskVars, ringVars, history
<1>. QED BY <1>1, <1>2, <1>3, <1>4, <1>5

LEMMA ExchangeStep == ExchangeInv /\ [Next]_vars => ExchangeInv'
BY TaskKeeps, HandlerStepKeeps, LeavesKeeps, ArrivesKeeps, NothingChanges DEF Next

(***************************************************************************)
(* The state of an exchange keeps its types.                               *)
(***************************************************************************)
THEOREM ExchangeTypes == Spec => []TypeOK
<1>1. ExchangeInv => TypeOK BY DEF ExchangeInv
<1>. QED BY <1>1, InitExchange, ExchangeStep, PTL DEF Spec

(***************************************************************************)
(* bsp_rs485.h:182-205: while the task receives, its buffer, the ring and  *)
(* the register hold, in order, every byte heard since the bus was turned  *)
(* round, and nothing else, but for those lost to a full ring, to an       *)
(* overrun, or between the handler's looks at the register when it clears  *)
(* an error.                                                               *)
(***************************************************************************)
THEOREM NoByteIsLost == Spec => []HeardIsKept
<1>1. ExchangeInv => HeardIsKept
  BY DEF ExchangeInv, KeptInv, HeardIsKept, Receiving, Opened
<1>. QED BY <1>1, InitExchange, ExchangeStep, PTL DEF Spec

(***************************************************************************)
(* mbportserial.c:441-443: when the task receives, the whole request has   *)
(* left, to the last bit, and the bus has been turned round.               *)
(***************************************************************************)
THEOREM RequestsLeaveWhole == Spec => []RequestSentWhole
<1>1. ExchangeInv => RequestSentWhole
  BY DEF ExchangeInv, OpenInv, RequestSentWhole, Receiving, Opened
<1>. QED BY <1>1, InitExchange, ExchangeStep, PTL DEF Spec

(***************************************************************************)
(* bsp_rs485.c:751-752: between two exchanges the bus is not driven and    *)
(* nothing is sent; and no interrupt is enabled and the window is closed,  *)
(* unless the last exchange was given up for its sending.                  *)
(***************************************************************************)
THEOREM WindowsAreClosed == Spec => []ClosedBetweenExchanges
<1>1. ExchangeInv => ClosedBetweenExchanges
  BY DEF ExchangeInv, BetweenInv, Between, ClosedBetweenExchanges
<1>. QED BY <1>1, InitExchange, ExchangeStep, PTL DEF Spec
===============================================================================
