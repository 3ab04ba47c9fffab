--------------------------- MODULE AxleCounter_proof ---------------------------
(***************************************************************************)
(* Proofs about the acknowledgement protocol of the axle counters, for any *)
(* number of counters, pulses, losses, late answers and resets, and any    *)
(* range of codes.                                                         *)
(***************************************************************************)
EXTENDS AxleCounter, SequenceTheorems, FiniteSetTheorems, WellFoundedInduction, TLAPS

\* The list s holds pulses of module m and channel c, with numbers above lo and
\* up to hi, in order and none twice; and it holds all of them but those in X.
Listed(s, m, lo, hi, c) ==
  /\ \A i \in 1 .. Len(s) : s[i][1] = m /\ s[i][2] \in (lo + 1) .. hi /\ ChannelOf[s[i][2]] = c
  /\ \A i, j \in 1 .. Len(s) : i < j => s[i][2] < s[j][2]
Whole(s, X, lo, hi, c) ==
  \A n \in (lo + 1) .. hi : ChannelOf[n] = c => n \in X \/ \E i \in 1 .. Len(s) : s[i][2] = n

\* The pulses of a packet are consecutive: those of m with numbers after lo.
Consecutive(pulses, m, lo) ==
  /\ pulses \in Seq(Pulses) /\ m \in Modules /\ lo \in Nat
  /\ \A i \in 1 .. Len(pulses) : pulses[i] = <<m, lo + i>>

-------------------------------------------------------------------------------
(* A set of numbers has a smallest one and, if it is bounded, a greatest.  *)

LEMMA SmallestThere ==
  ASSUME NEW T, T \subseteq Nat, T # {}
  PROVE  \E x \in T : \A y \in T : x <= y
<1>1. PICK x \in T : \A y \in T : ~(<<y, x>> \in OpToRel(<, Nat))
  BY NatLessThanWellFounded, WFMin, Zenon
<1>2. \A y \in T : ~(y < x) BY <1>1 DEF OpToRel
<1>. QED BY <1>2

LEMMA GreatestThere ==
  ASSUME NEW n \in Nat, NEW T, T \subseteq 1 .. n, T # {}
  PROVE  \E x \in T : \A y \in T : y <= x
<1>1. DEFINE U == {u \in Nat : n - u \in T}
<1>2. U \subseteq Nat /\ U # {}
  <2>1. PICK t \in T : TRUE OBVIOUS
  <2>2. n - t \in Nat /\ n - (n - t) = t BY <2>1
  <2>. QED BY <2>1, <2>2
<1>3. PICK u \in U : \A v \in U : u <= v BY <1>2, SmallestThere
<1>4. n - u \in T /\ u \in Nat BY <1>3
<1>5. \A y \in T : y <= n - u
  <2>1. SUFFICES ASSUME NEW y \in T PROVE y <= n - u OBVIOUS
  <2>2. n - y \in Nat /\ n - (n - y) = y BY <2>1
  <2>3. n - y \in U BY <2>2
  <2>4. u <= n - y BY <2>3, <1>3, Zenon
  <2>5. y \in Nat /\ u \in Nat BY <1>4
  <2>. QED BY <2>4, <2>5
<1>. QED BY <1>4, <1>5

\* Induction up to a number: what holds of 0 and is handed on holds of all.
LEMMA UpTo ==
  ASSUME NEW n \in Nat, NEW Good, 0 \in Good, \A k \in 1 .. n : k - 1 \in Good => k \in Good
  PROVE  \A k \in 0 .. n : k \in Good
<1>. DEFINE Bad == (0 .. n) \ Good
<1>1. SUFFICES ASSUME Bad # {} PROVE FALSE
  OBVIOUS
<1>2. Bad \subseteq Nat OBVIOUS
<1>3. PICK x \in Bad : \A y \in Bad : x <= y
  <2>. HIDE DEF Bad
  <2>. QED BY <1>1, <1>2, SmallestThere
<1>4. x \in 1 .. n /\ x \notin Good BY <1>3
<1>5. x - 1 \in 0 .. n /\ ~(x <= x - 1) BY <1>4
<1>6. x - 1 \in Good BY <1>3, <1>5
<1>. QED BY <1>4, <1>6

-------------------------------------------------------------------------------
(* The pulses of one channel.                                              *)

\* One turn of the loop that collects them.
Turn(pulses, c, f, n) ==
  IF n = 0 THEN <<>>
  ELSE IF ChannelOf[pulses[n][2]] = c THEN Append(f[n - 1], pulses[n]) ELSE f[n - 1]

\* How the loop got as far as n.
Loops(pulses, c, f, n) ==
  f \in [0 .. n -> Seq(Pulses)] /\ \A k \in 0 .. n : f[k] = Turn(pulses, c, f, k)

LEMMA LoopStarts ==
  ASSUME NEW pulses, NEW c
  PROVE  \E f : Loops(pulses, c, f, 0)
<1>. DEFINE f == [k \in 0 .. 0 |-> <<>>]
<1>1. <<>> \in Seq(Pulses) OBVIOUS
<1>2. Loops(pulses, c, f, 0) BY <1>1 DEF Loops, Turn
<1>. QED BY <1>2

LEMMA LoopGoesOn ==
  ASSUME NEW pulses \in Seq(Pulses), NEW c, NEW x \in 1 .. Len(pulses),
         NEW g, Loops(pulses, c, g, x - 1)
  PROVE  \E f : Loops(pulses, c, f, x)
<1>1. g \in [0 .. (x - 1) -> Seq(Pulses)] BY DEF Loops
<1>2. x \in Nat /\ x # 0 /\ Len(pulses) \in Nat OBVIOUS
<1>3. Turn(pulses, c, g, x) \in Seq(Pulses)
  <2>1. g[x - 1] \in Seq(Pulses) BY <1>1, <1>2
  <2>2. pulses[x] \in Pulses OBVIOUS
  <2>. QED BY <1>2, <2>1, <2>2 DEF Turn
<1>. DEFINE f == [k \in 0 .. x |-> IF k < x THEN g[k] ELSE Turn(pulses, c, g, x)]
<1>4. f \in [0 .. x -> Seq(Pulses)] BY <1>1, <1>2, <1>3
<1>5. (\A k \in 0 .. (x - 1) : f[k] = g[k]) /\ f[x] = Turn(pulses, c, g, x) BY <1>2
<1>. HIDE DEF f
<1>6. \A k \in 0 .. x : Turn(pulses, c, g, k) = Turn(pulses, c, f, k)
  <2>1. SUFFICES ASSUME NEW k \in 0 .. x, k # 0 PROVE g[k - 1] = f[k - 1]
    BY DEF Turn
  <2>2. k - 1 \in 0 .. (x - 1) BY <1>2, <2>1
  <2>. QED BY <1>5, <2>2
<1>7. ASSUME NEW k \in 0 .. x PROVE f[k] = Turn(pulses, c, f, k)
  <2>1. CASE k = x BY <1>5, <1>6, <2>1, Zenon
  <2>2. CASE k # x
    <3>1. k \in 0 .. (x - 1) BY <1>2, <2>2
    <3>2. f[k] = g[k] /\ g[k] = Turn(pulses, c, g, k) BY <1>5, <3>1 DEF Loops
    <3>. QED BY <1>6, <3>2
  <2>. QED BY <2>1, <2>2
<1>8. Loops(pulses, c, f, x) BY <1>4, <1>7 DEF Loops
<1>. QED BY <1>8

LEMMA LoopEnds ==
  ASSUME NEW pulses \in Seq(Pulses), NEW c
  PROVE  \E f : Loops(pulses, c, f, Len(pulses))
<1>. DEFINE Good == {k \in 0 .. Len(pulses) : \E f : Loops(pulses, c, f, k)}
<1>1. Len(pulses) \in Nat OBVIOUS
<1>2. 0 \in Good
  <2>1. \E f : Loops(pulses, c, f, 0) BY LoopStarts
  <2>2. 0 \in 0 .. Len(pulses) BY <1>1
  <2>. QED BY <2>1, <2>2
<1>3. \A k \in 1 .. Len(pulses) : k - 1 \in Good => k \in Good BY <1>1, LoopGoesOn
<1>4. \A k \in 0 .. Len(pulses) : k \in Good
  <2>. HIDE DEF Good
  <2>. QED BY <1>1, <1>2, <1>3, UpTo
<1>. QED BY <1>1, <1>4

\* own is what the loop ends with.
LEMMA OwnIsLast ==
  ASSUME NEW pulses \in Seq(Pulses), NEW c
  PROVE  \E f : Loops(pulses, c, f, Len(pulses)) /\ own(pulses, c) = f[Len(pulses)]
<1>1. Len(pulses) \in Nat OBVIOUS
<1>2. PICK g : Loops(pulses, c, g, Len(pulses)) BY LoopEnds
<1>. DEFINE L == Len(pulses)
            upto == CHOOSE f : f = [n \in 0 .. L |-> Turn(pulses, c, f, n)]
<1>3. g = [n \in 0 .. L |-> Turn(pulses, c, g, n)] BY <1>2 DEF Loops
<1>4. upto = [n \in 0 .. L |-> Turn(pulses, c, upto, n)] BY <1>3
<1>5. own(pulses, c) = upto[L] BY DEF own, Turn
<1>. HIDE DEF upto
<1>. DEFINE Good == {n \in 0 .. L : upto[n] = g[n]}
<1>6. 0 \in Good BY <1>1, <1>3, <1>4 DEF Turn
<1>7. ASSUME NEW n \in 1 .. L, n - 1 \in Good PROVE n \in Good
  <2>1. n \in 0 .. L /\ upto[n - 1] = g[n - 1] BY <1>1, <1>7
  <2>2. upto[n] = Turn(pulses, c, upto, n) /\ g[n] = Turn(pulses, c, g, n)
    BY <1>3, <1>4, <2>1
  <2>. QED BY <2>1, <2>2 DEF Turn
<1>8. \A n \in 0 .. L : n \in Good
  <2>. HIDE DEF Good
  <2>. QED BY <1>1, <1>6, <1>7, UpTo
<1>9. upto[L] = g[L] BY <1>1, <1>8
<1>. QED BY <1>2, <1>5, <1>9

-------------------------------------------------------------------------------
(* Lists of pulses.                                                        *)

LEMMA PulseParts ==
  \A p \in Pulses : p[1] \in Modules /\ p[2] \in Nat /\ p = <<p[1], p[2]>>
BY DEF Pulses

LEMMA SkipLists ==
  ASSUME NEW s \in Seq(Pulses), NEW m, NEW lo \in Nat, NEW hi \in Nat, NEW c,
         Listed(s, m, lo, hi, c), ChannelOf[hi + 1] # c
  PROVE  Listed(s, m, lo, hi + 1, c)
<1>1. \A n \in (lo + 1) .. hi : n \in (lo + 1) .. (hi + 1) OBVIOUS
<1>. QED BY <1>1 DEF Listed

LEMMA AppendLists ==
  ASSUME NEW s \in Seq(Pulses), NEW m, NEW lo \in Nat, NEW hi \in Nat, NEW c, lo <= hi,
         Listed(s, m, lo, hi, c), ChannelOf[hi + 1] = c, NEW p \in Pulses, p = <<m, hi + 1>>
  PROVE  Listed(Append(s, p), m, lo, hi + 1, c)
<1>. DEFINE t == Append(s, p)
<1>1. /\ Len(s) \in Nat /\ Len(t) = Len(s) + 1
      /\ \A i \in 1 .. Len(s) : t[i] = s[i] /\ s[i] \in Pulses
      /\ t[Len(t)] = p
  OBVIOUS
<1>2. \A i \in 1 .. Len(t) : i \in 1 .. Len(s) \/ i = Len(t) BY <1>1
<1>3. p[1] = m /\ p[2] = hi + 1 OBVIOUS
<1>. HIDE DEF t
<1>4. ASSUME NEW i \in 1 .. Len(t)
      PROVE  t[i][1] = m /\ t[i][2] \in (lo + 1) .. (hi + 1) /\ ChannelOf[t[i][2]] = c
  <2>1. CASE i \in 1 .. Len(s)
    <3>1. t[i] = s[i] BY <1>1, <2>1
    <3>2. s[i][1] = m /\ s[i][2] \in (lo + 1) .. hi /\ ChannelOf[s[i][2]] = c
      BY <2>1 DEF Listed
    <3>. QED BY <3>1, <3>2
  <2>2. CASE i = Len(t) BY <1>1, <1>3, <2>2
  <2>. QED BY <1>2, <2>1, <2>2
<1>5. ASSUME NEW i \in 1 .. Len(t), NEW j \in 1 .. Len(t), i < j
      PROVE  t[i][2] < t[j][2]
  <2>1. i \in 1 .. Len(s) BY <1>1, <1>5
  <2>2. t[i] = s[i] /\ s[i][2] \in (lo + 1) .. hi BY <1>1, <2>1 DEF Listed
  <2>3. CASE j \in 1 .. Len(s)
    <3>1. t[j] = s[j] /\ s[i][2] < s[j][2] BY <1>1, <1>5, <2>1, <2>3 DEF Listed
    <3>. QED BY <2>2, <3>1
  <2>4. CASE j = Len(t)
    <3>1. t[j][2] = hi + 1 BY <1>1, <1>3, <2>4
    <3>. QED BY <2>2, <3>1
  <2>. QED BY <1>2, <2>3, <2>4
<1>6. Listed(t, m, lo, hi + 1, c) BY <1>4, <1>5 DEF Listed
<1>. QED BY <1>6 DEF t

LEMMA ConcatLists ==
  ASSUME NEW s \in Seq(Pulses), NEW t \in Seq(Pulses), NEW m, NEW c,
         NEW u \in Nat, NEW v \in Nat, u <= v, NEW X, NEW Y,
         Listed(s, m, 0, u, c), Listed(t, m, u, v, c), Whole(s, X, 0, u, c), Whole(t, Y, u, v, c)
  PROVE  Listed(s \o t, m, 0, v, c) /\ Whole(s \o t, X \cup Y, 0, v, c)
<1>. DEFINE w == s \o t
<1>1. /\ Len(s) \in Nat /\ Len(t) \in Nat /\ Len(w) = Len(s) + Len(t)
      /\ \A i \in 1 .. Len(s) : w[i] = s[i]
      /\ \A i \in 1 .. Len(w) : i > Len(s) => w[i] = t[i - Len(s)]
  OBVIOUS
<1>. HIDE DEF w
<1>2. \A i \in 1 .. Len(s) : /\ w[i][1] = m /\ w[i][2] \in 1 .. u /\ ChannelOf[w[i][2]] = c
                             /\ w[i] = s[i]
  BY <1>1 DEF Listed
<1>3. ASSUME NEW i \in 1 .. Len(w), i > Len(s)
      PROVE  /\ w[i][1] = m /\ w[i][2] \in (u + 1) .. v /\ ChannelOf[w[i][2]] = c
             /\ i - Len(s) \in 1 .. Len(t) /\ w[i] = t[i - Len(s)]
  <2>1. i - Len(s) \in 1 .. Len(t) /\ w[i] = t[i - Len(s)] BY <1>1, <1>3
  <2>. QED BY <2>1 DEF Listed
<1>4. ASSUME NEW i \in 1 .. Len(w)
      PROVE  w[i][1] = m /\ w[i][2] \in 1 .. v /\ ChannelOf[w[i][2]] = c
  <2>1. CASE i > Len(s) BY <1>3, <2>1
  <2>2. CASE i <= Len(s)
    <3>1. i \in 1 .. Len(s) BY <1>1, <2>2
    <3>. QED BY <1>2, <3>1
  <2>. QED BY <1>1, <2>1, <2>2
<1>5. ASSUME NEW i \in 1 .. Len(w), NEW j \in 1 .. Len(w), i < j
      PROVE  w[i][2] < w[j][2]
  <2>1. CASE j <= Len(s)
    <3>1. i \in 1 .. Len(s) /\ j \in 1 .. Len(s) BY <1>1, <1>5, <2>1
    <3>2. s[i][2] < s[j][2] BY <1>5, <3>1 DEF Listed
    <3>. QED BY <1>2, <3>1, <3>2
  <2>2. CASE i <= Len(s) /\ j > Len(s)
    <3>1. i \in 1 .. Len(s) BY <1>1, <2>2
    <3>2. w[i][2] \in 1 .. u /\ w[j][2] \in (u + 1) .. v BY <1>2, <1>3, <2>2, <3>1
    <3>. QED BY <3>2
  <2>3. CASE i > Len(s)
    <3>1. j > Len(s) BY <1>1, <1>5, <2>3
    <3>2. /\ i - Len(s) \in 1 .. Len(t) /\ w[i] = t[i - Len(s)]
          /\ j - Len(s) \in 1 .. Len(t) /\ w[j] = t[j - Len(s)]
      BY <1>3, <2>3, <3>1
    <3>3. i - Len(s) < j - Len(s) BY <1>1, <1>5
    <3>4. t[i - Len(s)][2] < t[j - Len(s)][2] BY <3>2, <3>3 DEF Listed
    <3>. QED BY <3>2, <3>4
  <2>. QED BY <1>1, <2>1, <2>2, <2>3
<1>6. ASSUME NEW n \in (0 + 1) .. v, ChannelOf[n] = c, n \notin X \cup Y
      PROVE  \E i \in 1 .. Len(w) : w[i][2] = n
  <2>1. CASE n <= u
    <3>0. n \in (0 + 1) .. u BY <2>1
    <3>1. PICK i \in 1 .. Len(s) : s[i][2] = n BY <1>6, <3>0 DEF Whole
    <3>2. i \in 1 .. Len(w) /\ w[i] = s[i] BY <1>1
    <3>. QED BY <3>1, <3>2
  <2>2. CASE n > u
    <3>1. n \in (u + 1) .. v BY <2>2
    <3>2. PICK i \in 1 .. Len(t) : t[i][2] = n BY <1>6, <3>1 DEF Whole
    <3>3. /\ Len(s) + i \in 1 .. Len(w) /\ Len(s) + i > Len(s)
          /\ Len(s) + i - Len(s) = i
      BY <1>1
    <3>4. w[Len(s) + i] = t[i] BY <1>1, <3>3
    <3>. QED BY <3>2, <3>3, <3>4
  <2>. QED BY <2>1, <2>2
<1>7. Listed(w, m, 0, v, c) BY <1>4, <1>5 DEF Listed
<1>8. Whole(w, X \cup Y, 0, v, c) BY <1>6 DEF Whole
<1>. QED BY <1>7, <1>8 DEF w

\* Where the pulses of a channel are among the first n of a packet.
Among(pulses, c, n) == {j \in 1 .. n : ChannelOf[pulses[j][2]] = c}

LEMMA PlaceFacts ==
  ASSUME NEW pulses \in Seq(Pulses), NEW n \in 1 .. Len(pulses), NEW c,
         IsFiniteSet(Among(pulses, c, n - 1))
  PROVE  /\ IsFiniteSet(Among(pulses, c, n))
         /\ ChannelOf[pulses[n][2]] = c =>
              /\ Cardinality(Among(pulses, c, n)) = Cardinality(Among(pulses, c, n - 1)) + 1
              /\ Cardinality(Among(pulses, c, n)) = Place(pulses, n)
         /\ ChannelOf[pulses[n][2]] # c => Among(pulses, c, n) = Among(pulses, c, n - 1)
<1>. USE DEF Among
<1>. DEFINE before == Among(pulses, c, n - 1)
            upto   == Among(pulses, c, n)
<1>1. n \notin before /\ \A j : j \in 1 .. n <=> j \in 1 .. (n - 1) \/ j = n OBVIOUS
<1>2. CASE ChannelOf[pulses[n][2]] = c
  <2>1. upto = before \cup {n} BY <1>1, <1>2
  <2>2. IsFiniteSet(upto) /\ Cardinality(upto) = Cardinality(before) + 1
    <3>1. n \notin before BY <1>1
    <3>2. IsFiniteSet(before) OBVIOUS
    <3>. HIDE DEF before, upto
    <3>. QED BY <2>1, <3>1, <3>2, FS_AddElement
  <2>3. Place(pulses, n) = Cardinality(upto) BY <1>2 DEF Place
  <2>. QED BY <1>2, <2>2, <2>3
<1>3. CASE ChannelOf[pulses[n][2]] # c
  <2>1. upto = before BY <1>1, <1>3
  <2>. QED BY <1>3, <2>1
<1>. QED BY <1>2, <1>3

\* Each pulse of a channel is at its place.
AtPlaces(pulses, c) ==
  \A i \in 1 .. Len(pulses) : ChannelOf[pulses[i][2]] = c =>
    /\ Place(pulses, i) \in 1 .. Len(own(pulses, c))
    /\ own(pulses, c)[Place(pulses, i)] = pulses[i]

\* What the loop collects of consecutive pulses: each of them at its place.
LEMMA OwnLists ==
  ASSUME NEW pulses, NEW m, NEW lo, NEW c, Consecutive(pulses, m, lo)
  PROVE  /\ own(pulses, c) \in Seq(Pulses)
         /\ Listed(own(pulses, c), m, lo, lo + Len(pulses), c)
         /\ AtPlaces(pulses, c)
<1>. USE DEF Consecutive
<1>1. Len(pulses) \in Nat /\ \A i \in 1 .. Len(pulses) : pulses[i] \in Pulses OBVIOUS
<1>2. PICK f : Loops(pulses, c, f, Len(pulses)) /\ own(pulses, c) = f[Len(pulses)]
  BY OwnIsLast
<1>3. \A n \in 0 .. Len(pulses) : f[n] \in Seq(Pulses) /\ f[n] = Turn(pulses, c, f, n)
  BY <1>2 DEF Loops
<1>. DEFINE First(n) == Among(pulses, c, n)
            P(n) == /\ IsFiniteSet(First(n)) /\ Len(f[n]) = Cardinality(First(n))
                    /\ Listed(f[n], m, lo, lo + n, c)
                    /\ \A i \in 1 .. n : ChannelOf[pulses[i][2]] = c =>
                         Place(pulses, i) \in 1 .. Len(f[n]) /\ f[n][Place(pulses, i)] = pulses[i]
            Good == {n \in 0 .. Len(pulses) : P(n)}
<1>4. 0 \in Good
  <2>1. f[0] = <<>> BY <1>1, <1>3 DEF Turn
  <2>2. First(0) = {} BY DEF Among
  <2>3. Listed(f[0], m, lo, lo + 0, c) BY <2>1 DEF Listed
  <2>4. IsFiniteSet(First(0)) /\ Len(f[0]) = Cardinality(First(0))
    <3>. HIDE DEF First
    <3>. QED BY <2>1, <2>2, FS_EmptySet
  <2>. QED BY <1>1, <2>3, <2>4
<1>5. ASSUME NEW n \in 1 .. Len(pulses), n - 1 \in Good PROVE n \in Good
  <2>1. n - 1 \in 0 .. Len(pulses) /\ n \in 0 .. Len(pulses) /\ P(n - 1) BY <1>1, <1>5
  <2>2. f[n - 1] \in Seq(Pulses) /\ f[n] = Turn(pulses, c, f, n) BY <1>3, <2>1
  <2>3. /\ lo + (n - 1) \in Nat /\ lo + (n - 1) + 1 = lo + n /\ lo <= lo + (n - 1)
        /\ pulses[n] = <<m, lo + n>> /\ pulses[n] \in Pulses
    BY <1>1
  <2>4. n # 0 /\ Len(f[n - 1]) \in Nat BY <2>2
  <2>5. pulses[n][2] = lo + n BY <2>3
  <2>8. PICK hi \in Nat : hi = lo + (n - 1) BY <2>3
  <2>9. hi + 1 = lo + n /\ lo <= hi /\ Listed(f[n - 1], m, lo, hi, c)
    BY <2>1, <2>3, <2>8
  <2>10. /\ IsFiniteSet(First(n))
         /\ ChannelOf[pulses[n][2]] = c => /\ Cardinality(First(n)) = Cardinality(First(n - 1)) + 1
                                           /\ Cardinality(First(n)) = Place(pulses, n)
         /\ ChannelOf[pulses[n][2]] # c => First(n) = First(n - 1)
    BY <2>1, PlaceFacts
  <2>11. \A i \in 1 .. n : i \in 1 .. (n - 1) \/ i = n OBVIOUS
  <2>12. /\ Len(f[n - 1]) = Cardinality(First(n - 1))
         /\ \A i \in 1 .. (n - 1) : ChannelOf[pulses[i][2]] = c =>
              /\ Place(pulses, i) \in 1 .. Len(f[n - 1])
              /\ f[n - 1][Place(pulses, i)] = pulses[i]
    BY <2>1
  <2>. HIDE DEF Good, First
  <2>6. CASE ChannelOf[lo + n] = c
    <3>1. f[n] = Append(f[n - 1], pulses[n]) BY <2>2, <2>4, <2>5, <2>6 DEF Turn
    <3>2. /\ Len(f[n]) = Len(f[n - 1]) + 1 /\ f[n][Len(f[n])] = pulses[n]
          /\ \A k \in 1 .. Len(f[n - 1]) : k \in 1 .. Len(f[n]) /\ f[n][k] = f[n - 1][k]
      BY <2>2, <2>3, <2>4, <3>1
    <3>3. Listed(f[n], m, lo, lo + n, c)
      <4>1. Listed(Append(f[n - 1], pulses[n]), m, lo, hi + 1, c)
        BY <2>2, <2>3, <2>6, <2>9, AppendLists
      <4>. QED BY <2>9, <3>1, <4>1
    <3>4. Len(f[n]) = Cardinality(First(n)) /\ Len(f[n]) = Place(pulses, n)
      BY <2>5, <2>6, <2>10, <2>12, <3>2
    <3>5. Len(f[n]) \in 1 .. Len(f[n]) BY <2>4, <3>2
    <3>6. ASSUME NEW i \in 1 .. n, ChannelOf[pulses[i][2]] = c
          PROVE  Place(pulses, i) \in 1 .. Len(f[n]) /\ f[n][Place(pulses, i)] = pulses[i]
      <4>1. CASE i = n BY <3>2, <3>4, <3>5, <4>1
      <4>2. CASE i \in 1 .. (n - 1) BY <2>12, <3>2, <3>6, <4>2
      <4>. QED BY <2>11, <4>1, <4>2
    <3>. QED BY <2>1, <2>10, <3>3, <3>4, <3>6 DEF Good
  <2>7. CASE ChannelOf[lo + n] # c
    <3>1. f[n] = f[n - 1] BY <2>2, <2>4, <2>5, <2>7 DEF Turn
    <3>2. Listed(f[n], m, lo, lo + n, c)
      <4>1. Listed(f[n - 1], m, lo, hi + 1, c) BY <2>2, <2>3, <2>7, <2>9, SkipLists
      <4>. QED BY <2>9, <3>1, <4>1
    <3>3. Len(f[n]) = Cardinality(First(n)) BY <2>5, <2>7, <2>10, <2>12, <3>1
    <3>4. ASSUME NEW i \in 1 .. n, ChannelOf[pulses[i][2]] = c
          PROVE  Place(pulses, i) \in 1 .. Len(f[n]) /\ f[n][Place(pulses, i)] = pulses[i]
      <4>1. i \in 1 .. (n - 1) BY <2>5, <2>7, <2>11, <3>4
      <4>. QED BY <2>12, <3>1, <3>4, <4>1
    <3>. QED BY <2>1, <2>10, <3>2, <3>3, <3>4 DEF Good
  <2>. QED BY <2>6, <2>7
<1>6. \A n \in 0 .. Len(pulses) : n \in Good
  <2>. HIDE DEF Good
  <2>. QED BY <1>1, <1>4, <1>5, UpTo
<1>7. Len(pulses) \in Good
  <2>1. Len(pulses) \in 0 .. Len(pulses) BY <1>1
  <2>. QED BY <1>6, <2>1, Zenon
<1>8. P(Len(pulses)) BY <1>7
<1>9. own(pulses, c) \in Seq(Pulses) BY <1>1, <1>2, <1>3
<1>. QED BY <1>2, <1>8, <1>9 DEF AtPlaces

LEMMA OwnType ==
  ASSUME NEW pulses \in Seq(Pulses), NEW c
  PROVE  own(pulses, c) \in Seq(Pulses)
<1>1. PICK f : Loops(pulses, c, f, Len(pulses)) /\ own(pulses, c) = f[Len(pulses)]
  BY OwnIsLast
<1>2. Len(pulses) \in 0 .. Len(pulses) OBVIOUS
<1>. QED BY <1>1, <1>2 DEF Loops

LEMMA PrefixListed ==
  ASSUME NEW s \in Seq(Pulses), NEW k \in 0 .. Len(s)
  PROVE  /\ SubSeq(s, 1, k) \in Seq(Pulses)
         /\ \A m, lo, hi, c : Listed(s, m, lo, hi, c) => Listed(SubSeq(s, 1, k), m, lo, hi, c)
<1>1. Len(s) \in Nat /\ k \in Nat /\ \A i \in 1 .. k : i \in 1 .. Len(s) /\ s[i] \in Pulses
  OBVIOUS
<1>2. /\ SubSeq(s, 1, k) \in Seq(Pulses)
      /\ Len(SubSeq(s, 1, k)) = k
      /\ \A i \in 1 .. k : SubSeq(s, 1, k)[i] = s[i]
  BY <1>1, SubSeqProperties
<1>. QED BY <1>1, <1>2 DEF Listed

\* The number of frames' pulses that fit is a number.
LEMMA RoomType ==
  ASSUME NEW pulses \in Seq(Pulses)
  PROVE  /\ RecordBytes(pulses) \in Nat
         /\ (RX_MAX - RecordBytes(pulses) - 22) \div (3 + Samples) \in Int
<1>1. Len(pulses) \in Nat /\ Samples \in Nat /\ RX_MAX \in Nat BY AxleAssumption
<1>2. Len(pulses) * (8 + Samples) \in Nat BY <1>1
<1>3. 3 + Samples \in Nat /\ 3 + Samples > 0 BY <1>1
<1>4. \A a \in Int, b \in Nat : b > 0 => a \div b \in Int OBVIOUS
<1>5. RX_MAX - RecordBytes(pulses) - 22 \in Int BY <1>1, <1>2 DEF RecordBytes
<1>. QED BY <1>2, <1>3, <1>4, <1>5 DEF RecordBytes

LEMMA FrameCases ==
  ASSUME NEW pulses \in Seq(Pulses), NEW c
  PROVE  \/ frame(pulses, c) = <<>>
         \/ \E k \in 0 .. Len(own(pulses, c)) : frame(pulses, c) = SubSeq(own(pulses, c), 1, k)
<1>. DEFINE room == (RX_MAX - RecordBytes(pulses) - 22) \div (3 + Samples)
<1>1. room \in Int BY RoomType
<1>2. Len(own(pulses, c)) \in Nat BY OwnType
<1>3. frame(pulses, c) = IF c \in ch_list(pulses) /\ room > 0
                         THEN SubSeq(own(pulses, c), 1, Least(room, Len(own(pulses, c)))) ELSE <<>>
  BY DEF frame
<1>. HIDE DEF room
<1>4. CASE room > 0
  <2>1. Least(room, Len(own(pulses, c))) \in 0 .. Len(own(pulses, c))
    BY <1>1, <1>2, <1>4 DEF Least
  <2>. QED BY <1>3, <2>1
<1>5. CASE ~(room > 0) BY <1>3, <1>5
<1>. QED BY <1>4, <1>5

LEMMA FrameType ==
  ASSUME NEW pulses \in Seq(Pulses), NEW c
  PROVE  frame(pulses, c) \in Seq(Pulses)
<1>1. <<>> \in Seq(Pulses) OBVIOUS
<1>2. own(pulses, c) \in Seq(Pulses) BY OwnType
<1>3. ASSUME NEW k \in 0 .. Len(own(pulses, c)) PROVE SubSeq(own(pulses, c), 1, k) \in Seq(Pulses)
  BY <1>2, PrefixListed
<1>4. CASE frame(pulses, c) = <<>> BY <1>1, <1>4
<1>5. CASE \E k \in 0 .. Len(own(pulses, c)) : frame(pulses, c) = SubSeq(own(pulses, c), 1, k)
  BY <1>3, <1>5, Zenon
<1>. QED BY <1>4, <1>5, FrameCases

\* A frame holds pulses of its module and channel, in order.
LEMMA FrameListed ==
  ASSUME NEW pulses, NEW m, NEW lo, NEW c, Consecutive(pulses, m, lo)
  PROVE  Listed(frame(pulses, c), m, lo, lo + Len(pulses), c)
<1>1. pulses \in Seq(Pulses) BY DEF Consecutive
<1>2. own(pulses, c) \in Seq(Pulses) /\ Listed(own(pulses, c), m, lo, lo + Len(pulses), c)
  BY OwnLists
<1>3. CASE frame(pulses, c) = <<>> BY <1>3 DEF Listed
<1>4. CASE \E k \in 0 .. Len(own(pulses, c)) : frame(pulses, c) = SubSeq(own(pulses, c), 1, k)
  <2>1. PICK k \in 0 .. Len(own(pulses, c)) : frame(pulses, c) = SubSeq(own(pulses, c), 1, k)
    BY <1>4
  <2>2. Listed(SubSeq(own(pulses, c), 1, k), m, lo, lo + Len(pulses), c)
    BY <1>2, PrefixListed
  <2>. QED BY <2>1, <2>2
<1>. QED BY <1>1, <1>3, <1>4, FrameCases

\* What is cut off are pulses.
LEMMA CutOffType ==
  ASSUME NEW pulses \in Seq(Pulses)
  PROVE  CutOff(pulses) \subseteq 1..MaxPulses
<1>1. \A i \in DOMAIN pulses : pulses[i][2] \in 1..MaxPulses
  <2>1. \A i \in DOMAIN pulses : pulses[i] \in Pulses OBVIOUS
  <2>. QED BY <2>1 DEF Pulses
<1>. QED BY <1>1 DEF CutOff

\* A multiple of a number that is not more than another goes into it as often.
LEMMA GoesInto ==
  ASSUME NEW x \in Int, NEW d \in Nat, d > 0, NEW k \in Nat, k * d <= x
  PROVE  k <= x \div d
<1>. DEFINE q == x \div d
<1>1. q \in Int /\ x < (q + 1) * d
  OBVIOUS
<1>. HIDE DEF q
<1>2. SUFFICES ASSUME k > q PROVE FALSE BY <1>1 DEF q
<1>3. PICK e \in Nat : k = q + 1 + e
  <2>1. k - q - 1 \in Nat /\ k = q + 1 + (k - q - 1) BY <1>1, <1>2
  <2>. QED BY <2>1
<1>4. k * d = (q + 1) * d + e * d BY <1>1, <1>3
<1>5. e * d \in Nat /\ k * d \in Int /\ (q + 1) * d \in Int BY <1>1, <1>3
<1>. QED BY <1>1, <1>4, <1>5

\* The frame of a channel holds every pulse of it in the packet that it has room
\* for.
LEMMA FrameWhole ==
  ASSUME NEW pulses, NEW m, NEW lo, NEW c, Consecutive(pulses, m, lo)
  PROVE  Whole(frame(pulses, c), CutOff(pulses), lo, lo + Len(pulses), c)
<1>. DEFINE room == (RX_MAX - RecordBytes(pulses) - 22) \div (3 + Samples)
<1>1. /\ pulses \in Seq(Pulses) /\ lo \in Nat /\ Len(pulses) \in Nat
      /\ \A i \in 1 .. Len(pulses) : pulses[i] = <<m, lo + i>>
  BY DEF Consecutive
<1>2. /\ own(pulses, c) \in Seq(Pulses) /\ Len(own(pulses, c)) \in Nat
      /\ AtPlaces(pulses, c)
  <2>1. own(pulses, c) \in Seq(Pulses) BY OwnLists
  <2>2. Len(own(pulses, c)) \in Nat BY <2>1
  <2>. QED BY <2>1, <2>2, OwnLists
<1>3. SUFFICES ASSUME NEW n \in (lo + 1) .. (lo + Len(pulses)), ChannelOf[n] = c,
                      n \notin CutOff(pulses)
               PROVE  \E i \in 1 .. Len(frame(pulses, c)) : frame(pulses, c)[i][2] = n
  BY DEF Whole
<1>. DEFINE i == n - lo
            k == Place(pulses, i)
<1>4. i \in 1 .. Len(pulses) /\ lo + i = n BY <1>1
<1>5. pulses[i] = <<m, n>> /\ pulses[i][2] = n BY <1>1, <1>4
<1>6. c \in ch_list(pulses) /\ RecordBytes(pulses) + 22 + k * (3 + Samples) <= RX_MAX
  <2>1. i \in DOMAIN pulses BY <1>1, <1>4
  <2>. HIDE DEF i
  <2>. QED BY <1>3, <1>5, <2>1 DEF CutOff
<1>7. k \in 1 .. Len(own(pulses, c)) /\ own(pulses, c)[k] = pulses[i]
  BY <1>2, <1>3, <1>4, <1>5 DEF AtPlaces
<1>. HIDE DEF i, k
<1>8. k \in Nat /\ k >= 1 BY <1>2, <1>7
<1>9. room \in Int /\ RecordBytes(pulses) \in Nat BY <1>1, RoomType
<1>10. room >= k
  <2>1. /\ Samples \in Nat /\ RX_MAX \in Nat /\ 3 + Samples \in Nat /\ 3 + Samples > 0
    BY AxleAssumption
  <2>2. k * (3 + Samples) \in Nat BY <1>8, <2>1
  <2>3. k * (3 + Samples) <= RX_MAX - RecordBytes(pulses) - 22 BY <1>6, <1>9, <2>1, <2>2
  <2>4. RX_MAX - RecordBytes(pulses) - 22 \in Int BY <1>9, <2>1
  <2>. QED BY <1>8, <2>1, <2>3, <2>4, GoesInto
<1>11. frame(pulses, c) = IF room > 0
                          THEN SubSeq(own(pulses, c), 1, Least(room, Len(own(pulses, c)))) ELSE <<>>
  BY <1>6 DEF frame
<1>. HIDE DEF room
<1>. DEFINE last == Least(room, Len(own(pulses, c)))
<1>12. room > 0 /\ last \in 0 .. Len(own(pulses, c)) /\ k \in 1 .. last
  BY <1>2, <1>7, <1>8, <1>9, <1>10 DEF Least
<1>. HIDE DEF last
<1>13. frame(pulses, c) = SubSeq(own(pulses, c), 1, last) BY <1>11, <1>12 DEF last
<1>14. Len(frame(pulses, c)) = last /\ frame(pulses, c)[k] = own(pulses, c)[k]
  BY <1>2, <1>12, <1>13
<1>. QED BY <1>5, <1>7, <1>12, <1>14
-------------------------------------------------------------------------------
(* What an echo confirms.                                                  *)

\* The events confirmed are those up to the first that was not sent with a code
\* up to the echo.
LEMMA ConfirmedFacts ==
  ASSUME NEW events, NEW n \in Nat, DOMAIN events = 1 .. n, NEW echo
  PROVE  /\ Confirmed(events, echo) \in 0 .. n
         /\ echo = 0 => Confirmed(events, echo) = 0
         /\ \A i \in 1 .. Confirmed(events, echo) :
              events[i].seq # None /\ events[i].seq <= echo
         /\ echo # 0 /\ Confirmed(events, echo) < n =>
              LET next == Confirmed(events, echo) + 1
              IN  ~(events[next].seq # None /\ events[next].seq <= echo)
<1>. DEFINE sent(i) == events[i].seq # None /\ events[i].seq <= echo
            T == {i \in 1 .. n : \A j \in 1 .. i : sent(j)}
<1>1. CASE echo = 0 BY <1>1 DEF Confirmed
<1>2. CASE echo # 0
  <2>1. Confirmed(events, echo) = Cardinality(T) BY <1>2 DEF Confirmed
  <2>2. T \subseteq 1 .. n OBVIOUS
  <2>3. CASE T = {}
    <3>1. Confirmed(events, echo) = 0 BY <2>1, <2>3, FS_EmptySet
    <3>2. n > 0 => ~sent(1)
      <4>1. SUFFICES ASSUME n > 0, sent(1) PROVE FALSE OBVIOUS
      <4>2. 1 \in T BY <4>1
      <4>. QED BY <2>3, <4>2
    <3>. QED BY <3>1, <3>2
  <2>4. CASE T # {}
    <3>1. PICK k \in T : \A y \in T : y <= k
      <4>. HIDE DEF T
      <4>. QED BY <2>2, <2>4, GreatestThere
    <3>2. k \in 1 .. n /\ \A j \in 1 .. k : sent(j) BY <3>1
    <3>3. T = 1 .. k
      <4>1. ASSUME NEW i \in 1 .. k PROVE i \in T
        <5>1. i \in 1 .. n /\ \A j \in 1 .. i : j \in 1 .. k BY <3>2
        <5>. QED BY <3>2, <5>1
      <4>2. ASSUME NEW i \in T PROVE i \in 1 .. k
        <5>1. i <= k BY <3>1
        <5>2. i \in 1 .. n OBVIOUS
        <5>. QED BY <3>2, <5>1, <5>2
      <4>. HIDE DEF T
      <4>. QED BY <4>1, <4>2
    <3>4. Cardinality(T) = k
      <4>1. k \in Nat /\ ~(1 > k) /\ k - 1 + 1 = k BY <3>2
      <4>2. Cardinality(1 .. k) = k BY <4>1, FS_Interval
      <4>. QED BY <3>3, <4>2, Zenon
    <3>5. k < n => ~sent(k + 1)
      <4>1. SUFFICES ASSUME k < n, sent(k + 1) PROVE FALSE OBVIOUS
      <4>2. \A j \in 1 .. (k + 1) : j \in 1 .. k \/ j = k + 1 BY <3>2
      <4>3. \A j \in 1 .. (k + 1) : sent(j) BY <3>2, <4>1, <4>2
      <4>4. k + 1 \in 1 .. n BY <3>2, <4>1
      <4>5. k + 1 \in T BY <4>3, <4>4
      <4>6. k + 1 <= k BY <3>1, <4>5
      <4>. QED BY <3>2, <4>6
    <3>6. Confirmed(events, echo) = k BY <2>1, <3>4
    <3>. QED BY <1>2, <3>2, <3>5, <3>6
  <2>. QED BY <2>3, <2>4
<1>. QED BY <1>1, <1>2
-------------------------------------------------------------------------------
(* Types.                                                                  *)

\* The pulses a counter has dropped.
Dropped(m) == made[m] - Len(_pulse_events[m])

\* A counter keeps the last pulses it has counted.
EventsInv ==
  \A m \in Modules :
    /\ Len(_pulse_events[m]) <= made[m]
    /\ \A i \in 1 .. Len(_pulse_events[m]) : _pulse_events[m][i].pulse = <<m, Dropped(m) + i>>

BaseInv == TypeOK /\ EventsInv

Events == [pulse : Pulses, seq : Codes]

LEMMA BusCases ==
  ASSUME TypeOK
  PROVE  /\ bus.phase \in {"request", "silent", "answer"} => bus.to \in Modules
         /\ bus.phase = "request" => bus.confirm \in Codes /\ bus.count \in 0 .. MaxPulses
         /\ bus.phase = "answer" => bus.answer \in Answers
BY DEF TypeOK, Idle

LEMMA EventTypes ==
  ASSUME TypeOK, NEW m \in Modules
  PROVE  /\ _pulse_events[m] \in Seq(Events) /\ Len(_pulse_events[m]) \in Nat
         /\ DOMAIN _pulse_events[m] = 1 .. Len(_pulse_events[m])
         /\ \A i \in 1 .. Len(_pulse_events[m]) :
              /\ _pulse_events[m][i] \in Events
              /\ _pulse_events[m][i].seq \in Nat
         /\ made[m] \in Nat /\ _current_code[m] \in Nat /\ comm_confirm[m] \in Nat
         /\ pending_pulse_count[m] \in Nat
<1>1. _pulse_events[m] \in Seq(Events) BY DEF TypeOK, Events
<1>2. /\ Len(_pulse_events[m]) \in Nat
      /\ DOMAIN _pulse_events[m] = 1 .. Len(_pulse_events[m])
      /\ \A i \in 1 .. Len(_pulse_events[m]) : _pulse_events[m][i] \in Events
  BY <1>1
<1>3. Codes \subseteq Nat /\ MaxPulses \in Nat BY AxleAssumption DEF Codes
<1>4. \A e \in Events : e.seq \in Nat BY <1>3 DEF Events
<1>5. made[m] \in Nat /\ _current_code[m] \in Nat /\ comm_confirm[m] \in Nat
      /\ pending_pulse_count[m] \in Nat
  <2>1. made[m] \in 0 .. MaxPulses /\ pending_pulse_count[m] \in 0 .. MaxPulses
    BY DEF TypeOK
  <2>2. _current_code[m] \in Codes /\ comm_confirm[m] \in Codes
    BY DEF TypeOK
  <2>3. made[m] \in Nat /\ pending_pulse_count[m] \in Nat BY <1>3, <2>1
  <2>4. _current_code[m] \in Nat /\ comm_confirm[m] \in Nat BY <1>3, <2>2, Zenon
  <2>. QED BY <2>3, <2>4
<1>. QED BY <1>1, <1>2, <1>4, <1>5

LEMMA BoundTypes ==
  MAX_PULSES_PER_REQ \in Nat /\ MaxPulses \in Nat /\ Passage \in Nat
<1>1. MAX_PULSES_PER_REQ \in Nat BY AxleAssumption
<1>2. MaxPulses \in Nat BY AxleAssumption
<1>3. Passage \in Nat BY AxleAssumption
<1>. QED BY <1>1, <1>2, <1>3

LEMMA LeastType ==
  \A a, b \in Nat : Least(a, b) \in Nat /\ Least(a, b) <= a /\ Least(a, b) <= b
                    /\ (Least(a, b) = a \/ Least(a, b) = b)
BY DEF Least

LEMMA NextCodeType ==
  ASSUME NEW c \in Codes
  PROVE  NextCode(c) \in Codes /\ NextCode(c) # 0
BY AxleAssumption DEF Codes, NextCode

\* Saving an answer keeps the types.
LEMMA OnlineTypes ==
  ASSUME TypeOK, NEW m \in Modules, NEW answer \in Answers, uart_axle_counter_online(m, answer)
  PROVE  /\ comm_confirm' \in [Modules -> Codes]
         /\ pending_pulse_count' \in [Modules -> 0..MaxPulses]
         /\ uploaded' \in [Modules -> [Channels -> Seq(Pulses)]]
         /\ cut' \in [Modules -> SUBSET (1..MaxPulses)]
<1>1. answer.code \in Codes /\ answer.unread \in 0..MaxPulses /\ answer.pulses \in Seq(Pulses)
  BY DEF Answers
<1>2. /\ comm_confirm' = [comm_confirm EXCEPT ![m] = answer.code]
      /\ pending_pulse_count' = [pending_pulse_count EXCEPT ![m] = answer.unread]
  BY DEF uart_axle_counter_online
<1>3. uploaded' \in [Modules -> [Channels -> Seq(Pulses)]]
  <2>0. uploaded \in [Modules -> [Channels -> Seq(Pulses)]] BY DEF TypeOK
  <2>1. CASE pending_pulse_count[m] > 0
    <3>1. uploaded' = [uploaded EXCEPT ![m] = [c \in Channels |-> @[c] \o frame(answer.pulses, c)]]
      BY <2>1 DEF uart_axle_counter_online, uart_axle_counter_upload_pulse
    <3>2. \A c \in Channels : uploaded[m][c] \o frame(answer.pulses, c) \in Seq(Pulses)
      <4>1. SUFFICES ASSUME NEW c \in Channels
                     PROVE  uploaded[m][c] \o frame(answer.pulses, c) \in Seq(Pulses)
        OBVIOUS
      <4>2. uploaded[m][c] \in Seq(Pulses) BY <2>0
      <4>3. frame(answer.pulses, c) \in Seq(Pulses) BY <1>1, FrameType
      <4>. QED BY <4>2, <4>3, ConcatProperties
    <3>3. [c \in Channels |-> uploaded[m][c] \o frame(answer.pulses, c)] \in [Channels -> Seq(Pulses)]
      BY <3>2
    <3>. QED BY <2>0, <3>1, <3>3
  <2>2. CASE ~(pending_pulse_count[m] > 0)
    BY <2>0, <2>2 DEF uart_axle_counter_online, historyVars
  <2>. QED BY <2>1, <2>2
<1>4. cut' \in [Modules -> SUBSET (1..MaxPulses)]
  <2>0. cut \in [Modules -> SUBSET (1..MaxPulses)] BY DEF TypeOK
  <2>1. CASE pending_pulse_count[m] > 0
    <3>1. cut' = [cut EXCEPT ![m] = @ \cup CutOff(answer.pulses)]
      BY <2>1 DEF uart_axle_counter_online, uart_axle_counter_upload_pulse
    <3>2. CutOff(answer.pulses) \subseteq 1..MaxPulses BY <1>1, CutOffType
    <3>. QED BY <2>0, <3>1, <3>2
  <2>2. CASE ~(pending_pulse_count[m] > 0)
    BY <2>0, <2>2 DEF uart_axle_counter_online, historyVars
  <2>. QED BY <2>1, <2>2
<1>. QED BY <1>1, <1>2, <1>3, <1>4 DEF TypeOK
-------------------------------------------------------------------------------
(* A request is answered.                                                  *)

\* A counter m that answers a request drops n events and sends take pulses.
Handled(m, n, take) ==
  LET old == _pulse_events[m]
      new == _pulse_events'[m]
      code == NextCode(_current_code[m])
  IN  /\ n = Confirmed(old, bus.confirm)
      /\ take = Least(bus.count, Least(Len(old) - n, MAX_PULSES_PER_REQ))
      /\ new \in Seq(Events) /\ Len(new) = Len(old) - n
      /\ \A i \in 1 .. (Len(old) - n) :
           /\ n + i \in 1 .. Len(old)
           /\ new[i].pulse = old[n + i].pulse
           /\ new[i].seq = IF i <= take THEN code ELSE old[n + i].seq
      /\ bus'.phase = "answer" /\ bus'.to = m /\ bus'.answer.code = code
      /\ bus'.answer.pulses \in Seq(Pulses) /\ Len(bus'.answer.pulses) = take
      /\ bus'.answer.unread = Len(old) - n - take
      /\ \A i \in 1 .. take : bus'.answer.pulses[i] = old[n + i].pulse
      /\ confused' = {} =>
           /\ confused = {}
           /\ ~(bus.confirm > _current_code[m] /\ Len(old) > 0 /\ old[1].seq # None)
           /\ \A i \in (take + 1) .. (Len(old) - n) : old[n + i].seq <= code
           /\ ~(take > 0 /\ code = bus.confirm)

LEMMA HandleFacts ==
  ASSUME BaseInv, _handle_axle_request
  PROVE  /\ bus.to \in Modules
         /\ \E n \in 0 .. Len(_pulse_events[bus.to]) :
              \E take \in 0 .. (Len(_pulse_events[bus.to]) - n) : Handled(bus.to, n, take)
<1>. DEFINE m == bus.to
            code == NextCode(_current_code[m])
            events == _pulse_events[m]
            n == Confirmed(events, bus.confirm)
            kept == SubSeq(events, n + 1, Len(events))
            take == Least(bus.count, Least(Len(kept), MAX_PULSES_PER_REQ))
            marked == [i \in DOMAIN kept |-> IF i <= take THEN [kept[i] EXCEPT !.seq = code] ELSE kept[i]]
            sent == [i \in 1 .. take |-> kept[i].pulse]
<1>1. TypeOK /\ bus.phase = "request" /\ m \in Modules /\ bus.count \in 0 .. MaxPulses
  BY BusCases DEF BaseInv, _handle_axle_request
<1>2. /\ events \in Seq(Events) /\ Len(events) \in Nat /\ DOMAIN events = 1 .. Len(events)
      /\ \A i \in 1 .. Len(events) : events[i] \in Events
  BY <1>1, EventTypes
<1>3. n \in 0 .. Len(events) BY <1>2, ConfirmedFacts
<1>4. code \in Codes
  <2>1. _current_code[m] \in Codes BY <1>1 DEF TypeOK
  <2>. QED BY <2>1, NextCodeType
<1>5. /\ _pulse_events' = [_pulse_events EXCEPT ![m] = marked]
      /\ bus' = [phase |-> "answer", to |-> m,
                 answer |-> [code |-> code, unread |-> Len(kept) - take, pulses |-> sent]]
      /\ confused' = IF \/ bus.confirm > _current_code[m] /\ events # <<>> /\ events[1].seq # None
                        \/ \E i \in (take + 1)..Len(kept) : kept[i].seq > code
                        \/ take > 0 /\ code = bus.confirm
                     THEN confused \cup {"wrapped"} ELSE confused
  BY DEF _handle_axle_request
<1>6. _pulse_events'[m] = marked
  BY <1>1, <1>5 DEF TypeOK
<1>. HIDE DEF n, code, events, m
<1>7. /\ kept \in Seq(Events) /\ Len(kept) = Len(events) - n
      /\ \A i \in 1 .. Len(kept) : n + i \in 1 .. Len(events) /\ kept[i] = events[n + i]
  <2>1. \A i \in (n + 1) .. Len(events) : events[i] \in Events BY <1>2, <1>3
  <2>2. /\ kept \in Seq(Events)
        /\ Len(kept) = IF n + 1 <= Len(events) THEN Len(events) - (n + 1) + 1 ELSE 0
        /\ \A i \in 1 .. Len(events) - (n + 1) + 1 : kept[i] = events[n + 1 + i - 1]
    <3>. HIDE DEF kept
    <3>1. n + 1 \in Int /\ Len(events) \in Int BY <1>2, <1>3
    <3>. QED BY <2>1, <3>1, SubSeqProperties DEF kept
  <2>. HIDE DEF kept
  <2>3. Len(kept) = Len(events) - n
    <3>1. n \in Int /\ Len(events) \in Int /\ n <= Len(events) BY <1>2, <1>3
    <3>2. CASE n + 1 <= Len(events)
      <4>1. Len(kept) = Len(events) - (n + 1) + 1 BY <2>2, <3>2
      <4>. QED BY <3>1, <4>1
    <3>3. CASE ~(n + 1 <= Len(events))
      <4>1. Len(kept) = 0 BY <2>2, <3>3
      <4>. QED BY <3>1, <3>3, <4>1
    <3>. QED BY <3>2, <3>3
  <2>4. ASSUME NEW i \in 1 .. Len(kept)
        PROVE  n + i \in 1 .. Len(events) /\ kept[i] = events[n + i]
    <3>1. n + i \in 1 .. Len(events) /\ n + 1 + i - 1 = n + i BY <1>2, <1>3, <2>3
    <3>2. i \in 1 .. Len(events) - (n + 1) + 1 BY <1>2, <1>3, <2>3
    <3>. QED BY <2>2, <3>1, <3>2
  <2>. QED BY <2>2, <2>3, <2>4
<1>. HIDE DEF kept
<1>8. /\ Len(kept) \in Nat /\ DOMAIN kept = 1 .. Len(kept)
      /\ \A i \in 1 .. Len(kept) : kept[i] \in Events
  BY <1>7
<1>9. take \in 0 .. Len(kept)
  <2>1. bus.count \in Nat /\ MAX_PULSES_PER_REQ \in Nat
    <3>1. \A k \in 0 .. MaxPulses : k \in Nat BY BoundTypes
    <3>. QED BY <1>1, <3>1, BoundTypes, Zenon
  <2>2. Least(Len(kept), MAX_PULSES_PER_REQ) \in Nat /\ Least(Len(kept), MAX_PULSES_PER_REQ) <= Len(kept)
    BY <1>8, <2>1, LeastType
  <2>3. take \in Nat /\ take <= Least(Len(kept), MAX_PULSES_PER_REQ)
    BY <2>1, <2>2, LeastType
  <2>. HIDE DEF take
  <2>. QED BY <1>8, <2>2, <2>3
<1>10. take = Least(bus.count, Least(Len(events) - n, MAX_PULSES_PER_REQ)) BY <1>7
<1>. HIDE DEF take
<1>11. \A i \in 1 .. Len(kept) :
         /\ marked[i] \in Events /\ marked[i].pulse = kept[i].pulse
         /\ marked[i].seq = IF i <= take THEN code ELSE kept[i].seq
  BY <1>4, <1>8 DEF Events
<1>12. marked \in Seq(Events) /\ Len(marked) = Len(kept)
  <2>1. marked \in [1 .. Len(kept) -> Events] BY <1>8, <1>11
  <2>. HIDE DEF marked
  <2>. QED BY <1>8, <2>1
<1>13. /\ sent \in Seq(Pulses) /\ Len(sent) = take
       /\ \A i \in 1 .. take : sent[i] = kept[i].pulse
  <2>1. \A i \in 1 .. take : kept[i].pulse \in Pulses BY <1>8, <1>9 DEF Events
  <2>2. sent \in [1 .. take -> Pulses] BY <2>1
  <2>3. \A i \in 1 .. take : sent[i] = kept[i].pulse OBVIOUS
  <2>4. take \in Nat BY <1>8, <1>9
  <2>. HIDE DEF sent
  <2>. QED BY <2>2, <2>3, <2>4
<1>. HIDE DEF marked, sent
<1>14. /\ bus'.phase = "answer" /\ bus'.to = m /\ bus'.answer.code = code
       /\ bus'.answer.pulses = sent /\ bus'.answer.unread = Len(kept) - take
  BY <1>5
<1>15. ASSUME confused' = {}
       PROVE  /\ confused = {}
              /\ ~(bus.confirm > _current_code[m] /\ Len(events) > 0 /\ events[1].seq # None)
              /\ \A i \in (take + 1) .. (Len(events) - n) : events[n + i].seq <= code
              /\ ~(take > 0 /\ code = bus.confirm)
  <2>1. /\ confused = {}
        /\ ~(bus.confirm > _current_code[m] /\ events # <<>> /\ events[1].seq # None)
        /\ ~(\E i \in (take + 1)..Len(kept) : kept[i].seq > code)
        /\ ~(take > 0 /\ code = bus.confirm)
    BY <1>5, <1>15
  <2>2. Len(events) > 0 => events # <<>> OBVIOUS
  <2>3. ASSUME NEW i \in (take + 1) .. (Len(events) - n) PROVE events[n + i].seq <= code
    <3>1. i \in (take + 1) .. Len(kept) /\ i \in 1 .. Len(kept) BY <1>7, <1>8, <1>9
    <3>2. ~(kept[i].seq > code) /\ kept[i] = events[n + i] BY <1>7, <2>1, <3>1
    <3>3. kept[i].seq \in Nat /\ code \in Nat
      BY <1>4, <1>8, <3>1, AxleAssumption DEF Events, Codes
    <3>. QED BY <3>2, <3>3
  <2>. QED BY <2>1, <2>2, <2>3
<1>16. \A i \in 1 .. (Len(events) - n) :
         /\ n + i \in 1 .. Len(events)
         /\ marked[i].pulse = events[n + i].pulse
         /\ marked[i].seq = IF i <= take THEN code ELSE events[n + i].seq
  BY <1>7, <1>11
<1>17. \A i \in 1 .. take : sent[i] = events[n + i].pulse
  BY <1>7, <1>8, <1>9, <1>13
<1>18. Handled(m, n, take)
  BY <1>6, <1>7, <1>10, <1>12, <1>13, <1>14, <1>15, <1>16, <1>17 DEF Handled, n, code, events
<1>. QED BY <1>1, <1>3, <1>7, <1>9, <1>18 DEF m, events
-------------------------------------------------------------------------------
(* Axles pass.                                                             *)

\* What AxlesPass does to the events of its counter.
Passed(m) ==
  LET old == _pulse_events[m]
      new == _pulse_events'[m]
  IN  /\ new \in Seq(Events) /\ Len(new) = Len(old) + Passage
      /\ made'[m] = made[m] + Passage /\ made'[m] \in 0 .. MaxPulses
      /\ \A i \in 1 .. Len(old) : new[i] = old[i]
      /\ \A i \in (Len(old) + 1) .. Len(new) :
           new[i].seq = None /\ new[i].pulse = <<m, made[m] + (i - Len(old))>>

LEMMA PassFacts ==
  ASSUME TypeOK, NEW m \in Modules, AxlesPass(m)
  PROVE  /\ Passed(m)
         /\ \A k \in Modules : k # m => _pulse_events'[k] = _pulse_events[k] /\ made'[k] = made[k]
<1>. DEFINE old == _pulse_events[m]
            new == _pulse_events'[m]
            more == [i \in 1..Passage |-> [pulse |-> <<m, made[m] + i>>, seq |-> None]]
<1>1. old \in Seq(Events) /\ Len(old) \in Nat /\ made[m] \in Nat BY EventTypes
<1>2. Passage \in Nat /\ MaxPulses \in Nat BY BoundTypes
<1>3. /\ made[m] + Passage <= MaxPulses
      /\ made' = [made EXCEPT ![m] = @ + Passage]
      /\ _pulse_events' = [_pulse_events EXCEPT ![m] = @ \o more]
  BY DEF AxlesPass
<1>4. /\ made'[m] = made[m] + Passage
      /\ new = old \o more
      /\ \A k \in Modules : k # m => _pulse_events'[k] = _pulse_events[k] /\ made'[k] = made[k]
  BY <1>3 DEF TypeOK
<1>5. more \in [1 .. Passage -> Events]
  <2>1. ASSUME NEW i \in 1 .. Passage
        PROVE  [pulse |-> <<m, made[m] + i>>, seq |-> None] \in Events
    <3>1. made[m] + i \in 1 .. MaxPulses BY <1>1, <1>2, <1>3
    <3>2. None \in Codes BY AxleAssumption DEF None, Codes
    <3>. QED BY <3>1, <3>2 DEF Events, Pulses
  <2>. QED BY <2>1
<1>6. more \in Seq(Events) /\ Len(more) = Passage
      /\ \A i \in 1 .. Passage : more[i].pulse = <<m, made[m] + i>> /\ more[i].seq = None
  <2>1. \A i \in 1 .. Passage : more[i].pulse = <<m, made[m] + i>> /\ more[i].seq = None OBVIOUS
  <2>. HIDE DEF more
  <2>. QED BY <1>2, <1>5, <2>1
<1>. HIDE DEF old, new, more
<1>7. /\ new \in Seq(Events) /\ Len(new) = Len(old) + Passage
      /\ \A i \in 1 .. Len(old) + Passage : new[i] = IF i <= Len(old) THEN old[i] ELSE more[i - Len(old)]
  BY <1>1, <1>4, <1>6, ConcatProperties
<1>8. \A i \in 1 .. Len(old) : new[i] = old[i] BY <1>1, <1>2, <1>7
<1>9. ASSUME NEW i \in (Len(old) + 1) .. Len(new)
      PROVE  new[i].seq = None /\ new[i].pulse = <<m, made[m] + (i - Len(old))>>
  <2>1. i - Len(old) \in 1 .. Passage /\ i \in 1 .. Len(old) + Passage /\ ~(i <= Len(old))
    BY <1>1, <1>2, <1>7
  <2>2. new[i] = more[i - Len(old)] BY <1>7, <2>1
  <2>. QED BY <1>6, <2>1, <2>2
<1>10. made'[m] \in 0 .. MaxPulses BY <1>1, <1>2, <1>3, <1>4
<1>. QED BY <1>4, <1>7, <1>8, <1>9, <1>10 DEF Passed, old, new

-------------------------------------------------------------------------------
(* The types are kept.                                                     *)

BoardTypes ==
  /\ comm_confirm \in [Modules -> Codes]
  /\ pending_pulse_count \in [Modules -> 0..MaxPulses]
  /\ uploaded \in [Modules -> [Channels -> Seq(Pulses)]]
  /\ cut \in [Modules -> SUBSET (1..MaxPulses)]
CounterTypes ==
  /\ _pulse_events \in [Modules -> Seq([pulse : Pulses, seq : Codes])]
  /\ _current_code \in [Modules -> Codes]
  /\ made \in [Modules -> 0..MaxPulses]
BusTypes ==
  bus \in {Idle} \cup [phase : {"request"}, to : Modules, confirm : Codes, count : 0..MaxPulses]
       \cup [phase : {"silent"}, to : Modules]
       \cup [phase : {"answer"}, to : Modules, answer : Answers]
FaultTypes ==
  /\ late \subseteq Answers
  /\ lost \in 0..MaxLost /\ delayed \in 0..MaxLate /\ resets \in 0..MaxResets
  /\ confused \subseteq {"late", "wrapped", "reset"}

LEMMA TypeParts == TypeOK <=> BoardTypes /\ CounterTypes /\ BusTypes /\ FaultTypes
BY Zenon DEF TypeOK, BoardTypes, CounterTypes, BusTypes, FaultTypes

LEMMA NextTypeParts == TypeOK' <=> BoardTypes' /\ CounterTypes' /\ BusTypes' /\ FaultTypes'
BY Zenon DEF TypeOK, BoardTypes, CounterTypes, BusTypes, FaultTypes

LEMMA BoardTypesStay ==
  BoardTypes /\ UNCHANGED boardVars => BoardTypes'
BY DEF BoardTypes, boardVars, historyVars

LEMMA CounterTypesStay ==
  CounterTypes /\ UNCHANGED counterVars => CounterTypes'
BY DEF CounterTypes, counterVars

LEMMA EventsStay ==
  EventsInv /\ UNCHANGED <<_pulse_events, made>> => EventsInv'
BY DEF EventsInv, Dropped

LEMMA CountersStay ==
  CounterTypes /\ EventsInv /\ UNCHANGED counterVars => (CounterTypes /\ EventsInv)'
<1>1. UNCHANGED counterVars => UNCHANGED <<_pulse_events, made>> BY DEF counterVars
<1>. QED BY <1>1, CounterTypesStay, EventsStay

LEMMA CounterUp ==
  ASSUME NEW n \in Nat, NEW k \in 0 .. n, k < n
  PROVE  k + 1 \in 0 .. n
OBVIOUS

LEMMA BaseInit == Init => BaseInv
<1>1. SUFFICES ASSUME Init PROVE BaseInv OBVIOUS
<1>2. 0 \in Codes /\ 0 \in 0 .. MaxPulses /\ 0 \in 0 .. MaxLost /\ 0 \in 0 .. MaxLate /\ 0 \in 0 .. MaxResets
  BY AxleAssumption DEF Codes
<1>3. BoardTypes BY <1>1, <1>2 DEF Init, BoardTypes
<1>4. CounterTypes BY <1>1, <1>2 DEF Init, CounterTypes
<1>5. BusTypes BY <1>1 DEF Init, BusTypes
<1>6. FaultTypes BY <1>1, <1>2 DEF Init, FaultTypes
<1>7. EventsInv
  BY <1>1 DEF Init, EventsInv
<1>. QED BY <1>3, <1>4, <1>5, <1>6, <1>7, TypeParts DEF BaseInv

LEMMA PassKeepsBase ==
  ASSUME BaseInv, NEW m \in Modules, AxlesPass(m)
  PROVE  BaseInv'
<1>1. TypeOK /\ BoardTypes /\ CounterTypes /\ BusTypes /\ FaultTypes BY TypeParts DEF BaseInv
<1>2. /\ Passed(m)
      /\ \A k \in Modules : k # m => _pulse_events'[k] = _pulse_events[k] /\ made'[k] = made[k]
  BY <1>1, PassFacts
<1>3. /\ made' = [made EXCEPT ![m] = made'[m]]
      /\ _pulse_events' = [_pulse_events EXCEPT ![m] = _pulse_events'[m]]
      /\ UNCHANGED <<_current_code, boardVars, bus, late, faultVars>>
  BY <1>1 DEF AxlesPass, CounterTypes
<1>4. CounterTypes'
  BY <1>1, <1>2, <1>3 DEF CounterTypes, Passed, Events
<1>5. BoardTypes' BY <1>1, <1>3, BoardTypesStay
<1>6. BusTypes' BY <1>1, <1>3 DEF BusTypes
<1>7. FaultTypes' BY <1>1, <1>3 DEF FaultTypes, faultVars
<1>8. ASSUME NEW k \in Modules
      PROVE  /\ Len(_pulse_events'[k]) <= made'[k]
             /\ \A i \in 1 .. Len(_pulse_events'[k]) :
                  _pulse_events'[k][i].pulse = <<k, made'[k] - Len(_pulse_events'[k]) + i>>
  <2>1. /\ Len(_pulse_events[k]) <= made[k]
        /\ \A i \in 1 .. Len(_pulse_events[k]) :
             _pulse_events[k][i].pulse = <<k, made[k] - Len(_pulse_events[k]) + i>>
    BY DEF BaseInv, EventsInv, Dropped
  <2>2. CASE k # m BY <1>2, <2>1, <2>2
  <2>3. CASE k = m
    <3>1. Len(_pulse_events[m]) \in Nat /\ made[m] \in Nat /\ Passage \in Nat
      BY <1>1, EventTypes, BoundTypes
    <3>2. /\ Len(_pulse_events'[m]) = Len(_pulse_events[m]) + Passage
          /\ made'[m] = made[m] + Passage
          /\ \A i \in 1 .. Len(_pulse_events[m]) : _pulse_events'[m][i] = _pulse_events[m][i]
          /\ \A i \in (Len(_pulse_events[m]) + 1) .. Len(_pulse_events'[m]) :
               _pulse_events'[m][i].pulse = <<m, made[m] + (i - Len(_pulse_events[m]))>>
      BY <1>2 DEF Passed
    <3>3. made'[m] - Len(_pulse_events'[m]) = made[m] - Len(_pulse_events[m])
      BY <3>1, <3>2
    <3>4. Len(_pulse_events'[m]) <= made'[m] BY <2>1, <2>3, <3>1, <3>2
    <3>5. ASSUME NEW i \in 1 .. Len(_pulse_events'[m])
          PROVE  _pulse_events'[m][i].pulse = <<m, made'[m] - Len(_pulse_events'[m]) + i>>
      <4>1. CASE i <= Len(_pulse_events[m])
        <5>1. i \in 1 .. Len(_pulse_events[m]) BY <3>1, <4>1
        <5>. QED BY <2>1, <2>3, <3>2, <3>3, <5>1
      <4>2. CASE i > Len(_pulse_events[m])
        <5>1. i \in (Len(_pulse_events[m]) + 1) .. Len(_pulse_events'[m]) BY <3>1, <3>2, <4>2
        <5>2. made[m] + (i - Len(_pulse_events[m])) = made[m] - Len(_pulse_events[m]) + i
          BY <3>1
        <5>. QED BY <3>2, <3>3, <5>1, <5>2
      <4>. QED BY <3>1, <4>1, <4>2
    <3>. QED BY <2>3, <3>4, <3>5
  <2>. QED BY <2>2, <2>3
<1>9. EventsInv' BY <1>8 DEF EventsInv, Dropped
<1>. QED BY <1>4, <1>5, <1>6, <1>7, <1>9, NextTypeParts DEF BaseInv
LEMMA HandleKeepsBase ==
  ASSUME BaseInv, _handle_axle_request
  PROVE  BaseInv'
<1>. DEFINE m == bus.to
            old == _pulse_events[m]
            new == _pulse_events'[m]
            code == NextCode(_current_code[m])
<1>1. TypeOK /\ EventsInv /\ BoardTypes /\ CounterTypes /\ BusTypes /\ FaultTypes
  BY TypeParts DEF BaseInv
<1>2. m \in Modules /\ \E n \in 0 .. Len(old) : \E take \in 0 .. (Len(old) - n) : Handled(m, n, take)
  BY HandleFacts
<1>2a. PICK n \in 0 .. Len(old) : \E take \in 0 .. (Len(old) - n) : Handled(m, n, take)
  BY <1>2
<1>3. PICK take \in 0 .. (Len(old) - n) : Handled(m, n, take)
  BY <1>2a
<1>4. Len(old) \in Nat /\ made[m] \in Nat /\ Len(old) <= made[m]
  BY <1>1, <1>2, EventTypes DEF EventsInv
<1>5. code \in Codes
  <2>1. _current_code[m] \in Codes BY <1>1, <1>2 DEF CounterTypes
  <2>. QED BY <2>1, NextCodeType
<1>6. /\ _pulse_events' = [_pulse_events EXCEPT ![m] = new]
      /\ _current_code' = [_current_code EXCEPT ![m] = code]
      /\ UNCHANGED <<made, boardVars, late, lost, delayed, resets>>
      /\ \E pulses : bus' = [phase |-> "answer", to |-> m,
                             answer |-> [code |-> code, unread |-> bus'.answer.unread, pulses |-> pulses]]
      /\ confused' \in {confused, confused \cup {"wrapped"}}
  BY <1>1, <1>2 DEF _handle_axle_request, CounterTypes
<1>7. /\ new \in Seq(Events) /\ Len(new) = Len(old) - n
      /\ \A i \in 1 .. (Len(old) - n) : n + i \in 1 .. Len(old) /\ new[i].pulse = old[n + i].pulse
      /\ bus'.answer.pulses \in Seq(Pulses) /\ bus'.answer.unread = Len(old) - n - take
  BY <1>3 DEF Handled
<1>8. CounterTypes'
  <2>1. /\ _pulse_events' \in [Modules -> Seq(Events)]
        /\ _current_code' \in [Modules -> Codes]
    BY <1>1, <1>5, <1>6, <1>7 DEF CounterTypes, Events
  <2>2. made' \in [Modules -> 0 .. MaxPulses] BY <1>1, <1>6 DEF CounterTypes
  <2>. QED BY <2>1, <2>2 DEF CounterTypes, Events
<1>9. BusTypes'
  <2>1. PICK pulses : bus' = [phase |-> "answer", to |-> m,
                              answer |-> [code |-> code, unread |-> bus'.answer.unread, pulses |-> pulses]]
    BY <1>6
  <2>2. bus'.answer.pulses = pulses BY <2>1
  <2>3. bus'.answer.unread \in 0 .. MaxPulses
    <3>1. made[m] \in 0 .. MaxPulses BY <1>1, <1>2 DEF CounterTypes
    <3>. QED BY <1>3, <1>4, <1>7, <3>1, BoundTypes
  <2>4. [code |-> code, unread |-> bus'.answer.unread, pulses |-> pulses] \in Answers
    BY <1>5, <1>7, <2>2, <2>3 DEF Answers
  <2>5. bus' \in [phase : {"answer"}, to : Modules, answer : Answers]
    BY <1>2, <2>1, <2>4
  <2>. QED BY <2>5 DEF BusTypes
<1>10. BoardTypes' BY <1>1, <1>6, BoardTypesStay
<1>11. FaultTypes' BY <1>1, <1>6 DEF FaultTypes
<1>12. ASSUME NEW k \in Modules
       PROVE  /\ Len(_pulse_events'[k]) <= made'[k]
              /\ \A i \in 1 .. Len(_pulse_events'[k]) :
                   _pulse_events'[k][i].pulse = <<k, made'[k] - Len(_pulse_events'[k]) + i>>
  <2>1. /\ Len(_pulse_events[k]) <= made[k]
        /\ \A i \in 1 .. Len(_pulse_events[k]) :
             _pulse_events[k][i].pulse = <<k, made[k] - Len(_pulse_events[k]) + i>>
    BY <1>1 DEF EventsInv, Dropped
  <2>2. made'[k] = made[k] BY <1>6
  <2>3. CASE k # m
    <3>1. _pulse_events'[k] = _pulse_events[k] BY <1>1, <1>6, <2>3 DEF CounterTypes
    <3>. QED BY <2>1, <2>2, <3>1
  <2>4. CASE k = m
    <3>1. Len(new) <= made[m] BY <1>3, <1>4, <1>7
    <3>2. ASSUME NEW i \in 1 .. Len(new)
          PROVE  new[i].pulse = <<m, made[m] - Len(new) + i>>
      <4>1. i \in 1 .. (Len(old) - n) BY <1>7
      <4>2. n + i \in 1 .. Len(old) /\ new[i].pulse = old[n + i].pulse BY <1>7, <4>1
      <4>3. old[n + i].pulse = <<m, made[m] - Len(old) + (n + i)>> BY <2>1, <2>4, <4>2
      <4>4. made[m] - Len(old) + (n + i) = made[m] - Len(new) + i BY <1>3, <1>4, <1>7
      <4>. QED BY <4>2, <4>3, <4>4
    <3>. QED BY <2>2, <2>4, <3>1, <3>2
  <2>. QED BY <2>3, <2>4
<1>13. EventsInv' BY <1>12 DEF EventsInv, Dropped
<1>. QED BY <1>8, <1>9, <1>10, <1>11, <1>13, NextTypeParts DEF BaseInv

LEMMA BaseStep == BaseInv /\ [Next]_vars => BaseInv'
<1>1. SUFFICES ASSUME BaseInv, [Next]_vars PROVE BaseInv' OBVIOUS
<1>2. TypeOK /\ EventsInv /\ BoardTypes /\ CounterTypes /\ BusTypes /\ FaultTypes
  BY <1>1, TypeParts DEF BaseInv
<1>3. ASSUME UNCHANGED counterVars, BoardTypes', BusTypes', FaultTypes' PROVE BaseInv'
  <2>1. (CounterTypes /\ EventsInv)' BY <1>2, <1>3, CountersStay
  <2>. QED BY <1>3, <2>1, NextTypeParts DEF BaseInv
<1>4. UNCHANGED boardVars => BoardTypes' BY <1>2, BoardTypesStay
<1>5. UNCHANGED <<late, faultVars>> => FaultTypes' BY <1>2 DEF FaultTypes, faultVars
<1>6. bus' = Idle => BusTypes' BY DEF BusTypes
<1>7. ASSUME NEW m \in Modules, AxlesPass(m) PROVE BaseInv'
  BY <1>1, <1>7, PassKeepsBase
<1>8. ASSUME NEW m \in Modules, SendRequest(m) PROVE BaseInv'
  <2>1. /\ bus' = Request(m) /\ late' \in SUBSET late
        /\ UNCHANGED boardVars /\ UNCHANGED counterVars /\ UNCHANGED faultVars
    BY <1>8 DEF SendRequest
  <2>2. BusTypes'
    <3>1. comm_confirm[m] \in Codes /\ pending_pulse_count[m] \in 0 .. MaxPulses
      BY <1>2 DEF BoardTypes
    <3>2. bus' \in [phase : {"request"}, to : Modules, confirm : Codes, count : 0..MaxPulses]
      BY <2>1, <3>1 DEF Request
    <3>. QED BY <3>2 DEF BusTypes
  <2>3. FaultTypes' BY <1>2, <2>1 DEF FaultTypes, faultVars
  <2>. QED BY <1>3, <1>4, <2>1, <2>2, <2>3
<1>9. CASE HearAnswer
  <2>1. /\ bus.phase = "answer" /\ uart_axle_counter_online(bus.to, bus.answer) /\ bus' = Idle
        /\ UNCHANGED counterVars /\ UNCHANGED <<late, faultVars>>
    BY <1>9 DEF HearAnswer, Readable
  <2>2. BoardTypes' BY <1>2, <2>1, BusCases, OnlineTypes DEF BoardTypes
  <2>. QED BY <1>3, <1>5, <1>6, <2>1, <2>2
<1>10. CASE HearNothing
  <2>1. bus' = Idle /\ UNCHANGED counterVars /\ UNCHANGED boardVars /\ UNCHANGED <<late, faultVars>>
    BY <1>10 DEF HearNothing
  <2>. QED BY <1>3, <1>4, <1>5, <1>6, <2>1
<1>11. CASE HearLateAnswer
  <2>1. PICK answer \in late : uart_axle_counter_online(bus.to, answer) /\ late' = late \ {answer}
    BY <1>11 DEF HearLateAnswer
  <2>2. /\ bus.phase = "silent" /\ bus' = Idle /\ confused' = confused \cup {"late"}
        /\ UNCHANGED counterVars /\ UNCHANGED <<lost, delayed, resets>>
    BY <1>11 DEF HearLateAnswer
  <2>3. answer \in Answers BY <1>2, <2>1 DEF FaultTypes
  <2>4. BoardTypes' BY <1>2, <2>1, <2>2, <2>3, BusCases, OnlineTypes DEF BoardTypes
  <2>5. FaultTypes' BY <1>2, <2>1, <2>2 DEF FaultTypes
  <2>. QED BY <1>3, <1>6, <2>2, <2>4, <2>5
<1>12. CASE _handle_axle_request BY <1>1, <1>12, HandleKeepsBase
<1>13. CASE Lose
  <2>1. /\ bus.phase \in {"request", "answer"} /\ bus' = Silent(bus.to)
        /\ lost < MaxLost /\ lost' = lost + 1
        /\ UNCHANGED boardVars /\ UNCHANGED counterVars
        /\ UNCHANGED <<late, delayed, resets, confused>>
    BY <1>13 DEF Lose
  <2>2. BusTypes'
    <3>1. bus.to \in Modules BY <1>2, <2>1, BusCases
    <3>. QED BY <2>1, <3>1 DEF BusTypes, Silent
  <2>3. lost' \in 0 .. MaxLost
    <3>1. lost \in 0 .. MaxLost /\ MaxLost \in Nat BY <1>2, AxleAssumption DEF FaultTypes
    <3>. QED BY <2>1, <3>1
  <2>4. FaultTypes' BY <1>2, <2>1, <2>3 DEF FaultTypes
  <2>. QED BY <1>3, <1>4, <2>1, <2>2, <2>4
<1>14. CASE Delay
  <2>1. /\ bus.phase = "answer" /\ bus' = Idle
        /\ delayed < MaxLate /\ delayed' = delayed + 1
        /\ late' = late \cup {bus.answer}
        /\ UNCHANGED boardVars /\ UNCHANGED counterVars
        /\ UNCHANGED <<lost, resets, confused>>
    BY <1>14 DEF Delay
  <2>2. bus.answer \in Answers BY <1>2, <2>1, BusCases
  <2>3. delayed' \in 0 .. MaxLate
    <3>1. delayed \in 0 .. MaxLate /\ MaxLate \in Nat BY <1>2, AxleAssumption DEF FaultTypes
    <3>. QED BY <2>1, <3>1
  <2>4. FaultTypes' BY <1>2, <2>1, <2>2, <2>3 DEF FaultTypes
  <2>. QED BY <1>3, <1>4, <1>6, <2>1, <2>4
<1>15. CASE BoardResets
  <2>1. /\ resets < MaxResets /\ resets' = resets + 1
        /\ comm_confirm' = [m \in Modules |-> 0]
        /\ pending_pulse_count' = [m \in Modules |-> 0]
        /\ bus' = Idle /\ late' = {}
        /\ confused' \in {confused, confused \cup {"reset"}}
        /\ UNCHANGED <<historyVars, lost, delayed>> /\ UNCHANGED counterVars
    BY <1>15 DEF BoardResets
  <2>2. 0 \in Codes /\ 0 \in 0 .. MaxPulses BY AxleAssumption DEF Codes
  <2>3. BoardTypes' BY <1>2, <2>1, <2>2 DEF BoardTypes, historyVars
  <2>4. resets' \in 0 .. MaxResets
    <3>1. resets \in 0 .. MaxResets /\ MaxResets \in Nat BY <1>2, AxleAssumption DEF FaultTypes
    <3>. QED BY <2>1, <3>1
  <2>5. FaultTypes' BY <1>2, <2>1, <2>4 DEF FaultTypes
  <2>. QED BY <1>3, <1>6, <2>1, <2>3, <2>5
<1>16. CASE UNCHANGED vars
  <2>1. UNCHANGED boardVars /\ UNCHANGED counterVars /\ UNCHANGED <<bus, late, faultVars>>
    BY <1>16 DEF vars
  <2>2. BusTypes' BY <1>2, <2>1 DEF BusTypes
  <2>. QED BY <1>3, <1>4, <1>5, <2>1, <2>2
<1>. QED BY <1>1, <1>7, <1>8, <1>9, <1>10, <1>11, <1>12, <1>13, <1>14, <1>15, <1>16
         DEF Next, BoardStep

\* Every variable keeps its type, for any number of counters, pulses and faults;
\* and a counter only ever drops its oldest pulses.
THEOREM AxleTypes == Spec => []TypeOK
<1>1. BaseInv => TypeOK BY DEF BaseInv
<1>. QED BY <1>1, BaseInit, BaseStep, PTL DEF Spec
-------------------------------------------------------------------------------
(* What the board has uploaded and what the counter keeps.  For each module a *)
(* number u: its first u pulses have been uploaded or cut off.             *)

\* The uploaded pulses are the first u but those cut off, channel by channel.
UploadedInv(m, u) ==
  \A c \in Channels : /\ Listed(uploaded[m][c], m, 0, u, c)
                      /\ Whole(uploaded[m][c], cut[m], 0, u, c)

\* Pulses are only asked for with an echo.
EchoInv(m) == comm_confirm[m] = 0 => pending_pulse_count[m] = 0

\* Event i, with all before it, was sent in the last answer, which the board
\* has not read: it still echoes another code.
Unheard(m, i) ==
  /\ comm_confirm[m] # 0 /\ comm_confirm[m] # _current_code[m]
  /\ i <= pending_pulse_count[m] /\ i <= MAX_PULSES_PER_REQ
  /\ \A j \in 1 .. i : _pulse_events[m][j].seq = _current_code[m]

\* An event whose pulse has been uploaded carries a code the echo confirms; one
\* whose pulse has not carries none, or that of an answer unheard.
CodesInv(m, u) ==
  \A i \in 1 .. Len(_pulse_events[m]) :
    IF Dropped(m) + i <= u
    THEN /\ _pulse_events[m][i].seq # None
         /\ comm_confirm[m] # 0 => _pulse_events[m][i].seq <= comm_confirm[m]
    ELSE \/ _pulse_events[m][i].seq = None
         \/ u = Dropped(m) /\ Unheard(m, i)

\* An answer under way carries the oldest pulses that have not been uploaded.
AnswerInv(m, u) ==
  bus.phase = "answer" /\ bus.to = m =>
    /\ bus.answer.code = _current_code[m] /\ _current_code[m] # 0
    /\ Len(bus.answer.pulses) <= MAX_PULSES_PER_REQ
    /\ Len(bus.answer.pulses) <= Len(_pulse_events[m])
    /\ Len(bus.answer.pulses) > 0 => pending_pulse_count[m] > 0
    /\ comm_confirm[m] # 0 => u = Dropped(m)
    /\ \A i \in 1 .. Len(bus.answer.pulses) : bus.answer.pulses[i] = <<m, Dropped(m) + i>>
    /\ \A i \in 1 .. Len(_pulse_events[m]) :
         /\ _pulse_events[m][i].seq <= _current_code[m]
         /\ i <= Len(bus.answer.pulses) => _pulse_events[m][i].seq # None
         /\ i > Len(bus.answer.pulses) /\ Dropped(m) + i > u => _pulse_events[m][i].seq = None

ModuleInv(m, u) ==
  /\ u \in Nat /\ Dropped(m) <= u /\ u <= made[m]
  /\ UploadedInv(m, u) /\ EchoInv(m) /\ CodesInv(m, u) /\ AnswerInv(m, u)

\* A request carries what the board keeps of the module.
RequestInv == bus.phase = "request" => bus = Request(bus.to)

AllUploaded == confused = {} => \A m \in Modules : \E u : ModuleInv(m, u)

AxleInv == BaseInv /\ RequestInv /\ AllUploaded

\* A module that a step does not touch.
Untouched(m) ==
  /\ comm_confirm'[m] = comm_confirm[m] /\ pending_pulse_count'[m] = pending_pulse_count[m]
  /\ uploaded'[m] = uploaded[m] /\ cut'[m] = cut[m] /\ _pulse_events'[m] = _pulse_events[m]
  /\ _current_code'[m] = _current_code[m] /\ made'[m] = made[m]

LEMMA UntouchedKeeps ==
  ASSUME NEW m, NEW u, ModuleInv(m, u), Untouched(m),
         bus' = bus \/ bus'.phase # "answer" \/ bus'.to # m
  PROVE  ModuleInv(m, u)'
<1>1. Dropped(m)' = Dropped(m) BY DEF Untouched, Dropped
<1>2. (u \in Nat /\ Dropped(m) <= u /\ u <= made[m])' BY <1>1 DEF ModuleInv, Untouched
<1>3. UploadedInv(m, u)'
  <2>1. uploaded'[m] = uploaded[m] /\ cut'[m] = cut[m] /\ UploadedInv(m, u)
    BY DEF ModuleInv, Untouched
  <2>. QED BY <2>1 DEF UploadedInv, Listed, Whole
<1>4. EchoInv(m)' BY DEF ModuleInv, Untouched, EchoInv
<1>5. CodesInv(m, u)' BY <1>1 DEF ModuleInv, Untouched, CodesInv, Unheard
<1>6. AnswerInv(m, u)' BY <1>1 DEF ModuleInv, Untouched, AnswerInv
<1>. QED BY <1>2, <1>3, <1>4, <1>5, <1>6 DEF ModuleInv

LEMMA PassKeepsModule ==
  ASSUME BaseInv, NEW m \in Modules, NEW u, ModuleInv(m, u), AxlesPass(m)
  PROVE  ModuleInv(m, u)'
<1>. DEFINE old == _pulse_events[m]
            new == _pulse_events'[m]
<1>1. /\ TypeOK /\ Passed(m)
      /\ Len(old) \in Nat /\ made[m] \in Nat /\ Len(old) <= made[m]
      /\ _current_code[m] \in Nat
  BY PassFacts, EventTypes DEF BaseInv, EventsInv
<1>2. Passage \in Nat BY BoundTypes
<1>3. /\ Len(new) = Len(old) + Passage /\ made'[m] = made[m] + Passage
      /\ \A i \in 1 .. Len(old) : new[i] = old[i]
      /\ \A i \in (Len(old) + 1) .. Len(new) : new[i].seq = None
  BY <1>1 DEF Passed
<1>4. UNCHANGED <<_current_code, comm_confirm, pending_pulse_count, uploaded, cut, bus>>
  BY DEF AxlesPass, boardVars, historyVars
<1>5. Dropped(m)' = Dropped(m) /\ Dropped(m) = made[m] - Len(old) /\ Dropped(m) \in Int
  BY <1>1, <1>2, <1>3 DEF Dropped
<1>6. /\ u \in Nat /\ Dropped(m) <= u /\ u <= made[m]
      /\ UploadedInv(m, u) /\ EchoInv(m) /\ CodesInv(m, u) /\ AnswerInv(m, u)
  BY DEF ModuleInv
<1>7. \A i \in 1 .. Len(new) : i \in 1 .. Len(old) \/ i \in (Len(old) + 1) .. Len(new)
  BY <1>1, <1>2, <1>3
<1>8. (u \in Nat /\ Dropped(m) <= u /\ u <= made[m])' BY <1>1, <1>2, <1>3, <1>5, <1>6
<1>9. UploadedInv(m, u)'
  <2>1. uploaded'[m] = uploaded[m] /\ cut'[m] = cut[m] /\ UploadedInv(m, u) BY <1>4, <1>6
  <2>. QED BY <2>1 DEF UploadedInv, Whole, Listed
<1>10. EchoInv(m)' BY <1>4, <1>6 DEF EchoInv
<1>11. CodesInv(m, u)'
  <2>1. SUFFICES ASSUME NEW i \in 1 .. Len(new)
                 PROVE  IF Dropped(m) + i <= u
                        THEN new[i].seq # None /\ (comm_confirm[m] # 0 => new[i].seq <= comm_confirm[m])
                        ELSE new[i].seq = None \/ (u = Dropped(m) /\ Unheard(m, i)')
    BY <1>4, <1>5 DEF CodesInv
  <2>2. CASE i \in 1 .. Len(old)
    <3>1. new[i] = old[i] BY <1>3, <2>2
    <3>2. Unheard(m, i) => Unheard(m, i)'
      <4>1. \A j \in 1 .. i : new[j] = old[j] BY <1>1, <1>3, <2>2
      <4>. QED BY <1>4, <4>1 DEF Unheard
    <3>. QED BY <1>6, <2>2, <3>1, <3>2 DEF CodesInv
  <2>3. CASE i \in (Len(old) + 1) .. Len(new)
    <3>1. new[i].seq = None BY <1>3, <2>3
    <3>2. ~(Dropped(m) + i <= u) BY <1>1, <1>5, <1>6, <2>3
    <3>. QED BY <3>1, <3>2
  <2>. QED BY <1>7, <2>2, <2>3
<1>12. AnswerInv(m, u)'
  <2>1. SUFFICES ASSUME bus.phase = "answer", bus.to = m PROVE AnswerInv(m, u)'
    BY <1>4 DEF AnswerInv
  <2>. DEFINE pulses == bus.answer.pulses
  <2>2. /\ bus.answer.code = _current_code[m] /\ _current_code[m] # 0
        /\ Len(pulses) <= MAX_PULSES_PER_REQ /\ Len(pulses) <= Len(old)
        /\ Len(pulses) > 0 => pending_pulse_count[m] > 0
        /\ comm_confirm[m] # 0 => u = Dropped(m)
        /\ \A i \in 1 .. Len(pulses) : pulses[i] = <<m, Dropped(m) + i>>
    BY <1>6, <2>1 DEF AnswerInv
  <2>3. pulses \in Seq(Pulses) /\ Len(pulses) \in Nat
    <3>1. bus.answer \in Answers BY <1>1, <2>1, BusCases
    <3>. QED BY <3>1 DEF Answers
  <2>4. Len(pulses) <= Len(new) BY <1>1, <1>2, <1>3, <2>2, <2>3
  <2>5. ASSUME NEW i \in 1 .. Len(new)
        PROVE  /\ new[i].seq <= _current_code[m]
               /\ i <= Len(pulses) => new[i].seq # None
               /\ i > Len(pulses) /\ Dropped(m) + i > u => new[i].seq = None
    <3>1. CASE i \in 1 .. Len(old)
      <4>1. /\ old[i].seq <= _current_code[m]
            /\ i <= Len(pulses) => old[i].seq # None
            /\ i > Len(pulses) /\ Dropped(m) + i > u => old[i].seq = None
        BY <1>6, <2>1, <3>1 DEF AnswerInv
      <4>. QED BY <1>3, <3>1, <4>1
    <3>2. CASE i \in (Len(old) + 1) .. Len(new)
      <4>1. new[i].seq = 0 BY <1>3, <3>2 DEF None
      <4>2. ~(i <= Len(pulses)) BY <1>1, <2>2, <2>3, <3>2
      <4>. QED BY <1>1, <4>1, <4>2 DEF None
    <3>. QED BY <1>7, <3>1, <3>2
  <2>. HIDE DEF pulses
  <2>. QED BY <1>4, <1>5, <2>1, <2>2, <2>4, <2>5 DEF AnswerInv, pulses
<1>. QED BY <1>8, <1>9, <1>10, <1>11, <1>12 DEF ModuleInv
\* An answer that is heard: what it carries is uploaded and confirmed.
LEMMA HearKeepsModule ==
  ASSUME BaseInv, HearAnswer, NEW m \in Modules, m = bus.to, NEW u, ModuleInv(m, u)
  PROVE  \E v : ModuleInv(m, v)'
<1>. DEFINE events == _pulse_events[m]
            pulses == bus.answer.pulses
            now == _current_code[m]
<1>1. /\ bus.phase = "answer" /\ AnswerBytes(pulses) <= RX_MAX
      /\ uart_axle_counter_online(m, bus.answer) /\ bus' = Idle
      /\ UNCHANGED <<_pulse_events, _current_code, made>>
  BY DEF HearAnswer, Readable, counterVars
<1>2. /\ TypeOK /\ Len(events) \in Nat /\ made[m] \in Nat /\ Len(events) <= made[m]
      /\ now \in Nat /\ pending_pulse_count[m] \in Nat
      /\ \A i \in 1 .. Len(events) : events[i].seq \in Nat /\ events[i] \in Events
  BY EventTypes DEF BaseInv, EventsInv
<1>3. /\ bus.answer \in Answers /\ pulses \in Seq(Pulses) /\ Len(pulses) \in Nat
  <2>1. bus.answer \in Answers BY <1>1, <1>2, BusCases
  <2>. QED BY <2>1 DEF Answers
<1>4. /\ u \in Nat /\ Dropped(m) <= u /\ u <= made[m]
      /\ UploadedInv(m, u) /\ EchoInv(m) /\ CodesInv(m, u) /\ AnswerInv(m, u)
  BY DEF ModuleInv
<1>5. Dropped(m) = made[m] - Len(events) /\ Dropped(m) \in Nat BY <1>2 DEF Dropped
<1>6. /\ bus.answer.code = now /\ now # 0
      /\ Len(pulses) <= MAX_PULSES_PER_REQ /\ Len(pulses) <= Len(events)
      /\ Len(pulses) > 0 => pending_pulse_count[m] > 0
      /\ comm_confirm[m] # 0 => u = Dropped(m)
      /\ \A i \in 1 .. Len(pulses) : pulses[i] = <<m, Dropped(m) + i>>
      /\ \A i \in 1 .. Len(events) :
           /\ events[i].seq <= now
           /\ i <= Len(pulses) => events[i].seq # None
           /\ i > Len(pulses) /\ Dropped(m) + i > u => events[i].seq = None
  BY <1>1, <1>4 DEF AnswerInv
<1>7. comm_confirm'[m] = now /\ pending_pulse_count'[m] = bus.answer.unread
  BY <1>1, <1>2, <1>6 DEF uart_axle_counter_online, TypeOK
<1>8. Dropped(m)' = Dropped(m) BY <1>1 DEF Dropped
<1>. HIDE DEF events, pulses, now
<1>9. pending_pulse_count[m] > 0 => u = Dropped(m)
  BY <1>2, <1>4, <1>6 DEF EchoInv
<1>10. PICK v : v = IF pending_pulse_count[m] > 0 THEN Dropped(m) + Len(pulses) ELSE u
  OBVIOUS
<1>11. v \in Nat /\ Dropped(m) <= v /\ v <= made[m]
  BY <1>2, <1>3, <1>4, <1>5, <1>6, <1>9, <1>10
<1>12. UploadedInv(m, v)'
  <2>1. CASE pending_pulse_count[m] > 0
    <3>1. Consecutive(pulses, m, u) BY <1>3, <1>4, <1>6, <1>9, <2>1 DEF Consecutive
    <3>2. v = u + Len(pulses) /\ u <= v BY <1>3, <1>4, <1>9, <1>10, <2>1
    <3>3. ASSUME NEW c \in Channels
          PROVE  /\ Listed(uploaded'[m][c], m, 0, v, c)
                 /\ Whole(uploaded'[m][c], cut'[m], 0, v, c)
      <4>1. uploaded'[m][c] = uploaded[m][c] \o frame(pulses, c)
        <5>1. uploaded' = [uploaded EXCEPT ![m] = [d \in Channels |-> @[d] \o frame(pulses, d)]]
          BY <1>1, <2>1 DEF uart_axle_counter_online, uart_axle_counter_upload_pulse, pulses
        <5>2. uploaded \in [Modules -> [Channels -> Seq(Pulses)]] BY <1>2 DEF TypeOK
        <5>3. uploaded'[m] = [d \in Channels |-> uploaded[m][d] \o frame(pulses, d)]
          BY <5>1, <5>2
        <5>. QED BY <5>3
      <4>2. uploaded[m][c] \in Seq(Pulses) BY <1>2 DEF TypeOK
      <4>3. frame(pulses, c) \in Seq(Pulses) BY <1>3, FrameType
      <4>4. Listed(uploaded[m][c], m, 0, u, c) /\ Whole(uploaded[m][c], cut[m], 0, u, c)
        BY <1>4 DEF UploadedInv
      <4>5. Listed(frame(pulses, c), m, u, v, c) BY <3>1, <3>2, FrameListed
      <4>6. Whole(frame(pulses, c), CutOff(pulses), u, v, c) BY <3>1, <3>2, FrameWhole
      <4>7. /\ Listed(uploaded[m][c] \o frame(pulses, c), m, 0, v, c)
            /\ Whole(uploaded[m][c] \o frame(pulses, c), cut[m] \cup CutOff(pulses), 0, v, c)
        BY <1>4, <1>11, <3>2, <4>2, <4>3, <4>4, <4>5, <4>6, ConcatLists
      <4>8. cut'[m] = cut[m] \cup CutOff(pulses)
        BY <1>1, <1>2, <2>1 DEF uart_axle_counter_online, uart_axle_counter_upload_pulse, pulses, TypeOK
      <4>. QED BY <4>1, <4>7, <4>8, Zenon
    <3>. QED BY <3>3 DEF UploadedInv
  <2>2. CASE ~(pending_pulse_count[m] > 0)
    <3>1. v = u /\ uploaded' = uploaded /\ cut' = cut
      BY <1>1, <1>10, <2>2 DEF uart_axle_counter_online, historyVars
    <3>2. UploadedInv(m, u)' BY <1>4, <3>1 DEF UploadedInv
    <3>. QED BY <3>1, <3>2
  <2>. QED BY <2>1, <2>2
<1>13. EchoInv(m)' BY <1>6, <1>7 DEF EchoInv
<1>14. CodesInv(m, v)'
  <2>1. SUFFICES ASSUME NEW i \in 1 .. Len(events)
                 PROVE  IF Dropped(m) + i <= v
                        THEN events[i].seq # None /\ events[i].seq <= now
                        ELSE events[i].seq = None
    BY <1>1, <1>7, <1>8 DEF CodesInv, events
  <2>2. CASE pending_pulse_count[m] > 0
    <3>1. v = Dropped(m) + Len(pulses) /\ u = Dropped(m) BY <1>9, <1>10, <2>2
    <3>2. CASE i <= Len(pulses)
      <4>1. Dropped(m) + i <= v BY <1>3, <1>5, <3>1, <3>2
      <4>. QED BY <1>6, <3>2, <4>1
    <3>3. CASE i > Len(pulses)
      <4>1. ~(Dropped(m) + i <= v) /\ Dropped(m) + i > u BY <1>3, <1>5, <3>1, <3>3
      <4>. QED BY <1>6, <3>3, <4>1
    <3>. QED BY <1>3, <3>2, <3>3
  <2>3. CASE ~(pending_pulse_count[m] > 0)
    <3>1. v = u /\ Len(pulses) = 0 BY <1>3, <1>6, <1>10, <2>3
    <3>2. CASE Dropped(m) + i <= u
      <4>1. events[i].seq # None BY <1>4, <3>2 DEF CodesInv, events
      <4>. QED BY <1>6, <3>1, <3>2, <4>1
    <3>3. CASE ~(Dropped(m) + i <= u)
      <4>1. i > Len(pulses) /\ Dropped(m) + i > u BY <1>4, <1>5, <3>1, <3>3
      <4>. QED BY <1>6, <3>1, <3>3, <4>1
    <3>. QED BY <3>2, <3>3
  <2>. QED BY <2>2, <2>3
<1>15. AnswerInv(m, v)'
  BY <1>1 DEF AnswerInv, Idle
<1>16. (v \in Nat /\ Dropped(m) <= v /\ v <= made[m])' BY <1>1, <1>8, <1>11
<1>. QED BY <1>12, <1>13, <1>14, <1>15, <1>16 DEF ModuleInv

\* A reset of the board that finds no answer unheard loses nothing it needs.
LEMMA ResetKeepsModule ==
  ASSUME BaseInv, BoardResets, NEW m \in Modules, ~SentUnheard(m), NEW u, ModuleInv(m, u)
  PROVE  ModuleInv(m, u)'
<1>. DEFINE events == _pulse_events[m]
<1>1. /\ comm_confirm' = [k \in Modules |-> 0] /\ pending_pulse_count' = [k \in Modules |-> 0]
      /\ bus' = Idle /\ UNCHANGED <<uploaded, cut, _pulse_events, _current_code, made>>
  BY DEF BoardResets, counterVars, historyVars
<1>2. TypeOK /\ Len(events) \in Nat /\ events \in Seq(Events) BY EventTypes DEF BaseInv
<1>3. /\ u \in Nat /\ Dropped(m) <= u /\ u <= made[m]
      /\ UploadedInv(m, u) /\ EchoInv(m) /\ CodesInv(m, u)
  BY DEF ModuleInv
<1>4. Dropped(m)' = Dropped(m) BY <1>1 DEF Dropped
<1>5. (u \in Nat /\ Dropped(m) <= u /\ u <= made[m])' BY <1>1, <1>3, <1>4
<1>6. UploadedInv(m, u)' BY <1>1, <1>3 DEF UploadedInv
<1>7. EchoInv(m)' BY <1>1 DEF EchoInv
<1>8. CodesInv(m, u)'
  <2>1. SUFFICES ASSUME NEW i \in 1 .. Len(events)
                 PROVE  IF Dropped(m) + i <= u THEN events[i].seq # None ELSE events[i].seq = None
    BY <1>1, <1>4 DEF CodesInv
  <2>2. CASE Dropped(m) + i <= u BY <1>3, <2>2 DEF CodesInv
  <2>3. CASE ~(Dropped(m) + i <= u)
    <3>1. events[i].seq = None \/ Unheard(m, i) BY <1>3, <2>3 DEF CodesInv
    <3>2. CASE Unheard(m, i)
      <4>1. /\ comm_confirm[m] # _current_code[m]
            /\ events[1].seq = _current_code[m] /\ events[i].seq = _current_code[m]
        <5>1. 1 \in 1 .. i /\ i \in 1 .. i OBVIOUS
        <5>. QED BY <3>2, <5>1 DEF Unheard
      <4>2. events # <<>> BY <1>2
      <4>3. events[1].seq \in {None, comm_confirm[m]} BY <4>2 DEF SentUnheard
      <4>. QED BY <2>3, <4>1, <4>3
    <3>. QED BY <2>3, <3>1, <3>2
  <2>. QED BY <2>2, <2>3
<1>9. AnswerInv(m, u)' BY <1>1 DEF AnswerInv, Idle
<1>. QED BY <1>5, <1>6, <1>7, <1>8, <1>9 DEF ModuleInv
\* A request that is answered: what the board has not uploaded is sent, and only
\* what it has uploaded is dropped.
LEMMA HandleKeepsModule ==
  ASSUME BaseInv, RequestInv, _handle_axle_request, confused' = {},
         NEW m \in Modules, m = bus.to, NEW u, ModuleInv(m, u)
  PROVE  ModuleInv(m, u)'
<1>. DEFINE old == _pulse_events[m]
            new == _pulse_events'[m]
            pulses == bus'.answer.pulses
            echo == comm_confirm[m]
            now == _current_code[m]
            code == NextCode(now)
            Sent(i) == old[i].seq # None /\ old[i].seq <= echo
<1>1. /\ UNCHANGED <<comm_confirm, pending_pulse_count, uploaded, cut, made>>
      /\ _current_code' = [_current_code EXCEPT ![m] = code]
  BY DEF _handle_axle_request, boardVars, historyVars
<1>2. /\ TypeOK /\ Len(old) \in Nat /\ made[m] \in Nat /\ Len(old) <= made[m]
      /\ now \in Nat /\ echo \in Nat /\ pending_pulse_count[m] \in Nat
      /\ old \in Seq(Events) /\ DOMAIN old = 1 .. Len(old)
      /\ \A i \in 1 .. Len(old) : old[i] \in Events /\ old[i].seq \in Nat
  BY EventTypes DEF BaseInv, EventsInv
<1>3. code \in Nat /\ code # 0 /\ _current_code'[m] = code
  <2>1. now \in Codes BY <1>2 DEF TypeOK
  <2>2. code \in Codes /\ code # 0 BY <2>1, NextCodeType
  <2>3. \A k \in Codes : k \in Nat BY AxleAssumption DEF Codes
  <2>4. _current_code'[m] = code BY <1>1, <1>2 DEF TypeOK
  <2>. QED BY <2>2, <2>3, <2>4
<1>4. bus.confirm = echo /\ bus.count = pending_pulse_count[m]
  <2>1. bus = Request(m) BY DEF RequestInv, _handle_axle_request
  <2>. QED BY <2>1 DEF Request
<1>5. PICK n \in 0 .. Len(old) : \E take \in 0 .. (Len(old) - n) : Handled(m, n, take)
  BY HandleFacts
<1>6. PICK take \in 0 .. (Len(old) - n) : Handled(m, n, take)
  BY <1>5
<1>7. /\ Len(new) = Len(old) - n
      /\ \A i \in 1 .. (Len(old) - n) :
           /\ n + i \in 1 .. Len(old)
           /\ new[i].seq = IF i <= take THEN code ELSE old[n + i].seq
      /\ bus'.phase = "answer" /\ bus'.to = m /\ bus'.answer.code = code
      /\ Len(pulses) = take
      /\ \A i \in 1 .. take : pulses[i] = old[n + i].pulse
  BY <1>6 DEF Handled
<1>8. /\ confused = {}
      /\ ~(echo > now /\ Len(old) > 0 /\ old[1].seq # None)
      /\ \A i \in (take + 1) .. (Len(old) - n) : old[n + i].seq <= code
      /\ ~(take > 0 /\ code = echo)
  BY <1>4, <1>6 DEF Handled
<1>9. n = Confirmed(old, echo) /\ take = Least(pending_pulse_count[m], Least(Len(old) - n, MAX_PULSES_PER_REQ))
  BY <1>4, <1>6 DEF Handled
<1>10. /\ n \in Nat /\ take \in Nat /\ n + take <= Len(old)
       /\ take <= pending_pulse_count[m] /\ take <= MAX_PULSES_PER_REQ
       /\ \A i \in Nat : i <= pending_pulse_count[m] /\ i <= Len(old) - n /\ i <= MAX_PULSES_PER_REQ
                           => i <= take
  <2>1. n \in Nat /\ Len(old) - n \in Nat /\ take \in Nat /\ n + take <= Len(old) BY <1>2
  <2>2. take = Least(pending_pulse_count[m], Least(Len(old) - n, MAX_PULSES_PER_REQ)) BY <1>9
  <2>. HIDE DEF old
  <2>3. PICK k \in Nat : k = Least(Len(old) - n, MAX_PULSES_PER_REQ)
    BY <2>1, BoundTypes, LeastType
  <2>4. k <= MAX_PULSES_PER_REQ /\ (k = Len(old) - n \/ k = MAX_PULSES_PER_REQ)
    BY <2>1, <2>3, BoundTypes, LeastType
  <2>5. /\ take <= pending_pulse_count[m] /\ take <= k
        /\ (take = pending_pulse_count[m] \/ take = k)
    BY <1>2, <2>2, <2>3, LeastType
  <2>6. pending_pulse_count[m] \in Nat /\ MAX_PULSES_PER_REQ \in Nat BY <1>2, BoundTypes
  <2>7. take <= MAX_PULSES_PER_REQ BY <2>1, <2>3, <2>4, <2>5, <2>6
  <2>8. ASSUME NEW i \in Nat, i <= pending_pulse_count[m], i <= Len(old) - n, i <= MAX_PULSES_PER_REQ
        PROVE  i <= take
    <3>1. i <= k BY <2>4, <2>8
    <3>. QED BY <2>5, <2>8, <3>1
  <2>. QED BY <2>1, <2>5, <2>7, <2>8
<1>11. /\ echo = 0 => n = 0
       /\ \A i \in 1 .. n : Sent(i)
       /\ echo # 0 /\ n < Len(old) => ~Sent(n + 1)
  BY <1>2, <1>9, ConfirmedFacts
<1>12. /\ u \in Nat /\ Dropped(m) <= u /\ u <= made[m]
       /\ UploadedInv(m, u) /\ EchoInv(m) /\ CodesInv(m, u)
  BY DEF ModuleInv
<1>13. \A i \in 1 .. Len(old) :
         IF Dropped(m) + i <= u
         THEN old[i].seq # None /\ (echo # 0 => old[i].seq <= echo)
         ELSE old[i].seq = None \/ (u = Dropped(m) /\ Unheard(m, i))
  BY <1>12 DEF CodesInv
<1>14. /\ Dropped(m) = made[m] - Len(old) /\ Dropped(m) \in Nat
       /\ Dropped(m)' = Dropped(m) + n
  BY <1>1, <1>2, <1>7, <1>10 DEF Dropped
<1>. HIDE DEF old, new, pulses, echo, now, code
<1>15. Dropped(m) + n <= u
  <2>1. SUFFICES ASSUME ~(Dropped(m) + n <= u) PROVE FALSE OBVIOUS
  <2>2. n \in 1 .. n /\ n \in 1 .. Len(old) BY <1>2, <1>10, <1>12, <1>14, <2>1
  <2>3. Sent(n) /\ u = Dropped(m) /\ Unheard(m, n) BY <1>11, <1>13, <2>1, <2>2
  <2>4. echo # now /\ old[1].seq = now
    <3>1. 1 \in 1 .. n BY <2>2
    <3>. QED BY <2>3, <3>1 DEF Unheard, echo, old, now
  <2>5. Sent(1)
    <3>1. 1 \in 1 .. n BY <2>2
    <3>. QED BY <1>11, <3>1
  <2>6. echo > now /\ Len(old) > 0 BY <1>2, <1>10, <2>2, <2>4, <2>5
  <2>. QED BY <1>8, <2>5, <2>6
\* With an echo, the counter drops all that has been uploaded.
<1>16. echo # 0 => u = Dropped(m) + n
  <2>1. SUFFICES ASSUME echo # 0, u > Dropped(m) + n PROVE FALSE
    BY <1>10, <1>12, <1>14, <1>15
  <2>2. n < Len(old) /\ n + 1 \in 1 .. Len(old) /\ Dropped(m) + (n + 1) <= u
    <3>1. n \in Nat /\ u \in Nat /\ made[m] \in Nat /\ Len(old) \in Nat /\ Dropped(m) \in Nat
      BY <1>2, <1>10, <1>12, <1>14
    <3>2. made[m] = Dropped(m) + Len(old) BY <1>14, <3>1
    <3>3. u <= Dropped(m) + Len(old) BY <1>12, <3>2
    <3>4. n < Len(old) BY <2>1, <3>1, <3>3
    <3>. QED BY <2>1, <3>1, <3>4
  <2>3. Sent(n + 1) BY <1>13, <2>1, <2>2
  <2>. QED BY <1>11, <2>1, <2>2, <2>3
\* What is not sent now and has not been uploaded was never sent.
<1>17. ASSUME NEW i \in 1 .. Len(new), i > take, Dropped(m) + (n + i) > u
       PROVE  new[i].seq = None
  <2>1. n + i \in 1 .. Len(old) /\ new[i].seq = old[n + i].seq BY <1>2, <1>7, <1>10, <1>17
  <2>2. old[n + i].seq = None \/ (u = Dropped(m) /\ Unheard(m, n + i))
    BY <1>12, <1>13, <1>14, <1>17, <2>1
  <2>3. CASE u = Dropped(m) /\ Unheard(m, n + i)
    <3>1. echo # 0 /\ n + i <= pending_pulse_count[m] /\ n + i <= MAX_PULSES_PER_REQ
      BY <2>3 DEF Unheard, echo
    <3>2. n = 0 BY <1>10, <1>14, <1>16, <2>3, <3>1
    <3>3. i \in Nat /\ i <= pending_pulse_count[m] /\ i <= Len(old) - n /\ i <= MAX_PULSES_PER_REQ
      BY <1>2, <1>7, <1>10, <3>1, <3>2
    <3>4. i <= take BY <1>10, <3>3
    <3>. QED BY <1>10, <1>17, <3>3, <3>4
  <2>. QED BY <2>1, <2>2, <2>3
\* Without an echo nothing is sent.
<1>18. echo = 0 => n = 0 /\ take = 0
  <2>1. echo = 0 => pending_pulse_count[m] = 0 BY <1>12 DEF EchoInv, echo
  <2>. QED BY <1>10, <1>11, <2>1
<1>19. \A i \in 1 .. Len(new) : i \in Nat /\ n + i \in 1 .. Len(old)
                                /\ new[i].seq = IF i <= take THEN code ELSE old[n + i].seq
  BY <1>2, <1>7, <1>10
<1>20. (u \in Nat /\ Dropped(m) <= u /\ u <= made[m])' BY <1>1, <1>12, <1>14, <1>15
<1>21. UploadedInv(m, u)' BY <1>1, <1>12 DEF UploadedInv
<1>22. EchoInv(m)' BY <1>1, <1>12 DEF EchoInv
<1>23. CodesInv(m, u)'
  <2>1. SUFFICES ASSUME NEW i \in 1 .. Len(new)
                 PROVE  IF Dropped(m) + n + i <= u
                        THEN new[i].seq # None /\ (echo # 0 => new[i].seq <= echo)
                        ELSE new[i].seq = None \/ (u = Dropped(m) + n /\ Unheard(m, i)')
    BY <1>1, <1>14 DEF CodesInv, new, echo
  <2>2. Dropped(m) + n + i = Dropped(m) + (n + i) BY <1>10, <1>14
  <2>3. CASE echo = 0
    <3>1. new[i].seq = old[i].seq /\ n + i = i /\ i \in 1 .. Len(old)
      BY <1>10, <1>18, <1>19, <2>3
    <3>2. IF Dropped(m) + i <= u THEN old[i].seq # None ELSE old[i].seq = None
      BY <1>13, <2>3, <3>1 DEF Unheard, echo
    <3>. QED BY <2>2, <2>3, <3>1, <3>2
  <2>4. CASE echo # 0
    <3>1. u = Dropped(m) + n BY <1>16, <2>4
    <3>2. ~(Dropped(m) + n + i <= u) /\ Dropped(m) + (n + i) > u
      BY <1>10, <1>12, <1>14, <1>19, <3>1
    <3>3. CASE i > take BY <1>17, <3>2, <3>3
    <3>4. CASE i <= take
      <4>1. echo # code BY <1>8, <1>10, <1>19, <3>4
      <4>2. i <= pending_pulse_count[m] /\ i <= MAX_PULSES_PER_REQ
        BY <1>2, <1>10, <1>19, <3>4, BoundTypes
      <4>3. ASSUME NEW j \in 1 .. i PROVE new[j].seq = code
        <5>1. j \in 1 .. Len(new) /\ j <= take BY <1>10, <1>19, <3>4
        <5>. QED BY <1>19, <5>1
      <4>4. Unheard(m, i)' BY <1>1, <1>3, <2>4, <4>1, <4>2, <4>3 DEF Unheard, echo, new
      <4>. QED BY <3>1, <3>2, <4>4
    <3>. QED BY <1>10, <1>19, <3>3, <3>4
  <2>. QED BY <2>3, <2>4
<1>24. AnswerInv(m, u)'
  <2>1. take <= Len(new) BY <1>2, <1>7, <1>10
  <2>2. take > 0 => pending_pulse_count[m] > 0 BY <1>2, <1>10
  <2>3. ASSUME NEW i \in 1 .. take PROVE pulses[i] = <<m, Dropped(m) + n + i>>
    <3>1. i \in 1 .. Len(new) BY <1>10, <2>1
    <3>2. n + i \in 1 .. Len(old) /\ pulses[i] = old[n + i].pulse BY <1>7, <1>19, <3>1
    <3>3. old[n + i].pulse = <<m, Dropped(m) + (n + i)>>
      BY <3>2 DEF BaseInv, EventsInv, old
    <3>4. Dropped(m) + (n + i) = Dropped(m) + n + i BY <1>10, <1>14
    <3>. QED BY <3>2, <3>3, <3>4
  <2>4. ASSUME NEW i \in 1 .. Len(new)
        PROVE  /\ new[i].seq <= code
               /\ i <= take => new[i].seq # None
               /\ i > take /\ Dropped(m) + n + i > u => new[i].seq = None
    <3>0. i \in Nat /\ n + i \in 1 .. Len(old) /\ new[i].seq = IF i <= take THEN code ELSE old[n + i].seq
      BY <1>19
    <3>1. CASE i <= take
      <4>1. new[i].seq = code /\ ~(i > take) BY <1>10, <3>0, <3>1
      <4>. QED BY <1>3, <4>1 DEF None
    <3>2. CASE i > take
      <4>1. i \in (take + 1) .. (Len(old) - n) /\ ~(i <= take) BY <1>2, <1>7, <1>10, <3>0, <3>2
      <4>2. new[i].seq <= code BY <1>8, <3>0, <4>1
      <4>3. Dropped(m) + n + i = Dropped(m) + (n + i) BY <1>10, <1>14
      <4>. QED BY <1>17, <3>2, <4>1, <4>2, <4>3
    <3>. QED BY <1>10, <3>0, <3>1, <3>2
  <2>. QED BY <1>1, <1>3, <1>7, <1>10, <1>14, <1>16, <2>1, <2>2, <2>3, <2>4
       DEF AnswerInv, new, pulses, echo
<1>. QED BY <1>20, <1>21, <1>22, <1>23, <1>24 DEF ModuleInv
LEMMA AxleInit == Init => AxleInv
<1>1. SUFFICES ASSUME Init PROVE RequestInv /\ AllUploaded
  BY BaseInit DEF AxleInv
<1>2. RequestInv BY <1>1 DEF Init, RequestInv, Idle
<1>3. ASSUME NEW m \in Modules PROVE ModuleInv(m, 0)
  <2>1. /\ comm_confirm[m] = 0 /\ pending_pulse_count[m] = 0 /\ _pulse_events[m] = <<>>
        /\ made[m] = 0 /\ bus = Idle /\ \A c \in Channels : uploaded[m][c] = <<>>
    BY <1>1 DEF Init
  <2>2. Len(_pulse_events[m]) = 0 /\ Dropped(m) = 0
    <3>1. Len(_pulse_events[m]) = 0 BY <2>1
    <3>2. 0 - 0 = 0 OBVIOUS
    <3>3. made[m] - Len(_pulse_events[m]) = 0 BY <2>1, <3>1, <3>2, Zenon
    <3>. QED BY <3>1, <3>3 DEF Dropped
  <2>3. UploadedInv(m, 0) BY <2>1 DEF UploadedInv, Listed, Whole
  <2>4. EchoInv(m) BY <2>1 DEF EchoInv
  <2>5. CodesInv(m, 0) BY <2>2 DEF CodesInv
  <2>6. AnswerInv(m, 0) BY <2>1 DEF AnswerInv, Idle
  <2>. QED BY <2>1, <2>2, <2>3, <2>4, <2>5, <2>6 DEF ModuleInv
<1>. QED BY <1>2, <1>3 DEF AllUploaded

LEMMA AxleStep == AxleInv /\ [Next]_vars => AxleInv'
<1>1. SUFFICES ASSUME AxleInv, [Next]_vars PROVE RequestInv' /\ AllUploaded'
  BY BaseStep DEF AxleInv
<1>2. BaseInv /\ RequestInv /\ AllUploaded /\ TypeOK /\ CounterTypes /\ BoardTypes
  BY <1>1, TypeParts DEF AxleInv, BaseInv
<1>3. ASSUME confused = {}, NEW m \in Modules PROVE \E u : ModuleInv(m, u)
  BY <1>2, <1>3 DEF AllUploaded
<1>4. ASSUME UNCHANGED boardVars, UNCHANGED counterVars, NEW m PROVE Untouched(m)
  BY <1>4 DEF Untouched, boardVars, historyVars, counterVars
<1>5. bus'.phase # "request" => RequestInv' BY DEF RequestInv
\* A step of the bus alone.
<1>6. ASSUME UNCHANGED boardVars, UNCHANGED counterVars, confused' = confused,
             bus' = bus \/ bus'.phase # "answer"
      PROVE  AllUploaded'
  <2>1. SUFFICES ASSUME confused = {}, NEW m \in Modules PROVE \E u : ModuleInv(m, u)'
    BY <1>6 DEF AllUploaded
  <2>2. PICK u : ModuleInv(m, u) BY <1>3, <2>1
  <2>3. ModuleInv(m, u)' BY <1>4, <1>6, <2>2, UntouchedKeeps
  <2>. QED BY <2>3
<1>7. ASSUME NEW k \in Modules, AxlesPass(k) PROVE RequestInv' /\ AllUploaded'
  <2>1. UNCHANGED <<_current_code, boardVars, bus, late, faultVars>> BY <1>7 DEF AxlesPass
  <2>2. RequestInv' BY <1>2, <2>1 DEF RequestInv, Request, boardVars
  <2>3. ASSUME confused = {}, NEW m \in Modules PROVE \E u : ModuleInv(m, u)'
    <3>1. PICK u : ModuleInv(m, u) BY <1>3, <2>3
    <3>2. CASE m = k
      <4>1. ModuleInv(m, u)' BY <1>2, <1>7, <3>1, <3>2, PassKeepsModule
      <4>. QED BY <4>1
    <3>3. CASE m # k
      <4>1. Untouched(m) BY <1>2, <1>7, <2>1, <3>3, PassFacts DEF Untouched, boardVars, historyVars
      <4>2. ModuleInv(m, u)' BY <2>1, <3>1, <4>1, UntouchedKeeps
      <4>. QED BY <4>2
    <3>. QED BY <3>2, <3>3
  <2>4. AllUploaded' BY <2>1, <2>3 DEF AllUploaded, faultVars
  <2>. QED BY <2>2, <2>4
<1>8. ASSUME NEW k \in Modules, SendRequest(k) PROVE RequestInv' /\ AllUploaded'
  <2>1. /\ bus' = Request(k) /\ UNCHANGED boardVars /\ UNCHANGED counterVars /\ confused' = confused
    BY <1>8 DEF SendRequest, faultVars
  <2>2. RequestInv' BY <2>1 DEF RequestInv, Request, boardVars
  <2>3. bus'.phase # "answer" BY <2>1 DEF Request
  <2>. QED BY <1>6, <2>1, <2>2, <2>3
<1>9. CASE HearAnswer
  <2>1. /\ bus.phase = "answer" /\ uart_axle_counter_online(bus.to, bus.answer) /\ bus' = Idle
        /\ UNCHANGED counterVars /\ confused' = confused
    BY <1>9 DEF HearAnswer, Readable, faultVars
  <2>2. bus'.phase = "idle" BY <2>1 DEF Idle
  <2>3. ASSUME confused = {}, NEW m \in Modules PROVE \E u : ModuleInv(m, u)'
    <3>1. PICK u : ModuleInv(m, u) BY <1>3, <2>3
    <3>2. CASE m = bus.to BY <1>2, <1>9, <3>1, <3>2, HearKeepsModule
    <3>3. CASE m # bus.to
      <4>1. Untouched(m)
        BY <1>2, <2>1, <3>3
        DEF Untouched, counterVars, historyVars, BoardTypes, uart_axle_counter_online,
            uart_axle_counter_upload_pulse
      <4>2. ModuleInv(m, u)' BY <2>2, <3>1, <4>1, UntouchedKeeps
      <4>. QED BY <4>2
    <3>. QED BY <3>2, <3>3
  <2>4. AllUploaded' BY <2>1, <2>3 DEF AllUploaded
  <2>. QED BY <1>5, <2>2, <2>4
<1>10. CASE HearNothing
  <2>1. bus' = Idle /\ UNCHANGED boardVars /\ UNCHANGED counterVars /\ confused' = confused
    BY <1>10 DEF HearNothing, faultVars
  <2>2. bus'.phase = "idle" BY <2>1 DEF Idle
  <2>. QED BY <1>5, <1>6, <2>1, <2>2
<1>11. CASE HearLateAnswer
  <2>1. bus' = Idle /\ confused' # {} BY <1>11 DEF HearLateAnswer
  <2>2. bus'.phase = "idle" BY <2>1 DEF Idle
  <2>3. AllUploaded' BY <2>1 DEF AllUploaded
  <2>. QED BY <1>5, <2>2, <2>3
<1>12. CASE _handle_axle_request
  <2>1. /\ bus.to \in Modules /\ \E n, take : Handled(bus.to, n, take)
    BY <1>2, <1>12, HandleFacts
  <2>2. bus'.phase = "answer" /\ bus'.to = bus.to /\ (confused' = {} => confused = {})
    BY <2>1 DEF Handled
  <2>3. ASSUME confused' = {}, NEW m \in Modules PROVE \E u : ModuleInv(m, u)'
    <3>1. PICK u : ModuleInv(m, u) BY <1>3, <2>2, <2>3
    <3>2. CASE m = bus.to
      <4>1. ModuleInv(m, u)' BY <1>2, <1>12, <2>3, <3>1, <3>2, HandleKeepsModule
      <4>. QED BY <4>1
    <3>3. CASE m # bus.to
      <4>1. Untouched(m)
        BY <1>2, <1>12, <3>3 DEF Untouched, _handle_axle_request, boardVars, historyVars, CounterTypes
      <4>2. ModuleInv(m, u)' BY <2>2, <3>1, <3>3, <4>1, UntouchedKeeps
      <4>. QED BY <4>2
    <3>. QED BY <3>2, <3>3
  <2>4. AllUploaded' BY <2>3 DEF AllUploaded
  <2>. QED BY <1>5, <2>2, <2>4
<1>13. CASE Lose
  <2>1. bus' = Silent(bus.to) /\ UNCHANGED boardVars /\ UNCHANGED counterVars /\ confused' = confused
    BY <1>13 DEF Lose
  <2>2. bus'.phase = "silent" BY <2>1 DEF Silent
  <2>. QED BY <1>5, <1>6, <2>1, <2>2
<1>14. CASE Delay
  <2>1. bus' = Idle /\ UNCHANGED boardVars /\ UNCHANGED counterVars /\ confused' = confused
    BY <1>14 DEF Delay
  <2>2. bus'.phase = "idle" BY <2>1 DEF Idle
  <2>. QED BY <1>5, <1>6, <2>1, <2>2
<1>15. CASE BoardResets
  <2>1. /\ bus' = Idle
        /\ confused' = IF \E m \in Modules : SentUnheard(m) THEN confused \cup {"reset"} ELSE confused
    BY <1>15 DEF BoardResets
  <2>2. bus'.phase = "idle" BY <2>1 DEF Idle
  <2>3. ASSUME confused' = {}, NEW m \in Modules PROVE \E u : ModuleInv(m, u)'
    <3>1. confused = {} /\ ~SentUnheard(m) BY <2>1, <2>3
    <3>2. PICK u : ModuleInv(m, u) BY <1>3, <3>1
    <3>3. ModuleInv(m, u)' BY <1>2, <1>15, <3>1, <3>2, ResetKeepsModule
    <3>. QED BY <3>3
  <2>4. AllUploaded' BY <2>3 DEF AllUploaded
  <2>. QED BY <1>5, <2>2, <2>4
<1>16. CASE UNCHANGED vars
  <2>1. UNCHANGED boardVars /\ UNCHANGED counterVars /\ confused' = confused /\ bus' = bus
    BY <1>16 DEF vars, faultVars
  <2>2. RequestInv' BY <1>2, <2>1 DEF RequestInv, Request, boardVars
  <2>. QED BY <1>6, <2>1, <2>2
<1>. QED BY <1>1, <1>7, <1>8, <1>9, <1>10, <1>11, <1>12, <1>13, <1>14, <1>15, <1>16
         DEF Next, BoardStep

LEMMA InOrderByInv == AxleInv => InOrderAndOnce
<1>1. SUFFICES ASSUME AxleInv, confused = {}, NEW m \in Modules, NEW c \in Channels,
                      NEW i \in DOMAIN uploaded[m][c], NEW j \in DOMAIN uploaded[m][c], i < j
               PROVE  uploaded[m][c][i][2] < uploaded[m][c][j][2]
  BY DEF InOrderAndOnce
<1>2. PICK u : ModuleInv(m, u) BY <1>1 DEF AxleInv, AllUploaded
<1>3. Listed(uploaded[m][c], m, 0, u, c) BY <1>2 DEF ModuleInv, UploadedInv
<1>4. uploaded[m][c] \in Seq(Pulses) BY <1>1 DEF AxleInv, BaseInv, TypeOK
<1>5. i \in 1 .. Len(uploaded[m][c]) /\ j \in 1 .. Len(uploaded[m][c]) BY <1>4
<1>. QED BY <1>1, <1>3, <1>5 DEF Listed

LEMMA NothingLostByInv == AxleInv => NothingLost
<1>1. SUFFICES ASSUME AxleInv, confused = {}, NEW m \in Modules, NEW n \in 1 .. made[m],
                      <<m, n>> \notin QueuedPulses(m), n \notin cut[m]
               PROVE  \E i \in DOMAIN uploaded[m][ChannelOf[n]] : uploaded[m][ChannelOf[n]][i] = <<m, n>>
  BY DEF NothingLost, PulsesAreSomewhere
<1>2. PICK u : ModuleInv(m, u) BY <1>1 DEF AxleInv, AllUploaded
<1>3. /\ TypeOK /\ EventsInv /\ made[m] \in 0 .. MaxPulses
      /\ Len(_pulse_events[m]) \in Nat /\ DOMAIN _pulse_events[m] = 1 .. Len(_pulse_events[m])
  BY <1>1, EventTypes DEF AxleInv, BaseInv, TypeOK
<1>4. n \in Nat /\ n \in 1 .. MaxPulses /\ made[m] \in Nat BY <1>3, BoundTypes
<1>. DEFINE c == ChannelOf[n]
<1>5. c \in Channels BY <1>4, AxleAssumption
<1>6. n <= Dropped(m)
  <2>1. SUFFICES ASSUME n > Dropped(m) PROVE FALSE BY <1>3, <1>4 DEF Dropped
  <2>. DEFINE i == n - Dropped(m)
  <2>2. i \in 1 .. Len(_pulse_events[m]) /\ Dropped(m) + i = n BY <1>1, <1>3, <1>4, <2>1 DEF Dropped
  <2>. HIDE DEF i
  <2>3. _pulse_events[m][i].pulse = <<m, n>> BY <1>3, <2>2 DEF EventsInv
  <2>4. <<m, n>> \in QueuedPulses(m) BY <1>3, <2>2, <2>3 DEF QueuedPulses
  <2>. QED BY <1>1, <2>4
<1>7. Listed(uploaded[m][c], m, 0, u, c) /\ Whole(uploaded[m][c], cut[m], 0, u, c)
  BY <1>2, <1>5 DEF ModuleInv, UploadedInv
<1>8. n \in (0 + 1) .. u
  <2>1. Dropped(m) \in Int /\ u \in Nat /\ Dropped(m) <= u BY <1>2, <1>3, <1>4 DEF ModuleInv, Dropped
  <2>. QED BY <1>4, <1>6, <2>1
<1>9. PICK i \in 1 .. Len(uploaded[m][c]) : uploaded[m][c][i][2] = n
  BY <1>1, <1>7, <1>8 DEF Whole
<1>10. uploaded[m][c] \in Seq(Pulses) BY <1>3, <1>5 DEF TypeOK
<1>11. i \in DOMAIN uploaded[m][c] /\ uploaded[m][c][i] \in Pulses BY <1>9, <1>10
<1>12. uploaded[m][c][i][1] = m BY <1>7, <1>9 DEF Listed
<1>13. uploaded[m][c][i] = <<m, n>> BY <1>9, <1>11, <1>12, PulseParts
<1>. QED BY <1>11, <1>13

\* Each channel gets its pulses in the order they were counted and none twice,
\* whatever is lost, until an echo may be of another exchange: for any number of
\* counters and channels, any room in the frames and any range of codes.
THEOREM UploadedInOrder == Spec => []InOrderAndOnce
BY AxleInit, AxleStep, InOrderByInv, PTL DEF Spec

\* No pulse is dropped by its counter before it has been uploaded, but for those
\* beyond the end of the upload buffer, until an echo may be of another exchange:
\* for pulses of any length, any number of them in an answer, any size of the
\* buffers and any number of channels.
THEOREM NoPulseIsLost == Spec => []NothingLost
BY AxleInit, AxleStep, NothingLostByInv, PTL DEF Spec
===============================================================================
