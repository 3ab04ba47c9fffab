---------------------------- MODULE UartPort_proof ----------------------------
(***************************************************************************)
(* For every number of modules and every choice of the times that meets    *)
(* PortAssumption, the invariant IInv of UartPort holds: a port never      *)
(* skips a module it has not marked offline, and shows none online that    *)
(* has been silent for longer than ReportBound.                            *)
(***************************************************************************)
EXTENDS UartPort, TLAPS

LEMMA BoundIsNat == ReportBound \in Nat /\ ReportBound >= OfflineAfter
<1>1. NModules \in Nat /\ Timeout \in Nat /\ Period \in Nat /\ OfflineAfter \in Nat
  BY PortAssumption
<1>2. NModules * Timeout \in Nat
  BY <1>1
<1>3. MaxRound \in Nat
  BY <1>1, <1>2 DEF MaxRound
<1> QED
  BY <1>1, <1>3 DEF ReportBound

\* One failure more is one period more.
LEMMA OneMorePeriod ==
  ASSUME NEW n \in Nat
  PROVE  n * Period \in Nat /\ (n + 1 - 1) * Period = n * Period
         /\ (n - 1) * Period + Period = n * Period
<1>1. Period \in Nat
  BY PortAssumption
<1> QED
  BY <1>1, SMT

\* Time that passes is added to every silence, up to the bound.
LEMMA LaterAdds ==
  ASSUME TypeOK, NEW ticks \in Nat
  PROVE  /\ Later(ticks) \in [Modules -> 0 .. (ReportBound + 1)]
         /\ \A x \in Modules : \/ Later(ticks)[x] = idle[x] + ticks
                               \/ Later(ticks)[x] >= OfflineAfter
         /\ \A x \in Modules : Later(ticks)[x] >= idle[x]
BY BoundIsNat, PortAssumption DEF Later, TypeOK

\* What a verdict may do to the state.
LEMMA CheckOfflineType ==
  ASSUME TypeOK, NEW x \in Modules, NEW since \in [Modules -> 0 .. (ReportBound + 1)],
         CheckOffline(x, since)
  PROVE  /\ module_error' \in [Modules -> 0 .. ErrSat]
         /\ module_offline' \in [Modules -> BOOLEAN]
         /\ idle' \in [Modules -> 0 .. (ReportBound + 1)]
         /\ link_mask' \subseteq Modules
<1> DEFINE silent == since[x] >= OfflineAfter
<1>1. module_error' \in [Modules -> 0 .. ErrSat]
  <2>1. (IF module_error[x] < ErrSat THEN module_error[x] + 1 ELSE module_error[x]) \in 0 .. ErrSat
    BY PortAssumption DEF TypeOK
  <2> QED
    BY <2>1 DEF CheckOffline, TypeOK
<1>2. module_offline' \in [Modules -> BOOLEAN]
  <2>1. module_offline' = [module_offline EXCEPT ![x] = module_offline[x] \/ silent]
    BY DEF CheckOffline
  <2>2. module_offline \in [Modules -> BOOLEAN] /\ silent \in BOOLEAN
    BY DEF TypeOK
  <2> HIDE DEF silent
  <2> QED
    BY <2>1, <2>2
<1> QED
  BY <1>1, <1>2 DEF CheckOffline, TypeOK

-------------------------------------------------------------------------------
LEMMA TypeInit == Init => TypeOK
BY BoundIsNat, PortAssumption DEF Init, TypeOK, Modules

LEMMA TypeStep == TypeOK /\ [Next]_vars => TypeOK'
<1> SUFFICES ASSUME TypeOK, [Next]_vars
             PROVE  TypeOK'
  OBVIOUS
<1> USE PortAssumption, BoundIsNat
<1>1. CASE Skips
  <2>1. m \in Modules /\ skip_probe_count[m] < ProbeEvery /\ CheckOffline(m, idle)
    BY <1>1 DEF Skips, InRound, Asked, TypeOK
  <2>2. skip_probe_count' \in [Modules -> 0 .. ProbeEvery]
    BY <1>1, <2>1 DEF Skips, CountSkip, TypeOK
  <2>3. m' \in 1 .. (NModules + 1)
    BY <1>1 DEF Skips, InRound, Modules
  <2>4. idle \in [Modules -> 0 .. (ReportBound + 1)]
    BY DEF TypeOK
  <2> QED
    BY <1>1, <2>1, <2>2, <2>3, <2>4, CheckOfflineType DEF Skips, TypeOK
<1>2. CASE Answers
  <2>1. m \in Modules /\ m' \in 1 .. (NModules + 1)
    BY <1>2 DEF Answers, InRound, Modules
  <2>2. skip_probe_count' \in [Modules -> 0 .. ProbeEvery]
    BY <1>2, <2>1 DEF Answers, TypeOK
  <2>3. /\ module_error' \in [Modules -> 0 .. ErrSat]
        /\ idle' \in [Modules -> 0 .. (ReportBound + 1)]
        /\ link_mask' \subseteq Modules
    BY <1>2, <2>1 DEF Answers, MarkOnline, TypeOK
  <2>4. module_offline' \in [Modules -> BOOLEAN]
    BY <1>2, <2>1 DEF Answers, MarkOnline, TypeOK
  <2> QED
    BY <1>2, <2>1, <2>2, <2>3, <2>4 DEF Answers, TypeOK
<1>3. CASE NoAnswer
  <2>1. Later(Timeout) \in [Modules -> 0 .. (ReportBound + 1)]
    BY LaterAdds
  <2>2. m \in Modules /\ m' \in 1 .. (NModules + 1) /\ CheckOffline(m, Later(Timeout))
    BY <1>3 DEF NoAnswer, InRound, Modules
  <2>3. skip_probe_count' \in [Modules -> 0 .. ProbeEvery]
    BY <1>3, <2>2 DEF NoAnswer, TypeOK
  <2>4. spent' \in Nat
    BY <1>3 DEF NoAnswer, TypeOK
  <2> QED
    BY <1>3, <2>1, <2>2, <2>3, <2>4, CheckOfflineType DEF NoAnswer, TypeOK
<1>4. ASSUME ReArm, published' \subseteq Modules
      PROVE  port_error' \in 0 .. (ErrorWrap - 1) /\ xMBMaster' \in {"open", "NULL"}
  BY <1>4 DEF ReArm, TypeOK
<1>5. ASSUME NextRound
      PROVE  /\ answering' \subseteq Modules
             /\ m' \in 1 .. (NModules + 1) /\ spent' \in Nat
             /\ module_error' \in [Modules -> 0 .. ErrSat]
             /\ skip_probe_count' \in [Modules -> 0 .. ProbeEvery]
             /\ module_offline' \in [Modules -> BOOLEAN]
             /\ link_mask' \subseteq Modules
  <2>1. m' \in 1 .. (NModules + 1) /\ spent' \in Nat
    BY <1>5 DEF NextRound
  <2>2. link_mask' \subseteq Modules
    BY <1>5 DEF NextRound
  <2> QED
    BY <1>5, <2>1, <2>2 DEF NextRound, moduleVars, TypeOK
<1>6. CASE RoundEnds
  <2>1. idle' \in [Modules -> 0 .. (ReportBound + 1)]
    <3>1. CASE spent < Period
      <4>1. Period - spent \in Nat
        BY <3>1 DEF TypeOK
      <4> QED
        BY <1>6, <3>1, <4>1, LaterAdds DEF RoundEnds
    <3>2. CASE ~(spent < Period)
      BY <1>6, <3>2 DEF RoundEnds, TypeOK
    <3> QED
      BY <3>1, <3>2
  <2>2. port_error' \in 0 .. (ErrorWrap - 1) /\ xMBMaster' \in {"open", "NULL"}
    BY <1>4, <1>6 DEF RoundEnds, TypeOK
  <2> QED
    BY <1>5, <1>6, <2>1, <2>2 DEF TypeOK, RoundEnds
<1>7. CASE EmptyRound
  <2>1. idle' \in [Modules -> 0 .. (ReportBound + 1)]
    BY <1>7, LaterAdds DEF EmptyRound
  <2>2. port_error' \in 0 .. (ErrorWrap - 1) /\ xMBMaster' \in {"open", "NULL"}
    BY <1>4, <1>7 DEF EmptyRound, TypeOK
  <2> QED
    BY <1>5, <1>7, <2>1, <2>2 DEF TypeOK, EmptyRound
<1>8. ASSUME NEW x \in Modules, ComesOrGoes(x)
      PROVE  TypeOK'
  BY <1>8 DEF TypeOK, ComesOrGoes, moduleVars
<1>9. CASE UNCHANGED vars
  BY <1>9 DEF TypeOK, vars, moduleVars
<1> QED
  BY <1>1, <1>2, <1>3, <1>6, <1>7, <1>8, <1>9 DEF Next, PortTask

-------------------------------------------------------------------------------
LEMMA NoHandleStep == TypeOK /\ NoHandleNoRound /\ [Next]_vars => NoHandleNoRound'
<1> SUFFICES ASSUME NoHandleNoRound, [Next]_vars
             PROVE  NoHandleNoRound'
  OBVIOUS
<1>1. CASE Skips \/ Answers \/ NoAnswer
  BY <1>1 DEF Skips, Answers, NoAnswer, InRound, NoHandleNoRound
<1>2. CASE RoundEnds \/ EmptyRound
  BY <1>2 DEF RoundEnds, EmptyRound, NextRound, NoHandleNoRound
<1>3. ASSUME NEW x \in Modules, ComesOrGoes(x)
      PROVE  NoHandleNoRound'
  BY <1>3 DEF ComesOrGoes, NoHandleNoRound
<1>4. CASE UNCHANGED vars
  BY <1>4 DEF vars, NoHandleNoRound
<1> QED
  BY <1>1, <1>2, <1>3, <1>4 DEF Next, PortTask

\* At the verdict that takes a module's count to SkipErr, or past it, the module
\* has been silent long enough.
LEMMA VerdictInTime ==
  ASSUME TypeOK, SilentPerFailure, SkippedIsOffline, NEW since, CheckOffline(m, since),
         m \in Modules, since \in [Modules -> 0 .. (ReportBound + 1)],
         module_error[m] >= SkipErr \/ since[m] = idle[m] + Timeout \/ since[m] >= OfflineAfter,
         module_error'[m] >= SkipErr
  PROVE  module_offline'[m]
<1>1. CASE module_error[m] >= SkipErr
  <2>1. module_offline[m]
    BY <1>1 DEF SkippedIsOffline
  <2> QED
    BY <2>1 DEF CheckOffline, TypeOK
<1>2. CASE ~(module_error[m] >= SkipErr)
  <2>1. module_error[m] = SkipErr - 1 /\ SkipErr \in Nat
    BY <1>2, PortAssumption DEF CheckOffline, TypeOK
  <2>2. AtLeast(m, (SkipErr - 1) * Period + spent)
    BY <2>1, PortAssumption DEF SilentPerFailure, TypeOK, Modules
  <2>3. (SkipErr - 1) * Period \in Nat
    BY OneMorePeriod, PortAssumption
  <2>4. since[m] >= OfflineAfter
    <3>1. /\ idle[m] \in Nat /\ since[m] \in Nat /\ spent \in Nat /\ OfflineAfter \in Nat
          /\ Timeout \in Nat /\ (SkipErr - 1) * Period + Timeout >= OfflineAfter
      BY BoundIsNat, PortAssumption DEF TypeOK
    <3> DEFINE p == (SkipErr - 1) * Period
    <3>2. idle[m] >= p + spent \/ idle[m] >= OfflineAfter
      BY <2>2 DEF AtLeast
    <3>3. p \in Nat /\ p + Timeout >= OfflineAfter
      BY <2>3, <3>1
    <3>4. since[m] = idle[m] + Timeout \/ since[m] >= OfflineAfter
      BY <1>2
    <3> HIDE DEF p
    <3> QED
      BY <3>1, <3>2, <3>3, <3>4
  <2> QED
    BY <2>4 DEF CheckOffline, TypeOK
<1> QED
  BY <1>1, <1>2

LEMMA SkippedStep ==
  TypeOK /\ SilentPerFailure /\ SkippedIsOffline /\ [Next]_vars => SkippedIsOffline'
<1> SUFFICES ASSUME TypeOK, SilentPerFailure, SkippedIsOffline, [Next]_vars,
                    NEW x \in Modules, module_error'[x] >= SkipErr
             PROVE  module_offline'[x]
  BY DEF SkippedIsOffline
<1>1. ASSUME NEW since, CheckOffline(m, since), m \in Modules,
             since \in [Modules -> 0 .. (ReportBound + 1)],
             module_error[m] >= SkipErr \/ since[m] = idle[m] + Timeout \/ since[m] >= OfflineAfter
      PROVE  module_offline'[x]
  <2>1. CASE x = m
    BY <1>1, <2>1, VerdictInTime
  <2>2. CASE x # m
    <3>1. module_error'[x] = module_error[x]
      BY <1>1, <2>2 DEF CheckOffline, TypeOK
    <3>2. module_offline[x]
      BY <3>1 DEF SkippedIsOffline
    <3> QED
      BY <1>1, <2>2, <3>2 DEF CheckOffline, TypeOK
  <2> QED
    BY <2>1, <2>2
<1>2. CASE Skips
  <2>1. module_error[m] >= SkipErr /\ m \in Modules
    BY <1>2, PortAssumption DEF Skips, InRound, Asked, TypeOK
  <2>2. CheckOffline(m, idle) /\ idle \in [Modules -> 0 .. (ReportBound + 1)]
    BY <1>2 DEF Skips, TypeOK
  <2> QED
    BY <1>1, <2>1, <2>2
<1>3. CASE NoAnswer
  <2>1. Timeout \in Nat
    BY PortAssumption
  <2> QED
    BY <1>1, <1>3, <2>1, LaterAdds DEF NoAnswer, InRound
<1>4. CASE Answers
  <2>1. CASE x = m
    BY <1>4, <2>1, PortAssumption DEF Answers, InRound, MarkOnline, TypeOK
  <2>2. CASE x # m
    <3>1. module_error'[x] = module_error[x]
      BY <1>4, <2>2 DEF Answers, MarkOnline, TypeOK
    <3>2. module_offline[x]
      BY <3>1 DEF SkippedIsOffline
    <3> QED
      BY <1>4, <2>2, <3>2 DEF Answers, MarkOnline, TypeOK
  <2> QED
    BY <2>1, <2>2
<1>5. CASE UNCHANGED moduleVars
  BY <1>5 DEF moduleVars, SkippedIsOffline
<1> QED
  BY <1>2, <1>3, <1>4, <1>5
     DEF Next, PortTask, RoundEnds, EmptyRound, NextRound, ComesOrGoes, vars, moduleVars

-------------------------------------------------------------------------------
\* A silence that lasts as long as the round goes on stays long enough.
LEMMA AtLeastGrows ==
  ASSUME TypeOK, NEW x \in Modules, NEW t \in Nat, NEW d \in Nat, NEW u \in Int,
         AtLeast(x, t), u <= t + d,
         idle'[x] \in Nat, idle'[x] = idle[x] + d \/ idle'[x] >= OfflineAfter
  PROVE  idle'[x] >= u \/ idle'[x] >= OfflineAfter
<1>1. idle[x] \in Nat /\ OfflineAfter \in Nat
  BY BoundIsNat, PortAssumption DEF TypeOK
<1> QED
  BY <1>1 DEF AtLeast

\* A module that does not answer: its silence and the round grow alike.
LEMMA SilentVerdict ==
  ASSUME TypeOK, SilentPerFailure, NEW since, NEW d \in Nat,
         m \in Modules, m' = m + 1, spent' = spent + d, CheckOffline(m, since),
         since \in [Modules -> 0 .. (ReportBound + 1)],
         \A y \in Modules : since[y] = idle[y] + d \/ since[y] >= OfflineAfter
  PROVE  SilentPerFailure'
<1> SUFFICES ASSUME NEW x \in Modules
             PROVE  IF x >= m' THEN AtLeast(x, module_error[x] * Period + spent)'
                    ELSE module_error'[x] > 0 => AtLeast(x, (module_error[x] - 1) * Period + spent)'
  BY DEF SilentPerFailure
<1> DEFINE e == module_error[x]
           p == e * Period
<1>1. /\ e \in Nat /\ spent \in Nat /\ x \in Nat /\ m \in Nat
      /\ ErrSat \in Nat /\ Period \in Nat
  BY PortAssumption DEF TypeOK, Modules
<1>2. p \in Nat /\ (e + 1 - 1) * Period = p /\ (e - 1) * Period + Period = p
  BY <1>1, OneMorePeriod
<1>3. idle' = since /\ idle'[x] \in Nat
  BY BoundIsNat DEF CheckOffline
<1>4. idle'[x] = idle[x] + d \/ idle'[x] >= OfflineAfter
  BY <1>3
<1>5. CASE x = m
  <2>1. AtLeast(x, p + spent)
    BY <1>1, <1>5 DEF SilentPerFailure
  <2>2. module_error'[x] = e \/ module_error'[x] = e + 1
    BY <1>5 DEF CheckOffline, TypeOK
  <2>3. (module_error'[x] - 1) * Period = p \/ (module_error'[x] - 1) * Period = p - Period
    <3> DEFINE r == (e - 1) * Period
    <3>1. r \in Int /\ r + Period = p
      BY <1>1, <1>2
    <3>2. r = p - Period
      <4> HIDE DEF p, r
      <4> QED
        BY <3>1, <1>1, <1>2
    <3>3. CASE module_error'[x] = e
      BY <3>2, <3>3
    <3>4. CASE module_error'[x] = e + 1
      <4>1. module_error'[x] - 1 = e
        BY <3>4, <1>1
      <4> QED
        BY <4>1
    <3> QED
      BY <2>2, <3>3, <3>4
  <2> DEFINE q == (module_error'[x] - 1) * Period
  <2>4. q \in Int /\ q + spent' \in Int /\ q + spent' <= p + spent + d
    <3> HIDE DEF p, q
    <3>1. q = p \/ q = p - Period
      BY <2>3 DEF q
    <3> QED
      BY <3>1, <1>1, <1>2
  <2>5. p + spent \in Nat
    <3> HIDE DEF p
    <3> QED
      BY <1>1, <1>2
  <2>6. idle'[x] >= q + spent' \/ idle'[x] >= OfflineAfter
    <3> HIDE DEF p, q
    <3> QED
      BY <2>1, <2>4, <2>5, <1>3, <1>4, AtLeastGrows
  <2>7. ~(x >= m')
    BY <1>1, <1>5
  <2> QED
    BY <2>6, <2>7 DEF AtLeast
<1>6. CASE x # m
  <2>1. module_error'[x] = e
    BY <1>6 DEF CheckOffline, TypeOK
  <2>2. x >= m' <=> x >= m
    BY <1>1, <1>6
  <2>3. CASE x >= m
    <3>1. AtLeast(x, p + spent) /\ p + spent \in Nat
      <4>1. AtLeast(x, p + spent)
        BY <2>3 DEF SilentPerFailure
      <4> HIDE DEF p
      <4> QED
        BY <4>1, <1>1, <1>2
    <3>2. idle'[x] >= p + spent' \/ idle'[x] >= OfflineAfter
      <4>1. p + spent' \in Int /\ p + spent' <= p + spent + d
        <5> HIDE DEF p
        <5> QED
          BY <1>1, <1>2
      <4> HIDE DEF p
      <4> QED
        BY <3>1, <4>1, <1>3, <1>4, AtLeastGrows
    <3> QED
      BY <3>2, <2>1, <2>2, <2>3 DEF AtLeast
  <2>4. CASE ~(x >= m) /\ e > 0
    <3> DEFINE q == (e - 1) * Period
    <3>1. e - 1 \in Nat
      BY <2>4, <1>1
    <3>2. q \in Nat
      BY <3>1, OneMorePeriod
    <3>3. AtLeast(x, q + spent)
      BY <2>4 DEF SilentPerFailure
    <3>4. idle'[x] >= q + spent' \/ idle'[x] >= OfflineAfter
      <4>1. q + spent \in Nat /\ q + spent' \in Int /\ q + spent' <= q + spent + d
        <5> HIDE DEF q
        <5> QED
          BY <3>2, <1>1
      <4> HIDE DEF q
      <4> QED
        BY <3>3, <4>1, <1>3, <1>4, AtLeastGrows
    <3> QED
      BY <3>4, <2>1, <2>2, <2>4 DEF AtLeast
  <2>5. CASE ~(x >= m) /\ ~(e > 0)
    BY <2>1, <2>2, <2>5
  <2> QED
    BY <2>3, <2>4, <2>5
<1> QED
  BY <1>5, <1>6

\* A module that answers has no failure left to account for.
LEMMA SilentAnswer ==
  ASSUME TypeOK, SilentPerFailure, Answers
  PROVE  SilentPerFailure'
<1> SUFFICES ASSUME NEW x \in Modules
             PROVE  IF x >= m' THEN AtLeast(x, module_error[x] * Period + spent)'
                    ELSE module_error'[x] > 0 => AtLeast(x, (module_error[x] - 1) * Period + spent)'
  BY DEF SilentPerFailure
<1>1. m \in Nat /\ x \in Nat /\ m' = m + 1 /\ spent' = spent
  BY DEF TypeOK, Modules, Answers, InRound
<1>2. CASE x = m
  <2>1. module_error'[x] = 0 /\ ~(x >= m')
    BY <1>1, <1>2 DEF Answers, MarkOnline, TypeOK
  <2> QED
    BY <2>1
<1>3. CASE x # m
  <2>1. module_error'[x] = module_error[x] /\ idle'[x] = idle[x]
    BY <1>3 DEF Answers, MarkOnline, TypeOK
  <2>2. x >= m' <=> x >= m
    BY <1>1, <1>3
  <2> QED
    BY <2>1, <2>2, <1>1 DEF SilentPerFailure, AtLeast
<1> QED
  BY <1>2, <1>3

\* The end of a round, asked to the end or empty, in which at least one period
\* has passed since its start when the next one begins.
LEMMA SilentRound ==
  ASSUME TypeOK, SilentPerFailure, NEW d \in Nat,
         NextRound, spent + d >= Period,
         m = NModules + 1 \/ (spent = 0 /\ m = 1),
         idle' \in [Modules -> 0 .. (ReportBound + 1)],
         \A y \in Modules : idle'[y] = idle[y] + d \/ idle'[y] >= OfflineAfter
  PROVE  SilentPerFailure'
<1> SUFFICES ASSUME NEW x \in Modules
             PROVE  AtLeast(x, module_error[x] * Period + spent)'
  <2>1. \A x \in Modules : x >= m'
    BY DEF NextRound, Modules
  <2> QED
    BY <2>1 DEF SilentPerFailure
<1> DEFINE e == module_error[x]
           p == e * Period
           q == (e - 1) * Period
<1>1. /\ e \in Nat /\ spent \in Nat /\ x \in 1 .. NModules /\ NModules \in Nat
      /\ Period \in Nat /\ idle'[x] \in Nat /\ OfflineAfter \in Nat
  BY PortAssumption, BoundIsNat DEF TypeOK, Modules
<1>2. module_error'[x] = e /\ spent' = 0
  BY DEF NextRound, moduleVars
<1>3. p \in Nat /\ q \in Int /\ q + Period = p
  BY <1>1, OneMorePeriod
<1>4. CASE e = 0
  <2>1. p = 0
    BY <1>1, <1>4
  <2> QED
    BY <1>1, <1>2, <2>1 DEF AtLeast
<1>5. CASE e > 0 /\ m = NModules + 1
  <2>1. AtLeast(x, q + spent)
    BY <1>1, <1>5 DEF SilentPerFailure
  <2>2. q \in Nat
    BY <1>1, <1>5, OneMorePeriod
  <2>3. idle'[x] >= p \/ idle'[x] >= OfflineAfter
    <3> HIDE DEF p, q
    <3>1. q + spent \in Nat /\ p <= q + spent + d
      BY <1>1, <1>3, <2>2
    <3> QED
      BY <1>1, <1>3, <2>1, <3>1, AtLeastGrows
  <2>4. p + spent' = p
    <3> HIDE DEF p
    <3> QED
      BY <1>2, <1>3
  <2> QED
    BY <1>2, <2>3, <2>4 DEF AtLeast
<1>6. CASE e > 0 /\ spent = 0 /\ m = 1
  <2>1. AtLeast(x, p + spent)
    BY <1>1, <1>6 DEF SilentPerFailure
  <2>2. p + spent' = p /\ p + spent = p
    <3> HIDE DEF p
    <3> QED
      BY <1>2, <1>3, <1>6
  <2>3. idle'[x] >= p \/ idle'[x] >= OfflineAfter
    <3> HIDE DEF p
    <3>1. p <= p + d
      BY <1>3
    <3> QED
      BY <1>1, <1>3, <2>1, <2>2, <3>1, AtLeastGrows
  <2> QED
    BY <1>2, <2>2, <2>3 DEF AtLeast
<1> QED
  BY <1>1, <1>4, <1>5, <1>6

LEMMA SilentStep ==
  TypeOK /\ NoHandleNoRound /\ SilentPerFailure /\ [Next]_vars => SilentPerFailure'
<1> SUFFICES ASSUME TypeOK, NoHandleNoRound, SilentPerFailure, [Next]_vars
             PROVE  SilentPerFailure'
  OBVIOUS
<1>1. /\ spent \in Nat /\ Period \in Nat /\ Timeout \in Nat /\ NModules \in Nat /\ m \in Nat
      /\ idle \in [Modules -> 0 .. (ReportBound + 1)]
  BY PortAssumption DEF TypeOK
<1>2. CASE Skips
  <2>1. spent' = spent + 0 /\ m \in Modules /\ m' = m + 1 /\ CheckOffline(m, idle)
    BY <1>1, <1>2 DEF Skips, InRound
  <2>2. \A y \in Modules : idle[y] = idle[y] + 0
    BY <1>1, BoundIsNat
  <2> QED
    BY <1>1, <2>1, <2>2, SilentVerdict
<1>3. CASE NoAnswer
  <2>1. m \in Modules /\ m' = m + 1 /\ spent' = spent + Timeout /\ CheckOffline(m, Later(Timeout))
    BY <1>3 DEF NoAnswer, InRound
  <2> QED
    BY <1>1, <2>1, LaterAdds, SilentVerdict
<1>4. CASE Answers
  BY <1>4, SilentAnswer
<1>5. CASE RoundEnds
  <2>1. NextRound /\ (m = NModules + 1 \/ (spent = 0 /\ m = 1))
    BY <1>5 DEF RoundEnds
  <2>2. CASE spent < Period
    <3> DEFINE d == Period - spent
    <3>1. d \in Nat /\ spent + d >= Period
      BY <1>1, <2>2
    <3>2. idle' = Later(d)
      BY <1>5, <2>2 DEF RoundEnds
    <3> HIDE DEF d
    <3>3. /\ idle' \in [Modules -> 0 .. (ReportBound + 1)]
          /\ \A y \in Modules : idle'[y] = idle[y] + d \/ idle'[y] >= OfflineAfter
      BY <3>1, <3>2, LaterAdds
    <3> QED
      BY <1>1, <2>1, <3>1, <3>3, SilentRound
  <2>3. CASE ~(spent < Period)
    <3> DEFINE d == 0
    <3>1. d \in Nat /\ spent + d >= Period /\ idle' = idle
      BY <1>1, <1>5, <2>3 DEF RoundEnds
    <3>2. \A y \in Modules : idle'[y] = idle[y] + d \/ idle'[y] >= OfflineAfter
      BY <1>1, <3>1, BoundIsNat
    <3> HIDE DEF d
    <3> QED
      BY <1>1, <2>1, <3>1, <3>2, SilentRound
  <2> QED
    BY <2>2, <2>3
<1>6. CASE EmptyRound
  <2>1. NextRound /\ spent = 0 /\ m = 1 /\ idle' = Later(Period)
    BY <1>6 DEF EmptyRound, NoHandleNoRound
  <2>2. spent + Period >= Period
    BY <1>1
  <2> QED
    BY <1>1, <2>1, <2>2, LaterAdds, SilentRound
<1>7. CASE UNCHANGED <<m, spent, module_error, idle>>
  BY <1>7 DEF SilentPerFailure, AtLeast
<1> QED
  BY <1>2, <1>3, <1>4, <1>5, <1>6, <1>7
     DEF Next, PortTask, ComesOrGoes, vars, moduleVars

-------------------------------------------------------------------------------
(* Silence is published in time. *)

LEMMA RoundBound ==
  /\ MaxRound \in Nat /\ MaxRound >= Period /\ NModules * Timeout \in Nat
  /\ MaxRound >= NModules * Timeout /\ ReportBound = OfflineAfter + 2 * MaxRound
  /\ (NModules + 1 - 1) * Timeout = NModules * Timeout
<1>1. NModules \in Nat /\ Timeout \in Nat /\ Period \in Nat
  BY PortAssumption
<1> DEFINE w == NModules * Timeout
<1>2. w \in Nat
  BY <1>1
<1>3. MaxRound \in Nat /\ MaxRound >= Period /\ MaxRound >= w
  <2>1. MaxRound = IF w > Period THEN w ELSE Period
    BY DEF MaxRound
  <2> HIDE DEF w
  <2> QED
    BY <1>1, <1>2, <2>1
<1>4. NModules + 1 - 1 = NModules
  BY <1>1
<1> QED
  BY <1>2, <1>3, <1>4 DEF ReportBound

\* No silence grows by more than the time that passes.
LEMMA LaterAddsAtMost ==
  ASSUME TypeOK, NEW ticks \in Nat, NEW x \in Modules
  PROVE  Later(ticks)[x] \in Nat /\ Later(ticks)[x] <= idle[x] + ticks
BY BoundIsNat, PortAssumption DEF Later, TypeOK

\* A verdict or an answer takes d ticks of the round.
LEMMA TurnKeepsRecent ==
  ASSUME TypeOK, ShownIsRecent, NEW d \in {0, Timeout},
         m \in Modules, m' = m + 1, spent' = spent + d, published' = published,
         \A x \in Modules : idle'[x] \in Nat /\ idle'[x] <= idle[x] + d,
         link_mask' \subseteq link_mask \cup {m},
         m \in link_mask' => idle'[m] <= OfflineAfter
  PROVE  ShownIsRecent'
<1>1. /\ d \in Nat /\ d <= Timeout /\ Timeout \in Nat /\ spent \in Nat /\ m \in Nat
      /\ OfflineAfter \in Nat /\ MaxRound \in Nat
      /\ \A x \in Modules : x \in Nat /\ idle[x] \in Nat
  <2>1. d \in Nat /\ d <= Timeout /\ Timeout \in Nat /\ OfflineAfter \in Nat /\ MaxRound \in Nat
    BY PortAssumption, RoundBound
  <2>2. spent \in Nat /\ m \in Nat /\ \A x \in Modules : x \in Nat
    BY DEF TypeOK, Modules
  <2>3. \A x \in Modules : idle[x] \in Nat
    BY BoundIsNat DEF TypeOK
  <2> QED
    BY <2>1, <2>2, <2>3
<1>2. spent' <= (m' - 1) * Timeout
  <2> DEFINE p == (m - 1) * Timeout
             q == (m' - 1) * Timeout
  <2>1. p \in Int /\ q = p + Timeout
    <3>1. m - 1 \in Int /\ m' - 1 = (m - 1) + 1
      BY <1>1
    <3>2. ((m - 1) + 1) * Timeout = (m - 1) * Timeout + Timeout
      BY <1>1, <3>1
    <3> QED
      BY <1>1, <3>1, <3>2
  <2>2. spent <= p
    BY DEF ShownIsRecent
  <2> HIDE DEF p, q
  <2>3. spent' <= q
    BY <1>1, <2>1, <2>2
  <2> QED
    BY <2>3 DEF q
<1>3. ASSUME NEW x \in link_mask', x < m'
      PROVE  idle'[x] <= OfflineAfter + spent'
  <2>1. CASE x = m
    BY <1>1, <1>3, <2>1
  <2>2. CASE x # m
    <3>1. x \in link_mask /\ x \in Modules
      BY <1>3, <2>2 DEF TypeOK
    <3>2. x < m
      BY <1>1, <1>3, <2>2, <3>1
    <3>3. idle[x] <= OfflineAfter + spent
      BY <3>1, <3>2 DEF ShownIsRecent
    <3> QED
      BY <1>1, <3>1, <3>3
  <2> QED
    BY <2>1, <2>2
<1>4. ASSUME NEW x \in published'
      PROVE  idle'[x] <= OfflineAfter + MaxRound + spent'
  <2>1. x \in Modules /\ idle[x] <= OfflineAfter + MaxRound + spent
    BY <1>4 DEF TypeOK, ShownIsRecent
  <2> QED
    BY <1>1, <2>1
<1>5. MaxRound' = MaxRound
  BY DEF MaxRound
<1> QED
  BY <1>2, <1>3, <1>4, <1>5 DEF ShownIsRecent

LEMMA VerdictKeepsRecent ==
  ASSUME TypeOK, ShownIsRecent, NEW since, NEW d \in {0, Timeout},
         m \in Modules, m' = m + 1, spent' = spent + d, published' = published,
         CheckOffline(m, since),
         \A x \in Modules : since[x] \in Nat /\ since[x] <= idle[x] + d
  PROVE  ShownIsRecent'
<1>1. link_mask' \subseteq link_mask \cup {m}
  BY DEF CheckOffline
<1>2. m \in link_mask' => ~(since[m] >= OfflineAfter)
  BY DEF CheckOffline
<1>3. m \in link_mask' => idle'[m] <= OfflineAfter
  BY <1>2, PortAssumption DEF CheckOffline
<1>4. idle' = since
  BY DEF CheckOffline
<1> QED
  BY <1>1, <1>3, <1>4, TurnKeepsRecent

\* A round that ends has taken at most MaxRound, and all modules had their turn.
LEMMA RoundEndsRecent ==
  ASSUME TypeOK, ShownIsRecent, RoundEnds
  PROVE  ShownIsRecent'
<1>1. /\ spent \in Nat /\ Period \in Nat /\ Timeout \in Nat /\ OfflineAfter \in Nat
      /\ NModules \in Nat /\ \A x \in Modules : x \in 1 .. NModules /\ idle[x] \in Nat
  BY PortAssumption, BoundIsNat DEF TypeOK, Modules
<1>2. spent <= MaxRound
  <2>1. spent <= NModules * Timeout
    <3>1. m - 1 = NModules
      BY <1>1 DEF RoundEnds
    <3> QED
      BY <3>1 DEF ShownIsRecent
  <2> DEFINE w == NModules * Timeout
  <2>2. spent <= w /\ w \in Nat /\ w <= MaxRound /\ MaxRound \in Nat
    BY <2>1, RoundBound
  <2> HIDE DEF w
  <2> QED
    BY <1>1, <2>2
<1>3. \A x \in link_mask : x \in Modules /\ idle[x] <= OfflineAfter + spent
  BY <1>1 DEF TypeOK, ShownIsRecent, RoundEnds
<1>4. ASSUME NEW x \in link_mask
      PROVE  idle'[x] <= OfflineAfter + MaxRound
  <2>1. x \in Modules /\ idle[x] \in Nat /\ idle[x] <= OfflineAfter + spent
    BY <1>1, <1>3, <1>4
  <2>2. CASE spent < Period
    <3> DEFINE d == Period - spent
    <3>1. d \in Nat /\ spent + d = Period
      BY <1>1, <2>2
    <3>2. idle' = Later(d)
      BY <2>2 DEF RoundEnds
    <3> HIDE DEF d
    <3>3. idle'[x] \in Nat /\ idle'[x] <= idle[x] + d
      BY <2>1, <3>1, <3>2, LaterAddsAtMost
    <3> QED
      BY <1>1, <2>1, <3>1, <3>3, RoundBound
  <2>3. CASE ~(spent < Period)
    <3>1. idle' = idle
      BY <2>3 DEF RoundEnds
    <3> QED
      BY <1>1, <1>2, <2>1, <3>1, RoundBound
  <2> QED
    BY <2>2, <2>3
<1>5. m' = 1 /\ spent' = 0 /\ published' = link_mask /\ MaxRound' = MaxRound
  BY DEF RoundEnds, NextRound, MaxRound
<1>6. spent' <= (m' - 1) * Timeout
  BY <1>1, <1>5
<1>7. \A x \in link_mask' : ~(x < m')
  BY <1>5 DEF RoundEnds, NextRound, Modules
<1>8. \A x \in published' : idle'[x] <= OfflineAfter + MaxRound + spent'
  BY <1>1, <1>4, <1>5, RoundBound
<1> QED
  BY <1>5, <1>6, <1>7, <1>8 DEF ShownIsRecent

LEMMA RecentStep == TypeOK /\ ShownIsRecent /\ [Next]_vars => ShownIsRecent'
<1> SUFFICES ASSUME TypeOK, ShownIsRecent, [Next]_vars
             PROVE  ShownIsRecent'
  OBVIOUS
<1>1. \A x \in Modules : idle[x] \in Nat
  BY BoundIsNat DEF TypeOK
<1>2. spent \in Nat /\ Timeout \in Nat /\ OfflineAfter \in Nat
  BY PortAssumption DEF TypeOK
<1>3. CASE Skips
  <2>1. /\ m \in Modules /\ m' = m + 1 /\ spent' = spent + 0 /\ published' = published
        /\ CheckOffline(m, idle)
    BY <1>2, <1>3 DEF Skips, InRound
  <2>2. \A x \in Modules : idle[x] \in Nat /\ idle[x] <= idle[x] + 0
    BY <1>1
  <2> QED
    BY <2>1, <2>2, VerdictKeepsRecent
<1>4. CASE NoAnswer
  <2>1. /\ m \in Modules /\ m' = m + 1 /\ spent' = spent + Timeout /\ published' = published
        /\ CheckOffline(m, Later(Timeout))
    BY <1>4 DEF NoAnswer, InRound
  <2>2. \A x \in Modules : Later(Timeout)[x] \in Nat /\ Later(Timeout)[x] <= idle[x] + Timeout
    BY <1>2, LaterAddsAtMost
  <2> QED
    BY <2>1, <2>2, VerdictKeepsRecent
<1>5. CASE Answers
  <2>1. /\ m \in Modules /\ m' = m + 1 /\ spent' = spent + 0 /\ published' = published
        /\ link_mask' = link_mask \cup {m}
    BY <1>2, <1>5 DEF Answers, InRound, MarkOnline
  <2>2. \A x \in Modules : idle'[x] = idle[x] \/ idle'[x] = 0
    BY <1>5 DEF Answers, MarkOnline, TypeOK
  <2>3. idle'[m] = 0
    BY <1>5, <2>1 DEF Answers, MarkOnline, TypeOK
  <2>4. \A x \in Modules : idle'[x] \in Nat /\ idle'[x] <= idle[x] + 0
    BY <1>1, <2>2
  <2>5. idle'[m] <= OfflineAfter
    BY <1>2, <2>3
  <2> QED
    BY <2>1, <2>4, <2>5, TurnKeepsRecent
<1>6. CASE RoundEnds
  BY <1>6, RoundEndsRecent
<1>7. CASE EmptyRound
  <2>1. m' = 1 /\ spent' = 0 /\ published' = {} /\ link_mask' \subseteq Modules
    BY <1>7 DEF EmptyRound, NextRound
  <2>2. \A x \in link_mask' : ~(x < m')
    BY <2>1 DEF Modules
  <2>3. spent' <= (m' - 1) * Timeout
    BY <1>2, <2>1
  <2> QED
    BY <2>1, <2>2, <2>3 DEF ShownIsRecent
<1>8. CASE UNCHANGED <<m, spent, idle, link_mask, published>>
  BY <1>8 DEF ShownIsRecent, MaxRound
<1> QED
  BY <1>3, <1>4, <1>5, <1>6, <1>7, <1>8
     DEF Next, PortTask, ComesOrGoes, vars

-------------------------------------------------------------------------------
LEMMA InvInit == Init => IInv
<1> SUFFICES ASSUME Init
             PROVE  NoHandleNoRound /\ SilentPerFailure /\ SkippedIsOffline /\ ShownIsRecent
  BY TypeInit DEF IInv
<1>1. /\ Period \in Nat /\ SkipErr \in Nat \ {0} /\ OfflineAfter \in Nat /\ Timeout \in Nat
      /\ MaxRound \in Nat
  BY PortAssumption, RoundBound
<1>2. \A x \in Modules : x >= m /\ module_error[x] = 0 /\ idle[x] = 0 /\ spent = 0
  BY DEF Init, Modules
<1>3. 0 * Period + 0 = 0
  BY <1>1
<1>4. ShownIsRecent
  <2>1. m = 1 /\ spent = 0 /\ link_mask = Modules /\ published = Modules
    BY DEF Init
  <2>2. spent <= (m - 1) * Timeout
    BY <1>1, <2>1
  <2>3. \A x \in link_mask : ~(x < m)
    BY <2>1 DEF Modules
  <2>4. \A x \in published : idle[x] <= OfflineAfter + MaxRound + spent
    BY <1>1, <1>2, <2>1
  <2> QED
    BY <2>2, <2>3, <2>4 DEF ShownIsRecent
<1> QED
  BY <1>1, <1>2, <1>3, <1>4 DEF Init, NoHandleNoRound, SilentPerFailure, AtLeast, SkippedIsOffline

LEMMA InvStep == IInv /\ [Next]_vars => IInv'
BY TypeStep, NoHandleStep, SilentStep, SkippedStep, RecentStep DEF IInv

\* Every step of the port task (main.c:885-1072) keeps the counters, the mask and
\* the silences of its modules in their ranges.
THEOREM PortTypeCorrect == Spec => []TypeOK
<1>1. Init => TypeOK
  BY TypeInit
<1>2. TypeOK /\ [Next]_vars => TypeOK'
  BY TypeStep
<1> QED
  BY <1>1, <1>2, PTL DEF Spec

\* A module the task no longer asks every round (main.c:925-957) is one it has
\* marked offline (main.c:235-273), for every number of modules and every timeout:
\* the rounds only last longer the more modules are silent.
THEOREM SkippedAreOffline == Spec => []SkippedIsOffline
<1>1. Init => IInv
  BY InvInit
<1>2. IInv /\ [Next]_vars => IInv'
  BY InvStep
<1>3. IInv => SkippedIsOffline
  BY DEF IInv
<1> QED
  BY <1>1, <1>2, <1>3, PTL DEF Spec

\* A module that has been silent for longer than the threshold and two of the
\* longest rounds is not in the mask the host and task RS485-7 read
\* (main.c:264-272, 1023), whoever else is silent and however often the port
\* lost its handle in between.
THEOREM SilenceIsReported == Spec => []ReportedInTime
<1>1. Init => IInv
  BY InvInit
<1>2. IInv /\ [Next]_vars => IInv'
  BY InvStep
<1>3. IInv => ReportedInTime
  <2> SUFFICES ASSUME IInv, NEW x \in Modules, x \in published
               PROVE  ~(idle[x] > ReportBound)
    BY DEF ReportedInTime
  <2>1. /\ idle[x] \in Nat /\ spent \in Nat /\ OfflineAfter \in Nat /\ NModules \in Nat
        /\ Timeout \in Nat /\ m \in 1 .. (NModules + 1)
    BY PortAssumption, BoundIsNat DEF IInv, TypeOK
  <2>2. idle[x] <= OfflineAfter + MaxRound + spent
    BY DEF IInv, ShownIsRecent
  <2>3. spent <= MaxRound
    <3> DEFINE p == (m - 1) * Timeout
               k == NModules - (m - 1)
               w == NModules * Timeout
    <3>1. k \in Nat /\ m - 1 \in Nat /\ NModules = (m - 1) + k
      BY <2>1
    <3>2. ((m - 1) + k) * Timeout = (m - 1) * Timeout + k * Timeout /\ k * Timeout \in Nat
      BY <2>1, <3>1
    <3>3. p \in Nat /\ w = p + k * Timeout
      BY <2>1, <3>1, <3>2
    <3>4. spent <= p
      BY DEF IInv, ShownIsRecent
    <3>5. w <= MaxRound /\ MaxRound \in Nat /\ w \in Nat
      BY RoundBound
    <3> DEFINE r == k * Timeout
    <3>6. r \in Nat /\ w = p + r
      BY <3>2, <3>3
    <3> HIDE DEF p, w, r
    <3> QED
      BY <2>1, <3>3, <3>4, <3>5, <3>6
  <2> QED
    BY <2>1, <2>2, <2>3, RoundBound
<1> QED
  BY <1>1, <1>2, <1>3, PTL DEF Spec
===============================================================================
