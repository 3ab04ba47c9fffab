------------------------------- MODULE UartPort -------------------------------
(***************************************************************************)
(* One port task polling its modules (uart_task_handler in User/main.c,    *)
(* with uart_process_modbus_master and what it calls).  Each round asks    *)
(* every module in turn, judges the silent ones by the time since their    *)
(* last answer, publishes who is online, re-arms a port on which nobody    *)
(* is, and sleeps to the end of its period.  A module that failed often    *)
(* is asked only once in a while.                                          *)
(*                                                                         *)
(* Time goes in ticks of 500 ms, the time an answer is waited for; an      *)
(* answer that comes takes none.  The registers read, the Modbus map of    *)
(* the board's own slave and time synchronisation are left out.            *)
(***************************************************************************)
EXTENDS Integers, FiniteSets

CONSTANTS
  NModules,       \* SlaveModuelNum
  Period,         \* UART_POLL_PERIOD_MS, in ticks
  Timeout,        \* how long an answer is waited for
  OfflineAfter,   \* UART_MODULE_OFFLINE_MS, in ticks
  SkipErr,        \* UART_MODULE_SKIP_ERR
  ErrSat,         \* UART_MODULE_ERR_SAT
  ProbeEvery,     \* skipped rounds between two probes (10)
  ArmTries,       \* port_error from which the port is not re-armed (4)
  ErrorWrap,      \* port_error is a uint8_t and wraps here (256)
  InitFails       \* whether uart_init_port may fail

\* A module that fails SkipErr polls in a row has been silent for SkipErr - 1
\* periods and the wait for the last answer: (3 - 1) * 1000 + 500 ms in the code,
\* against a threshold of 2000 ms.
ASSUME PortAssumption ==
  /\ NModules \in Nat \ {0} /\ Period \in Nat /\ Timeout \in Nat \ {0}
  /\ OfflineAfter \in Nat \ {0} /\ SkipErr \in Nat \ {0}
  /\ ErrSat \in Nat /\ ErrSat >= SkipErr
  /\ (SkipErr - 1) * Period + Timeout >= OfflineAfter
  /\ ProbeEvery \in Nat \ {0} /\ ArmTries \in Nat
  /\ ErrorWrap \in Nat /\ ErrorWrap > ArmTries /\ InitFails \in BOOLEAN

Modules  == 1 .. NModules
MaxRound == IF NModules * Timeout > Period THEN NModules * Timeout ELSE Period

\* How long after its last answer a module may still be shown online.
ReportBound == OfflineAfter + 2 * MaxRound

VARIABLES
  answering,          \* the modules that are there to answer
  m, spent,           \* the module to ask next; ticks since the round began
  module_error, skip_probe_count, module_offline,
  idle,               \* ticks since module_last_ok_ms, up to ReportBound + 1
  link_mask,          \* the modules with their bit set
  published,          \* SerialDataBuf[7..10], which the host and task 7 read
  port_error, xMBMaster

moduleVars == <<module_error, skip_probe_count, module_offline>>
vars == <<answering, m, spent, moduleVars, idle, link_mask, published, port_error, xMBMaster>>

Init ==
  /\ answering \in SUBSET Modules
  /\ m = 1 /\ spent = 0
  /\ module_error = [x \in Modules |-> 0] /\ skip_probe_count = [x \in Modules |-> 0]
  /\ module_offline = [x \in Modules |-> FALSE] /\ idle = [x \in Modules |-> 0]
  /\ link_mask = Modules /\ published = Modules
  /\ port_error = 0
  /\ xMBMaster \in IF InitFails THEN {"open", "NULL"} ELSE {"open"}

Later(ticks) ==
  [x \in Modules |-> IF idle[x] + ticks > ReportBound THEN ReportBound + 1 ELSE idle[x] + ticks]

-------------------------------------------------------------------------------
(* uart_module_should_poll *)

\* Mutation: the probe comes one skipped round later.
Asked_late(x) == module_error[x] < SkipErr \/ skip_probe_count[x] > ProbeEvery

Asked(x) == module_error[x] < SkipErr \/ skip_probe_count[x] >= ProbeEvery

\* Mutation: the skipped rounds are not counted.
CountSkip_never(x) == skip_probe_count

CountSkip(x) == [skip_probe_count EXCEPT ![x] = @ + 1]

(* uart_module_check_offline: x has not answered, at the times in since. *)

\* Mutation: the verdict counts failures, as it did before it took the time.
CheckOffline_counting(x, since) ==
  LET silent == module_error[x] + 1 >= ErrSat IN
  /\ module_error' = [module_error EXCEPT ![x] = IF @ < ErrSat THEN @ + 1 ELSE @]
  /\ module_offline' = [module_offline EXCEPT ![x] = @ \/ silent]
  /\ link_mask' = IF silent THEN link_mask \ {x} ELSE link_mask
  /\ idle' = since

CheckOffline(x, since) ==
  LET silent == since[x] >= OfflineAfter IN
  /\ module_error' = [module_error EXCEPT ![x] = IF @ < ErrSat THEN @ + 1 ELSE @]
  /\ module_offline' = [module_offline EXCEPT ![x] = @ \/ silent]
  /\ link_mask' = IF silent THEN link_mask \ {x} ELSE link_mask
  /\ idle' = since

\* Mutation: the failures before the answer are not forgotten.
MarkOnline_errors_kept(x) ==
  /\ UNCHANGED module_error
  /\ module_offline' = [module_offline EXCEPT ![x] = FALSE]
  /\ idle' = [idle EXCEPT ![x] = 0]
  /\ link_mask' = link_mask \cup {x}

MarkOnline(x) ==
  /\ module_error' = [module_error EXCEPT ![x] = 0]
  /\ module_offline' = [module_offline EXCEPT ![x] = FALSE]
  /\ idle' = [idle EXCEPT ![x] = 0]
  /\ link_mask' = link_mask \cup {x}

-------------------------------------------------------------------------------
(* uart_process_modbus_master *)

InRound == xMBMaster = "open" /\ m \in Modules /\ m' = m + 1

Skips ==
  /\ InRound /\ ~Asked(m)
  /\ skip_probe_count' = CountSkip(m)
  /\ CheckOffline(m, idle)
  /\ UNCHANGED <<answering, spent, published, port_error, xMBMaster>>

Answers ==
  /\ InRound /\ Asked(m) /\ m \in answering
  /\ skip_probe_count' = [skip_probe_count EXCEPT ![m] = 0]
  /\ MarkOnline(m)
  /\ UNCHANGED <<answering, spent, published, port_error, xMBMaster>>

\* The module is not there, or its answer was lost or garbled.
NoAnswer ==
  /\ InRound /\ Asked(m)
  /\ skip_probe_count' = [skip_probe_count EXCEPT ![m] = 0]
  /\ CheckOffline(m, Later(Timeout))
  /\ spent' = spent + Timeout
  /\ UNCHANGED <<answering, published, port_error, xMBMaster>>

-------------------------------------------------------------------------------
(* The end of the round. *)

\* uart_check_port_error_and_arm: for a port shown all offline.
ReArm ==
  IF published' # {} THEN port_error' = 0 /\ UNCHANGED xMBMaster
  ELSE /\ port_error' = (port_error + 1) % ErrorWrap
       /\ IF port_error' < ArmTries
          THEN xMBMaster' \in IF InitFails THEN {"open", "NULL"} ELSE {"open"}
          ELSE UNCHANGED xMBMaster

\* uart_round_initial_link_mask: optimistic, but for those known to be offline.
NextRound ==
  /\ m' = 1 /\ spent' = 0
  /\ link_mask' = {x \in Modules : ~module_offline[x]}
  /\ UNCHANGED <<answering, moduleVars>>

RoundEnds ==
  /\ xMBMaster = "open" /\ m = NModules + 1
  /\ published' = link_mask
  /\ ReArm
  /\ idle' = IF spent < Period THEN Later(Period - spent) ELSE idle
  /\ NextRound

\* Without a handle nobody can be asked, and the port is shown all offline.
EmptyRound ==
  /\ xMBMaster = "NULL"
  /\ published' = {}
  /\ ReArm
  /\ idle' = Later(Period)
  /\ NextRound

PortTask == Skips \/ Answers \/ NoAnswer \/ RoundEnds \/ EmptyRound

ComesOrGoes(x) ==
  /\ answering' = IF x \in answering THEN answering \ {x} ELSE answering \cup {x}
  /\ UNCHANGED <<m, spent, moduleVars, idle, link_mask, published, port_error, xMBMaster>>

Next == PortTask \/ \E x \in Modules : ComesOrGoes(x)

Spec == Init /\ [][Next]_vars

\* The task is scheduled; of the answers a module gives again and again some
\* arrive, and a port armed again and again is armed once.
Fairness ==
  /\ WF_vars(PortTask)
  /\ \A x \in Modules : SF_vars(Answers /\ m = x)
  /\ SF_vars((RoundEnds \/ EmptyRound) /\ xMBMaster' = "open" /\ port_error' \in 1 .. (ArmTries - 1))

FairSpec == Spec /\ Fairness

-------------------------------------------------------------------------------
TypeOK ==
  /\ answering \subseteq Modules
  /\ m \in 1 .. (NModules + 1) /\ spent \in Nat
  /\ module_error \in [Modules -> 0 .. ErrSat]
  /\ skip_probe_count \in [Modules -> 0 .. ProbeEvery]
  /\ module_offline \in [Modules -> BOOLEAN]
  /\ idle \in [Modules -> 0 .. (ReportBound + 1)]
  /\ link_mask \subseteq Modules /\ published \subseteq Modules
  /\ port_error \in 0 .. (ErrorWrap - 1) /\ xMBMaster \in {"open", "NULL"}

(***************************************************************************)
(* A module is left out of the polling on its count of failures and shown  *)
(* offline on the time of its silence (main.c:919-922); whatever the       *)
(* length of the rounds, none is left out that is not offline.             *)
(***************************************************************************)
SkippedIsOffline == \A x \in Modules : module_error[x] >= SkipErr => module_offline[x]

(***************************************************************************)
(* Why it holds: x has been silent for a whole period per failure, but for *)
(* the round of the first one; and the rounds last a period at least.      *)
(***************************************************************************)
AtLeast(x, ticks) == idle[x] >= ticks \/ idle[x] >= OfflineAfter
SilentPerFailure ==
  \A x \in Modules :
    IF x >= m THEN AtLeast(x, module_error[x] * Period + spent)
    ELSE module_error[x] > 0 => AtLeast(x, (module_error[x] - 1) * Period + spent)

NoHandleNoRound == xMBMaster = "NULL" => m = 1 /\ spent = 0

(***************************************************************************)
(* Why silence is published in time: a module still in the mask after its  *)
(* turn had answered less than OfflineAfter before, and one in the mask    *)
(* published last had done so by its turn in the round before.             *)
(***************************************************************************)
ShownIsRecent ==
  /\ spent <= (m - 1) * Timeout
  /\ \A x \in link_mask : x < m => idle[x] <= OfflineAfter + spent
  /\ \A x \in published : idle[x] <= OfflineAfter + MaxRound + spent

IInv == TypeOK /\ NoHandleNoRound /\ SilentPerFailure /\ SkippedIsOffline /\ ShownIsRecent

(***************************************************************************)
(* main.c:239-241: a module that falls silent is shown offline soon after  *)
(* the threshold: within two rounds, whoever else is silent.               *)
(***************************************************************************)
ReportedInTime == \A x \in Modules : idle[x] > ReportBound => x \notin published

(***************************************************************************)
(* A module that is back for good is shown online again and again, though  *)
(* it was left out of the polling, and though the port had lost its handle *)
(* and given up re-arming.                                                 *)
(***************************************************************************)
BackIsSeen == \A x \in Modules : <>[](x \in answering) => []<>(x \in published)
===============================================================================
