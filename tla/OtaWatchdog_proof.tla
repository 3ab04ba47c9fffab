--------------------------- MODULE OtaWatchdog_proof ---------------------------
(***************************************************************************)
(* The watchdog of the OTA task, for all times that satisfy                *)
(* TimesAssumption and wherever the clock wraps around.                    *)
(***************************************************************************)
EXTENDS OtaWatchdog, TLAPS

\* The 32-bit differences and sums that occur wrap around at most once.
LEMMA ModSmall == ASSUME NEW d \in Nat \ {0}, NEW x \in 0 .. (d - 1) PROVE x % d = x
OBVIOUS
LEMMA ModBig == ASSUME NEW d \in Nat \ {0}, NEW x \in d .. (2 * d - 1) PROVE x % d = x - d
OBVIOUS
LEMMA ModNeg == ASSUME NEW d \in Nat \ {0}, NEW x \in (-d) .. (-1) PROVE x % d = x + d
OBVIOUS

LEMMA Wraps ==
  ASSUME NEW x \in (-TickMod) .. (2 * TickMod - 1)
  PROVE  /\ x % TickMod = IF x < 0 THEN x + TickMod
                          ELSE IF x < TickMod THEN x ELSE x - TickMod
         /\ x % TickMod \in 0 .. (TickMod - 1)
<1>1. TickMod \in Nat \ {0} BY WatchdogAssumption
<1>2. CASE x < 0
  <2>1. x \in (-TickMod) .. (-1) BY <1>1, <1>2
  <2>2. x % TickMod = x + TickMod BY <1>1, <2>1, ModNeg
  <2>. QED BY <1>1, <1>2, <2>2
<1>3. CASE 0 <= x /\ x < TickMod
  <2>1. x \in 0 .. (TickMod - 1) BY <1>1, <1>3
  <2>2. x % TickMod = x BY <1>1, <2>1, ModSmall
  <2>. QED BY <1>1, <1>3, <2>2
<1>4. CASE TickMod <= x
  <2>1. x \in TickMod .. (2 * TickMod - 1) BY <1>1, <1>4
  <2>2. x % TickMod = x - TickMod BY <1>1, <2>1, ModBig
  <2>. QED BY <1>1, <1>4, <2>2
<1>. QED BY <1>1, <1>2, <1>3, <1>4

-------------------------------------------------------------------------------
(* The inductive invariant. *)

\* The window the task has declared for the call it is in.
Window(c) ==
  CASE c = "connect"            -> BUSY_CONNECT
    [] c \in {"erase", "verify"} -> BUSY_FLASH
    [] OTHER                    -> WDT_TIMEOUT

\* How long ago the last report can be when call c returns, at the latest.
Budget(c) ==
  CASE c = "connect" -> CONNECT_MAX
    [] c = "erase"   -> ERASE_MAX
    [] c \in {"boot", "arm"} -> 0
    [] c \in {"verify", "block"} -> 1
    [] c \in {"hello", "confirm", "ready", "success"} -> SEND_MAX
    [] c = "recv"    -> SEND_MAX + 1
    [] c = "beat"    -> 2 * SEND_MAX + 1
    [] c = "commit"  -> SEND_MAX + ERASE_MAX
    [] c = "reboot"  -> SEND_MAX + ERASE_MAX + 1
    [] c = "error"   -> 2 * SEND_MAX + ERASE_MAX
    [] OTHER         -> 2 * SEND_MAX + ERASE_MAX + 1

Armed == call \notin {"boot", "arm"}

\* The deadline is the time of the last report plus the window, on a clock that wraps.
Deadline ==
  silent <= WDT_TIMEOUT + Dog =>
    g_ota_task_deadline_ms - (tick - silent + g_ota_task_window_ms)
      \in {-TickMod, 0, TickMod}

TaskInv ==
  /\ g_ota_task_armed <=> call # "boot"
  /\ call \in {"boot", "arm"} => left = 0 /\ silent = 0
  /\ Armed => /\ g_ota_task_window_ms = Window(call)
              /\ Deadline
              /\ left # Never => silent + left <= Budget(call)
  /\ call = "erase" => g_hw_active = HwWorks

FeedInv ==
  /\ WTD_RESET = 31 => left = Never
  /\ checked /\ WTD_RESET = 0 => unfed = 0
  /\ Armed /\ ~g_hw_active => silent <= g_ota_task_window_ms + unfed
  /\ HwWorks /\ WTD_RESET = 0 /\ call # "commit" => unfed < Dog

WatchdogInv == TypeOK /\ TaskInv /\ FeedInv

-------------------------------------------------------------------------------
LEMMA CallFacts ==
  ASSUME NEW c \in Calls
  PROVE  /\ Longest(c) \in Nat /\ Window(c) \in 1 .. WDT_TIMEOUT /\ Budget(c) \in Nat
         /\ Budget(c) < Window(c)
         /\ c \notin {"boot", "arm"} => Longest(c) <= Budget(c)
BY WatchdogAssumption, TimesAssumption DEF Calls, Longest, Window, Budget

(* Types, whether or not a round may fall inside ota_task_wdt_arm. *)

WdtTyped  == /\ g_ota_task_window_ms' \in 0 .. WDT_TIMEOUT
             /\ g_ota_task_deadline_ms' \in 0 .. (TickMod - 1)
             /\ g_ota_task_armed' \in BOOLEAN /\ silent' \in 0 .. MaxSilent
FedTyped  == g_hw_active' \in BOOLEAN /\ unfed' \in 0 .. Dog
CallTyped == call' \in Calls /\ left' \in Nat \cup {Never}

LEMMA WindowTypes ==
  ASSUME TypeOK, NEW m \in 0 .. WDT_TIMEOUT, ota_task_wdt_set_window(m)
  PROVE  WdtTyped
<1>1. /\ TickMod \in Nat \ {0} /\ WDT_TIMEOUT \in Nat /\ WDT_TIMEOUT < TickMod
      /\ 0 \in 0 .. MaxSilent
  BY WatchdogAssumption
<1>2. PICK x \in Int : x = tick + m BY <1>1 DEF TypeOK
<1>3. x \in (-TickMod) .. (2 * TickMod - 1) BY <1>1, <1>2 DEF TypeOK
<1>4. x % TickMod \in 0 .. (TickMod - 1) BY <1>3, Wraps
<1>5. /\ g_ota_task_window_ms' = m /\ g_ota_task_deadline_ms' = x % TickMod
      /\ silent' = 0 /\ g_ota_task_armed' = g_ota_task_armed
  BY <1>2 DEF ota_task_wdt_set_window
<1>. QED BY <1>1, <1>4, <1>5 DEF TypeOK, WdtTyped

\* Progress moves the deadline by the window that is already declared.
LEMMA ReportTypes ==
  ASSUME TypeOK
  PROVE  /\ ota_task_wdt_kick => WdtTyped
         /\ ota_task_wdt_set_window(WDT_TIMEOUT) => WdtTyped
         /\ ota_task_wdt_busy(BUSY_FLASH) => WdtTyped
         /\ ota_task_wdt_busy(BUSY_CONNECT) => WdtTyped
         /\ ota_task_wdt_progress => WdtTyped
         /\ NoReport => WdtTyped
<1>1. /\ WDT_TIMEOUT \in 0 .. WDT_TIMEOUT /\ BUSY_FLASH \in 0 .. WDT_TIMEOUT
      /\ BUSY_CONNECT \in 0 .. WDT_TIMEOUT
  BY WatchdogAssumption
<1>2. ota_task_wdt_set_window(WDT_TIMEOUT) => WdtTyped BY <1>1, WindowTypes
<1>3. ota_task_wdt_kick => WdtTyped BY <1>2 DEF ota_task_wdt_kick
<1>4. ota_task_wdt_busy(BUSY_FLASH) => WdtTyped BY <1>1, WindowTypes DEF ota_task_wdt_busy
<1>5. ota_task_wdt_busy(BUSY_CONNECT) => WdtTyped BY <1>1, WindowTypes DEF ota_task_wdt_busy
<1>6. ota_task_wdt_progress => ota_task_wdt_set_window(g_ota_task_window_ms)
  BY DEF ota_task_wdt_progress, ota_task_wdt_set_window
<1>7. ota_task_wdt_progress => WdtTyped BY <1>6, WindowTypes DEF TypeOK
<1>8. NoReport => WdtTyped BY DEF NoReport, wdtVars, TypeOK, WdtTyped
<1>. QED BY <1>2, <1>3, <1>4, <1>5, <1>7, <1>8

LEMMA FeedTypes ==
  ASSUME TypeOK
  PROVE  /\ NoFeed => FedTyped
         /\ ota_wdt_hw_start => FedTyped
         /\ g_hw_active' = FALSE /\ unfed' \in {0, unfed} => FedTyped
         /\ unfed' = 0 /\ g_hw_active' = g_hw_active => FedTyped
<1>1. 0 \in 0 .. Dog BY WatchdogAssumption
<1>2. HwWorks \in BOOLEAN BY WatchdogAssumption
<1>. QED BY <1>1, <1>2 DEF NoFeed, ota_wdt_hw_start, TypeOK, FedTyped

LEMMA EnterTypes == ASSUME NEW c \in Calls, Enter(c) PROVE CallTyped
BY CallFacts DEF Enter, CallTyped

LEMMA TaskStepTypes ==
  ASSUME TypeOK, TaskStep
  PROVE  TypeOK'
<1>1. SUFFICES WdtTyped /\ FedTyped /\ CallTyped
  BY DEF TaskStep, TypeOK, superVars, WdtTyped, FedTyped, CallTyped
<1>2. /\ Enter("wait") => CallTyped
      /\ Enter("connect") => CallTyped
      /\ Enter("hello") => CallTyped
      /\ Enter("recv") => CallTyped
      /\ Enter("beat") => CallTyped
      /\ Enter("confirm") => CallTyped
      /\ Enter("erase") => CallTyped
      /\ Enter("ready") => CallTyped
      /\ Enter("block") => CallTyped
      /\ Enter("verify") => CallTyped
      /\ Enter("success") => CallTyped
      /\ Enter("commit") => CallTyped
      /\ Enter("reboot") => CallTyped
      /\ Enter("error") => CallTyped
  <2>1. \A c \in Calls : Enter(c) => CallTyped BY EnterTypes
  <2>. QED BY <2>1 DEF Calls
<1>3. CASE Boots
  <2>1. WdtTyped BY <1>3 DEF Boots, WdtTyped, TypeOK
  <2>2. CallTyped BY <1>3 DEF Boots, CallTyped, Calls
  <2>. QED BY <1>3, <2>1, <2>2, FeedTypes DEF Boots
<1>4. SessionRound => WdtTyped /\ FedTyped /\ CallTyped
  BY <1>2, ReportTypes, FeedTypes, Zenon DEF SessionRound, StartVerify
<1>5. CASE Arms BY <1>2, <1>5, ReportTypes, FeedTypes, Zenon DEF Arms
<1>6. CASE WaitOver BY <1>2, <1>6, ReportTypes, FeedTypes, Zenon DEF WaitOver
<1>7. CASE ConnectOver BY <1>2, <1>7, ReportTypes, FeedTypes, Zenon DEF ConnectOver
<1>8. CASE HelloOver BY <1>2, <1>4, <1>8, ReportTypes, FeedTypes, Zenon DEF HelloOver
<1>9. CASE RecvOver BY <1>2, <1>4, <1>9, ReportTypes, FeedTypes, Zenon DEF RecvOver
<1>10. CASE BeatOver BY <1>2, <1>4, <1>10, ReportTypes, FeedTypes, Zenon DEF BeatOver
<1>11. CASE ConfirmOver BY <1>2, <1>11, ReportTypes, FeedTypes, Zenon DEF ConfirmOver
<1>12. CASE SectorErased
  <2>1. FedTyped BY <1>12, FeedTypes DEF SectorErased
  <2>. QED BY <1>2, <1>12, <2>1, ReportTypes, Zenon DEF SectorErased
<1>13. CASE VerifyOver
  <2>1. FedTyped BY <1>13, FeedTypes DEF VerifyOver
  <2>. QED BY <1>2, <1>13, <2>1, ReportTypes, Zenon DEF VerifyOver
<1>14. CASE ErrorOver BY <1>2, <1>14, ReportTypes, FeedTypes, Zenon DEF ErrorOver
<1>15. ASSUME NEW c, NEW next \in Calls, CallOver(c, next)
       PROVE  WdtTyped /\ FedTyped /\ CallTyped
  BY <1>2, <1>15, ReportTypes, FeedTypes, EnterTypes, Zenon DEF CallOver
<1>16. "recv" \in Calls /\ "commit" \in Calls /\ "reboot" \in Calls BY DEF Calls
<1>. QED
  BY <1>3, <1>5, <1>6, <1>7, <1>8, <1>9, <1>10, <1>11, <1>12, <1>13, <1>14, <1>15, <1>16, Zenon
  DEF TaskStep

LEMMA TypeStep == TypeOK /\ [Next]_vars => TypeOK'
<1>. SUFFICES ASSUME TypeOK, [Next]_vars PROVE TypeOK'
  OBVIOUS
<1>0. /\ TickMod \in Nat \ {0} /\ Dog \in Nat \ {0} /\ MaxSilent \in Nat
      /\ 0 \in 0 .. (TickMod - 1) /\ 0 \in 0 .. WDT_TIMEOUT /\ 0 \in 0 .. MaxSilent
      /\ 0 \in 0 .. Dog
  BY WatchdogAssumption
<1>1. CASE TaskStep BY <1>1, TaskStepTypes
<1>2. CASE SupervisorRound
  <2>1. WTD_RESET' \in {0, 31} /\ unfed' \in 0 .. Dog
    BY <1>0, <1>2 DEF SupervisorRound, TypeOK
  <2>. QED BY <1>2, <2>1 DEF SupervisorRound, TypeOK, taskVars, wdtVars
<1>3. CASE TimePasses
  <2>1. PICK x \in Int : x = tick + 1 BY DEF TypeOK
  <2>2. x \in (-TickMod) .. (2 * TickMod - 1) BY <1>0, <2>1 DEF TypeOK
  <2>3. x % TickMod \in 0 .. (TickMod - 1) BY <2>2, Wraps
  <2>4. tick' \in 0 .. (TickMod - 1) BY <1>3, <2>1, <2>3 DEF TimePasses
  <2>5. left' \in Nat \cup {Never} BY <1>3 DEF TimePasses, TypeOK, Never
  <2>6. silent' \in 0 .. MaxSilent /\ unfed' \in 0 .. Dog
    BY <1>0, <1>3 DEF TimePasses, TypeOK
  <2>. QED BY <1>3, <2>4, <2>5, <2>6 DEF TimePasses, TypeOK, wdtVars
<1>4. CASE Resets BY <1>0, <1>4 DEF Resets, PowerUp, TypeOK, Calls
<1>5. CASE UNCHANGED vars BY <1>5 DEF TypeOK, vars, wdtVars, taskVars, superVars
<1>. QED BY <1>1, <1>2, <1>3, <1>4, <1>5 DEF Next

-------------------------------------------------------------------------------
(* Steps of the task. *)

\* A report starts a new window, long enough for the call that follows.
LEMMA ReportKeeps ==
  ASSUME WatchdogInv, UNCHANGED <<tick, superVars, g_ota_task_armed>>,
         call # "boot", left = 0, unfed < Dog,
         NEW c \in Calls \ {"boot", "arm"}, Enter(c), silent' = 0,
         g_ota_task_window_ms' = Window(c),
         g_ota_task_deadline_ms' = (tick + Window(c)) % TickMod,
         g_hw_active' \in BOOLEAN, c = "erase" => g_hw_active' = HwWorks,
         unfed' \in {0, unfed}
  PROVE  WatchdogInv'
<1>. USE DEF WatchdogInv
<1>1. /\ Longest(c) \in Nat /\ Window(c) \in 1 .. WDT_TIMEOUT /\ Longest(c) <= Budget(c)
      /\ Budget(c) \in Nat
  BY CallFacts
<1>2. /\ call' = c /\ left' \in 0 .. Longest(c) \cup {Never} BY DEF Enter
<1>3. tick \in 0 .. (TickMod - 1) /\ TickMod \in Nat \ {0} /\ WDT_TIMEOUT < TickMod
      /\ WDT_TIMEOUT \in Nat /\ Dog \in Nat \ {0} /\ MaxSilent \in Nat
  BY WatchdogAssumption DEF TypeOK
<1>4. PICK x \in Int : x = tick + Window(c) BY <1>1, <1>3
<1>5. x \in (-TickMod) .. (2 * TickMod - 1) /\ ~(x < 0) BY <1>1, <1>3, <1>4
<1>6. /\ g_ota_task_deadline_ms' = IF x < TickMod THEN x ELSE x - TickMod
      /\ g_ota_task_deadline_ms' \in 0 .. (TickMod - 1)
  <2>1. g_ota_task_deadline_ms' = x % TickMod BY <1>4
  <2>2. /\ x % TickMod = IF x < 0 THEN x + TickMod
                         ELSE IF x < TickMod THEN x ELSE x - TickMod
        /\ x % TickMod \in 0 .. (TickMod - 1)
    BY <1>5, Wraps
  <2>. QED BY <1>5, <2>1, <2>2
<1>7. TypeOK'
  BY <1>1, <1>2, <1>3, <1>6 DEF TypeOK, superVars
<1>8. TaskInv'
  <2>1. Deadline' BY <1>1, <1>3, <1>4, <1>6 DEF Deadline
  <2>2. left' # Never => silent' + left' <= Budget(c) BY <1>1, <1>2
  <2>. QED BY <1>2, <2>1, <2>2 DEF TaskInv, Armed
<1>9. FeedInv'
  <2>1. WTD_RESET' # 31 BY WatchdogAssumption DEF FeedInv, superVars, Never
  <2>2. silent' <= g_ota_task_window_ms' + unfed' BY <1>1, <1>3 DEF TypeOK
  <2>3. unfed' < Dog BY <1>3
  <2>4. checked' /\ WTD_RESET' = 0 => unfed' = 0 BY DEF FeedInv, superVars
  <2>. QED BY <2>1, <2>2, <2>3, <2>4 DEF FeedInv
<1>. QED BY <1>7, <1>8, <1>9

\* Without a report the window of the last one still covers the next call.
LEMMA SilentKeeps ==
  ASSUME WatchdogInv, UNCHANGED <<tick, superVars, wdtVars, silent, g_hw_active, unfed>>,
         Armed, left = 0, unfed < Dog,
         NEW c \in Calls \ {"boot", "arm", "erase"}, Enter(c), Window(call) = Window(c),
         Budget(call) + Longest(c) <= Budget(c)
  PROVE  WatchdogInv'
<1>. USE DEF WatchdogInv
<1>1. /\ Longest(c) \in Nat /\ Budget(c) \in Nat /\ Budget(call) \in Nat
  BY CallFacts DEF TypeOK
<1>2. /\ call' = c /\ left' \in 0 .. Longest(c) \cup {Never} BY DEF Enter
<1>3. TypeOK' BY <1>1, <1>2 DEF TypeOK, superVars, wdtVars
<1>4. TaskInv'
  <2>1. Deadline' BY DEF TaskInv, Deadline, wdtVars
  <2>2. left' # Never => silent' + left' <= Budget(c)
    <3>1. silent + 0 <= Budget(call) BY DEF TaskInv, Never
    <3>. QED BY <1>1, <1>2, <3>1 DEF TypeOK
  <2>. QED BY <1>2, <2>1, <2>2 DEF TaskInv, Armed, wdtVars
<1>5. FeedInv'
  <2>1. WTD_RESET' # 31 BY DEF FeedInv, superVars, Never
  <2>. QED BY <2>1, <1>2 DEF FeedInv, superVars, wdtVars, Armed
<1>. QED BY <1>3, <1>4, <1>5

LEMMA BootsKeeps ==
  ASSUME WatchdogInv, Boots, unfed < Dog, UNCHANGED <<tick, superVars>>
  PROVE  WatchdogInv'
<1>. USE DEF WatchdogInv
<1>1. /\ call = "boot" /\ left = 0 /\ silent = 0 /\ call' = "arm" /\ left' = 0
      /\ g_ota_task_armed' = TRUE /\ NoFeed
      /\ UNCHANGED <<g_ota_task_window_ms, g_ota_task_deadline_ms, silent>>
  BY DEF Boots, Returned, TaskInv
<1>2. TypeOK' BY <1>1 DEF TypeOK, NoFeed, superVars, Calls
<1>3. TaskInv' BY <1>1 DEF TaskInv, Armed
<1>4. FeedInv'
  <2>1. WTD_RESET' # 31 BY <1>1 DEF FeedInv, superVars, Never
  <2>. QED BY <1>1, <2>1 DEF FeedInv, superVars, Armed, NoFeed
<1>. QED BY <1>2, <1>3, <1>4

\* The reports, as ReportKeeps wants them.
LEMMA Reports ==
  ASSUME TypeOK
  PROVE  /\ ota_task_wdt_kick => /\ silent' = 0 /\ g_ota_task_window_ms' = WDT_TIMEOUT
                                 /\ g_ota_task_deadline_ms' = (tick + WDT_TIMEOUT) % TickMod
                                 /\ g_ota_task_armed' = g_ota_task_armed
         /\ \A m : ota_task_wdt_busy(m) =>
                                 /\ silent' = 0 /\ g_ota_task_window_ms' = m
                                 /\ g_ota_task_deadline_ms' = (tick + m) % TickMod
                                 /\ g_ota_task_armed' = g_ota_task_armed
         /\ ota_task_wdt_set_window(WDT_TIMEOUT) => ota_task_wdt_kick
BY DEF ota_task_wdt_kick, ota_task_wdt_busy, ota_task_wdt_set_window

\* A kick, then any call under the normal window.
LEMMA KickKeeps ==
  ASSUME WatchdogInv, UNCHANGED <<tick, superVars>>, call # "boot", left = 0, unfed < Dog,
         ota_task_wdt_kick, NEW c \in Calls \ {"boot", "arm", "connect", "erase", "verify"},
         Enter(c), g_hw_active' \in BOOLEAN, unfed' \in {0, unfed}
  PROVE  WatchdogInv'
<1>1. Window(c) = WDT_TIMEOUT BY DEF Window
<1>2. TypeOK BY DEF WatchdogInv
<1>3. /\ silent' = 0 /\ g_ota_task_window_ms' = Window(c)
      /\ g_ota_task_deadline_ms' = (tick + Window(c)) % TickMod
      /\ g_ota_task_armed' = g_ota_task_armed
  BY <1>1, <1>2, Reports
<1>. QED BY <1>3, ReportKeeps

\* A longer call is announced with a window of its own.
LEMMA BusyKeeps ==
  ASSUME WatchdogInv, UNCHANGED <<tick, superVars>>, call # "boot", left = 0, unfed < Dog,
         NEW c \in {"connect", "erase", "verify"}, ota_task_wdt_busy(Window(c)),
         Enter(c), g_hw_active' \in BOOLEAN, c = "erase" => g_hw_active' = HwWorks,
         unfed' \in {0, unfed}
  PROVE  WatchdogInv'
<1>1. c \in Calls \ {"boot", "arm"} BY DEF Calls
<1>2. TypeOK BY DEF WatchdogInv
<1>3. /\ silent' = 0 /\ g_ota_task_window_ms' = Window(c)
      /\ g_ota_task_deadline_ms' = (tick + Window(c)) % TickMod
      /\ g_ota_task_armed' = g_ota_task_armed
  BY <1>2, Reports
<1>. QED BY <1>1, <1>3, ReportKeeps

LEMMA SessionRoundKeeps ==
  ASSUME WatchdogInv, UNCHANGED <<tick, superVars>>, call # "boot", left = 0, unfed < Dog,
         SessionRound
  PROVE  WatchdogInv'
<1>1. CASE StartVerify
  <2>1. /\ ota_task_wdt_busy(Window("verify")) /\ Enter("verify")
        /\ g_hw_active' \in BOOLEAN /\ unfed' = unfed
    BY <1>1, WatchdogAssumption DEF StartVerify, Window, ota_wdt_hw_start
  <2>. QED BY <2>1, BusyKeeps
<1>2. CASE ~StartVerify
  <2>1. /\ ota_task_wdt_kick /\ NoFeed
        /\ Enter("recv") \/ Enter("block") \/ Enter("confirm")
    BY <1>2 DEF SessionRound
  <2>2. \A c \in {"recv", "block", "confirm"} :
          c \in Calls \ {"boot", "arm", "connect", "erase", "verify"}
    BY DEF Calls
  <2>3. g_hw_active' \in BOOLEAN /\ unfed' = unfed
    BY <2>1 DEF NoFeed, WatchdogInv, TypeOK
  <2>. QED BY <2>1, <2>2, <2>3, KickKeeps
<1>. QED BY <1>1, <1>2

\* The chains of calls between two reports are the ones Budget adds up.
LEMMA NoReportKeeps ==
  ASSUME WatchdogInv, UNCHANGED <<tick, superVars>>, left = 0, unfed < Dog,
         NoReport, NoFeed, NEW c, Enter(c),
         \/ call \in {"recv", "beat", "error"} /\ c = "wait"
         \/ call = "recv" /\ c = "beat"
         \/ call \in {"ready", "block"} /\ c = "recv"
         \/ call = "success" /\ c = "commit"
         \/ call = "commit" /\ c = "reboot"
         \/ call \in {"confirm", "ready", "block", "success", "commit"} /\ c = "error"
  PROVE  WatchdogInv'
<1>1. /\ call # "boot" /\ Armed /\ c \in Calls \ {"boot", "arm", "erase"}
      /\ Window(call) = Window(c)
  BY DEF Armed, Calls, Window
<1>2. Budget(call) + Longest(c) <= Budget(c)
  BY WatchdogAssumption DEF Budget, Longest
<1>3. UNCHANGED <<wdtVars, silent, g_hw_active, unfed>> BY DEF NoReport, NoFeed
<1>. QED BY <1>1, <1>2, <1>3, SilentKeeps

LEMMA TaskStepKeeps ==
  ASSUME WatchdogInv, TaskStep
  PROVE  WatchdogInv'
<1>0. UNCHANGED <<tick, superVars>> /\ unfed < Dog BY DEF TaskStep
<1>. DEFINE Kicked == Calls \ {"boot", "arm", "connect", "erase", "verify"}
<1>1. CASE Boots BY <1>0, <1>1, BootsKeeps
<1>2. CASE Arms
  <2>1. /\ call # "boot" /\ left = 0 /\ ota_task_wdt_kick /\ Enter("wait") /\ "wait" \in Kicked
        /\ g_hw_active' \in BOOLEAN /\ unfed' = unfed
    BY <1>2, Reports DEF Arms, Returned, NoFeed, WatchdogInv, TypeOK, Calls
  <2>. QED BY <1>0, <2>1, KickKeeps
<1>3. CASE WaitOver
  <2>1. /\ call # "boot" /\ left = 0 /\ "wait" \in Kicked
        /\ g_hw_active' \in BOOLEAN /\ unfed' = unfed
    BY <1>3 DEF WaitOver, Returned, NoFeed, WatchdogInv, TypeOK, Calls
  <2>2. CASE ota_task_wdt_kick /\ Enter("wait") BY <1>0, <2>1, <2>2, KickKeeps
  <2>3. CASE ota_task_wdt_busy(BUSY_CONNECT) /\ Enter("connect")
    <3>1. Window("connect") = BUSY_CONNECT BY DEF Window
    <3>. QED BY <1>0, <2>1, <2>3, <3>1, BusyKeeps
  <2>. QED BY <1>3, <2>2, <2>3 DEF WaitOver
<1>4. CASE ConnectOver
  <2>1. /\ call # "boot" /\ left = 0 /\ "wait" \in Kicked /\ "hello" \in Kicked
        /\ g_hw_active' \in BOOLEAN /\ unfed' = unfed /\ ota_task_wdt_kick
        /\ Enter("wait") \/ Enter("hello")
    BY <1>4 DEF ConnectOver, Returned, NoFeed, WatchdogInv, TypeOK, Calls
  <2>. QED BY <1>0, <2>1, KickKeeps
<1>5. CASE HelloOver
  <2>1. /\ call # "boot" /\ left = 0 BY <1>5 DEF HelloOver, Returned
  <2>2. CASE SessionRound BY <1>0, <2>1, <2>2, SessionRoundKeeps
  <2>3. CASE ota_task_wdt_kick /\ Enter("wait") /\ NoFeed
    <3>1. "wait" \in Kicked /\ g_hw_active' \in BOOLEAN /\ unfed' = unfed
      BY <2>3 DEF NoFeed, WatchdogInv, TypeOK, Calls
    <3>. QED BY <1>0, <2>1, <2>3, <3>1, KickKeeps
  <2>. QED BY <1>5, <2>2, <2>3 DEF HelloOver
<1>6. CASE RecvOver
  <2>1. call = "recv" /\ left = 0 BY <1>6 DEF RecvOver, Returned
  <2>2. CASE SessionRound BY <1>0, <2>1, <2>2, SessionRoundKeeps
  <2>3. CASE NoReport /\ NoFeed /\ (Enter("wait") \/ Enter("beat"))
    BY <1>0, <2>1, <2>3, NoReportKeeps
  <2>. QED BY <1>6, <2>2, <2>3 DEF RecvOver
<1>7. CASE BeatOver
  <2>1. call = "beat" /\ left = 0 BY <1>7 DEF BeatOver, Returned
  <2>2. CASE SessionRound BY <1>0, <2>1, <2>2, SessionRoundKeeps
  <2>3. CASE NoReport /\ NoFeed /\ Enter("wait") BY <1>0, <2>1, <2>3, NoReportKeeps
  <2>. QED BY <1>7, <2>2, <2>3 DEF BeatOver
<1>8. CASE ConfirmOver
  <2>1. call = "confirm" /\ left = 0 BY <1>8 DEF ConfirmOver, Returned
  <2>2. CASE ota_task_wdt_busy(BUSY_FLASH) /\ ota_wdt_hw_start /\ Enter("erase")
    <3>1. /\ Window("erase") = BUSY_FLASH /\ g_hw_active' = HwWorks /\ HwWorks \in BOOLEAN
          /\ unfed' = unfed
      BY <2>2, WatchdogAssumption DEF Window, ota_wdt_hw_start
    <3>. QED BY <1>0, <2>1, <2>2, <3>1, BusyKeeps
  <2>3. CASE NoReport /\ NoFeed /\ Enter("error") BY <1>0, <2>1, <2>3, NoReportKeeps
  <2>. QED BY <1>8, <2>2, <2>3 DEF ConfirmOver
<1>9. CASE SectorErased
  <2>1. call = "erase" /\ left = 0 /\ unfed' = 0 BY <1>9 DEF SectorErased, Returned
  <2>2. CASE ota_task_wdt_progress /\ Enter("erase") /\ UNCHANGED g_hw_active
    <3>1. g_ota_task_window_ms = Window("erase") /\ g_hw_active = HwWorks
      BY <2>1 DEF WatchdogInv, TaskInv, Armed
    <3>2. ota_task_wdt_busy(Window("erase"))
      BY <2>2, <3>1 DEF ota_task_wdt_progress, ota_task_wdt_busy, ota_task_wdt_set_window
    <3>. QED BY <1>0, <2>1, <2>2, <3>1, <3>2, BusyKeeps, WatchdogAssumption
  <2>3. CASE g_hw_active' = FALSE /\ ota_task_wdt_kick /\ (Enter("ready") \/ Enter("error"))
    <3>1. "ready" \in Kicked /\ "error" \in Kicked BY DEF Calls
    <3>. QED BY <1>0, <2>1, <2>3, <3>1, KickKeeps
  <2>. QED BY <1>9, <2>2, <2>3 DEF SectorErased
<1>10. ASSUME NEW c, NEW next, CallOver(c, next),
              \/ c \in {"ready", "block"} /\ next = "recv"
              \/ c = "success" /\ next = "commit"
              \/ c = "commit" /\ next = "reboot"
       PROVE  WatchdogInv'
  BY <1>0, <1>10, NoReportKeeps DEF CallOver, Returned
<1>11. CASE VerifyOver
  <2>1. /\ call = "verify" /\ left = 0 /\ unfed' = unfed /\ g_hw_active' = FALSE
        /\ ota_task_wdt_kick
        /\ Enter("success") \/ Enter("error")
        /\ "success" \in Kicked /\ "error" \in Kicked
    BY <1>11 DEF VerifyOver, Returned, Calls
  <2>. QED BY <1>0, <2>1, KickKeeps
<1>12. CASE ErrorOver
  BY <1>0, <1>12, NoReportKeeps DEF ErrorOver, Returned
<1>. QED
  BY <1>1, <1>2, <1>3, <1>4, <1>5, <1>6, <1>7, <1>8, <1>9, <1>10, <1>11, <1>12 DEF TaskStep

-------------------------------------------------------------------------------
(* Time, the supervisor and the SP706S. *)

\* The comparison of the clock with the deadline is exact, whatever has wrapped around.
LEMMA VerdictIsExact ==
  ASSUME TypeOK, TaskInv, Armed, silent <= g_ota_task_window_ms + Dog
  PROVE  ota_task_wdt_timed_out <=> silent >= g_ota_task_window_ms
<1>1. /\ TickMod \in Nat \ {0} /\ WDT_TIMEOUT \in Nat /\ Dog \in Nat
      /\ 2 * WDT_TIMEOUT < TickMod /\ 2 * Dog < TickMod
  BY WatchdogAssumption, TimesAssumption
<1>2. /\ g_ota_task_armed /\ g_ota_task_window_ms = Window(call)
      /\ Window(call) \in 1 .. WDT_TIMEOUT
  BY CallFacts DEF TaskInv, Armed, TypeOK
<1>3. PICK x \in Int : x = tick - g_ota_task_deadline_ms BY <1>1 DEF TypeOK
<1>4. PICK past \in Int : past = silent - g_ota_task_window_ms
  BY DEF TypeOK
<1>5. /\ x \in (-TickMod) .. (2 * TickMod - 1) /\ x < TickMod
      /\ past > -TickMod /\ 2 * past < TickMod /\ -2 * past < TickMod
      /\ x - past \in {-TickMod, 0, TickMod}
  <2>1. g_ota_task_deadline_ms - (tick - silent + g_ota_task_window_ms)
          \in {-TickMod, 0, TickMod}
    BY <1>1, <1>2 DEF TaskInv, Deadline, TypeOK
  <2>. QED BY <1>1, <1>2, <1>3, <1>4, <2>1 DEF TypeOK
<1>6. x % TickMod = IF x < 0 THEN x + TickMod ELSE x
  <2>1. x % TickMod = IF x < 0 THEN x + TickMod
                      ELSE IF x < TickMod THEN x ELSE x - TickMod
    BY <1>5, Wraps
  <2>. QED BY <1>5, <2>1
<1>7. PICK m \in Int : m = x % TickMod BY <1>1, <1>6
<1>8. m = IF past < 0 THEN past + TickMod ELSE past BY <1>1, <1>5, <1>6, <1>7 DEF TypeOK
<1>9. ota_task_wdt_timed_out <=> 2 * m < TickMod
  BY <1>2, <1>3, <1>7 DEF ota_task_wdt_timed_out
<1>10. 2 * m < TickMod <=> past >= 0 BY <1>1, <1>5, <1>8
<1>. QED BY <1>4, <1>9, <1>10 DEF TypeOK

LEMMA RoundKeeps ==
  ASSUME ArmPreempted = FALSE, WatchdogInv, SupervisorRound
  PROVE  WatchdogInv'
<1>. USE DEF WatchdogInv
<1>1. /\ UNCHANGED <<tick, wdtVars, g_hw_active, taskVars>> /\ checked' = TRUE
      /\ call # "arm" /\ unfed < Dog /\ unfed \in 0 .. Dog /\ Dog \in Nat \ {0}
      /\ WTD_RESET' = IF ota_task_wdt_timed_out THEN 31 ELSE WTD_RESET
      /\ unfed' = IF WTD_RESET' = 0 THEN 0 ELSE unfed
  BY WatchdogAssumption DEF SupervisorRound, TypeOK
<1>2. WTD_RESET' \in {0, 31} /\ unfed' \in 0 .. Dog
  BY <1>1 DEF TypeOK
<1>3. TypeOK' BY <1>1, <1>2 DEF TypeOK, taskVars, wdtVars
<1>4. TaskInv'
  BY <1>1 DEF TaskInv, taskVars, wdtVars, Armed, Deadline
<1>5. ASSUME Armed
      PROVE  /\ g_ota_task_window_ms \in 1 .. WDT_TIMEOUT /\ silent \in Nat
             /\ WDT_TIMEOUT \in Nat
             /\ left # Never => silent < g_ota_task_window_ms
  <2>1. /\ g_ota_task_window_ms = Window(call) /\ Window(call) \in 1 .. WDT_TIMEOUT
        /\ Budget(call) < Window(call) /\ Budget(call) \in Nat
    BY <1>5, CallFacts DEF TaskInv, TypeOK
  <2>2. left # Never => silent + left <= Budget(call) /\ left \in Nat
    BY <1>5 DEF TaskInv, TypeOK
  <2>. QED BY <2>1, <2>2, WatchdogAssumption DEF TypeOK
<1>6. WTD_RESET' = 31 => left = Never
  <2>. SUFFICES ASSUME left # Never PROVE WTD_RESET' # 31 OBVIOUS
  <2>1. WTD_RESET # 31 BY DEF FeedInv
  <2>2. CASE ~Armed
    <3>1. ~ota_task_wdt_timed_out
      BY <1>1, <2>2 DEF Armed, TaskInv, ota_task_wdt_timed_out
    <3>. QED BY <1>1, <2>1, <3>1
  <2>3. CASE Armed
    <3>1. ~ota_task_wdt_timed_out BY <1>1, <1>5, <2>3, VerdictIsExact
    <3>. QED BY <1>1, <2>1, <3>1
  <2>. QED BY <2>2, <2>3
<1>7. ASSUME Armed, ~g_hw_active
      PROVE  silent <= g_ota_task_window_ms + unfed'
  <2>1. silent <= g_ota_task_window_ms + unfed BY <1>7 DEF FeedInv
  <2>2. silent <= g_ota_task_window_ms + Dog BY <1>1, <1>5, <1>7, <2>1
  <2>3. CASE WTD_RESET' = 0
    <3>1. ~ota_task_wdt_timed_out BY <1>1, <2>3
    <3>2. ~(silent >= g_ota_task_window_ms) BY <1>7, <2>2, <3>1, VerdictIsExact
    <3>. QED BY <1>1, <1>5, <1>7, <2>3, <3>2
  <2>4. CASE WTD_RESET' # 0 BY <1>1, <2>1, <2>4
  <2>. QED BY <2>3, <2>4
<1>8. FeedInv'
  BY <1>1, <1>6, <1>7 DEF FeedInv, taskVars, wdtVars, Armed
<1>. QED BY <1>3, <1>4, <1>8

LEMMA TimeKeeps ==
  ASSUME WatchdogInv, TimePasses
  PROVE  WatchdogInv'
<1>. USE DEF WatchdogInv
<1>0. /\ TickMod \in Nat \ {0} /\ WDT_TIMEOUT \in Nat /\ Dog \in Nat \ {0} /\ Dog > 1
      /\ 2 * WDT_TIMEOUT < TickMod /\ 2 * Dog < TickMod /\ WDT_TIMEOUT + Dog < MaxSilent
      /\ MaxSilent \in Nat
  BY WatchdogAssumption, TimesAssumption
<1>1. /\ left # 0 /\ unfed < Dog
      /\ checked \/ CpuStalled
      /\ left' = IF left = Never THEN Never ELSE left - 1
      /\ silent' = IF silent < MaxSilent THEN silent + 1 ELSE silent
      /\ unfed' = IF g_hw_active THEN 0 ELSE unfed + 1
      /\ checked' = FALSE
      /\ UNCHANGED <<wdtVars, g_hw_active, call, WTD_RESET>>
  BY DEF TimePasses
<1>2. /\ left \in Nat => left' \in Nat /\ left' = left - 1
      /\ left = Never <=> left' = Never
      /\ unfed \in 0 .. Dog /\ silent \in 0 .. MaxSilent
  BY <1>1 DEF TypeOK, Never
<1>3. PICK x \in Int : x = tick + 1 BY DEF TypeOK
<1>4. /\ tick' = IF x < TickMod THEN x ELSE x - TickMod
      /\ tick' \in 0 .. (TickMod - 1)
  <2>1. x \in (-TickMod) .. (2 * TickMod - 1) /\ ~(x < 0) BY <1>0, <1>3 DEF TypeOK
  <2>2. tick' = x % TickMod BY <1>3 DEF TimePasses
  <2>3. /\ x % TickMod = IF x < 0 THEN x + TickMod
                         ELSE IF x < TickMod THEN x ELSE x - TickMod
        /\ x % TickMod \in 0 .. (TickMod - 1)
    BY <2>1, Wraps
  <2>. QED BY <2>1, <2>2, <2>3
<1>5. TypeOK'
  <2>1. left' \in Nat \cup {Never} BY <1>1, <1>2 DEF TypeOK
  <2>2. silent' \in 0 .. MaxSilent /\ unfed' \in 0 .. Dog BY <1>0, <1>1, <1>2
  <2>. QED BY <1>1, <1>4, <2>1, <2>2 DEF TypeOK, wdtVars
<1>6. TaskInv'
  <2>1. call \notin {"boot", "arm"} BY <1>1 DEF TaskInv
  <2>2. g_ota_task_window_ms = Window(call) /\ Window(call) \in 1 .. WDT_TIMEOUT
    BY <2>1, CallFacts DEF TaskInv, Armed, TypeOK
  <2>3. Deadline'
    <3>. SUFFICES ASSUME silent' <= WDT_TIMEOUT + Dog
                  PROVE  g_ota_task_deadline_ms - (tick' - silent' + g_ota_task_window_ms)
                           \in {-TickMod, 0, TickMod}
      BY <1>1 DEF Deadline, wdtVars
    <3>1. silent' = silent + 1 /\ silent <= WDT_TIMEOUT + Dog BY <1>0, <1>1, <1>2
    <3>2. g_ota_task_deadline_ms - (tick - silent + g_ota_task_window_ms)
            \in {-TickMod, 0, TickMod}
      BY <2>1, <3>1 DEF TaskInv, Armed, Deadline
    <3>3. g_ota_task_deadline_ms \in 0 .. (TickMod - 1) /\ tick \in 0 .. (TickMod - 1)
      BY DEF TypeOK
    <3>. QED BY <1>0, <1>2, <1>3, <1>4, <2>2, <3>1, <3>2, <3>3
  <2>4. left' # Never => silent' + left' <= Budget(call)
    <3>. SUFFICES ASSUME left # Never PROVE silent' + left' <= Budget(call) BY <1>2
    <3>1. left \in Nat /\ left' = left - 1 /\ silent + left <= Budget(call)
      BY <1>1, <1>2, <2>1 DEF TaskInv, Armed, TypeOK
    <3>2. Budget(call) \in Nat BY CallFacts DEF TypeOK
    <3>. QED BY <1>0, <1>1, <1>2, <3>1, <3>2
  <2>. QED BY <1>1, <2>1, <2>2, <2>3, <2>4 DEF TaskInv, Armed, wdtVars
<1>7. FeedInv'
  <2>1. WTD_RESET' = 31 => left' = Never BY <1>1, <1>2 DEF FeedInv
  <2>2. Armed' /\ ~g_hw_active' => silent' <= g_ota_task_window_ms' + unfed'
    <3>1. Armed /\ ~g_hw_active => silent <= g_ota_task_window_ms + unfed BY DEF FeedInv
    <3>. QED BY <1>1, <1>2, <3>1 DEF Armed, wdtVars, TypeOK
  <2>3. HwWorks /\ WTD_RESET' = 0 /\ call' # "commit" => unfed' < Dog
    <3>. SUFFICES ASSUME HwWorks, WTD_RESET = 0, call # "commit" PROVE unfed' < Dog
      BY <1>1
    <3>1. CASE checked
      <4>1. unfed = 0 BY <3>1 DEF FeedInv
      <4>. QED BY <1>0, <1>1, <4>1
    <3>2. CASE CpuStalled
      <4>1. g_hw_active BY <3>2 DEF CpuStalled, TaskInv
      <4>. QED BY <1>0, <1>1, <4>1
    <3>. QED BY <1>1, <3>1, <3>2
  <2>. QED BY <1>1, <2>1, <2>2, <2>3 DEF FeedInv
<1>. QED BY <1>5, <1>6, <1>7

LEMMA PowerUpKeeps == PowerUp => WatchdogInv'
<1>. SUFFICES ASSUME PowerUp PROVE WatchdogInv' OBVIOUS
<1>0. /\ TickMod \in Nat \ {0} /\ WDT_TIMEOUT \in Nat /\ MaxSilent \in Nat /\ Dog \in Nat
      /\ 0 \in 0 .. (TickMod - 1) /\ 0 \in 0 .. WDT_TIMEOUT /\ 0 \in 0 .. MaxSilent
      /\ 0 \in 0 .. Dog
  BY WatchdogAssumption
<1>1. TypeOK' BY <1>0 DEF PowerUp, TypeOK, Calls
<1>2. TaskInv' BY DEF PowerUp, TaskInv, Armed
<1>3. FeedInv' BY WatchdogAssumption DEF PowerUp, FeedInv, Armed
<1>. QED BY <1>1, <1>2, <1>3 DEF WatchdogInv

LEMMA InitWatchdog == Init => WatchdogInv
<1>. SUFFICES ASSUME Init PROVE WatchdogInv OBVIOUS
<1>0. /\ TickMod \in Nat \ {0} /\ WDT_TIMEOUT \in Nat /\ MaxSilent \in Nat /\ Dog \in Nat
      /\ 0 \in 0 .. (TickMod - 1) /\ 0 \in 0 .. WDT_TIMEOUT /\ 0 \in 0 .. MaxSilent
      /\ 0 \in 0 .. Dog
  BY WatchdogAssumption
<1>1. TypeOK BY <1>0 DEF Init, TypeOK, Calls
<1>2. TaskInv BY DEF Init, TaskInv, Armed
<1>3. FeedInv BY WatchdogAssumption DEF Init, FeedInv, Armed
<1>. QED BY <1>1, <1>2, <1>3 DEF WatchdogInv

LEMMA WatchdogStep ==
  ASSUME ArmPreempted = FALSE
  PROVE  WatchdogInv /\ [Next]_vars => WatchdogInv'
<1>. SUFFICES ASSUME WatchdogInv, [Next]_vars PROVE WatchdogInv'
  OBVIOUS
<1>1. CASE TaskStep BY <1>1, TaskStepKeeps
<1>2. CASE SupervisorRound BY <1>2, RoundKeeps
<1>3. CASE TimePasses BY <1>3, TimeKeeps
<1>4. CASE Resets BY <1>4, PowerUpKeeps DEF Resets
<1>5. CASE UNCHANGED vars
  BY <1>5 DEF WatchdogInv, TypeOK, TaskInv, FeedInv, Armed, Deadline, vars, wdtVars,
              taskVars, superVars
<1>. QED BY <1>1, <1>2, <1>3, <1>4, <1>5 DEF Next

-------------------------------------------------------------------------------
(***************************************************************************)
(* The state of the OTA watchdog keeps its types.                          *)
(***************************************************************************)
THEOREM WatchdogTypes == Spec => []TypeOK
<1>1. Init => TypeOK BY InitWatchdog DEF WatchdogInv
<1>. QED BY <1>1, TypeStep, PTL DEF Spec

(***************************************************************************)
(* main.c:593: a task whose calls return within their limits is never      *)
(* taken for a stuck one, wherever the 32-bit clock wraps around: only a   *)
(* call that never returns ends the feeding of the SP706S.                 *)
(***************************************************************************)
THEOREM OnlyTheStuckAreReset ==
  ASSUME ArmPreempted = FALSE
  PROVE  Spec => []StuckIsReallyStuck
<1>1. WatchdogInv => StuckIsReallyStuck
  BY DEF WatchdogInv, FeedInv, StuckIsReallyStuck
<1>. QED BY <1>1, InitWatchdog, WatchdogStep, PTL DEF Spec

(***************************************************************************)
(* A task that hangs in any call is found, and the board reset, within the *)
(* window it declared, one round and the SP706S timeout.                   *)
(***************************************************************************)
THEOREM HangsAreFound ==
  ASSUME ArmPreempted = FALSE
  PROVE  Spec => []HangEndsInReset
<1>1. WatchdogInv => HangEndsInReset
  <2>. SUFFICES ASSUME WatchdogInv, g_ota_task_armed, ~g_hw_active
                PROVE  silent <= g_ota_task_window_ms + Dog + 1
    BY DEF HangEndsInReset
  <2>1. /\ silent \in Nat /\ unfed \in Nat /\ unfed <= Dog /\ g_ota_task_window_ms \in Nat
        /\ Dog \in Nat
    BY WatchdogAssumption DEF WatchdogInv, TypeOK
  <2>2. CASE Armed
    <3>1. silent <= g_ota_task_window_ms + unfed BY <2>2 DEF WatchdogInv, FeedInv
    <3>. QED BY <2>1, <3>1
  <2>3. CASE ~Armed
    <3>1. silent = 0 BY <2>3 DEF WatchdogInv, TaskInv, Armed
    <3>. QED BY <2>1, <3>1
  <2>. QED BY <2>2, <2>3
<1>. QED BY <1>1, InitWatchdog, WatchdogStep, PTL DEF Spec

(***************************************************************************)
(* ota_wdt.h:12-19: if TIM7 and DMA feed the SP706S during an erase, no    *)
(* board on which nothing hangs is reset, except by the erase of the       *)
(* BootInfo sector, which nothing feeds.                                   *)
(***************************************************************************)
THEOREM SlotErasesSurvive ==
  ASSUME ArmPreempted = FALSE
  PROVE  Spec => []SlotErasesAreFed
<1>1. WatchdogInv => SlotErasesAreFed
  <2>. SUFFICES ASSUME WatchdogInv, HwWorks, Bitten, call # "commit" PROVE FALSE
    BY DEF SlotErasesAreFed
  <2>1. unfed < Dog /\ unfed >= Dog /\ unfed \in Nat /\ Dog \in Nat
    BY WatchdogAssumption DEF WatchdogInv, FeedInv, Bitten, TypeOK
  <2>. QED BY <2>1
<1>. QED BY <1>1, InitWatchdog, WatchdogStep, PTL DEF Spec
===============================================================================
