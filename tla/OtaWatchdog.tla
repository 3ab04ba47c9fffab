----------------------------- MODULE OtaWatchdog -----------------------------
(***************************************************************************)
(* Who notices when the OTA task hangs.  The task reports to a watchdog of *)
(* its own (User/ota/ota_wdt.c): a deadline, moved on by kick, busy and    *)
(* progress.  App_TaskStart compares the clock with it every round and,    *)
(* once it has passed, stops feeding the SP706S.  While the flash is being *)
(* erased the CPU stands still, and TIM7 with DMA feeds the SP706S.        *)
(*                                                                         *)
(* Time is counted in rounds of the supervisor.  What the task does        *)
(* between two reports is a chain of blocking calls, each with the longest *)
(* time it may take; the clock wraps around at TickMod.                    *)
(***************************************************************************)
EXTENDS Integers

CONSTANTS
  TickMod,        \* 2^32 ms
  WDT_TIMEOUT,    \* OTA_TASK_WDT_TIMEOUT_MS
  BUSY_FLASH,     \* OTA_TASK_BUSY_FLASH_MS
  BUSY_CONNECT,   \* OTA_TASK_BUSY_CONNECT_MS
  CONNECT_MAX,    \* OTA_CONNECT_TIMEOUT_MS
  SEND_MAX,       \* the longest an ota_net_send lasts
  ERASE_MAX,      \* the longest the erase of one sector lasts
  Dog,            \* the SP706S timeout
  HwWorks,        \* TIM7 and DMA pass their self-test on this board
  ArmPreempted,   \* whether a round may fall inside ota_task_wdt_arm
  MaxSilent       \* bound: how long a hanging task is followed

ASSUME WatchdogAssumption ==
  /\ \A n \in {WDT_TIMEOUT, BUSY_FLASH, BUSY_CONNECT, CONNECT_MAX, SEND_MAX, ERASE_MAX, Dog,
               MaxSilent} : n \in Nat \ {0}
  /\ TickMod \in Nat /\ 2 * WDT_TIMEOUT < TickMod
  /\ BUSY_FLASH <= WDT_TIMEOUT /\ BUSY_CONNECT <= WDT_TIMEOUT
  /\ ArmPreempted \in BOOLEAN /\ HwWorks \in BOOLEAN

(***************************************************************************)
(* The windows of ota_config.h:121-181 are longer than what the task may   *)
(* do between two reports; the longest such chain is two sends with the    *)
(* writing of BootInfo between them.  The SP706S waits more than a round,  *)
(* and a hanging task is followed until it must have been found.           *)
(***************************************************************************)
ASSUME TimesAssumption ==
  /\ CONNECT_MAX < BUSY_CONNECT /\ ERASE_MAX < BUSY_FLASH
  /\ 2 * SEND_MAX + ERASE_MAX + 1 < WDT_TIMEOUT
  /\ 1 < Dog /\ 2 * Dog < TickMod /\ WDT_TIMEOUT + Dog < MaxSilent

VARIABLES
  tick,       \* HAL_GetTick()
  g_ota_task_armed, g_ota_task_window_ms, g_ota_task_deadline_ms,
  g_hw_active,    \* TIM7 and DMA are feeding the SP706S
  call, left,     \* the call the task is in, and the time until it returns
  silent,         \* history: time since the task last reported
  WTD_RESET, checked,    \* the supervisor's verdict; it has run at this tick
  unfed           \* time since PF10 last toggled

taskVars  == <<call, left, silent>>
wdtVars   == <<g_ota_task_armed, g_ota_task_window_ms, g_ota_task_deadline_ms>>
superVars == <<WTD_RESET, checked>>
vars == <<tick, wdtVars, g_hw_active, taskVars, superVars, unfed>>

Never == -1    \* the call does not return

\* The longest each call takes when nothing is wrong.
Longest(c) ==
  CASE c = "connect" -> CONNECT_MAX
    [] c \in {"hello", "beat", "confirm", "ready", "success", "error"} -> SEND_MAX
    [] c \in {"erase", "commit"} -> ERASE_MAX
    [] OTHER -> 1

Calls == {"boot", "arm", "wait", "connect", "hello", "recv", "beat", "confirm", "erase", "ready",
          "block", "verify", "success", "commit", "reboot", "error"}

\* The CPU fetches from the flash that is being erased.
CpuStalled == call \in {"erase", "commit"} /\ left # 0

-------------------------------------------------------------------------------
(* The task's reports. *)

\* Mutation: the deadline does not wrap around with the clock.
ota_task_wdt_set_window_wide(ms) ==
  /\ g_ota_task_window_ms' = ms /\ g_ota_task_deadline_ms' = tick + ms
  /\ silent' = 0 /\ UNCHANGED g_ota_task_armed

ota_task_wdt_set_window(ms) ==
  /\ g_ota_task_window_ms' = ms
  /\ g_ota_task_deadline_ms' = (tick + ms) % TickMod
  /\ silent' = 0 /\ UNCHANGED g_ota_task_armed

ota_task_wdt_progress ==
  /\ g_ota_task_deadline_ms' = (tick + g_ota_task_window_ms) % TickMod
  /\ silent' = 0 /\ UNCHANGED <<g_ota_task_armed, g_ota_task_window_ms>>

ota_task_wdt_kick    == ota_task_wdt_set_window(WDT_TIMEOUT)
ota_task_wdt_busy(m) == ota_task_wdt_set_window(m)
NoReport             == UNCHANGED <<wdtVars, silent>>

\* Mutation: the two times are compared as unsigned numbers.
ota_task_wdt_timed_out_unsigned ==
  g_ota_task_armed /\ tick >= g_ota_task_deadline_ms

\* The sign bit of the 32-bit difference.
ota_task_wdt_timed_out ==
  g_ota_task_armed /\ 2 * ((tick - g_ota_task_deadline_ms) % TickMod) < TickMod

-------------------------------------------------------------------------------
(* The task: what it calls next, once the call it is in has returned. *)

\* From here on the task is in call c; it may hang there.
Enter(c) == call' = c /\ left' \in 0 .. Longest(c) \cup {Never}

Returned(c) == call = c /\ left = 0

\* Mutation: the hardware is not started.
ota_wdt_hw_start_missing == UNCHANGED <<g_hw_active, unfed>>

\* If the self-test fails, only the software feeds, after each sector.
ota_wdt_hw_start == g_hw_active' = HwWorks /\ UNCHANGED unfed
NoFeed == UNCHANGED <<g_hw_active, unfed>>

Boots ==
  /\ Returned("boot")
  /\ g_ota_task_armed' = TRUE
  /\ call' = "arm" /\ left' = 0
  /\ NoFeed /\ UNCHANGED <<g_ota_task_window_ms, g_ota_task_deadline_ms, silent>>

Arms ==
  /\ Returned("arm")
  /\ ota_task_wdt_set_window(WDT_TIMEOUT)
  /\ Enter("wait") /\ NoFeed

\* The loop of ota_client_task without a socket.
WaitOver ==
  /\ Returned("wait") /\ NoFeed
  /\ \/ ota_task_wdt_kick /\ Enter("wait")
     \/ ota_task_wdt_busy(BUSY_CONNECT) /\ Enter("connect")

ConnectOver ==
  /\ Returned("connect") /\ NoFeed
  /\ ota_task_wdt_kick
  /\ Enter("wait") \/ Enter("hello")

\* The head of client_session: kick, then the next frame, if there is one.
StartVerify ==
  ota_task_wdt_busy(BUSY_FLASH) /\ ota_wdt_hw_start /\ Enter("verify")
SessionRound ==
  \/ /\ ota_task_wdt_kick /\ NoFeed
     /\ Enter("recv") \/ Enter("block") \/ Enter("confirm")
  \/ StartVerify

HelloOver ==
  /\ Returned("hello")
  /\ SessionRound \/ (ota_task_wdt_kick /\ Enter("wait") /\ NoFeed)

RecvOver ==
  /\ Returned("recv")
  /\ SessionRound \/ (NoReport /\ NoFeed /\ (Enter("wait") \/ Enter("beat")))

BeatOver ==
  /\ Returned("beat")
  /\ SessionRound \/ (NoReport /\ NoFeed /\ Enter("wait"))

\* PUSH_UPDATE: once CONFIRM is out, the sectors are erased one by one.
ConfirmOver ==
  /\ Returned("confirm")
  /\ \/ ota_task_wdt_busy(BUSY_FLASH) /\ ota_wdt_hw_start /\ Enter("erase")
     \/ NoReport /\ NoFeed /\ Enter("error")

SectorErased ==
  /\ Returned("erase")
  /\ unfed' = 0
  /\ \/ ota_task_wdt_progress /\ Enter("erase") /\ UNCHANGED g_hw_active
     \/ /\ g_hw_active' = FALSE
        /\ ota_task_wdt_kick
        /\ Enter("ready") \/ Enter("error")

\* A send, a burst of blocks or the writing of BootInfo, with no report after it.
CallOver(c, next) ==
  /\ Returned(c)
  /\ NoReport /\ NoFeed
  /\ Enter(next) \/ Enter("error")

VerifyOver ==
  /\ Returned("verify")
  /\ g_hw_active' = FALSE /\ UNCHANGED unfed
  /\ ota_task_wdt_kick
  /\ Enter("success") \/ Enter("error")

ErrorOver ==
  /\ Returned("error")
  /\ NoReport /\ NoFeed /\ Enter("wait")

TaskStep ==
  /\ unfed < Dog
  /\ \/ Boots \/ Arms \/ WaitOver \/ ConnectOver \/ HelloOver \/ RecvOver \/ BeatOver
     \/ ConfirmOver \/ SectorErased
     \/ CallOver("ready", "recv") \/ CallOver("block", "recv")
     \/ VerifyOver \/ CallOver("success", "commit") \/ CallOver("commit", "reboot")
     \/ ErrorOver
  /\ UNCHANGED <<tick, superVars>>

-------------------------------------------------------------------------------
(* The supervisor, the SP706S and time. *)

\* App_TaskStart has the highest priority: it runs at every tick, unless the CPU
\* stands still.
\* Mutation: the SP706S is fed whatever the verdict.
SupervisorRound_feeds ==
  /\ unfed < Dog /\ ~checked /\ ~CpuStalled
  /\ call = "arm" => ArmPreempted
  /\ checked' = TRUE
  /\ WTD_RESET' = IF ota_task_wdt_timed_out THEN 31 ELSE WTD_RESET
  /\ unfed' = 0
  /\ UNCHANGED <<tick, wdtVars, g_hw_active, taskVars>>

SupervisorRound ==
  /\ unfed < Dog /\ ~checked /\ ~CpuStalled
  /\ call = "arm" => ArmPreempted
  /\ checked' = TRUE
  /\ WTD_RESET' = IF ota_task_wdt_timed_out THEN 31 ELSE WTD_RESET
  /\ unfed' = IF WTD_RESET' = 0 THEN 0 ELSE unfed
  /\ UNCHANGED <<tick, wdtVars, g_hw_active, taskVars>>

TimePasses ==
  /\ left # 0 /\ (checked \/ CpuStalled) /\ unfed < Dog
  /\ tick' = (tick + 1) % TickMod
  /\ left' = IF left = Never THEN Never ELSE left - 1
  /\ silent' = IF silent < MaxSilent THEN silent + 1 ELSE silent
  /\ unfed' = IF g_hw_active THEN 0 ELSE unfed + 1
  /\ checked' = FALSE
  /\ UNCHANGED <<wdtVars, g_hw_active, call, WTD_RESET>>

PowerUp ==
  /\ tick' = 0
  /\ g_ota_task_armed' = FALSE /\ g_ota_task_window_ms' = 0 /\ g_ota_task_deadline_ms' = 0
  /\ g_hw_active' = FALSE
  /\ call' = "boot" /\ left' = 0 /\ silent' = 0
  /\ WTD_RESET' = 0 /\ checked' = FALSE /\ unfed' = 0

\* The SP706S pulls the reset line, or the task resets the board itself.
Resets == (unfed >= Dog \/ Returned("reboot")) /\ PowerUp

Init ==
  /\ tick = 0
  /\ g_ota_task_armed = FALSE /\ g_ota_task_window_ms = 0 /\ g_ota_task_deadline_ms = 0
  /\ g_hw_active = FALSE
  /\ call = "boot" /\ left = 0 /\ silent = 0
  /\ WTD_RESET = 0 /\ checked = FALSE /\ unfed = 0

Next == TaskStep \/ SupervisorRound \/ TimePasses \/ Resets

Spec == Init /\ [][Next]_vars

-------------------------------------------------------------------------------
TypeOK ==
  /\ tick \in 0 .. (TickMod - 1) /\ g_ota_task_deadline_ms \in 0 .. (TickMod - 1)
  /\ g_ota_task_armed \in BOOLEAN /\ g_ota_task_window_ms \in 0 .. WDT_TIMEOUT
  /\ g_hw_active \in BOOLEAN /\ call \in Calls /\ left \in Nat \cup {Never}
  /\ silent \in 0 .. MaxSilent /\ WTD_RESET \in {0, 31} /\ checked \in BOOLEAN
  /\ unfed \in 0 .. Dog

(***************************************************************************)
(* main.c:593: a task that does not report for so long is really stuck.    *)
(* A task whose calls all return within their limits is never taken for a  *)
(* stuck one, in whatever order it makes them and wherever the clock wraps *)
(* around: the windows it declares cover the calls between two reports.    *)
(***************************************************************************)
StuckIsReallyStuck == WTD_RESET = 31 => left = Never

(***************************************************************************)
(* A task that hangs in any call is found, and the board reset, within the *)
(* window it declared, one round and the SP706S timeout; except while TIM7 *)
(* and DMA feed the SP706S in its place.                                   *)
(***************************************************************************)
HangEndsInReset ==
  g_ota_task_armed /\ ~g_hw_active => silent <= g_ota_task_window_ms + Dog + 1

(***************************************************************************)
(* ota_wdt.h:12-19: erasing a sector takes longer than the SP706S waits,   *)
(* so the hardware feeds it meanwhile.  A board on which nothing hangs is  *)
(* reset by the SP706S neither during an erase nor at any other time, if   *)
(* the hardware feeding passes its self-test.                              *)
(***************************************************************************)
Bitten == unfed >= Dog /\ WTD_RESET = 0 /\ left # Never

HealthyBoardKept == HwWorks => ~Bitten

(***************************************************************************)
(* The same, except for the erase of the BootInfo sector.                  *)
(***************************************************************************)
SlotErasesAreFed == HwWorks /\ Bitten => call = "commit"
===============================================================================
