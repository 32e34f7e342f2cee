------------------------------- MODULE Board -------------------------------
(***************************************************************************)
(* Board::update() of esp3d/board.cpp, the last call of loop(): it moves   *)
(* the printer's reset line, watches the reset button, prints the status   *)
(* and drives the lamps.  Time passes, the button moves and interrupts,    *)
(* the network and the supply voltage change between any two of its steps. *)
(* Which devices there are is the board's: a device that is missing is a   *)
(* NULL pointer, tested before every use.                                  *)
(***************************************************************************)
EXTENDS Devices

CONSTANTS
  Boards,        \* the sets of devices a board may have
  Networks,      \* per board: what WiFi.getMode() and WiFi.status() may tell
  Readings,      \* values analogRead() may return
  Monitor,       \* settings of the voltage monitor that init() has read
  HOLD, GRACE,   \* hold time of the button, delay before the settings go
  RESET, TEST,   \* pulse of the reset line, and of the lamps at the start
  INTERVAL,      \* time between two updates of the status
  ALARM, FAULT, WIFI,  \* cycles of the lamps
  MaxStall,      \* bound: time that one turn of the loop may take
  MaxRequests    \* bound: resets of the printer in a behaviour

ASSUME BoardAssumption ==
  /\ HOLD \in Nat /\ GRACE \in Nat /\ RESET \in Word /\ TEST \in Word
  /\ INTERVAL \in Nat /\ MaxStall \in Nat /\ MaxRequests \in Nat
  /\ {ALARM, FAULT, WIFI} \subseteq Word \ {0, 1}
  /\ Networks \in [Boards -> SUBSET {"off", "ap", "connected", "no_ssid",
                                     "failed", "lost", "connecting"}]

VARIABLES
  now,           \* millis()
  fitted,        \* the devices this board has
  pc,            \* the step of update() that comes next, "loop" outside
  printerReset, ledR, ledB,
  pressed,       \* the pin of the button is active
  buttonTimer, dt,     \* when the button moved last; what update() read
  wifi, reading,
  statusTimer, lastSta, lastVMon, printed,  \* printed: the last M117 line
  stall, wait,   \* time this turn has taken; left of delay()
  held, raced,   \* history: how long pressed; pressed since dt was read
  owed, pulseAge, requests  \* history: time asked for in this pulse, its age

buttonVars == <<pressed, buttonTimer, dt, held, raced>>
statusVars == <<statusTimer, lastSta, lastVMon, printed>>
resetVars  == <<printerReset, owed, pulseAge, requests>>
worldVars  == <<now, fitted, wifi, reading, stall>>
vars == <<pc, ledR, ledB, wait, buttonVars, statusVars, resetVars, worldVars>>

Has(device) == device \in fitted

Lowest(a, b) == IF a < b THEN a ELSE b

(* StatusController::init() starts the lamps; the constructor of the       *)
(* button runs its interrupt handler once.  The lamp of the loop itself,   *)
(* which blinks for ever, is left out.                                     *)
Init ==
  /\ now = 0 /\ fitted \in Boards /\ pc = "loop"
  /\ printerReset = NewDevice
  /\ ledR = IF Has("ledR") THEN pulse(NewDevice, TEST, 0) ELSE NewDevice
  /\ ledB = IF Has("ledB") THEN pulse(NewDevice, TEST, 0) ELSE NewDevice
  /\ pressed \in IF Has("button") THEN BOOLEAN ELSE {FALSE}
  /\ buttonTimer = 0 /\ dt = 0
  /\ wifi \in Networks[fitted] /\ reading \in Readings
  /\ statusTimer = 0 /\ lastSta = "connected" /\ lastVMon = "ok"
  /\ printed = "start"
  /\ stall = 0 /\ wait = 0
  /\ held = 0 /\ raced = FALSE /\ owed = 0 /\ pulseAge = 0 /\ requests = 0

-----------------------------------------------------------------------------
(* The world outside.                                                      *)

Tick ==
  /\ stall < MaxStall \/ wait > 0
  /\ now' = (now + 1) % ClockSize
  /\ stall' = Lowest(stall + 1, MaxStall)
  /\ wait' = IF wait > 0 THEN wait - 1 ELSE 0
  /\ held' = IF pressed THEN Lowest(held + 1, HOLD) ELSE 0
  /\ pulseAge' = IF printerReset.lit THEN Lowest(pulseAge + 1, WordSize) ELSE 0
  /\ UNCHANGED <<pc, ledR, ledB, fitted, wifi, reading, pressed, buttonTimer,
                 dt, raced, statusVars, printerReset, owed, requests>>

(* Mutant: only the release of the button interrupts.                      *)
IsrOnRelease == IF pressed THEN now ELSE buttonTimer

(* The pin changes and its interrupt restarts the timer.                   *)
Isr == now

Edge ==
  /\ Has("button")
  /\ pressed' = ~pressed
  /\ buttonTimer' = Isr
  /\ held' = 0
  /\ raced' = (pc = "pin" /\ ~pressed)
  /\ UNCHANGED <<pc, ledR, ledB, wait, dt, statusVars, resetVars, worldVars>>

Network ==
  /\ wifi' \in Networks[fitted] \ {wifi}
  /\ UNCHANGED <<pc, ledR, ledB, wait, buttonVars, statusVars, resetVars,
                 now, fitted, reading, stall>>

Supply ==
  /\ Has("vmon")
  /\ reading' \in Readings \ {reading}
  /\ UNCHANGED <<pc, ledR, ledB, wait, buttonVars, statusVars, resetVars,
                 now, fitted, wifi, stall>>

(* [ESP450], executed by the other calls of loop().                        *)
ResetPrinter ==
  /\ pc = "loop" /\ Has("reset") /\ requests < MaxRequests
  /\ requests' = requests + 1
  /\ printerReset' = pulse(printerReset, RESET, now)
  /\ owed' = IF printerReset.lit THEN owed + RESET ELSE RESET
  /\ pulseAge' = IF printerReset.lit THEN pulseAge ELSE 0
  /\ UNCHANGED <<pc, ledR, ledB, wait, buttonVars, statusVars, worldVars>>

-----------------------------------------------------------------------------
(* Board::update(), step by step.                                          *)

ResetLine ==
  /\ pc = "loop"
  /\ pc' = IF Has("button") THEN "button" ELSE "status"
  /\ printerReset' = updated(printerReset, now)
  /\ UNCHANGED <<ledR, ledB, wait, buttonVars, statusVars, owed, pulseAge,
                 requests, worldVars>>

(* HoldButton::update(): the age of the last move of the button is read    *)
(* with interrupts off, the pin after they are on again.                   *)
ReadTimer ==
  /\ pc = "button"
  /\ pc' = "pin"
  /\ dt' = getTimeDelta(buttonTimer, now)
  /\ raced' = FALSE
  /\ UNCHANGED <<ledR, ledB, wait, pressed, buttonTimer, held, statusVars,
                 resetVars, worldVars>>

(* The handler is resetSettings(): the lamp, a message, a delay.           *)
ReadPin ==
  /\ pc = "pin"
  /\ IF pressed /\ dt >= HOLD
     THEN /\ pc' = "handler" /\ wait' = GRACE
          /\ ledR' = IF Has("ledR") THEN on(ledR) ELSE ledR
          /\ printed' = "hold_to_clear"
     ELSE pc' = "status" /\ UNCHANGED <<wait, ledR, printed>>
  /\ dt' = 0 /\ raced' = FALSE
  /\ UNCHANGED <<ledB, pressed, buttonTimer, held, statusTimer, lastSta, lastVMon, resetVars,
                 worldVars>>

(* The button was let go: the handler gives up and the timer is restarted. *)
Cancel ==
  /\ pc = "handler" /\ wait = 0 /\ ~pressed
  /\ pc' = "status"
  /\ printed' = "canceled"
  /\ buttonTimer' = now
  /\ UNCHANGED <<ledR, ledB, wait, pressed, dt, held, raced, statusTimer,
                 lastSta, lastVMon, resetVars, worldVars>>

(* Still held: the settings are reset and the module restarts.             *)
Erase ==
  /\ pc = "handler" /\ wait = 0 /\ pressed
  /\ pc' = "restart"
  /\ UNCHANGED <<ledR, ledB, wait, buttonVars, statusVars, resetVars,
                 worldVars>>

(* getWiFiStatus(): what the station reports, and whether it is logged.    *)
Logged == {"connected", "no_ssid", "failed", "lost"}

StaStatus == IF wifi \in Logged \cup {"connecting"} THEN wifi
             ELSE "disconnected"

VMonStatus == IF Has("vmon") THEN getStatus(reading, Monitor) ELSE "ok"

Remember == lastSta' = StaStatus /\ lastVMon' = VMonStatus

(* updateSummary(): a new status of the station is printed, then a new     *)
(* alarm, and both are remembered.                                         *)
Summary ==
  /\ pc = "status"
  /\ IF getTimeDelta(statusTimer, now) > INTERVAL
     THEN /\ pc' = "errorLed"
          /\ printed' = IF VMonStatus # "ok" /\ VMonStatus # lastVMon
                          THEN VMonStatus
                        ELSE IF StaStatus \in Logged /\ StaStatus # lastSta
                          THEN StaStatus
                        ELSE printed
          /\ Remember
     ELSE pc' = "lamps" /\ UNCHANGED <<printed, lastSta, lastVMon>>
  /\ UNCHANGED <<ledR, ledB, wait, buttonVars, statusTimer, resetVars,
                 worldVars>>

(* Mutant: the fault of the network is looked at before the voltage.       *)
ErrorNetworkFirst ==
  CASE wifi \in Logged \ {"connected"} -> blink(ledR, FAULT, now)
    [] wifi \notin Logged \ {"connected"} /\ VMonStatus # "ok" ->
         blink(ledR, ALARM, now)
    [] OTHER -> off(ledR)

Error ==
  IF VMonStatus # "ok" THEN blink(ledR, ALARM, now)
  ELSE IF wifi \in Logged \ {"connected"} THEN blink(ledR, FAULT, now)
  ELSE off(ledR)

(* updateErrorLed(): the voltage is measured again.                        *)
ErrorLed ==
  /\ pc = "errorLed"
  /\ pc' = "wifiLed"
  /\ ledR' = IF Has("ledR") THEN Error ELSE ledR
  /\ UNCHANGED <<ledB, wait, buttonVars, statusVars, resetVars, worldVars>>

(* updateWiFiLed(), and the end of StatusController::update().             *)
WiFiLed ==
  /\ pc = "wifiLed"
  /\ pc' = "lamps"
  /\ ledB' = IF ~Has("ledB") THEN ledB
             ELSE IF wifi = "connected" THEN on(ledB)
             ELSE IF wifi = "ap" THEN blink(ledB, WIFI, now)
             ELSE off(ledB)
  /\ statusTimer' = now
  /\ UNCHANGED <<ledR, wait, buttonVars, lastSta, lastVMon, printed,
                 resetVars, worldVars>>

Lamps ==
  /\ pc = "lamps"
  /\ pc' = "loop"
  /\ ledR' = IF Has("ledR") THEN updated(ledR, now) ELSE ledR
  /\ ledB' = IF Has("ledB") THEN updated(ledB, now) ELSE ledB
  /\ stall' = 0
  /\ UNCHANGED <<wait, buttonVars, statusVars, resetVars, now, fitted, wifi,
                 reading>>

Update == \/ ResetLine \/ ReadTimer \/ ReadPin \/ Cancel \/ Erase
          \/ Summary \/ ErrorLed \/ WiFiLed \/ Lamps

Next == Tick \/ Edge \/ Network \/ Supply \/ ResetPrinter \/ Update

(* loop() is called for ever and every step of it returns; time passes.    *)
Fairness == WF_vars(Update) /\ WF_vars(Tick)

Spec == Init /\ [][Next]_vars /\ Fairness

-----------------------------------------------------------------------------
(* Fields have their types, and a lamp that blinks has a cycle to divide   *)
(* by.                                                                     *)
TypeOK ==
  /\ now \in Clock /\ buttonTimer \in Clock /\ statusTimer \in Clock
  /\ dt \in Clock
  /\ {printerReset, ledR, ledB} \subseteq OutputDevice
  /\ \A d \in {ledR, ledB} : d.mode = "blink" => d._tOn_ms + d._tOff_ms > 1
  /\ pc \in {"loop", "button", "pin", "handler", "restart", "status",
             "errorLed", "wifiLed", "lamps"}
  /\ wait \in 0..GRACE /\ lastVMon \in {"ok", "over", "under"}

(* The settings are put at stake only by a button held for the whole time, *)
(* or by one pressed in the gap between the two readings of                *)
(* HoldButton::update(), where a long rest passes for a long press         *)
(* (devices.cpp:153).                                                      *)
HandlerHeld ==
  [][pc # "handler" /\ pc' = "handler" => held >= HOLD \/ raced]_vars

(* The printer is held in reset for all the time asked for, also when      *)
(* requests overlap, as long as 16 bits can hold the sum (devices.cpp:68). *)
PulseWhole ==
  [][printerReset.lit /\ ~printerReset'.lit
       => pulseAge >= owed \/ owed >= WordSize]_vars

(* The printer is let go in the end, unless the module restarts.           *)
PulseEnds == printerReset.lit ~> ~printerReset.lit \/ pc = "restart"

(* An alarm that lasts reaches the error lamp, whatever the network does,  *)
(* and is the one remembered as announced.                                 *)
AlarmShown ==
  <>[](VMonStatus = "under" /\ Has("ledR"))
    => \/ <>(pc = "restart")
       \/ /\ []<>(ledR.mode = "blink" /\ ledR._tOn_ms = ALARM \div 2)
          /\ <>[](lastVMon = "under")
=============================================================================
