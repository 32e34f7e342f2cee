---------------------------- MODULE Board_proofs ----------------------------
(***************************************************************************)
(* Theorems about Board: the reset handler runs for a held button, and the *)
(* pulse on the printer's reset line is not cut short.  Both compare times *)
(* on a clock that wraps; a difference of two times on it never exceeds    *)
(* the time that has passed, and that is all the proofs need.              *)
(***************************************************************************)
EXTENDS Board, TLAPS

(* Arithmetic modulo: what the two uses of % need.                         *)
LEMMA SmallRemainder ==
  ASSUME NEW n \in Nat \ {0}, NEW a \in 0..(n - 1)
  PROVE  a % n = a
  BY SMT

LEMMA RemainderOfSelf ==
  ASSUME NEW n \in Nat \ {0}
  PROVE  n % n = 0
  BY SMT

(* The clock's next value is on the clock.                                 *)
LEMMA ClockTicks ==
  ASSUME NEW t \in Clock
  PROVE  (t + 1) % ClockSize = IF t = ClockSize - 1 THEN 0 ELSE t + 1
<1>1. ClockSize \in Nat \ {0}
  BY DevicesAssumption
<1>2. CASE t = ClockSize - 1
  BY <1>1, <1>2, RemainderOfSelf DEF Clock
<1>3. CASE t # ClockSize - 1
  BY <1>1, <1>3, SmallRemainder, t + 1 \in 0..(ClockSize - 1) DEF Clock
<1>4. QED
  BY <1>2, <1>3

(* getTimeDelta() without its remainder.                                   *)
LEMMA DeltaIs ==
  ASSUME NEW t0 \in Clock, NEW t \in Clock
  PROVE  getTimeDelta(t0, t) = IF t >= t0 THEN t - t0 ELSE ClockSize - t0 + t
<1>1. ClockSize \in Nat \ {0}
  BY DevicesAssumption
<1>2. CASE t >= t0
  BY <1>2 DEF getTimeDelta
<1>3. CASE ~(t >= t0)
  <2>1. (1 + (ClockSize - 1 - t0) + t) \in 0..(ClockSize - 1)
    BY <1>1, <1>3 DEF Clock
  <2>2. (1 + (ClockSize - 1 - t0) + t) % ClockSize = 1 + (ClockSize - 1 - t0) + t
    BY <1>1, <2>1, SmallRemainder
  <2>3. QED
    BY <1>1, <1>3, <2>2 DEF getTimeDelta, Clock
<1>4. QED
  BY <1>2, <1>3

(* A delta is a time on the clock, and none at the start.                  *)
LEMMA DeltaType ==
  ASSUME NEW t0 \in Clock, NEW t \in Clock
  PROVE  getTimeDelta(t0, t) \in Clock /\ getTimeDelta(t, t) = 0
<1>1. ClockSize \in Nat \ {0}
  BY DevicesAssumption
<1>2. QED
  BY <1>1, DeltaIs DEF Clock

(* A tick makes a delta larger by one at most: it may wrap, not leap.      *)
LEMMA DeltaGrows ==
  ASSUME NEW t0 \in Clock, NEW t \in Clock
  PROVE  /\ (t + 1) % ClockSize \in Clock
         /\ getTimeDelta(t0, (t + 1) % ClockSize) <= getTimeDelta(t0, t) + 1
<1> DEFINE u == (t + 1) % ClockSize
<1>1. ClockSize \in Nat \ {0}
  BY DevicesAssumption
<1>2. u = IF t = ClockSize - 1 THEN 0 ELSE t + 1
  BY ClockTicks
<1>3. u \in Clock
  BY <1>1, <1>2 DEF Clock
<1>4. getTimeDelta(t0, u) = IF u >= t0 THEN u - t0 ELSE ClockSize - t0 + u
  BY <1>3, DeltaIs
<1>5. getTimeDelta(t0, t) = IF t >= t0 THEN t - t0 ELSE ClockSize - t0 + t
  BY DeltaIs
<1> HIDE DEF u
<1>6. getTimeDelta(t0, u) <= getTimeDelta(t0, t) + 1
  BY <1>1, <1>2, <1>4, <1>5 DEF Clock
<1>7. QED
  BY <1>3, <1>6 DEF u

-----------------------------------------------------------------------------
(* The button.                                                             *)

(* A button that is held has been held for at least as long as its timer   *)
(* says, and as update() has read, unless it was pressed since.            *)
HeldInv ==
  /\ now \in Clock /\ buttonTimer \in Clock /\ dt \in Clock /\ held \in Nat
  /\ pressed => held >= HOLD \/ getTimeDelta(buttonTimer, now) <= held
  /\ pc = "pin" /\ pressed => raced \/ held >= HOLD \/ dt <= held

LEMMA HeldInit == Init => HeldInv
<1> SUFFICES ASSUME Init PROVE HeldInv
  OBVIOUS
<1>1. 0 \in Clock
  BY DevicesAssumption DEF Clock
<1>2. getTimeDelta(0, 0) = 0
  BY <1>1, DeltaType
<1>3. QED
  BY <1>1, <1>2 DEF Init, HeldInv

LEMMA HeldTick == HeldInv /\ Tick => HeldInv'
<1> SUFFICES ASSUME HeldInv, Tick PROVE HeldInv'
  OBVIOUS
<1>1. /\ now' \in Clock
      /\ getTimeDelta(buttonTimer, now') <= getTimeDelta(buttonTimer, now) + 1
  BY DeltaGrows DEF HeldInv, Tick
<1>2. getTimeDelta(buttonTimer, now) \in Nat /\ getTimeDelta(buttonTimer, now') \in Nat
  BY <1>1, DeltaType DEF HeldInv, Clock
<1>3. CASE pressed
  <2>1. held' = Lowest(held + 1, HOLD) /\ UNCHANGED <<pc, pressed, buttonTimer, dt, raced>>
    BY <1>3 DEF Tick
  <2>2. held' \in Nat /\ (held >= HOLD => held' >= HOLD) /\ (held' >= HOLD \/ held' = held + 1)
    BY <2>1, BoardAssumption DEF HeldInv, Lowest
  <2>3. held' >= HOLD \/ getTimeDelta(buttonTimer, now') <= held'
    BY <1>1, <1>2, <1>3, <2>2, BoardAssumption DEF HeldInv
  <2>4. pc = "pin" => raced \/ held' >= HOLD \/ dt <= held'
    BY <1>3, <2>2, BoardAssumption DEF HeldInv, Clock
  <2>5. QED
    BY <1>1, <2>1, <2>2, <2>3, <2>4 DEF HeldInv
<1>4. CASE ~pressed
  BY <1>1, <1>4 DEF HeldInv, Tick
<1>5. QED
  BY <1>3, <1>4

LEMMA HeldEdge == HeldInv /\ Edge => HeldInv'
<1> SUFFICES ASSUME HeldInv, Edge PROVE HeldInv'
  OBVIOUS
<1>1. getTimeDelta(now, now) = 0
  BY DeltaType DEF HeldInv
<1>2. /\ now' = now /\ buttonTimer' = now /\ dt' = dt /\ held' = 0 /\ pc' = pc
      /\ pressed' = ~pressed
      /\ raced' = (pc = "pin" /\ ~pressed)
  BY DEF Edge, Isr, worldVars
<1>3. now' \in Clock /\ buttonTimer' \in Clock /\ dt' \in Clock /\ held' \in Nat
  BY <1>2 DEF HeldInv
<1>4. getTimeDelta(buttonTimer', now') <= held'
  BY <1>1, <1>2
<1>5. pc' = "pin" /\ pressed' => raced'
  BY <1>2
<1>6. QED
  BY <1>3, <1>4, <1>5 DEF HeldInv

LEMMA HeldUpdate ==
  HeldInv /\ (Network \/ Supply \/ ResetPrinter \/ Update \/ UNCHANGED vars) => HeldInv'
<1> SUFFICES ASSUME HeldInv,
                    Network \/ Supply \/ ResetPrinter \/ Update \/ UNCHANGED vars
             PROVE  HeldInv'
  OBVIOUS
<1>1. CASE ReadTimer
  <2>1. getTimeDelta(buttonTimer, now) \in Clock
    BY DeltaType DEF HeldInv
  <2>2. QED
    BY <1>1, <2>1 DEF HeldInv, ReadTimer, worldVars
<1>2. CASE ReadPin
  BY <1>2, DevicesAssumption DEF HeldInv, ReadPin, worldVars, Clock
<1>3. CASE Cancel
  BY <1>3 DEF HeldInv, Cancel, worldVars
<1>4. CASE Network
  BY <1>4 DEF HeldInv, Network, buttonVars
<1>5. CASE Supply
  BY <1>5 DEF HeldInv, Supply, buttonVars
<1>6. CASE ResetPrinter
  BY <1>6 DEF HeldInv, ResetPrinter, buttonVars, worldVars
<1>7. CASE ResetLine
  BY <1>7 DEF HeldInv, ResetLine, buttonVars, worldVars
<1>8. CASE Erase
  BY <1>8 DEF HeldInv, Erase, buttonVars, worldVars
<1>9. CASE Summary
  BY <1>9 DEF HeldInv, Summary, buttonVars, worldVars
<1>10. CASE ErrorLed
  BY <1>10 DEF HeldInv, ErrorLed, buttonVars, worldVars
<1>11. CASE WiFiLed
  BY <1>11 DEF HeldInv, WiFiLed, buttonVars, worldVars
<1>12. CASE Lamps
  BY <1>12 DEF HeldInv, Lamps, buttonVars
<1>13. CASE UNCHANGED vars
  BY <1>13 DEF HeldInv, vars, buttonVars, worldVars
<1>14. QED
  BY <1>1, <1>2, <1>3, <1>4, <1>5, <1>6, <1>7, <1>8, <1>9, <1>10, <1>11, <1>12,
     <1>13 DEF Update

(* Only update() calls the handler, of a button that is pressed and has    *)
(* not moved for HOLD.                                                     *)
LEMMA HeldHandler ==
  HeldInv /\ [Next]_vars /\ pc # "handler" /\ pc' = "handler"
    => held >= HOLD \/ raced
<1> SUFFICES ASSUME HeldInv, [Next]_vars, pc # "handler", pc' = "handler"
             PROVE  held >= HOLD \/ raced
  OBVIOUS
<1>1. ReadPin
  BY DEF Next, Update, Tick, Edge, Network, Supply, ResetPrinter, ResetLine,
         ReadTimer, Cancel, Erase, Summary, ErrorLed, WiFiLed, Lamps, vars
<1>2. pressed /\ dt >= HOLD /\ pc = "pin"
  BY <1>1 DEF ReadPin
<1>3. raced \/ held >= HOLD \/ dt <= held
  BY <1>2 DEF HeldInv
<1>4. CASE dt <= held
  BY <1>2, <1>4, BoardAssumption DEF HeldInv, Clock
<1>5. QED
  BY <1>3, <1>4

(* The handler of the reset button runs only for a button held for the     *)
(* whole time, or pressed between the two readings of HoldButton::update() *)
(* (devices.cpp:145), however the clock wraps.                             *)
THEOREM HandlerHeldAlways == Spec => HandlerHeld
<1>1. Init => HeldInv
  BY HeldInit
<1>2. HeldInv /\ [Next]_vars => HeldInv'
  BY HeldTick, HeldEdge, HeldUpdate DEF Next
<1>3. HeldInv /\ [Next]_vars
        => [pc # "handler" /\ pc' = "handler" => held >= HOLD \/ raced]_vars
  BY HeldHandler
<1>4. QED
  BY <1>1, <1>2, <1>3, PTL DEF Spec, HandlerHeld

-----------------------------------------------------------------------------
(* The pulse.                                                              *)

(* A device that does not blink: update() ends a pulse that is over.       *)
LEMMA UpdatedPulse ==
  ASSUME NEW d \in OutputDevice, d.mode # "blink", NEW t \in Clock
  PROVE  updated(d, t) = IF d.mode = "pulse" /\ getTimeDelta(d.timer, t) >= d._tOn_ms
                         THEN NewDevice ELSE d
  BY DEF updated, off

LEMMA WordType ==
  ASSUME NEW a \in Int
  PROVE  a % WordSize \in Word
<1>1. WordSize \in Nat \ {0}
  BY DevicesAssumption
<1>2. QED
  BY <1>1 DEF Word

LEMMA NewDeviceType == NewDevice \in OutputDevice
<1>1. 0 \in Word /\ 0 \in Clock
  BY DevicesAssumption DEF Word, Clock
<1>2. QED
  BY <1>1 DEF NewDevice, OutputDevice

LEMMA PulseType ==
  ASSUME NEW d \in OutputDevice, NEW p \in Word, NEW t \in Clock
  PROVE  pulse(d, p, t) \in OutputDevice
<1>1. CASE d.mode = "pulse"
  <2>1. (d._tOn_ms + p) % WordSize \in Word
    <3>1. d._tOn_ms + p \in Int
      BY DevicesAssumption DEF OutputDevice, Word
    <3>2. QED
      BY <3>1, WordType
  <2>2. QED
    BY <1>1, <2>1 DEF pulse, OutputDevice
<1>2. CASE d.mode # "pulse"
  BY <1>2 DEF pulse, OutputDevice
<1>3. QED
  BY <1>1, <1>2

(* The reset line is on exactly during a pulse, which lasts for the sum of *)
(* what was asked for while 16 bits hold the sum, and is at least as old   *)
(* as its timer says.                                                      *)
PulseInv ==
  /\ now \in Clock /\ printerReset \in OutputDevice
  /\ owed \in Nat /\ pulseAge \in Nat
  /\ printerReset.mode # "blink"
  /\ printerReset.mode = "pulse" <=> printerReset.lit = TRUE
  /\ printerReset.mode = "pulse" =>
       /\ owed < WordSize => printerReset._tOn_ms = owed
       /\ pulseAge >= WordSize \/ getTimeDelta(printerReset.timer, now) <= pulseAge

LEMMA PulseInit == Init => PulseInv
<1> SUFFICES ASSUME Init PROVE PulseInv
  OBVIOUS
<1>1. 0 \in Clock
  BY DevicesAssumption DEF Clock
<1>2. QED
  BY <1>1, NewDeviceType DEF Init, PulseInv, NewDevice

LEMMA PulseTick == PulseInv /\ Tick => PulseInv'
<1> SUFFICES ASSUME PulseInv, Tick PROVE PulseInv'
  OBVIOUS
<1>1. printerReset.timer \in Clock
  BY DEF PulseInv, OutputDevice
<1>2. /\ now' \in Clock
      /\ getTimeDelta(printerReset.timer, now')
           <= getTimeDelta(printerReset.timer, now) + 1
  BY <1>1, DeltaGrows DEF PulseInv, Tick
<1>3. /\ getTimeDelta(printerReset.timer, now) \in Nat
      /\ getTimeDelta(printerReset.timer, now') \in Nat
  <2>1. now \in Clock
    BY DEF PulseInv
  <2>2. /\ getTimeDelta(printerReset.timer, now) \in Clock
        /\ getTimeDelta(printerReset.timer, now') \in Clock
    BY <1>1, <1>2, <2>1, DeltaType
  <2>3. QED
    BY <2>2, DevicesAssumption DEF Clock
<1>4. printerReset' = printerReset /\ owed' = owed
  BY DEF Tick
<1>5. pulseAge' = IF printerReset.lit THEN Lowest(pulseAge + 1, WordSize) ELSE 0
  BY DEF Tick
<1>6. pulseAge' \in Nat
  BY <1>5, DevicesAssumption DEF Lowest, PulseInv
<1>7. printerReset.mode = "pulse" =>
        pulseAge' >= WordSize \/ getTimeDelta(printerReset.timer, now') <= pulseAge'
  <2> SUFFICES ASSUME printerReset.mode = "pulse"
               PROVE  \/ pulseAge' >= WordSize
                      \/ getTimeDelta(printerReset.timer, now') <= pulseAge'
    OBVIOUS
  <2>1. printerReset.lit
    BY DEF PulseInv
  <2>2. pulseAge' = Lowest(pulseAge + 1, WordSize)
    BY <1>5, <2>1
  <2>3. pulseAge >= WordSize \/ getTimeDelta(printerReset.timer, now) <= pulseAge
    BY DEF PulseInv
  <2>4. QED
    BY <1>2, <1>3, <2>2, <2>3, DevicesAssumption DEF Lowest, PulseInv
<1>8. QED
  BY <1>2, <1>4, <1>6, <1>7 DEF PulseInv

LEMMA PulseRequest == PulseInv /\ ResetPrinter => PulseInv'
<1> SUFFICES ASSUME PulseInv, ResetPrinter PROVE PulseInv'
  OBVIOUS
<1>1. /\ now' = now /\ printerReset' = pulse(printerReset, RESET, now)
      /\ owed' = IF printerReset.lit THEN owed + RESET ELSE RESET
      /\ pulseAge' = IF printerReset.lit THEN pulseAge ELSE 0
  BY DEF ResetPrinter, worldVars
<1>2. RESET \in Word /\ RESET \in Nat
  BY BoardAssumption, DevicesAssumption DEF Word
<1>3. printerReset' \in OutputDevice
  BY <1>1, <1>2, PulseType DEF PulseInv
<1>4. CASE printerReset.mode = "pulse"
  <2>1. printerReset.lit = TRUE
    BY <1>4 DEF PulseInv
  <2>2. owed' = owed + RESET /\ pulseAge' = pulseAge
    BY <1>1, <2>1
  <2>3. printerReset' = [printerReset EXCEPT !._tOn_ms = (@ + RESET) % WordSize]
    BY <1>1, <1>4 DEF pulse
  <2>4. /\ printerReset'.mode = "pulse" /\ printerReset'.lit = TRUE
        /\ printerReset'.timer = printerReset.timer
        /\ printerReset'._tOn_ms = (printerReset._tOn_ms + RESET) % WordSize
    BY <1>4, <2>1, <2>3 DEF PulseInv, OutputDevice
  <2>5. ASSUME owed' < WordSize
        PROVE  printerReset'._tOn_ms = owed'
    <3>1. owed < WordSize /\ owed + RESET \in 0..(WordSize - 1)
      BY <1>2, <2>2, <2>5, DevicesAssumption DEF PulseInv
    <3>2. printerReset._tOn_ms = owed
      BY <1>4, <3>1 DEF PulseInv
    <3>3. (owed + RESET) % WordSize = owed + RESET
      BY <3>1, SmallRemainder, DevicesAssumption
    <3>4. QED
      BY <2>2, <2>4, <3>2, <3>3
  <2>6. pulseAge' >= WordSize \/ getTimeDelta(printerReset'.timer, now') <= pulseAge'
    BY <1>1, <1>4, <2>2, <2>4 DEF PulseInv
  <2>7. owed' \in Nat /\ pulseAge' \in Nat
    BY <1>2, <2>2 DEF PulseInv
  <2>8. QED
    BY <1>1, <1>3, <2>4, <2>5, <2>6, <2>7 DEF PulseInv
<1>5. CASE printerReset.mode # "pulse"
  <2>1. printerReset.lit # TRUE
    BY <1>5 DEF PulseInv
  <2>2. printerReset.lit \in BOOLEAN
    BY DEF PulseInv, OutputDevice
  <2>3. owed' = RESET /\ pulseAge' = 0
    BY <1>1, <2>1, <2>2
  <2>4. printerReset' = [printerReset EXCEPT !.mode = "pulse", !.lit = TRUE,
                                             !._tOn_ms = RESET, !.timer = now]
    BY <1>1, <1>5 DEF pulse
  <2>5. /\ printerReset'.mode = "pulse" /\ printerReset'.lit = TRUE
        /\ printerReset'.timer = now /\ printerReset'._tOn_ms = RESET
    BY <2>4 DEF PulseInv, OutputDevice
  <2>6. getTimeDelta(printerReset'.timer, now') = 0
    BY <1>1, <2>5, DeltaType DEF PulseInv
  <2>7. QED
    BY <1>1, <1>2, <1>3, <2>3, <2>5, <2>6 DEF PulseInv
<1>6. QED
  BY <1>4, <1>5

LEMMA PulseLine == PulseInv /\ ResetLine => PulseInv'
<1> SUFFICES ASSUME PulseInv, ResetLine PROVE PulseInv'
  OBVIOUS
<1>1. /\ now' = now /\ owed' = owed /\ pulseAge' = pulseAge
      /\ printerReset' = updated(printerReset, now)
  BY DEF ResetLine, worldVars
<1>2. printerReset' = NewDevice \/ printerReset' = printerReset
  BY <1>1, UpdatedPulse DEF PulseInv
<1>3. CASE printerReset' = NewDevice
  <2>1. printerReset'.mode = "const" /\ printerReset'.lit = FALSE
    BY <1>3 DEF NewDevice
  <2>2. QED
    BY <1>1, <1>3, <2>1, NewDeviceType DEF PulseInv
<1>4. CASE printerReset' = printerReset
  BY <1>1, <1>4 DEF PulseInv
<1>5. QED
  BY <1>2, <1>3, <1>4

(* All other steps leave the reset line and the clock alone.               *)
PulseSame == UNCHANGED <<now, printerReset, owed, pulseAge>>

LEMMA PulseOthers ==
  ASSUME [Next]_vars, ~Tick, ~ResetPrinter, ~ResetLine
  PROVE  PulseSame
<1>1. CASE Edge
  BY <1>1 DEF Edge, PulseSame, worldVars, resetVars
<1>2. CASE Network
  BY <1>2 DEF Network, PulseSame, resetVars
<1>3. CASE Supply
  BY <1>3 DEF Supply, PulseSame, resetVars
<1>4. CASE ReadTimer
  BY <1>4 DEF ReadTimer, PulseSame, worldVars, resetVars
<1>5. CASE ReadPin
  BY <1>5 DEF ReadPin, PulseSame, worldVars, resetVars
<1>6. CASE Cancel \/ Erase
  BY <1>6 DEF Cancel, Erase, PulseSame, worldVars, resetVars
<1>7. CASE Summary
  BY <1>7 DEF Summary, PulseSame, worldVars, resetVars
<1>8. CASE ErrorLed
  BY <1>8 DEF ErrorLed, PulseSame, worldVars, resetVars
<1>9. CASE WiFiLed
  BY <1>9 DEF WiFiLed, PulseSame, worldVars, resetVars
<1>10. CASE Lamps
  BY <1>10 DEF Lamps, PulseSame, resetVars
<1>11. CASE UNCHANGED vars
  BY <1>11 DEF vars, PulseSame, worldVars, resetVars
<1>12. QED
  BY <1>1, <1>2, <1>3, <1>4, <1>5, <1>6, <1>7, <1>8, <1>9, <1>10, <1>11
     DEF Next, Update

LEMMA PulseEnd ==
  PulseInv /\ [Next]_vars /\ printerReset.lit /\ ~printerReset'.lit
    => pulseAge >= owed \/ owed >= WordSize
<1> SUFFICES ASSUME PulseInv, [Next]_vars, printerReset.lit, ~printerReset'.lit
             PROVE  pulseAge >= owed \/ owed >= WordSize
  OBVIOUS
<1>1. printerReset.lit \in BOOLEAN /\ printerReset.timer \in Clock
  BY DEF PulseInv, OutputDevice
<1>2. printerReset.mode = "pulse"
  BY <1>1 DEF PulseInv
<1>3. ~Tick
  BY DEF Tick
<1>4. ~ResetPrinter
  <2>1. SUFFICES ASSUME ResetPrinter PROVE FALSE
    OBVIOUS
  <2>2. printerReset' = [printerReset EXCEPT !._tOn_ms = (@ + RESET) % WordSize]
    BY <1>2, <2>1 DEF ResetPrinter, pulse
  <2>3. printerReset'.lit = printerReset.lit
    BY <2>2 DEF PulseInv, OutputDevice
  <2>4. QED
    BY <2>3
<1>5. printerReset' # printerReset
  OBVIOUS
<1>6. ResetLine
  BY <1>3, <1>4, <1>5, PulseOthers DEF PulseSame
<1>7. getTimeDelta(printerReset.timer, now) >= printerReset._tOn_ms
  BY <1>5, <1>6, UpdatedPulse DEF ResetLine, PulseInv
<1>8. getTimeDelta(printerReset.timer, now) \in Nat
  BY <1>1, DeltaType DEF PulseInv, Clock
<1>9. CASE owed < WordSize
  BY <1>2, <1>7, <1>8, <1>9, DevicesAssumption DEF PulseInv
<1>10. QED
  BY <1>9, DevicesAssumption DEF PulseInv

(* The printer is held in reset for all the time asked for, also when      *)
(* requests overlap and the clock wraps, as long as 16 bits can hold the   *)
(* sum (GpioOutputDevice::pulse and update, devices.cpp:64).               *)
THEOREM PulseWholeAlways == Spec => PulseWhole
<1>1. Init => PulseInv
  BY PulseInit
<1>2. PulseInv /\ [Next]_vars => PulseInv'
  <2>1. ASSUME PulseInv, PulseSame PROVE PulseInv'
    BY <2>1 DEF PulseInv, PulseSame
  <2>2. QED
    BY <2>1, PulseTick, PulseRequest, PulseLine, PulseOthers
<1>3. PulseInv /\ [Next]_vars
        => [printerReset.lit /\ ~printerReset'.lit
              => pulseAge >= owed \/ owed >= WordSize]_vars
  BY PulseEnd
<1>4. QED
  BY <1>1, <1>2, <1>3, PTL DEF Spec, PulseWhole

-----------------------------------------------------------------------------
(* Types.                                                                  *)

(* A device, and if it blinks its cycle is long enough to divide by.       *)
Device == {d \in OutputDevice : d.mode = "blink" => d._tOn_ms + d._tOff_ms > 1}

LEMMA ConstType ==
  ASSUME NEW d \in Device
  PROVE  on(d) \in Device /\ off(d) \in Device /\ NewDevice \in Device
<1>1. NewDevice \in OutputDevice
  BY NewDeviceType
<1>2. on(d) \in OutputDevice /\ on(d).mode = "const"
  BY <1>1 DEF on, NewDevice, OutputDevice
<1>3. NewDevice.mode = "const"
  BY DEF NewDevice
<1>4. QED
  BY <1>1, <1>2, <1>3 DEF Device, off

LEMMA BlinkType ==
  ASSUME NEW d \in Device, NEW c \in Word \ {0, 1}, NEW t \in Clock
  PROVE  blink(d, c, t) \in Device
<1> DEFINE b == [mode |-> "blink", lit |-> TRUE, _tOn_ms |-> c \div 2,
                 _tOff_ms |-> c - (c \div 2), timer |-> t]
<1>1. c \div 2 \in Word /\ c - (c \div 2) \in Word /\ (c \div 2) + (c - (c \div 2)) > 1
  BY DevicesAssumption DEF Word
<1>2. b \in OutputDevice
  BY <1>1 DEF OutputDevice
<1>3. b._tOn_ms + b._tOff_ms > 1
  BY <1>1
<1>4. b \in Device
  BY <1>2, <1>3 DEF Device
<1>5. blink(d, c, t) = d \/ blink(d, c, t) = b
  BY DEF blink
<1>6. QED
  BY <1>4, <1>5

LEMMA PulseDevice ==
  ASSUME NEW d \in Device, NEW p \in Word, NEW t \in Clock
  PROVE  pulse(d, p, t) \in Device
<1>1. pulse(d, p, t) \in OutputDevice
  BY PulseType DEF Device
<1>2. pulse(d, p, t).mode = "pulse"
  BY DEF pulse, Device, OutputDevice
<1>3. QED
  BY <1>1, <1>2 DEF Device

LEMMA UpdatedType ==
  ASSUME NEW d \in Device, NEW t \in Clock
  PROVE  updated(d, t) \in Device
<1>1. CASE d.mode # "blink"
  BY <1>1, UpdatedPulse, ConstType DEF Device
<1>2. CASE d.mode = "blink"
  <2> DEFINE dt1    == getTimeDelta(d.timer, t)
             tCycle == d._tOn_ms + d._tOff_ms
             lit1   == dt1 % tCycle < d._tOn_ms
             timer1 == adjustStart(d.timer, dt1 - (dt1 % tCycle))
  <2>1. /\ d \in OutputDevice /\ d.timer \in Clock /\ tCycle \in Nat \ {0}
    BY <1>2, DevicesAssumption DEF Device, OutputDevice, Word
  <2>2. dt1 \in Nat
    BY <2>1, DeltaType DEF Clock
  <2> HIDE DEF dt1, tCycle
  <2>3. dt1 % tCycle \in Int
    BY <2>1, <2>2
  <2>4. d.timer + (dt1 - (dt1 % tCycle)) \in Int
    BY <2>1, <2>2, <2>3 DEF Clock
  <2>5. timer1 \in Clock
    <3>1. ClockSize \in Nat \ {0}
      BY DevicesAssumption
    <3>2. QED
      BY <2>4, <3>1 DEF adjustStart, Clock
  <2>6. lit1 \in BOOLEAN
    OBVIOUS
  <2>7. updated(d, t) = [d EXCEPT !.lit = lit1, !.timer = timer1]
    BY <1>2 DEF updated, dt1, tCycle
  <2> HIDE DEF lit1, timer1
  <2>8. updated(d, t) \in OutputDevice
    BY <2>1, <2>5, <2>6, <2>7 DEF OutputDevice
  <2>9. /\ updated(d, t)._tOn_ms = d._tOn_ms
        /\ updated(d, t)._tOff_ms = d._tOff_ms
    BY <2>1, <2>7 DEF OutputDevice
  <2>10. QED
    BY <1>2, <2>8, <2>9 DEF Device
<1>3. QED
  BY <1>1, <1>2

(* The two parts of TypeOK.                                                *)
TimesOK == now \in Clock /\ buttonTimer \in Clock /\ statusTimer \in Clock /\ dt \in Clock

DevicesOK == printerReset \in Device /\ ledR \in Device /\ ledB \in Device

FlowOK ==
  /\ pc \in {"loop", "button", "pin", "handler", "restart", "status",
             "errorLed", "wifiLed", "lamps"}
  /\ wait \in 0..GRACE /\ lastVMon \in {"ok", "over", "under"}

(* Inductive as it stands; the reset line is a device like the lamps.      *)
TypeInv == TimesOK /\ DevicesOK /\ FlowOK

LEMMA TypeInvType == TypeInv => TypeOK
  BY DEF TypeInv, TimesOK, DevicesOK, FlowOK, TypeOK, Device

LEMMA TypeInit == Init => TypeInv
<1> SUFFICES ASSUME Init PROVE TypeInv
  OBVIOUS
<1>1. 0 \in Clock
  BY DevicesAssumption DEF Clock
<1>2. NewDevice \in Device
  BY NewDeviceType DEF Device, NewDevice
<1>3. pulse(NewDevice, TEST, 0) \in Device
  BY <1>1, <1>2, PulseDevice, BoardAssumption
<1>4. DevicesOK
  BY <1>2, <1>3 DEF Init, DevicesOK
<1>5. QED
  BY <1>1, <1>4, BoardAssumption DEF Init, TypeInv, TimesOK, FlowOK

LEMMA TimesStep == TimesOK /\ [Next]_vars => TimesOK'
<1> SUFFICES ASSUME TimesOK, [Next]_vars PROVE TimesOK'
  OBVIOUS
<1>1. CASE Tick
  BY <1>1, DeltaGrows DEF Tick, TimesOK, statusVars
<1>2. CASE Edge
  BY <1>2 DEF Edge, Isr, TimesOK, statusVars, worldVars
<1>3. CASE ReadTimer
  BY <1>3, DeltaType DEF ReadTimer, TimesOK, statusVars, worldVars
<1>4. CASE ReadPin
  BY <1>4, DevicesAssumption DEF ReadPin, TimesOK, worldVars, Clock
<1>5. CASE Cancel
  BY <1>5 DEF Cancel, TimesOK, worldVars
<1>6. CASE WiFiLed
  BY <1>6 DEF WiFiLed, TimesOK, buttonVars, worldVars
<1>7. CASE Network \/ Supply \/ ResetPrinter \/ ResetLine \/ Erase
  BY <1>7 DEF Network, Supply, ResetPrinter, ResetLine, Erase, TimesOK, buttonVars,
             statusVars, worldVars
<1>8. CASE Summary \/ ErrorLed
  BY <1>8 DEF Summary, ErrorLed, TimesOK, buttonVars, statusVars, worldVars
<1>9. CASE Lamps \/ UNCHANGED vars
  BY <1>9 DEF Lamps, vars, TimesOK, buttonVars, statusVars, worldVars
<1>10. QED
  BY <1>1, <1>2, <1>3, <1>4, <1>5, <1>6, <1>7, <1>8, <1>9 DEF Next, Update

LEMMA DevicesStep == TimesOK /\ DevicesOK /\ [Next]_vars => DevicesOK'
<1> SUFFICES ASSUME TimesOK, DevicesOK, [Next]_vars PROVE DevicesOK'
  OBVIOUS
<1>1. CASE ResetPrinter
  BY <1>1, PulseDevice, BoardAssumption DEF ResetPrinter, TimesOK, DevicesOK
<1>2. CASE ResetLine
  BY <1>2, UpdatedType DEF ResetLine, TimesOK, DevicesOK
<1>3. CASE ReadPin
  BY <1>3, ConstType DEF ReadPin, DevicesOK, resetVars
<1>4. CASE ErrorLed
  <2>1. Error \in Device
    BY ConstType, BlinkType, BoardAssumption DEF Error, TimesOK, DevicesOK
  <2>2. QED
    BY <1>4, <2>1 DEF ErrorLed, DevicesOK, resetVars
<1>5. CASE WiFiLed
  BY <1>5, ConstType, BlinkType, BoardAssumption
     DEF WiFiLed, TimesOK, DevicesOK, resetVars
<1>6. CASE Lamps
  BY <1>6, UpdatedType DEF Lamps, TimesOK, DevicesOK, resetVars
<1>7. CASE Tick \/ Edge
  BY <1>7 DEF Tick, Edge, DevicesOK, resetVars
<1>8. CASE Network \/ Supply
  BY <1>8 DEF Network, Supply, DevicesOK, resetVars
<1>9. CASE ReadTimer \/ Cancel \/ Erase
  BY <1>9 DEF ReadTimer, Cancel, Erase, DevicesOK, resetVars
<1>10. CASE Summary \/ UNCHANGED vars
  BY <1>10 DEF Summary, vars, DevicesOK, resetVars
<1>11. QED
  BY <1>1, <1>2, <1>3, <1>4, <1>5, <1>6, <1>7, <1>8, <1>9, <1>10 DEF Next, Update

LEMMA VMonStatusType == VMonStatus \in {"ok", "over", "under"}
  BY DEF VMonStatus, getStatus

LEMMA FlowStep == FlowOK /\ [Next]_vars => FlowOK'
<1> SUFFICES ASSUME FlowOK, [Next]_vars PROVE FlowOK'
  OBVIOUS
<1>1. CASE Tick
  <2>1. wait' = IF wait > 0 THEN wait - 1 ELSE 0
    BY <1>1 DEF Tick
  <2>2. wait' \in 0..GRACE
    BY <2>1, BoardAssumption DEF FlowOK
  <2>3. QED
    BY <1>1, <2>2 DEF Tick, FlowOK, statusVars
<1>2. CASE ReadPin
  BY <1>2, BoardAssumption DEF ReadPin, FlowOK
<1>3. CASE Summary
  BY <1>3, VMonStatusType DEF Summary, Remember, FlowOK
<1>4. CASE Edge \/ Network \/ Supply \/ ResetPrinter
  BY <1>4 DEF Edge, Network, Supply, ResetPrinter, FlowOK, statusVars
<1>5. CASE ResetLine \/ ReadTimer \/ Cancel \/ Erase
  BY <1>5 DEF ResetLine, ReadTimer, Cancel, Erase, FlowOK, statusVars
<1>6. CASE ErrorLed \/ WiFiLed \/ Lamps \/ UNCHANGED vars
  BY <1>6 DEF ErrorLed, WiFiLed, Lamps, vars, FlowOK, statusVars
<1>7. QED
  BY <1>1, <1>2, <1>3, <1>4, <1>5, <1>6 DEF Next, Update

(* Every time stays on the clock, every duration in its word, and a lamp   *)
(* that blinks has a cycle to divide by, for any clock, word, board and    *)
(* settings of the cycles above one.                                       *)
THEOREM TypeCorrect == Spec => []TypeOK
<1>1. Init => TypeInv
  BY TypeInit
<1>2. TypeInv /\ [Next]_vars => TypeInv'
  BY TimesStep, DevicesStep, FlowStep DEF TypeInv
<1>3. TypeInv => TypeOK
  BY TypeInvType
<1>4. QED
  BY <1>1, <1>2, <1>3, PTL DEF Spec
=============================================================================
