------------------------------ MODULE Devices ------------------------------
(***************************************************************************)
(* The output device and the timer of esp3d/devices.cpp and timer.h as     *)
(* values, and the voltage monitor.  A timer is the time of its restart on *)
(* a clock that wraps; an output device is on or off for good, blinks, or  *)
(* gives one pulse, and moves only when update() is called.                *)
(***************************************************************************)
EXTENDS Integers

CONSTANTS
  ClockSize,   \* values of the millisecond clock: 2^32
  WordSize,    \* values of the durations of a device: 2^16
  Ratio        \* VMON_DIVIDER_RATIO of the board

ASSUME DevicesAssumption ==
  /\ ClockSize \in Nat \ {0} /\ WordSize \in Nat \ {0} /\ Ratio \in Nat

Clock == 0..(ClockSize - 1)
Word  == 0..(WordSize - 1)

(* Mutant: the difference, without regard to the wrap of the clock.        *)
timeDeltaPlain(t0, t) == t - t0

(* 1 + ~t0 + t in the arithmetic of the clock, ~t0 being its largest value *)
(* minus t0, once the clock has wrapped.                                   *)
getTimeDelta(t0, t) ==
  IF t >= t0 THEN t - t0 ELSE (1 + (ClockSize - 1 - t0) + t) % ClockSize

adjustStart(t0, msToAdd) == (t0 + msToAdd) % ClockSize

OutputDevice == [mode : {"const", "blink", "pulse"}, lit : BOOLEAN,
                 _tOn_ms : Word, _tOff_ms : Word, timer : Clock]

NewDevice == [mode |-> "const", lit |-> FALSE,
              _tOn_ms |-> 0, _tOff_ms |-> 0, timer |-> 0]

(* The times of a device that neither blinks nor pulses are dead: both set *)
(* them before they are read again.                                        *)
on(d)  == [NewDevice EXCEPT !.lit = TRUE]
off(d) == NewDevice

(* A device that blinks that way already is left alone: the callers ask    *)
(* again at every turn of the loop.                                        *)
blink(d, tCycle, t) ==
  LET tOn == tCycle \div 2
  IN  IF d.mode = "blink" /\ d._tOn_ms = tOn /\ d._tOff_ms = tCycle - tOn
      THEN d
      ELSE [mode |-> "blink", lit |-> TRUE, _tOn_ms |-> tOn,
            _tOff_ms |-> tCycle - tOn, timer |-> t]

(* Mutant: a pulse that is asked for during a pulse does not prolong it.   *)
pulseKept(d, tPulse_ms, t) ==
  IF d.mode = "pulse" THEN d
  ELSE [d EXCEPT !.mode = "pulse", !.lit = TRUE, !._tOn_ms = tPulse_ms,
                 !.timer = t]

(* A pulse prolongs the pulse in progress, in 16 bits.                     *)
pulse(d, tPulse_ms, t) ==
  IF d.mode = "pulse"
  THEN [d EXCEPT !._tOn_ms = (@ + tPulse_ms) % WordSize]
  ELSE [d EXCEPT !.mode = "pulse", !.lit = TRUE, !._tOn_ms = tPulse_ms,
                 !.timer = t]

(* Mutant: a pulse is taken for a device that is on for good.              *)
updateBlinkOnly(d, t) == d

(* A blinking device is on in the first part of its cycle; whole cycles    *)
(* that have passed are added to the start of the timer.                   *)
updated(d, t) ==
  LET dt == getTimeDelta(d.timer, t)
      tCycle == d._tOn_ms + d._tOff_ms
  IN  IF d.mode = "blink"
      THEN [d EXCEPT !.lit = dt % tCycle < d._tOn_ms,
                     !.timer = adjustStart(@, dt - (dt % tCycle))]
      ELSE IF d.mode = "pulse" /\ dt >= d._tOn_ms THEN off(d)
      ELSE d

-----------------------------------------------------------------------------
(* The voltage monitor: settings in millivolt and percent, in microvolt    *)
(* inside.  C rounds a quotient towards zero.                              *)
Quotient(a, b) == IF a >= 0 THEN a \div b ELSE -((-a) \div b)

_target_uV(targetVoltage) == targetVoltage * 1000

_alarm_threshold_uV(targetVoltage, threshold) ==
  Quotient(_target_uV(targetVoltage) * threshold, 100)

getVoltage_uV(reading, correction) ==
  Quotient(reading * (1000000 + correction) + 512, 1024) * Ratio

getStatus(reading, v) ==
  LET alarm == _alarm_threshold_uV(v.target, v.threshold)
      dv    == getVoltage_uV(reading, v.correction) - _target_uV(v.target)
  IN  IF alarm >= 1 /\ dv > alarm THEN "over"
      ELSE IF alarm >= 1 /\ dv < -alarm THEN "under"
      ELSE "ok"
=============================================================================
