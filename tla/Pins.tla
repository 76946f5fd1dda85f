--------------------------------- MODULE Pins ---------------------------------
(***************************************************************************)
(* Who drives a pin: the commands gpio, pwm, i2c, adc, temp and bind over  *)
(* the drivers gpio_ctrl.c, pwm_ctrl.c, i2c_ctrl.c, adc_ctrl.c and         *)
(* temp_sensor.c.                                                          *)
(*                                                                         *)
(* Every driver brings a pin, a bus or the converter up on first use and   *)
(* remembers in a flag of its own that it did; none of them hears of the   *)
(* others, though they share the pads, the two channels of a pwm slice and *)
(* the converter.  gpio latch keeps its pin high while it pumps the other  *)
(* shells, whose commands run to their end inside the wait.                *)
(*                                                                         *)
(* The SDK calls are modelled by the registers they write.                 *)
(***************************************************************************)
EXTENDS Naturals, Sequences, FiniteSets

CONSTANTS
  Gpios,       \* the pins used, by number
  Buses,       \* the I2C buses used
  Freqs,       \* the frequencies asked for, in Hz
  Duties,      \* the duties asked for, in percent
  ClockSteps,  \* (sys_hz << 4) / 65536
  MaxDepth,    \* how many latches may wait at once (bound)
  MaxCommands  \* how many commands are given (bound)

ASSUME PinsAssumption ==
  /\ Gpios \subseteq 0 .. 29 /\ Buses \subseteq {0, 1}
  /\ Freqs \subseteq Nat \ {0} /\ Duties \subseteq 0 .. 100
  /\ ClockSteps \in Nat /\ MaxDepth \in Nat /\ MaxCommands \in Nat

VARIABLES
  pad,       \* per pin: function, direction and output registers
  slice,     \* per pwm slice: running, divider, compare level of each channel
  sensor,    \* the converter's temperature sensor is switched on
  gpioInit,  \* g_initialized of gpio_ctrl.c, as a set of pins
  busReady,  \* g_ready of i2c_ctrl.c
  adcReady,  \* g_adc_ready
  adcPins,   \* g_pin_ready_mask
  tempReady, \* g_ready of temp_sensor.c
  waits,     \* the pins whose latch is waiting, the innermost last
  asked,     \* history: per pin, what the last command that set it up asked for
  lost,      \* history: per pin, the drivers whose set-up another one has undone
  disturbed, \* history: the pins whose slice was changed for the other pin since
  given      \* how many commands were given

hardware == <<pad, slice, sensor>>
flags == <<gpioInit, busReady, adcReady, adcPins, tempReady>>
history == <<asked, lost, disturbed>>
pinVars == <<hardware, flags, waits, history, given>>

\* pwm_gpio_to_slice_num, pwm_gpio_to_channel
SliceOf(p) == (p \div 2) % 8
Channel(p) == p % 2
Slices == {SliceOf(p) : p \in Gpios}

\* SDA and SCL
BusPins(b) == IF b = 0 THEN {4, 5} ELSE {6, 7}
AdcPins == 26 .. 29

-----------------------------------------------------------------------------
(* What was asked for, and of whom *)

Level(high) == [by |-> "gpio", high |-> high]
Input == [by |-> "gpio"]
Duty(freq, pct) == [by |-> "pwm", freq |-> freq, pct |-> pct]
OnBus == [by |-> "i2c"]
Analog == [by |-> "adc"]
Unasked == [by |-> "nobody"]

\* The driver of request r now works on the pins ps.  Whoever had set them up has lost
\* them, and is not told; the driver itself has them back if it sets them up anew.
Request(ps, r, anew) ==
  /\ asked' = [p \in Gpios |-> IF p \in ps THEN r ELSE asked[p]]
  /\ lost' = [p \in Gpios |-> IF p \notin ps THEN lost[p]
                             ELSE (lost[p] \cup ({asked[p].by} \ {r.by}))
                                    \ (IF anew THEN {r.by} ELSE {})]

-----------------------------------------------------------------------------
(* gpio_ctrl.c, cmd_gpio.c *)

\* gpio_init and gpio_set_function of the SDK
FreshPad == [fn |-> "sio", oe |-> FALSE, out |-> FALSE]
WithFunction(p, fn) == [pad EXCEPT ![p].fn = fn]

\* ensure_init
Ensured(p) == IF p \in gpioInit THEN pad[p] ELSE FreshPad

GpioSets(p, value) ==
  /\ pad' = [pad EXCEPT ![p] = value]
  /\ gpioInit' = gpioInit \cup {p}
  /\ UNCHANGED <<slice, sensor, busReady, adcReady, adcPins, tempReady>>

\* gpio_ctrl_write
GpioWrite(p, high) ==
  /\ GpioSets(p, [Ensured(p) EXCEPT !.oe = TRUE, !.out = high])
  /\ Request({p}, Level(high), FALSE) /\ UNCHANGED disturbed

\* gpio_ctrl_toggle: it flips the output register, whatever the pin shows.
GpioToggle(p) ==
  /\ GpioSets(p, [Ensured(p) EXCEPT !.oe = TRUE, !.out = ~@])
  /\ Request({p}, Level(~Ensured(p).out), FALSE) /\ UNCHANGED disturbed

\* gpio_ctrl_read
GpioRead(p) ==
  /\ GpioSets(p, [Ensured(p) EXCEPT !.oe = FALSE])
  /\ Request({p}, Input, FALSE) /\ UNCHANGED disturbed

\* gpio latch: the pin goes high, and the wait begins.
LatchBegins(p) ==
  /\ Len(waits) < MaxDepth
  /\ GpioWrite(p, TRUE) /\ waits' = Append(waits, p)

\* slip: the innermost wait ends, the pin of the outermost one goes low
LowersFirst ==
  /\ waits # <<>>
  /\ GpioWrite(waits[1], FALSE)
  /\ waits' = SubSeq(waits, 1, Len(waits) - 1) /\ UNCHANGED given

\* The wait of the innermost latch is over.
LatchEnds ==
  /\ waits # <<>>
  /\ GpioWrite(waits[Len(waits)], FALSE)
  /\ waits' = SubSeq(waits, 1, Len(waits) - 1) /\ UNCHANGED given

Gpio(p) ==
  \/ LatchBegins(p)
  \/ /\ GpioRead(p) \/ GpioToggle(p) \/ \E high \in BOOLEAN : GpioWrite(p, high)
     /\ UNCHANGED waits

-----------------------------------------------------------------------------
(* pwm_ctrl.c, cmd_pwm.c *)

Disturbs(p) ==
  disturbed' = (disturbed \ {p}) \cup {q \in Gpios \ {p} : SliceOf(q) = SliceOf(p)}

\* slip: the divider is not clamped
Unclamped(freq) == ClockSteps \div freq

\* compute_div_wrap: a divider of eight bits and four, clamped
Divider(freq) ==
  LET d == ClockSteps \div freq IN IF d < 16 THEN 16 ELSE IF d >= 4096 THEN 4095 ELSE d

\* slip: the wrap value is taken for the number of steps
ShareOfWrap(pct) == (65535 * pct) \div 100

\* The compare level, in sixteen bits
LevelOf(pct) == ((65536 * pct) \div 100) % 65536

\* pwm_init of the SDK clears both compare levels; then the level of the pin is set.
Reprogrammed(p, freq, pct) ==
  [on |-> TRUE, div |-> Divider(freq),
   cc |-> [c \in 0 .. 1 |-> IF c = Channel(p) THEN LevelOf(pct) ELSE 0]]

\* pwm_ctrl_set
PwmSet(p, freq, pct) ==
  /\ pad' = WithFunction(p, "pwm")
  /\ slice' = [slice EXCEPT ![SliceOf(p)] = Reprogrammed(p, freq, pct)]
  /\ Request({p}, Duty(freq, pct), TRUE) /\ Disturbs(p)
  /\ UNCHANGED <<sensor, flags, waits>>

\* slip: the pin is left with the pwm
StaysPwm(p) ==
  /\ pad' = [pad EXCEPT ![p].oe = FALSE]
  /\ slice' = [slice EXCEPT ![SliceOf(p)].on = FALSE]
  /\ Request({p}, Input, TRUE) /\ Disturbs(p)
  /\ UNCHANGED <<sensor, flags, waits>>

\* pwm_ctrl_off stops the whole slice.
PwmOff(p) ==
  /\ pad' = [pad EXCEPT ![p].fn = "sio", ![p].oe = FALSE]
  /\ slice' = [slice EXCEPT ![SliceOf(p)].on = FALSE]
  /\ Request({p}, Input, TRUE) /\ Disturbs(p)
  /\ UNCHANGED <<sensor, flags, waits>>

Pwm(p) == PwmOff(p) \/ \E f \in Freqs, d \in Duties : PwmSet(p, f, d)

-----------------------------------------------------------------------------
(* i2c_ctrl.c, cmd_i2c.c: scan, read and write all begin with ensure_init *)

I2cAccess(b) ==
  LET ps == BusPins(b) \cap Gpios IN
  /\ pad' = [p \in Gpios |-> IF p \in ps /\ b \notin busReady THEN [pad[p] EXCEPT !.fn = "i2c"]
                            ELSE pad[p]]
  /\ busReady' = busReady \cup {b}
  /\ Request(ps, OnBus, FALSE) /\ UNCHANGED disturbed
  /\ UNCHANGED <<slice, sensor, gpioInit, adcReady, adcPins, tempReady, waits>>

\* What every operation of cmd_i2c.c does to the pins
I2c == \E b \in Buses : I2cAccess(b)

-----------------------------------------------------------------------------
(* adc_ctrl.c, temp_sensor.c; adc_init resets the converter, its sensor included. *)

AdcRead(p) ==
  /\ pad' = IF p \in adcPins THEN pad ELSE WithFunction(p, "null")
  /\ sensor' = (adcReady /\ sensor)
  /\ adcReady' = TRUE /\ adcPins' = adcPins \cup {p}
  /\ Request({p}, Analog, FALSE) /\ UNCHANGED disturbed
  /\ UNCHANGED <<slice, gpioInit, busReady, tempReady, waits>>

Adc(p) == p \in AdcPins /\ AdcRead(p)

\* temp, system info
TempRead ==
  /\ sensor' = IF tempReady THEN sensor ELSE TRUE
  /\ tempReady' = TRUE
  /\ UNCHANGED <<pad, slice, gpioInit, busReady, adcReady, adcPins, waits, history>>

-----------------------------------------------------------------------------
(* bindings.c: refresh_pin_irq makes the pin of a new binding an input. *)

MakeInput(p) ==
  /\ pad' = [pad EXCEPT ![p] = FreshPad]
  /\ Request({p}, Input, TRUE) /\ UNCHANGED disturbed
  /\ UNCHANGED <<slice, sensor, flags, waits>>

-----------------------------------------------------------------------------

PinsInit ==
  /\ pad = [p \in Gpios |-> [fn |-> "null", oe |-> FALSE, out |-> FALSE]]
  /\ slice = [s \in Slices |-> [on |-> FALSE, div |-> 16, cc |-> [c \in 0 .. 1 |-> 0]]]
  /\ sensor = FALSE /\ gpioInit = {} /\ busReady = {} /\ adcReady = FALSE /\ adcPins = {}
  /\ tempReady = FALSE /\ waits = <<>> /\ given = 0
  /\ asked = [p \in Gpios |-> Unasked] /\ lost = [p \in Gpios |-> {}] /\ disturbed = {}

PinCommand ==
  /\ given < MaxCommands /\ given' = given + 1
  /\ \/ \E p \in Gpios : Gpio(p) \/ Pwm(p) \/ Adc(p) \/ MakeInput(p)
     \/ I2c \/ TempRead

PinsNext == PinCommand \/ LatchEnds

\* cli_keepalive_sleep_ms ends at its deadline.
PinsSpec == PinsInit /\ [][PinsNext]_pinVars /\ WF_pinVars(LatchEnds)

-----------------------------------------------------------------------------
(* Properties *)

\* What the registers of a slice hold: a divider of eight bits and four, not below one, and
\* compare levels of sixteen bits
Dividers == 16 .. 4095
Levels == 0 .. 65535

\* Types; a waiting latch has set its pin up.
PinsTypeOK ==
  /\ \A p \in Gpios : pad[p].fn \in {"null", "sio", "pwm", "i2c"}
  /\ \A s \in Slices : slice[s].div \in Dividers /\ \A c \in 0 .. 1 : slice[s].cc[c] \in Levels
  /\ gpioInit \subseteq Gpios /\ busReady \subseteq Buses /\ adcPins \subseteq AdcPins
  /\ Len(waits) <= MaxDepth /\ \A k \in 1 .. Len(waits) : waits[k] \in gpioInit

\* A slice counts 65536 steps a period, ClockSteps \div div periods a second.  It runs at f
\* if its divider is the greatest that is not slower; its channel is high for pct percent
\* if its level is the greatest that is not more.
RunsAt(s, f) == s.div * f <= ClockSteps /\ ClockSteps < (s.div + 1) * f
HighFor(level, pct) == 100 * level <= 65536 * pct /\ 65536 * pct < 100 * (level + 1)

\* What the pin does, as the hardware has it
ActsAs(p, r) ==
  CASE r = Unasked -> TRUE
    [] r = Input -> pad[p].fn = "sio" /\ ~pad[p].oe
    [] r \in {Level(TRUE), Level(FALSE)} -> pad[p].fn = "sio" /\ pad[p].oe /\ pad[p].out = r.high
    [] r = OnBus -> pad[p].fn = "i2c"
    [] r = Analog -> pad[p].fn = "null"
    [] r.by = "pwm" -> LET s == slice[SliceOf(p)] IN
         pad[p].fn = "pwm" /\ s.on /\ RunsAt(s, r.freq) /\ HighFor(s.cc[Channel(p)], r.pct)

\* The frequencies no divider has, about 1.9 kHz and up, and below 8 Hz
TooFast(f) == ClockSteps < 16 * f
TooSlow(f) == 4096 * f <= ClockSteps

\* Pwm where the registers end: such a frequency is the nearest one there is, and 100 %
\* is none, its level of 65536 being 0 in sixteen bits.
FallsShort(p, r) ==
  LET s == slice[SliceOf(p)]   level == s.cc[Channel(p)] IN
  /\ pad[p].fn = "pwm" /\ s.on
  /\ RunsAt(s, r.freq) \/ (TooFast(r.freq) /\ s.div = 16) \/ (TooSlow(r.freq) /\ s.div = 4095)
  /\ HighFor(level, r.pct) \/ (r.pct = 100 /\ level = 0)

\* Every pin does what the last command that named it asked for, however the commands
\* and the waits of several shells were mixed, within four limits: a driver is not heard on
\* a pin it set up once and has lost since (gpio_ctrl.c:10, i2c_ctrl.c:13, adc_ctrl.c:29);
\* the two pins of a slice are not independent (pwm_ctrl.h:4); a frequency the divider
\* does not reach is clamped (pwm_ctrl.c:18-19); and 100 % leaves the pin low (:39).
ClaimHolds ==
  \A p \in Gpios :
    \/ ActsAs(p, asked[p])
    \/ asked[p].by \in {"gpio", "i2c", "adc"} \cap lost[p]
    \/ asked[p].by = "pwm" /\ p \in disturbed
    \/ asked[p].by = "pwm" /\ FallsShort(p, asked[p])

\* Between any two commands, waits or not: registers hold what they can hold, and every
\* pin does what was last asked of it, within the limits named at ClaimHolds.
PinsInv == PinsTypeOK /\ ClaimHolds

\* gpio latch ends by itself: the output of every latched pin goes low again, in whatever
\* order the waits of the shells are nested and whatever they do meanwhile.
LatchEndsLow ==
  \A p \in Gpios : (\E k \in 1 .. Len(waits) : waits[k] = p) ~> ~pad[p].out

\* "Configure `pin` as output and drive it high / low / toggle" (gpio_ctrl.h:25)
GpioDrives == \A p \in Gpios : asked[p] \in {Level(TRUE), Level(FALSE)} => ActsAs(p, asked[p])

\* "the given duty (0..100 %)" (pwm_ctrl.h:18)
DutyIsAsAsked ==
  \A p \in Gpios : (asked[p].by = "pwm" /\ p \notin disturbed)
                    => HighFor(slice[SliceOf(p)].cc[Channel(p)], asked[p].pct)

\* "Frequency range is roughly 8 Hz .. ~1 MHz" (pwm_ctrl.h:19)
FrequencyIsAsAsked ==
  \A p \in Gpios : (asked[p].by = "pwm" /\ p \notin disturbed /\ asked[p].freq \in 8 .. 1000000)
                    => RunsAt(slice[SliceOf(p)], asked[p].freq)

\* temp_sensor.c:15: once temp has brought it up, the sensor it reads is on.
SensorStaysOn == tempReady => sensor
=============================================================================
