--------------------------------- MODULE Clock ---------------------------------
(***************************************************************************)
(* The clocks: the cycle counter measured against the timer interrupt at   *)
(* boot (kernel/src/clock.rs), and the wall clock laid on top of it from   *)
(* readings of the CMOS chip (kernel/src/rtc.rs).  The chip is external:   *)
(* it moves on while its registers are read one by one, it may count in    *)
(* BCD or binary and by 12 or 24 hours, and it may not be there.           *)
(* A moment is a day since the epoch and a millisecond of it, for the      *)
(* width of TLC's integers.                                                *)
(***************************************************************************)
EXTENDS Integers, Sequences, FiniteSets

CONSTANTS
  Chips,               \* the chips there may be: format, time and cycle of its second at boot
  CYCLES,              \* cycles of the counter in a tick
  PIT_INPUT_HZ, PIT_DIVISOR,
  CALIBRATION_TICKS, RESYNC_TICKS, MAX_READINGS,
  MaxDelay,            \* bound: cycles lost between two steps of the code
  MaxCycles            \* bound

VARIABLES
  cycles,              \* the counter
  chip,                \* the chip: its start, offset and format, and whether it is there
  measured,            \* the first half of the calibration
  CYCLES_PER_TICK, EPOCH,
  SYNCED, BASE_MILLIS, BASE_TICKS,
  asked,               \* the reading in progress
  stated,              \* the last answer
  back,                \* history: an answer was before the one given last
  accepted             \* history: the last reading was not the last resort, and what it shows

vars == <<cycles, chip, measured, CYCLES_PER_TICK, EPOCH, SYNCED, BASE_MILLIS, BASE_TICKS,
          asked, stated, back, accepted>>

Fields == {"year", "month", "day", "hour", "minute", "second"}
DAY == 24 * 60 * 60 * 1000
Never == <<-1, 0>>
CENTURY_PIVOT == 70
NoReading == [f \in Fields |-> -1]
Quiet == [on |-> FALSE, n |-> 0, previous |-> NoReading, ticks |-> 0, since |-> 0]
Delays == 0 .. MaxDelay
Clamp(x, lo, hi) == IF x < lo THEN lo ELSE IF x > hi THEN hi ELSE x

Add(moment, ms) == <<moment[1] + ((moment[2] + ms) \div DAY), (moment[2] + ms) % DAY>>
Before(a, b) == a[1] < b[1] \/ (a[1] = b[1] /\ a[2] < b[2])
Gap(a, b) == (a[1] - b[1]) * DAY + a[2] - b[2]

-----------------------------------------------------------------------------
(* The calendar.                                                             *)

is_leap_year(y) == y % 4 = 0 /\ (y % 100 # 0 \/ y % 400 = 0)

days_in_month(y, m) ==
  CASE m \in {4, 6, 9, 11} -> 30
    [] m = 2 -> IF is_leap_year(y) THEN 29 ELSE 28
    [] OTHER -> 31

\* The year starts in March, so that the leap day ends it.
days_from_civil(y, m, d) ==
  LET year == IF m <= 2 THEN y - 1 ELSE y
      era == year \div 400
      ofEra == year - era * 400
      ofYear == ((153 * ((m + 9) % 12) + 2) \div 5) + d - 1
  IN  era * 146097 + ofEra * 365 + (ofEra \div 4) - (ofEra \div 100) + ofYear - 719468

civil_from_days(n) ==
  LET days == n + 719468
      era == days \div 146097
      ofEra == days - era * 146097
      yearOfEra == (ofEra - (ofEra \div 1460) + (ofEra \div 36524) - (ofEra \div 146096)) \div 365
      ofYear == ofEra - (365 * yearOfEra + (yearOfEra \div 4) - (yearOfEra \div 100))
      shifted == (5 * ofYear + 2) \div 153
      month == IF shifted < 10 THEN shifted + 3 ELSE shifted - 9
      year == yearOfEra + era * 400
  IN  [year |-> IF month <= 2 THEN year + 1 ELSE year, month |-> month,
       day |-> ofYear - ((153 * shifted + 2) \div 5) + 1]

unix_millis_from_parts(t) ==
  LET months == t.year * 12 + t.month - 1
      days == days_from_civil(months \div 12, (months % 12) + 1, 1) + t.day - 1
  IN  Add(<<days, 0>>, ((t.hour * 60 + t.minute) * 60 + t.second) * 1000)

from_unix_millis(moment) ==
  LET date == civil_from_days(moment[1])
      seconds == moment[2] \div 1000
  IN  [year |-> date.year, month |-> date.month, day |-> date.day,
       hour |-> seconds \div 3600, minute |-> (seconds \div 60) % 60, second |-> seconds % 60]

-----------------------------------------------------------------------------
(* The chip.                                                                 *)

SECOND == (CYCLES * PIT_INPUT_HZ) \div PIT_DIVISOR
MaxSeconds == ((MaxCycles + 2 * SECOND) \div SECOND) + 1

\* The chip's own calendar: the field that is full starts again and moves the next.
NextSecond(t) ==
  LET length == IF t.month = 2 /\ t.year % 4 = 0 THEN 29 ELSE days_in_month(1, t.month)
      s == t.second = 59
      mi == s /\ t.minute = 59
      h == mi /\ t.hour = 23
      d == h /\ t.day = length
      mo == d /\ t.month = 12
      Turn(full, carry, value, first) ==
        IF full THEN first ELSE IF carry THEN value + 1 ELSE value
  IN  [second |-> Turn(s, TRUE, t.second, 0), minute |-> Turn(mi, s, t.minute, 0),
       hour |-> Turn(h, mi, t.hour, 0), day |-> Turn(d, h, t.day, 1),
       month |-> Turn(mo, d, t.month, 1),
       year |-> IF mo THEN (t.year + 1) % 100 ELSE t.year]

Course == [start \in {c.start : c \in Chips} |->
  LET at[n \in 0 .. MaxSeconds] == IF n = 0 THEN start ELSE NextSecond(at[n - 1])
  IN  at]

\* A time of the chip with its century.
Full(t) == [t EXCEPT !.year = IF @ < CENTURY_PIVOT THEN 2000 + @ ELSE 1900 + @]

Passed(c) == (c + chip.offset) \div SECOND
Shown(c) == Course[chip.start][Passed(c)]
InUpdate(c) == ~chip.there \/ (c + chip.offset) % SECOND = SECOND - 1

Bcd(v) == 16 * (v \div 10) + (v % 10)
Register(t, f) ==
  LET twelve == (IF t.hour % 12 = 0 THEN 12 ELSE t.hour % 12)
      value == IF f = "hour" /\ ~chip.hours24 THEN twelve ELSE t[f]
      digits == IF chip.binary THEN value ELSE Bcd(value)
  IN  IF ~chip.there THEN 255
      ELSE IF f = "hour" /\ ~chip.hours24 /\ t.hour >= 12 THEN digits + 128 ELSE digits
Registers(c) == [f \in Fields |-> Register(Shown(c), f)]

-----------------------------------------------------------------------------
(* What the driver makes of its registers.                                   *)

from_bcd(v) == IF chip.binary THEN v ELSE (v \div 16) * 10 + (v % 16)

decode_hour_with_flag(v) ==
  IF chip.hours24 THEN from_bcd(v) ELSE (from_bcd(v) % 12) + (IF v >= 128 THEN 12 ELSE 0)

decode_hour(v) ==
  IF chip.hours24 THEN from_bcd(v)
  ELSE (from_bcd(v % 128) % 12) + (IF v >= 128 THEN 12 ELSE 0)

decode(r) ==
  LET yy == from_bcd(r.year)
      year == IF yy < CENTURY_PIVOT THEN 2000 + yy ELSE 1900 + yy
      month == Clamp(from_bcd(r.month), 1, 12)
  IN  [year |-> year, month |-> month,
       day |-> Clamp(from_bcd(r.day), 1, days_in_month(year, month)),
       hour |-> Clamp(decode_hour(r.hour), 0, 23),
       minute |-> Clamp(from_bcd(r.minute), 0, 59),
       second |-> Clamp(from_bcd(r.second), 0, 59)]

\* The cycle wait_for_update returns at: the flag is clear, or it was read often enough.
Waited == IF chip.there /\ InUpdate(cycles) THEN cycles + 1 ELSE cycles

-----------------------------------------------------------------------------
(* The two clocks.                                                           *)

ticks(c) ==
  IF CYCLES_PER_TICK = 0 THEN c \div CYCLES ELSE (c - EPOCH) \div CYCLES_PER_TICK

ticks_to_millis(n) == (n * PIT_DIVISOR * 1000) \div PIT_INPUT_HZ
derived(n) == Add(BASE_MILLIS, ticks_to_millis(n - BASE_TICKS))
Stale(n) == ~SYNCED \/ n - BASE_TICKS >= RESYNC_TICKS

CommittedToTheChip(hardware, n) == hardware

\* What a reading commits the clock to: never less than it has stated.
Committed(hardware, n) ==
  IF SYNCED /\ Before(hardware, derived(n)) THEN derived(n) ELSE hardware

-----------------------------------------------------------------------------
Init ==
  /\ cycles = 1
  /\ chip \in Chips
  /\ measured = [tick |-> 0, tsc |-> 0]
  /\ CYCLES_PER_TICK = 0 /\ EPOCH = 0
  /\ SYNCED = FALSE /\ BASE_MILLIS = Never /\ BASE_TICKS = 0
  /\ asked = Quiet
  /\ stated = Never /\ back = FALSE
  /\ accepted = [sure |-> FALSE, whole |-> FALSE]

wallVars == <<SYNCED, BASE_MILLIS, BASE_TICKS, asked, stated, back, accepted>>

\* calibrate, up to the first edge of a tick, and on to the last.
Edge ==
  /\ CYCLES_PER_TICK = 0 /\ measured.tsc = 0
  /\ LET tick == (cycles \div CYCLES) + 1
     IN  \E d \in Delays :
           /\ cycles' = tick * CYCLES + d
           /\ measured' = [tick |-> tick, tsc |-> cycles']
  /\ UNCHANGED <<chip, CYCLES_PER_TICK, EPOCH, wallVars>>

Calibrated ==
  /\ CYCLES_PER_TICK = 0 /\ measured.tsc # 0
  /\ LET end == measured.tick + CALIBRATION_TICKS
     IN  \E d \in Delays :
           /\ cycles' = end * CYCLES + d
           /\ CYCLES_PER_TICK' = (cycles' - measured.tsc) \div CALIBRATION_TICKS
           /\ EPOCH' = cycles' - end * CYCLES_PER_TICK'
  /\ UNCHANGED <<chip, measured, wallVars>>

Pass ==
  /\ CYCLES_PER_TICK # 0 /\ ~asked.on
  /\ cycles + CYCLES - 3 <= MaxCycles /\ cycles' = cycles + CYCLES - 3
  /\ UNCHANGED <<chip, measured, CYCLES_PER_TICK, EPOCH, wallVars>>

\* unix_millis: the clock carried on, or the chip read again.
Answer ==
  /\ CYCLES_PER_TICK # 0 /\ ~asked.on /\ ~Stale(ticks(cycles))
  /\ stated' = derived(ticks(cycles)) /\ back' = Before(stated', stated)
  /\ UNCHANGED <<cycles, chip, measured, CYCLES_PER_TICK, EPOCH, SYNCED, BASE_MILLIS, BASE_TICKS,
                 asked, accepted>>

Ask ==
  /\ CYCLES_PER_TICK # 0 /\ ~asked.on /\ Stale(ticks(cycles)) /\ cycles < MaxCycles
  /\ asked' = [Quiet EXCEPT !.on = TRUE, !.ticks = ticks(cycles), !.since = cycles]
  /\ UNCHANGED <<cycles, chip, measured, CYCLES_PER_TICK, EPOCH, SYNCED, BASE_MILLIS, BASE_TICKS,
                 stated, back, accepted>>

\* read_registers: a field the chip moves meanwhile is read before or after.
Readings(later) ==
  LET turned == {f \in Fields : Registers(Waited)[f] # Registers(later)[f]}
  IN  {[f \in Fields |-> Registers(IF f \in K THEN Waited ELSE later)[f]] : K \in SUBSET turned}

SettledAtOnce(registers) == TRUE
Settled(registers) == registers = asked.previous \/ asked.n + 1 = MAX_READINGS

\* One reading of read_hardware that does not settle it.
ReadAgain ==
  /\ asked.on
  /\ \E d \in Delays : \E r \in Readings(Waited + d) :
       /\ ~Settled(r)
       /\ asked' = [asked EXCEPT !.previous = r, !.n = @ + 1]
       /\ cycles' = Waited + d
  /\ UNCHANGED <<chip, measured, CYCLES_PER_TICK, EPOCH, SYNCED, BASE_MILLIS, BASE_TICKS,
                 stated, back, accepted>>

\* The reading that does, and resync.
Resync ==
  /\ asked.on
  /\ \E d \in Delays : \E r \in Readings(Waited + d) :
       /\ Settled(r)
       /\ cycles' = Waited + d
       /\ BASE_MILLIS' = Committed(unix_millis_from_parts(decode(r)), asked.ticks)
       /\ accepted' = [sure |-> r = asked.previous \/ asked.n + 1 < MAX_READINGS,
                       whole |-> \E c \in asked.since .. cycles' : decode(r) = Full(Shown(c))]
  /\ BASE_TICKS' = asked.ticks /\ SYNCED' = TRUE
  /\ stated' = BASE_MILLIS' /\ back' = Before(stated', stated)
  /\ asked' = Quiet
  /\ UNCHANGED <<chip, measured, CYCLES_PER_TICK, EPOCH>>

Done == cycles + CYCLES - 3 > MaxCycles /\ ~asked.on /\ UNCHANGED vars

Next == Edge \/ Calibrated \/ Pass \/ Answer \/ Ask \/ ReadAgain \/ Resync \/ Done

Spec == Init /\ [][Next]_vars

-----------------------------------------------------------------------------
TypeOK ==
  /\ cycles \in Nat
  /\ measured \in [tick : Nat, tsc : Nat]
  /\ CYCLES_PER_TICK \in Nat /\ EPOCH \in Int
  /\ SYNCED \in BOOLEAN /\ back \in BOOLEAN /\ BASE_TICKS \in Int
  /\ {BASE_MILLIS, stated} \subseteq Int \X (0 .. DAY - 1)
  /\ asked.n \in 0 .. MAX_READINGS - 1

Millis(c) == unix_millis_from_parts(Full(Shown(c)))

(* Two readings that agree are a time the chip showed while it was read, in   *)
(* whatever format it counts, although its fields are read one by one and it  *)
(* moves on in between (rtc.rs read_hardware, decode).                       *)
ReadingsAreWhole == chip.there /\ accepted.sure => accepted.whole

(* A second of the chip is a second since the epoch, over the end of a month, *)
(* of February and of a year, and every moment breaks down into the date it   *)
(* was made from (rtc.rs days_from_civil, civil_from_days).                   *)
CalendarIsExact ==
  chip.there =>
    /\ Gap(Millis(cycles), unix_millis_from_parts(Full(chip.start))) = 1000 * Passed(cycles)
    /\ from_unix_millis(Millis(cycles)) = Full(Shown(cycles))

(* The wall clock never goes back, whatever the chip answers (rtc.rs resync). *)
ClockNeverGoesBack == ~back

(* The clock it carries on from whole readings is never a second behind the      *)
(* chip, and the drift since the last of them, and unless the counter was     *)
(* measured fast it is never ahead by more (rtc.rs unix_millis).              *)
ClockFollowsTheChip ==
  LET drift == 2 * ticks_to_millis(1) + (1000 * RESYNC_TICKS * MaxDelay) \div CYCLES
      gap == Gap(derived(ticks(cycles)), Millis(cycles))
  IN  chip.there /\ SYNCED /\ ~asked.on /\ accepted.sure /\ ~Stale(ticks(cycles))
        => /\ gap > -(1000 + drift)
           /\ CYCLES_PER_TICK >= CYCLES => gap < 1000 + drift

=============================================================================
