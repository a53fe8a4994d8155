------------------------------- MODULE Sensor -------------------------------
(***************************************************************************)
(* HIDPP10::Sensor (src/src/libhidpp/hidpp10/Sensor.cpp): resolutions in   *)
(* dpi and the values that stand for them on the device.  A list sensor    *)
(* has a table of resolutions, a range sensor a ratio.                     *)
(***************************************************************************)
EXTENDS Integers, Sequences

\* ListSensor (first, last, step).
Multiples(first, last, step) ==
    [i \in 1 .. (last - first) \div step + 1 |-> first + (i - 1) * step]
List(resolutions) ==
    [kind |-> "list", list |-> resolutions, min |-> resolutions[1],
     max |-> resolutions[Len(resolutions)], dividend |-> 1, divisor |-> 1]
Ratio(min, max, dividend, divisor) ==
    [kind |-> "range", list |-> <<>>, min |-> min, max |-> max,
     dividend |-> dividend, divisor |-> divisor]

S6006 == List(<<400, 800, 1600, 2000>>)
S6090 == List(Multiples(0, 3200, 200))
S9500 == Ratio(200, 5700, 17, 400)
S9808 == Ratio(200, 8200, 1, 50)

\* The first index of a list that is a valid resolution, and the last one.
Low(s) == IF s.list[1] = 0 THEN 1 ELSE 0
High(s) == Len(s.list) - 1

\* The search of ListSensor::fromDPI takes a resolution for an index: unless
\* it has nothing to do it reads outside of the list.
FromDPIDefined(s, dpi) ==
    \/ s.kind = "range"
    \/ dpi < s.list[Low(s) + 1]
    \/ dpi > s.list[High(s) + 1]
    \/ High(s) - Low(s) <= 1

\* Of two indices the nearer one, the lower one if both are as near.
Nearest(s, dpi) ==
    IF dpi < s.list[Low(s) + 1] THEN Low(s)
    ELSE IF dpi > s.list[High(s) + 1] THEN High(s)
    ELSE IF s.list[High(s) + 1] - dpi < dpi - s.list[Low(s) + 1] THEN High(s) ELSE Low(s)
\* Within the limits, times the ratio, rounded.
RoundToNearest(s, dpi) ==
    LET d == IF dpi < s.min THEN s.min ELSE IF dpi > s.max THEN s.max ELSE dpi
    IN  (d * s.dividend + s.divisor \div 2) \div s.divisor
\* fromDPI: junk is what an undefined search comes to.
FromDPI(s, dpi, junk) ==
    IF s.kind = "range" THEN RoundToNearest(s, dpi)
    ELSE 128 + (IF FromDPIDefined(s, dpi) THEN Nearest(s, dpi) ELSE junk)

RangeToDPI(s, value) ==
    LET dpi == (value * s.divisor + s.dividend \div 2) \div s.dividend
    IN  IF dpi > s.max THEN s.max ELSE dpi
\* toDPI, of a value that fromDPI gives.
ToDPI(s, value) ==
    IF value = 0 THEN 0
    ELSE IF s.kind = "list" THEN s.list[(value % 128) + 1]
    ELSE RangeToDPI(s, value)
=============================================================================
