\* Two keys, two-bit counters, a clock that outlives every ttl.
CONSTANTS
  k1 = k1  k2 = k2  text = text
  Keys = {k1, k2}
  Half = 2
  Text = {text}
  TTLs <- MCTTLs
  Absent = Absent
  Never = Never
  NotAnInteger = NotAnInteger  WouldOverflow = WouldOverflow
  MaxTime = 3
SPECIFICATION Spec
SYMMETRY Symmetry
INVARIANT TypeOK
PROPERTY Contract
