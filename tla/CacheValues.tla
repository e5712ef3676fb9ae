----------------------------- MODULE CacheValues -----------------------------
(***************************************************************************)
(* What the keys, values and times to live of a cache.Store are            *)
(* (src/cache/cache.go), and the errors its counters may return.  A value  *)
(* is an int64 written in decimal or something else.                       *)
(***************************************************************************)
EXTENDS Integers

CONSTANTS
  Keys,      \* the keys callers use
  Half,      \* int64 ranges over -Half .. Half - 1
  Text,      \* the values that are no decimal int64
  TTLs,      \* the times to live callers pass
  Absent,    \* no value, no entry
  Never,     \* the contract's name for no expiry
  NotAnInteger, WouldOverflow,   \* errors
  MaxTime    \* bound on the clock

Int64 == -Half .. Half - 1
Values == Int64 \cup Text

ASSUME HalfAssumption == Half \in Nat \ {0}
ASSUME TTLsAssumption == TTLs \subseteq Int
ASSUME ValuesAssumption ==
  /\ Text \cap Int = {}
  /\ Absent \notin Values
  /\ NotAnInteger \notin Int /\ WouldOverflow \notin Int
  /\ Never \notin Int
ASSUME MaxTimeAssumption == MaxTime \in Nat \ {0}
=============================================================================
