\* Paths of up to seven characters after "socket" over 1, 2, '/', ' ', 'x';
\* int of 4 bits and long of 6 bits, so "22" overflows int and "222" long.
\* One OPEN is routed, then nothing is left to do.
CONSTANTS
  IntBits = 4
  LongBits = 6
  MaxRest = 7
SPECIFICATION Spec
INVARIANT ValidPathAccepted
INVARIANT GarbageRejected
CHECK_DEADLOCK FALSE
