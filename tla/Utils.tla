------------------------------- MODULE Utils -------------------------------
(***************************************************************************)
(* The pure functions of Utils.h and Utils.cpp: rounding to a power of     *)
(* two, integers as bytes in network order, and TIME_ARGS.                 *)
(* A byte string is a function on its positions, as the char buffer p is.  *)
(***************************************************************************)
EXTENDS Integers

Byte   == 0..255
Bytes4 == [0..3 -> Byte]
Bytes8 == [0..7 -> Byte]

UINT32 == {n \in Nat : n < 4294967296}
INT64  == {n \in Int : -9223372036854775808 <= n /\ n < 9223372036854775808}

(* The bits of x above those of align - 1, when align is a power of two:   *)
(* x & ~(align - 1), in two's complement for a negative x as well.         *)
Masked(x, align) == x - (x % align)

ROUND_UP_N(num, align) == Masked(num + (align - 1), align)

ROUND_DOWN_N(num, align) == Masked(num, align)
-----------------------------------------------------------------------------
(* p[0]= (n>>24) keeps the low byte of the shifted number.                 *)
putU32(n) ==
  [i \in 0..3 |-> CASE i = 0 -> (n \div 16777216) % 256
                    [] i = 1 -> (n \div 65536) % 256
                    [] i = 2 -> (n \div 256) % 256
                    [] i = 3 -> n % 256]

(* The bytes do not overlap: | is a sum.                                   *)
getU32(p) == p[0] * 16777216 + p[1] * 65536 + p[2] * 256 + p[3]

(* (uint64_t)n                                                             *)
Unsigned64(n) == IF n < 0 THEN n + 18446744073709551616 ELSE n

(* ... and back, by the sign bit.                                          *)
Signed64(u) == IF u >= 9223372036854775808 THEN u - 18446744073709551616 ELSE u

putU64(u) ==
  [i \in 0..7 |-> CASE i = 0 -> (u \div 72057594037927936) % 256
                    [] i = 1 -> (u \div 281474976710656) % 256
                    [] i = 2 -> (u \div 1099511627776) % 256
                    [] i = 3 -> (u \div 4294967296) % 256
                    [] i = 4 -> (u \div 16777216) % 256
                    [] i = 5 -> (u \div 65536) % 256
                    [] i = 6 -> (u \div 256) % 256
                    [] i = 7 -> u % 256]

putS64(n) == putU64(Unsigned64(n))

getS64(p) ==
  Signed64(p[0] * 72057594037927936 + p[1] * 281474976710656
           + p[2] * 1099511627776 + p[3] * 4294967296
           + p[4] * 16777216 + p[5] * 65536 + p[6] * 256 + p[7])
-----------------------------------------------------------------------------
TIME_SECOND == 1000000000

(* The value an int takes that a product does not fit into: undefined in   *)
(* C++; compilers fold the constant modulo 2^32.                           *)
Int32(x) == LET low == x % 4294967296
            IN IF low >= 2147483648 THEN low - 4294967296 ELSE low

(* / and % of C++ truncate towards zero; b is positive.                     *)
Quotient(a, b)  == IF a < 0 THEN -((-a) \div b) ELSE a \div b
Remainder(a, b) == IF a < 0 THEN -((-a) % b) ELSE a % b

TIME_INVALID_VALUE == -1

(* The four numbers of TIME_ARGS, each cast to uint32_t.  The divisors of  *)
(* the first two are products of ints; the second is negative, which the   *)
(* division by its opposite stands for.                                    *)
Uint32(x) == x % 4294967296

Shows(t, value, invalid) == IF t # TIME_INVALID_VALUE THEN Uint32(value) ELSE invalid

HourDivisor   == Int32(TIME_SECOND * 60 * 60)
MinuteDivisor == Int32(TIME_SECOND * 60)

TimeHours(t)   == Shows(t, Quotient(t, HourDivisor), 99)
TimeMinutes(t) == Shows(t, Remainder(-Quotient(t, -MinuteDivisor), 60), 99)
TimeSeconds(t) == Shows(t, Remainder(Quotient(t, TIME_SECOND), 60), 99)
TimeNanoseconds(t) == Shows(t, Remainder(t, TIME_SECOND), 999999999)
=============================================================================
