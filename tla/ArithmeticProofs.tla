-------------------------- MODULE ArithmeticProofs --------------------------
(***************************************************************************)
(* Theorems about the pure functions of Utils and Clock, for every input.  *)
(***************************************************************************)
EXTENDS Clock, TLAPS

(* ROUND_UP_N gives the next multiple of align, which is num itself when   *)
(* num is one, and ROUND_DOWN_N the one before (Utils.h:55-123).           *)
THEOREM RoundsToMultiple ==
  ASSUME NEW num \in Int, NEW align \in Nat \ {0}
  PROVE  /\ \E k \in Int : ROUND_UP_N(num, align) = align * k
         /\ num <= ROUND_UP_N(num, align) /\ ROUND_UP_N(num, align) < num + align
         /\ \E k \in Int : ROUND_DOWN_N(num, align) = align * k
         /\ ROUND_DOWN_N(num, align) <= num /\ num < ROUND_DOWN_N(num, align) + align
<1>1. ASSUME NEW x \in Int
      PROVE  /\ x \div align \in Int /\ Masked(x, align) = align * (x \div align)
             /\ Masked(x, align) \in Int
             /\ Masked(x, align) <= x /\ x < Masked(x, align) + align
  <2>1. x \div align \in Int /\ x % align \in 0..(align - 1) /\ x = align * (x \div align) + (x % align)
    OBVIOUS
  <2>2. align * (x \div align) \in Int
    BY <2>1
  <2> QED
    BY <2>1, <2>2 DEF Masked
<1>2. num + (align - 1) \in Int
  OBVIOUS
<1>3. ROUND_UP_N(num, align) = align * ((num + (align - 1)) \div align)
  BY <1>1, <1>2 DEF ROUND_UP_N
<1>4. ROUND_DOWN_N(num, align) = align * (num \div align)
  BY <1>1 DEF ROUND_DOWN_N
<1>5. (num + (align - 1)) \div align \in Int /\ num \div align \in Int
  BY <1>1, <1>2
<1>6. num <= ROUND_UP_N(num, align) /\ ROUND_UP_N(num, align) < num + align
  <2>1. /\ Masked(num + (align - 1), align) <= num + (align - 1)
        /\ num + (align - 1) < Masked(num + (align - 1), align) + align
        /\ Masked(num + (align - 1), align) \in Int
    BY <1>1, <1>2
  <2> QED
    BY <2>1 DEF ROUND_UP_N
<1>7. ROUND_DOWN_N(num, align) <= num /\ num < ROUND_DOWN_N(num, align) + align
  BY <1>1 DEF ROUND_DOWN_N
<1> QED
  BY <1>3, <1>4, <1>5, <1>6, <1>7

-----------------------------------------------------------------------------
(* One byte more, and one byte less.                                       *)
Appends(b, a, m) ==
  /\ m = b * 256 + a /\ m \div 256 = b /\ m % 256 = a
  /\ \A k \in Nat : b < k => m < k * 256

LEMMA Append8 ==
  ASSUME NEW b \in Nat, NEW a \in Byte
  PROVE  \E m \in Nat : Appends(b, a, m)
<1>1. a \in Nat /\ a < 256
  BY SMT DEF Byte
<1>2. b * 256 + a \in Nat
  BY <1>1, SMT
<1>3. (b * 256 + a) \div 256 = b /\ (b * 256 + a) % 256 = a
  BY <1>1, SMT
<1>4. ASSUME NEW k \in Nat, b < k PROVE b * 256 + a < k * 256
  BY <1>1, <1>4, SMT
<1> QED
  BY <1>2, <1>3, <1>4 DEF Appends

(* A buffer as numbers.                                                    *)
LEMMA ByteAt ==
  ASSUME NEW x \in Byte
  PROVE  \E y \in Nat : y = x /\ y \in Byte /\ y < 256 /\ y % 256 = y
BY SMT DEF Byte

LEMMA Shift8 ==
  ASSUME NEW n \in Nat
  PROVE  /\ n \div 256 \in Nat /\ n % 256 \in Byte
         /\ n = (n \div 256) * 256 + (n % 256)
BY SMT DEF Byte

LEMMA Shifts ==
  ASSUME NEW n \in Nat
  PROVE  /\ n \div 65536 = (n \div 256) \div 256
         /\ n \div 16777216 = (n \div 65536) \div 256
         /\ n \div 4294967296 = (n \div 16777216) \div 256
         /\ n \div 1099511627776 = (n \div 4294967296) \div 256
         /\ n \div 281474976710656 = (n \div 1099511627776) \div 256
         /\ n \div 72057594037927936 = (n \div 281474976710656) \div 256
<1>1. n \div 65536 = (n \div 256) \div 256
  BY SMT
<1>2. n \div 16777216 = (n \div 65536) \div 256
  BY SMT
<1>3. n \div 4294967296 = (n \div 16777216) \div 256
  BY SMT
<1>4. n \div 1099511627776 = (n \div 4294967296) \div 256
  BY SMT
<1>5. n \div 281474976710656 = (n \div 1099511627776) \div 256
  BY SMT
<1>6. n \div 72057594037927936 = (n \div 281474976710656) \div 256
  BY SMT
<1> QED
  BY <1>1, <1>2, <1>3, <1>4, <1>5, <1>6, SMT

(* What putU32 writes getU32 reads, and the other way round                *)
(* (Utils.cpp:15-32).                                                      *)
THEOREM U32RoundTrip ==
  /\ \A n \in UINT32 : putU32(n) \in Bytes4 /\ getU32(putU32(n)) = n
  /\ \A p \in Bytes4 : getU32(p) \in UINT32 /\ putU32(getU32(p)) = p
<1>1. ASSUME NEW n \in UINT32
      PROVE  putU32(n) \in Bytes4 /\ getU32(putU32(n)) = n
  <2>1. n \in Nat /\ n < 4294967296
    BY SMT DEF UINT32
  <2>2. ASSUME NEW i \in 0..3 PROVE putU32(n)[i] \in Byte
    BY <2>1, SMT DEF putU32, Byte
  <2>3. putU32(n) \in Bytes4
    BY <2>2, SMT DEF putU32, Bytes4
  <2>4. /\ putU32(n)[0] = (n \div 16777216) % 256 /\ putU32(n)[1] = (n \div 65536) % 256
        /\ putU32(n)[2] = (n \div 256) % 256 /\ putU32(n)[3] = n % 256
    BY SMT DEF putU32
  <2>5. getU32(putU32(n)) = n
    BY <2>1, <2>4, SMT DEF getU32
  <2> QED
    BY <2>3, <2>5
<1>2. ASSUME NEW p \in Bytes4
      PROVE  getU32(p) \in UINT32 /\ putU32(getU32(p)) = p
  <2>0. p[0] \in Byte /\ p[1] \in Byte /\ p[2] \in Byte /\ p[3] \in Byte
    BY SMT DEF Bytes4
  <2>b0. PICK p0 \in Nat : p0 = p[0] /\ p0 \in Byte /\ p0 < 256 /\ p0 % 256 = p0
    BY <2>0, ByteAt
  <2>b1. PICK p1 \in Nat : p1 = p[1] /\ p1 \in Byte /\ p1 < 256 /\ p1 % 256 = p1
    BY <2>0, ByteAt
  <2>b2. PICK p2 \in Nat : p2 = p[2] /\ p2 \in Byte /\ p2 < 256 /\ p2 % 256 = p2
    BY <2>0, ByteAt
  <2>b3. PICK p3 \in Nat : p3 = p[3] /\ p3 \in Byte /\ p3 < 256 /\ p3 % 256 = p3
    BY <2>0, ByteAt
  <2>n1. PICK n1 \in Nat : Appends(p0, p1, n1)
    BY <2>b1, Append8
  <2>n2. PICK n2 \in Nat : Appends(n1, p2, n2)
    BY <2>b2, Append8
  <2>n3. PICK n3 \in Nat : Appends(n2, p3, n3)
    BY <2>b3, Append8
  <2> USE DEF Appends
  <2>1. getU32(p) = p0 * 16777216 + p1 * 65536 + p2 * 256 + p3
    BY <2>b0, <2>b1, <2>b2, <2>b3, SMT DEF getU32
  <2>2. getU32(p) = n3
    BY <2>1, <2>n1, <2>n2, <2>n3, SMT
  <2>3. n3 \div 65536 = n1 /\ n3 \div 16777216 = p0
    BY <2>n1, <2>n2, <2>n3, Shifts
  <2>4. n1 < 65536
    BY <2>b0, <2>n1, SMT
  <2>5. n2 < 16777216
    BY <2>4, <2>n2, SMT
  <2>6. n3 < 4294967296
    BY <2>5, <2>n3, SMT
  <2>7. n3 \in UINT32
    BY <2>6, SMT DEF UINT32
  <2>8. /\ putU32(n3)[0] = (n3 \div 16777216) % 256 /\ putU32(n3)[1] = (n3 \div 65536) % 256
        /\ putU32(n3)[2] = (n3 \div 256) % 256 /\ putU32(n3)[3] = n3 % 256
    BY SMT DEF putU32
  <2>9. putU32(n3)[0] = p[0] /\ putU32(n3)[1] = p[1] /\ putU32(n3)[2] = p[2] /\ putU32(n3)[3] = p[3]
    BY <2>b0, <2>b1, <2>b2, <2>b3, <2>n1, <2>n2, <2>n3, <2>3, <2>8
  <2>10. putU32(n3) \in Bytes4
    BY <1>1, <2>7
  <2>11. putU32(n3) = p
    BY <2>9, <2>10, SMT DEF Bytes4
  <2> QED
    BY <2>2, <2>7, <2>11
<1> QED
  BY <1>1, <1>2

(* The same for 64 bits and a sign (Utils.cpp:34-62): the casts to uint64_t *)
(* and back lose nothing.                                                  *)
LEMMA SignRoundTrip ==
  /\ \A n \in INT64 : /\ Unsigned64(n) \in Nat /\ Unsigned64(n) < 18446744073709551616
                      /\ Signed64(Unsigned64(n)) = n
  /\ \A u \in Nat : u < 18446744073709551616 =>
                      Signed64(u) \in INT64 /\ Unsigned64(Signed64(u)) = u
BY SMT DEF INT64, Unsigned64, Signed64

LEMMA U64Bytes ==
  ASSUME NEW u \in Nat
  PROVE  putU64(u) \in Bytes8
<1>1. \A k \in Nat : k % 256 \in Byte
  BY Shift8
<1>2. /\ u \in Nat
      /\ u \div 72057594037927936 \in Nat
      /\ u \div 281474976710656 \in Nat
      /\ u \div 1099511627776 \in Nat
      /\ u \div 4294967296 \in Nat
      /\ u \div 16777216 \in Nat
      /\ u \div 65536 \in Nat
      /\ u \div 256 \in Nat
  BY Shifts, Shift8
<1>3. ASSUME NEW i \in 0..7 PROVE putU64(u)[i] \in Byte
  BY <1>1, <1>2, SMT DEF putU64
<1> QED
  BY <1>3, SMT DEF putU64, Bytes8

THEOREM S64RoundTrip ==
  /\ \A n \in INT64 : putS64(n) \in Bytes8 /\ getS64(putS64(n)) = n
  /\ \A p \in Bytes8 : getS64(p) \in INT64 /\ putS64(getS64(p)) = p
<1>1. ASSUME NEW n \in INT64
      PROVE  putS64(n) \in Bytes8 /\ getS64(putS64(n)) = n
  <2>1. PICK u \in Nat : u = Unsigned64(n) /\ u < 18446744073709551616
    BY SignRoundTrip
  <2>2. putS64(n) = putU64(u) /\ putU64(u) \in Bytes8
    BY <2>1, U64Bytes DEF putS64
  <2>q1. PICK q1 \in Nat : q1 = u \div 256 /\ u = q1 * 256 + (u % 256)
    BY Shift8
  <2>q2. PICK q2 \in Nat : q2 = q1 \div 256 /\ q1 = q2 * 256 + (q1 % 256)
    BY Shift8
  <2>q3. PICK q3 \in Nat : q3 = q2 \div 256 /\ q2 = q3 * 256 + (q2 % 256)
    BY Shift8
  <2>q4. PICK q4 \in Nat : q4 = q3 \div 256 /\ q3 = q4 * 256 + (q3 % 256)
    BY Shift8
  <2>q5. PICK q5 \in Nat : q5 = q4 \div 256 /\ q4 = q5 * 256 + (q4 % 256)
    BY Shift8
  <2>q6. PICK q6 \in Nat : q6 = q5 \div 256 /\ q5 = q6 * 256 + (q5 % 256)
    BY Shift8
  <2>q7. PICK q7 \in Nat : q7 = q6 \div 256 /\ q6 = q7 * 256 + (q6 % 256)
    BY Shift8
  <2>d1. u \div 256 = q1
    BY <2>q1
  <2>d2. u \div 65536 = q2
    BY <2>d1, <2>q2, Shifts, SMT
  <2>d3. u \div 16777216 = q3
    BY <2>d2, <2>q3, Shifts, SMT
  <2>d4. u \div 4294967296 = q4
    BY <2>d3, <2>q4, Shifts, SMT
  <2>d5. u \div 1099511627776 = q5
    BY <2>d4, <2>q5, Shifts, SMT
  <2>d6. u \div 281474976710656 = q6
    BY <2>d5, <2>q6, Shifts, SMT
  <2>d7. u \div 72057594037927936 = q7
    BY <2>d6, <2>q7, Shifts, SMT
  <2>4. q4 < 4294967296
    BY <2>1, <2>q1, <2>q2, <2>q3, <2>q4, Shift8, SMT DEF Byte
  <2>5. q7 < 256
    BY <2>4, <2>q5, <2>q6, <2>q7, Shift8, SMT DEF Byte
  <2>6. q7 % 256 = q7
    BY <2>5, SMT
  <2>8. /\ putU64(u)[0] = (u \div 72057594037927936) % 256
        /\ putU64(u)[1] = (u \div 281474976710656) % 256
        /\ putU64(u)[2] = (u \div 1099511627776) % 256
        /\ putU64(u)[3] = (u \div 4294967296) % 256
        /\ putU64(u)[4] = (u \div 16777216) % 256
        /\ putU64(u)[5] = (u \div 65536) % 256
        /\ putU64(u)[6] = (u \div 256) % 256
        /\ putU64(u)[7] = u % 256
    BY SMT DEF putU64
  <2>e0. putU64(u)[0] = q7
    BY <2>1, <2>d7, <2>6, <2>8
  <2>e1. putU64(u)[1] = q6 % 256
    BY <2>1, <2>d6, <2>8
  <2>e2. putU64(u)[2] = q5 % 256
    BY <2>1, <2>d5, <2>8
  <2>e3. putU64(u)[3] = q4 % 256
    BY <2>1, <2>d4, <2>8
  <2>e4. putU64(u)[4] = q3 % 256
    BY <2>1, <2>d3, <2>8
  <2>e5. putU64(u)[5] = q2 % 256
    BY <2>1, <2>d2, <2>8
  <2>e6. putU64(u)[6] = q1 % 256
    BY <2>1, <2>d1, <2>8
  <2>e7. putU64(u)[7] = u % 256
    BY <2>1, <2>8
  <2>9. q7 * 72057594037927936 + (q6 % 256) * 281474976710656
           + (q5 % 256) * 1099511627776 + (q4 % 256) * 4294967296
           + (q3 % 256) * 16777216 + (q2 % 256) * 65536 + (q1 % 256) * 256 + (u % 256) = u
    <3>1. q6 * 281474976710656 = q7 * 72057594037927936 + (q6 % 256) * 281474976710656
      BY <2>q7, SMT
    <3>2. q4 * 4294967296 = q6 * 281474976710656 + (q5 % 256) * 1099511627776 + (q4 % 256) * 4294967296
      BY <2>q5, <2>q6, SMT
    <3>3. q2 * 65536 = q4 * 4294967296 + (q3 % 256) * 16777216 + (q2 % 256) * 65536
      BY <2>q3, <2>q4, SMT
    <3>4. u = q2 * 65536 + (q1 % 256) * 256 + (u % 256)
      BY <2>q1, <2>q2, SMT
    <3> QED
      BY <3>1, <3>2, <3>3, <3>4, SMT
  <2>10. getS64(putU64(u)) = Signed64(u)
    BY <2>e0, <2>e1, <2>e2, <2>e3, <2>e4, <2>e5, <2>e6, <2>e7, <2>9, SMT DEF getS64
  <2> QED
    BY <2>1, <2>2, <2>10, SignRoundTrip
<1>2. ASSUME NEW p \in Bytes8
      PROVE  getS64(p) \in INT64 /\ putS64(getS64(p)) = p
  <2>0. /\ p[0] \in Byte /\ p[1] \in Byte /\ p[2] \in Byte /\ p[3] \in Byte
        /\ p[4] \in Byte /\ p[5] \in Byte /\ p[6] \in Byte /\ p[7] \in Byte
    BY SMT DEF Bytes8
  <2>b0. PICK p0 \in Nat : p0 = p[0] /\ p0 \in Byte /\ p0 < 256 /\ p0 % 256 = p0
    BY <2>0, ByteAt
  <2>b1. PICK p1 \in Nat : p1 = p[1] /\ p1 \in Byte /\ p1 < 256 /\ p1 % 256 = p1
    BY <2>0, ByteAt
  <2>b2. PICK p2 \in Nat : p2 = p[2] /\ p2 \in Byte /\ p2 < 256 /\ p2 % 256 = p2
    BY <2>0, ByteAt
  <2>b3. PICK p3 \in Nat : p3 = p[3] /\ p3 \in Byte /\ p3 < 256 /\ p3 % 256 = p3
    BY <2>0, ByteAt
  <2>b4. PICK p4 \in Nat : p4 = p[4] /\ p4 \in Byte /\ p4 < 256 /\ p4 % 256 = p4
    BY <2>0, ByteAt
  <2>b5. PICK p5 \in Nat : p5 = p[5] /\ p5 \in Byte /\ p5 < 256 /\ p5 % 256 = p5
    BY <2>0, ByteAt
  <2>b6. PICK p6 \in Nat : p6 = p[6] /\ p6 \in Byte /\ p6 < 256 /\ p6 % 256 = p6
    BY <2>0, ByteAt
  <2>b7. PICK p7 \in Nat : p7 = p[7] /\ p7 \in Byte /\ p7 < 256 /\ p7 % 256 = p7
    BY <2>0, ByteAt
  <2>n1. PICK n1 \in Nat : Appends(p0, p1, n1)
    BY <2>b1, Append8
  <2>n2. PICK n2 \in Nat : Appends(n1, p2, n2)
    BY <2>b2, Append8
  <2>n3. PICK n3 \in Nat : Appends(n2, p3, n3)
    BY <2>b3, Append8
  <2>n4. PICK n4 \in Nat : Appends(n3, p4, n4)
    BY <2>b4, Append8
  <2>n5. PICK n5 \in Nat : Appends(n4, p5, n5)
    BY <2>b5, Append8
  <2>n6. PICK n6 \in Nat : Appends(n5, p6, n6)
    BY <2>b6, Append8
  <2>n7. PICK n7 \in Nat : Appends(n6, p7, n7)
    BY <2>b7, Append8
  <2> USE DEF Appends
  <2>1. n7 = p0 * 72057594037927936 + p1 * 281474976710656
              + p2 * 1099511627776 + p3 * 4294967296
              + p4 * 16777216 + p5 * 65536 + p6 * 256 + p7
    <3>1. n3 = p0 * 16777216 + p1 * 65536 + p2 * 256 + p3
      BY <2>n1, <2>n2, <2>n3, SMT
    <3>2. n7 = n3 * 4294967296 + p4 * 16777216 + p5 * 65536 + p6 * 256 + p7
      BY <2>n4, <2>n5, <2>n6, <2>n7, SMT
    <3> QED
      BY <3>1, <3>2, SMT
  <2>2. getS64(p) = Signed64(n7)
    BY <2>b0, <2>b1, <2>b2, <2>b3, <2>b4, <2>b5, <2>b6, <2>b7, <2>1 DEF getS64
  <2>3. n7 < 18446744073709551616
    <3>1. n1 < 65536
      BY <2>b0, <2>n1, SMT
    <3>2. n2 < 16777216
      BY <3>1, <2>n2, SMT
    <3>3. n3 < 4294967296
      BY <3>2, <2>n3, SMT
    <3>4. n4 < 1099511627776
      BY <3>3, <2>n4, SMT
    <3>5. n5 < 281474976710656
      BY <3>4, <2>n5, SMT
    <3>6. n6 < 72057594037927936
      BY <3>5, <2>n6, SMT
    <3> QED
      BY <3>6, <2>n7, SMT
  <2>d1. n7 \div 256 = n6
    BY <2>n7
  <2>d2. n7 \div 65536 = n5
    BY <2>d1, <2>n6, Shifts, SMT
  <2>d3. n7 \div 16777216 = n4
    BY <2>d2, <2>n5, Shifts, SMT
  <2>d4. n7 \div 4294967296 = n3
    BY <2>d3, <2>n4, Shifts, SMT
  <2>d5. n7 \div 1099511627776 = n2
    BY <2>d4, <2>n3, Shifts, SMT
  <2>d6. n7 \div 281474976710656 = n1
    BY <2>d5, <2>n2, Shifts, SMT
  <2>d7. n7 \div 72057594037927936 = p0
    BY <2>d6, <2>n1, Shifts, SMT
  <2>8. /\ putU64(n7)[0] = (n7 \div 72057594037927936) % 256
        /\ putU64(n7)[1] = (n7 \div 281474976710656) % 256
        /\ putU64(n7)[2] = (n7 \div 1099511627776) % 256
        /\ putU64(n7)[3] = (n7 \div 4294967296) % 256
        /\ putU64(n7)[4] = (n7 \div 16777216) % 256
        /\ putU64(n7)[5] = (n7 \div 65536) % 256
        /\ putU64(n7)[6] = (n7 \div 256) % 256
        /\ putU64(n7)[7] = n7 % 256
    BY SMT DEF putU64
  <2>e0. putU64(n7)[0] = p[0]
    BY <2>3, <2>b0, <2>d7, <2>8
  <2>e1. putU64(n7)[1] = p[1]
    BY <2>3, <2>b1, <2>d6, <2>n1, <2>8
  <2>e2. putU64(n7)[2] = p[2]
    BY <2>3, <2>b2, <2>d5, <2>n2, <2>8
  <2>e3. putU64(n7)[3] = p[3]
    BY <2>3, <2>b3, <2>d4, <2>n3, <2>8
  <2>e4. putU64(n7)[4] = p[4]
    BY <2>3, <2>b4, <2>d3, <2>n4, <2>8
  <2>e5. putU64(n7)[5] = p[5]
    BY <2>3, <2>b5, <2>d2, <2>n5, <2>8
  <2>e6. putU64(n7)[6] = p[6]
    BY <2>3, <2>b6, <2>d1, <2>n6, <2>8
  <2>e7. putU64(n7)[7] = p[7]
    BY <2>3, <2>b7, <2>n7, <2>8
  <2>5. \A i \in 0..7 : putU64(n7)[i] = p[i]
    BY <2>e0, <2>e1, <2>e2, <2>e3, <2>e4, <2>e5, <2>e6, <2>e7, SMT
  <2>6. putU64(n7) = p
    <3>1. putU64(n7) \in Bytes8
      BY <2>3, U64Bytes, SMT
    <3> QED
      BY <2>5, <3>1, SMT DEF Bytes8
  <2> QED
    BY <2>2, <2>3, <2>6, SignRoundTrip DEF putS64
<1> QED
  BY <1>1, <1>2
-----------------------------------------------------------------------------
(* A negative int becomes a large uint32_t.                                *)
LEMMA Uint32Wraps ==
  ASSUME NEW x \in Int, x < 0, 0 < x + 4294967296
  PROVE  Uint32(x) = x + 4294967296
BY SMT DEF Uint32

(* TIME_ARGS does not show h:m:s (Utils.h:167-168): the products it        *)
(* divides by do not fit into an int (Utils.h:184, 186), and where they    *)
(* wrap one hour is printed as 4404:4294967286:00.                         *)
THEOREM OneHourIsPrintedAs4404 ==
  /\ TimeHours(3600000000000) = 4404
  /\ TimeMinutes(3600000000000) = 4294967286
  /\ TimeSeconds(3600000000000) = 0
<1>1. HourDivisor = 817405952 /\ MinuteDivisor = -129542144
  BY SMT DEF HourDivisor, MinuteDivisor, Int32, TIME_SECOND
<1>2. TimeHours(3600000000000) = 4404
  BY <1>1, SMT DEF TimeHours, Shows, Uint32, Quotient, TIME_INVALID_VALUE
<1>3. TimeMinutes(3600000000000) = 4294967286
  <2>1. Quotient(3600000000000, 129542144) = 27790
    BY SMT DEF Quotient
  <2>2. Remainder(-27790, 60) = -10
    BY SMT DEF Remainder
  <2>3. Uint32(-10) = 4294967286
    <3>1. -10 \in Int /\ -10 < 0 /\ 0 < -10 + 4294967296 /\ -10 + 4294967296 = 4294967286
      BY SMT
    <3> QED
      BY <3>1, Uint32Wraps, SMT
  <2> QED
    BY <1>1, <2>1, <2>2, <2>3, SMT DEF TimeMinutes, Shows, TIME_INVALID_VALUE
<1>4. TimeSeconds(3600000000000) = 0
  BY SMT DEF TimeSeconds, Shows, Uint32, Quotient, Remainder, TIME_SECOND, TIME_INVALID_VALUE
<1> QED
  BY <1>2, <1>3, <1>4, SMT

(* The seconds and nanoseconds TIME_ARGS shows (Utils.h:187-190) are those *)
(* of the time, up to whole minutes.                                       *)
THEOREM SecondsAreShown ==
  ASSUME NEW t \in Nat
  PROVE  /\ TimeSeconds(t) \in Nat /\ TimeSeconds(t) < 60
         /\ TimeNanoseconds(t) \in Nat /\ TimeNanoseconds(t) < TIME_SECOND
         /\ \E k \in Nat :
              t = (k * 60 + TimeSeconds(t)) * TIME_SECOND + TimeNanoseconds(t)
<1>1. PICK q \in Nat, r \in Nat : /\ q = t \div 1000000000 /\ r = t % 1000000000
                                 /\ r < 1000000000 /\ t = q * 1000000000 + r
  BY SMT
<1>2. PICK k \in Nat, s \in Nat : s = q % 60 /\ s < 60 /\ q = k * 60 + s
  <2>1. q \div 60 \in Nat /\ q % 60 \in Nat /\ q % 60 < 60 /\ q = (q \div 60) * 60 + (q % 60)
    BY SMT
  <2> QED
    BY <2>1
<1>3. s % 4294967296 = s /\ r % 4294967296 = r
  BY <1>1, <1>2, SMT
<1>4. Remainder(Quotient(t, TIME_SECOND), 60) = s /\ Remainder(t, TIME_SECOND) = r
  BY <1>1, <1>2, SMT DEF Quotient, Remainder, TIME_SECOND
<1>5. TimeSeconds(t) = s /\ TimeNanoseconds(t) = r
  BY <1>3, <1>4, SMT DEF TimeSeconds, TimeNanoseconds, Shows, Uint32, TIME_INVALID_VALUE
<1>6. t = (k * 60 + s) * TIME_SECOND + r /\ r < TIME_SECOND
  BY <1>1, <1>2, SMT DEF TIME_SECOND
<1> QED
  BY <1>2, <1>5, <1>6
-----------------------------------------------------------------------------
(* The three units of the clock agree, rounded down, and none of them goes *)
(* back while the clock does not (Times.cpp:14-90).                        *)
THEOREM ClockUnits ==
  ASSUME LONG_MAX \in Nat, NEW t \in Timespec, NEW u \in Timespec,
         getSystemTimeNs(t) <= getSystemTimeNs(u), getSystemTimeNs(u) <= INT64_MAX
  PROVE  /\ getSystemTimeMs(t) = getSystemTimeUs(t) \div 1000
         /\ getSystemTimeUs(t) * 1000 <= getSystemTimeNs(t)
         /\ getSystemTimeNs(t) < (getSystemTimeUs(t) + 1) * 1000
         /\ getSystemTimeUs(t) <= getSystemTimeUs(u)
         /\ getSystemTimeMs(t) <= getSystemTimeMs(u)
<1>1. ASSUME NEW v \in Timespec
      PROVE  \E n \in Nat : /\ n = getSystemTimeNs(v)
                            /\ getSystemTimeUs(v) = n \div 1000
                            /\ getSystemTimeMs(v) = n \div 1000000
  <2>1. v.tv_sec \in Nat /\ v.tv_nsec \in Nat
    BY SMT DEF Timespec
  <2>2. getSystemTimeNs(v) \in Nat
    BY <2>1, SMT DEF getSystemTimeNs, BILLION
  <2> QED
    BY <2>2, SMT DEF getSystemTimeUs, getSystemTimeMs, Quotient
<1>2. PICK n \in Nat : /\ n = getSystemTimeNs(t)
                       /\ getSystemTimeUs(t) = n \div 1000
                       /\ getSystemTimeMs(t) = n \div 1000000
  BY <1>1
<1>3. PICK m \in Nat : /\ m = getSystemTimeNs(u)
                       /\ getSystemTimeUs(u) = m \div 1000
                       /\ getSystemTimeMs(u) = m \div 1000000
  BY <1>1
<1>4. n <= m
  BY <1>2, <1>3
<1>5. n \div 1000000 = (n \div 1000) \div 1000
  BY SMT
<1>6. (n \div 1000) * 1000 <= n /\ n < (n \div 1000 + 1) * 1000
  BY SMT
<1>7. n \div 1000 <= m \div 1000 /\ n \div 1000000 <= m \div 1000000
  BY <1>4, SMT
<1> QED
  BY <1>2, <1>3, <1>5, <1>6, <1>7

(* A time and a wait in seconds and nanoseconds add up exactly, with one   *)
(* carry, as long as no sum is cut.                                        *)
LEMMA ExactDeadline ==
  ASSUME LONG_MAX \in Nat, LONG_MAX <= INT64_MAX, NEW t \in Timespec,
         NEW sec \in Nat, NEW nsec \in Nat, nsec < BILLION,
         t.tv_sec + sec + 1 <= LONG_MAX
  PROVE  /\ Deadline(t, sec, nsec) \in Timespec
         /\ getSystemTimeNs(Deadline(t, sec, nsec)) = getSystemTimeNs(t) + sec * BILLION + nsec
<1>1. PICK a \in Nat, b \in Nat : a = t.tv_sec /\ b = t.tv_nsec /\ b < BILLION /\ a <= LONG_MAX
  BY SMT DEF Timespec
<1>2. BILLION \in Nat
  BY SMT DEF BILLION
<1>3. Seconds(t, sec) = a + sec /\ Seconds(t, sec + 1) = a + sec + 1
  BY <1>1, SMT DEF Seconds, INT64_MAX
<1>4. Carries(t, sec, nsec) <=> b + nsec >= BILLION
  BY <1>1, SMT DEF Carries, INT64_MAX
<1>5. CASE b + nsec >= BILLION
  <2>1. Deadline(t, sec, nsec) = [tv_sec |-> a + sec + 1, tv_nsec |-> b + nsec - BILLION]
    BY <1>1, <1>3, <1>4, <1>5, SMT DEF Deadline
  <2>2. a + sec + 1 \in Nat /\ a + sec + 1 <= LONG_MAX
    BY <1>1, SMT
  <2>3. b + nsec - BILLION \in Nat /\ b + nsec - BILLION < BILLION
    BY <1>1, <1>2, <1>5, SMT
  <2>4. (a + sec + 1) * BILLION + (b + nsec - BILLION) = a * BILLION + b + sec * BILLION + nsec
    BY <1>1, SMT DEF BILLION
  <2> QED
    BY <1>1, <2>1, <2>2, <2>3, <2>4, SMT DEF Timespec, getSystemTimeNs
<1>6. CASE b + nsec < BILLION
  <2>1. Deadline(t, sec, nsec) = [tv_sec |-> a + sec, tv_nsec |-> b + nsec]
    BY <1>1, <1>2, <1>3, <1>4, <1>6, SMT DEF Deadline
  <2>2. a + sec \in Nat /\ a + sec <= LONG_MAX /\ b + nsec \in Nat
    BY <1>1, SMT
  <2>3. (a + sec) * BILLION + (b + nsec) = a * BILLION + b + sec * BILLION + nsec
    BY <1>1, SMT DEF BILLION
  <2> QED
    BY <1>1, <1>6, <2>1, <2>2, <2>3, SMT DEF Timespec, getSystemTimeNs
<1>7. b + nsec >= BILLION \/ b + nsec < BILLION
  BY <1>1, <1>2, SMT
<1> QED
  BY <1>5, <1>6, <1>7

(* A wait in seconds and nanoseconds.                                      *)
(* The platform's seconds reach past the end of the wait.                  *)
Reaches(t, sec) == t.tv_sec + sec + 1 <= LONG_MAX

MsSplit(reltime, sec, nsec) ==
  /\ sec = Quotient(reltime, 1000)
  /\ nsec = Remainder(reltime * 1000 * 1000, BILLION) /\ nsec < BILLION
  /\ sec * BILLION + nsec = reltime * 1000000

UsSplit(reltime, sec, nsec) ==
  /\ sec = Quotient(reltime, 1000000)
  /\ nsec = Remainder(reltime * 1000, BILLION) /\ nsec < BILLION
  /\ sec * BILLION + nsec = reltime * 1000

MsSplits(reltime) == \E sec \in Nat, nsec \in Nat : MsSplit(reltime, sec, nsec)

UsSplits(reltime) == \E sec \in Nat, nsec \in Nat : UsSplit(reltime, sec, nsec)

LEMMA SplitMs ==
  ASSUME NEW reltime \in Nat
  PROVE  MsSplits(reltime)
<1>1. PICK s \in Nat, m \in Nat : s = reltime \div 1000 /\ m < 1000 /\ reltime = s * 1000 + m
  <2>1. reltime \div 1000 \in Nat /\ reltime % 1000 \in Nat /\ reltime % 1000 < 1000
    BY SMT
  <2>2. reltime = (reltime \div 1000) * 1000 + (reltime % 1000)
    BY SMT
  <2> QED
    BY <2>1, <2>2, SMT
<1>2. m * 1000000 \in Nat /\ m * 1000000 < BILLION
  BY <1>1, SMT DEF BILLION
<1>3. reltime * 1000 * 1000 = s * 1000000000 + m * 1000000
  BY <1>1, SMT
<1>4. (s * 1000000000 + m * 1000000) % 1000000000 = m * 1000000
  BY <1>1, SMT
<1>5. Remainder(reltime * 1000 * 1000, BILLION) = m * 1000000
  BY <1>3, <1>4, SMT DEF Remainder, BILLION
<1>6. Quotient(reltime, 1000) = s
  BY <1>1, SMT DEF Quotient
<1>7. s * BILLION + m * 1000000 = reltime * 1000000
  BY <1>1, SMT DEF BILLION
<1> QED
  BY <1>1, <1>2, <1>5, <1>6, <1>7, SMT DEF MsSplit, MsSplits

LEMMA SplitUs ==
  ASSUME NEW reltime \in Nat
  PROVE  UsSplits(reltime)
<1>1. PICK s \in Nat, m \in Nat : s = reltime \div 1000000 /\ m < 1000000 /\ reltime = s * 1000000 + m
  <2>1. reltime \div 1000000 \in Nat /\ reltime % 1000000 \in Nat /\ reltime % 1000000 < 1000000
    BY SMT
  <2>2. reltime = (reltime \div 1000000) * 1000000 + (reltime % 1000000)
    BY SMT
  <2> QED
    BY <2>1, <2>2, SMT
<1>2. m * 1000 \in Nat /\ m * 1000 < BILLION
  BY <1>1, SMT DEF BILLION
<1>3. reltime * 1000 = s * 1000000000 + m * 1000
  BY <1>1, SMT
<1>4. (s * 1000000000 + m * 1000) % 1000000000 = m * 1000
  BY <1>1, SMT
<1>5. Remainder(reltime * 1000, BILLION) = m * 1000
  BY <1>3, <1>4, SMT DEF Remainder, BILLION
<1>6. Quotient(reltime, 1000000) = s
  BY <1>1, SMT DEF Quotient
<1>7. s * BILLION + m * 1000 = reltime * 1000
  BY <1>1, SMT DEF BILLION
<1> QED
  BY <1>1, <1>2, <1>5, <1>6, <1>7, SMT DEF UsSplit, UsSplits

(* A wait ends at the time asked for, to the nanosecond, and what is given *)
(* to pthread_cond_timedwait is a valid timespec (Condition.h:99-123): if  *)
(* the product is an int64_t and the platform's seconds reach that far.    *)
THEOREM WaitRelativeIsExact ==
  ASSUME LONG_MAX \in Nat, LONG_MAX <= INT64_MAX, NEW t \in Timespec, NEW reltime \in Nat,
         reltime * 1000 * 1000 <= INT64_MAX, Reaches(t, reltime \div 1000)
  PROVE  /\ waitRelative(t, reltime) \in Timespec
         /\ getSystemTimeNs(waitRelative(t, reltime)) = getSystemTimeNs(t) + reltime * 1000000
<1>a. MsSplits(reltime)
  BY SplitMs, SMT
<1>0. PICK sec \in Nat, nsec \in Nat : MsSplit(reltime, sec, nsec)
  BY <1>a, SMT DEF MsSplits
<1>1. /\ sec = Quotient(reltime, 1000)
      /\ nsec = Remainder(reltime * 1000 * 1000, BILLION) /\ nsec < BILLION
      /\ sec * BILLION + nsec = reltime * 1000000
  BY <1>0, SMT DEF MsSplit
<1>2. waitRelative(t, reltime) = Deadline(t, sec, nsec)
  BY <1>1, SMT DEF waitRelative
<1>3. sec = reltime \div 1000
  BY <1>1, SMT DEF Quotient
<1>4. /\ Deadline(t, sec, nsec) \in Timespec
      /\ getSystemTimeNs(Deadline(t, sec, nsec)) = getSystemTimeNs(t) + sec * BILLION + nsec
  BY <1>1, <1>3, ExactDeadline, SMT DEF Reaches
<1>5. getSystemTimeNs(t) \in Int /\ BILLION \in Int
  BY SMT DEF getSystemTimeNs, Timespec, BILLION
<1> QED
  BY <1>1, <1>2, <1>4, <1>5, SMT

(* The same for microseconds (Condition.h:130-154).                        *)
THEOREM WaitRelativeUsIsExact ==
  ASSUME LONG_MAX \in Nat, LONG_MAX <= INT64_MAX, NEW t \in Timespec, NEW reltime \in Nat,
         reltime * 1000 <= INT64_MAX, Reaches(t, reltime \div 1000000)
  PROVE  /\ waitRelativeUs(t, reltime) \in Timespec
         /\ getSystemTimeNs(waitRelativeUs(t, reltime)) = getSystemTimeNs(t) + reltime * 1000
<1>a. UsSplits(reltime)
  BY SplitUs, SMT
<1>0. PICK sec \in Nat, nsec \in Nat : UsSplit(reltime, sec, nsec)
  BY <1>a, SMT DEF UsSplits
<1>1. /\ sec = Quotient(reltime, 1000000)
      /\ nsec = Remainder(reltime * 1000, BILLION) /\ nsec < BILLION
      /\ sec * BILLION + nsec = reltime * 1000
  BY <1>0, SMT DEF UsSplit
<1>2. waitRelativeUs(t, reltime) = Deadline(t, sec, nsec)
  BY <1>1, SMT DEF waitRelativeUs
<1>3. sec = reltime \div 1000000
  BY <1>1, SMT DEF Quotient
<1>4. /\ Deadline(t, sec, nsec) \in Timespec
      /\ getSystemTimeNs(Deadline(t, sec, nsec)) = getSystemTimeNs(t) + sec * BILLION + nsec
  BY <1>1, <1>3, ExactDeadline, SMT DEF Reaches
<1>5. getSystemTimeNs(t) \in Int /\ BILLION \in Int
  BY SMT DEF getSystemTimeNs, Timespec, BILLION
<1> QED
  BY <1>1, <1>2, <1>4, <1>5, SMT

(* Where long has 32 bits a wait may be too long for it: it is cut at the  *)
(* largest second instead of wrapping into the past, and the sum of        *)
(* nanoseconds fits (Condition.h:106-120).                                 *)
THEOREM LongWaitIsCut ==
  ASSUME LONG_MAX = 2147483647, NEW t \in Timespec, t.tv_sec < LONG_MAX,
         NEW reltime \in Nat, reltime * 1000 * 1000 <= INT64_MAX
  PROVE  /\ waitRelative(t, reltime) \in Timespec
         /\ getSystemTimeNs(t) <= getSystemTimeNs(waitRelative(t, reltime))
         /\ t.tv_nsec + Remainder(reltime * 1000 * 1000, BILLION) <= LONG_MAX
<1>a. MsSplits(reltime)
  BY SplitMs, SMT
<1>0. PICK sec \in Nat, nsec \in Nat : MsSplit(reltime, sec, nsec)
  BY <1>a, SMT DEF MsSplits
<1>1. /\ sec = Quotient(reltime, 1000)
      /\ nsec = Remainder(reltime * 1000 * 1000, BILLION) /\ nsec < BILLION
      /\ sec * BILLION + nsec = reltime * 1000000
  BY <1>0, SMT DEF MsSplit
<1>2. waitRelative(t, reltime) = Deadline(t, sec, nsec)
  BY <1>1, SMT DEF waitRelative
<1>3. PICK a \in Nat, b \in Nat : a = t.tv_sec /\ b = t.tv_nsec /\ b < BILLION /\ a < LONG_MAX
  BY SMT DEF Timespec
<1>4. b + nsec <= LONG_MAX
  BY <1>1, <1>3, SMT DEF BILLION
<1>5. sec < INT64_MAX /\ a + sec + 1 <= INT64_MAX
  BY <1>1, <1>3, SMT DEF INT64_MAX, BILLION
<1>6. ASSUME NEW s \in Nat, a + s <= INT64_MAX
      PROVE  \E x \in Nat : x = Seconds(t, s) /\ x <= LONG_MAX /\ (x = a + s \/ x = LONG_MAX)
  BY <1>3, <1>6, SMT DEF Seconds, INT64_MAX
<1>7. Carries(t, sec, nsec) <=> b + nsec >= BILLION
  BY <1>3, <1>5, SMT DEF Carries
<1>8. \E x \in Nat, y \in Nat : /\ Deadline(t, sec, nsec) = [tv_sec |-> x, tv_nsec |-> y]
                                /\ x <= LONG_MAX /\ y < BILLION
                                /\ x > a \/ (x = a /\ y >= b)
  <2>1. CASE b + nsec >= BILLION
    <3>1. PICK x \in Nat : x = Seconds(t, sec + 1) /\ x <= LONG_MAX /\ (x = a + (sec + 1) \/ x = LONG_MAX)
      BY <1>5, <1>6, SMT
    <3>2. Deadline(t, sec, nsec) = [tv_sec |-> x, tv_nsec |-> b + nsec - BILLION]
      BY <1>3, <1>7, <2>1, <3>1, SMT DEF Deadline
    <3>3. b + nsec - BILLION \in Nat /\ b + nsec - BILLION < BILLION /\ x > a
      BY <1>1, <1>3, <2>1, <3>1, SMT DEF BILLION
    <3> QED
      BY <3>1, <3>2, <3>3, SMT
  <2>2. CASE b + nsec < BILLION
    <3>0. a + sec <= INT64_MAX
      BY <1>5, SMT DEF INT64_MAX
    <3>1. PICK x \in Nat : x = Seconds(t, sec) /\ x <= LONG_MAX /\ (x = a + sec \/ x = LONG_MAX)
      BY <3>0, <1>6, SMT
    <3>2. ~(b + nsec >= BILLION)
      BY <2>2, SMT DEF BILLION
    <3>3. Deadline(t, sec, nsec) = [tv_sec |-> x, tv_nsec |-> b + nsec]
      BY <1>3, <1>7, <3>1, <3>2, SMT DEF Deadline
    <3>4. b + nsec \in Nat /\ (x > a \/ (x = a /\ b + nsec >= b))
      BY <1>3, <3>1, SMT
    <3> QED
      BY <2>2, <3>1, <3>3, <3>4, SMT
  <2>3. b + nsec >= BILLION \/ b + nsec < BILLION
    BY SMT DEF BILLION
  <2> QED
    BY <2>1, <2>2, <2>3, SMT
<1>9. PICK x \in Nat, y \in Nat : /\ Deadline(t, sec, nsec) = [tv_sec |-> x, tv_nsec |-> y]
                                  /\ x <= LONG_MAX /\ y < BILLION
                                  /\ x > a \/ (x = a /\ y >= b)
  BY <1>8, SMT
<1>10. a * BILLION + b <= x * BILLION + y
  BY <1>3, <1>9, SMT DEF BILLION
<1> QED
  BY <1>1, <1>2, <1>3, <1>4, <1>9, <1>10, SMT DEF Timespec, getSystemTimeNs

(* A wait for less than no time is not handed over as a time: its          *)
(* nanoseconds are negative unless the clock's make up for them, and       *)
(* pthread_cond_timedwait refuses it (Condition.h:106-110).                *)
THEOREM NegativeWaitIsRefused ==
  ASSUME NEW t \in Timespec, NEW d \in 1..999, t.tv_nsec < d * 1000000
  PROVE  waitRelative(t, -d).tv_nsec < 0
<1>1. PICK b \in Nat : b = t.tv_nsec
  BY SMT DEF Timespec
<1>2. d \in Nat /\ 0 < d /\ d < 1000
  BY SMT
<1>3. (d * 1000000) % 1000000000 = d * 1000000
  BY <1>2, SMT
<1>4. (-d) * 1000 * 1000 = -(d * 1000000) /\ -((-d) * 1000 * 1000) = d * 1000000
  BY <1>2, SMT
<1>5. Remainder((-d) * 1000 * 1000, BILLION) = -(d * 1000000)
  BY <1>2, <1>3, <1>4, SMT DEF Remainder, BILLION
<1>6. b + (-(d * 1000000)) < 0
  BY <1>1, <1>2, SMT
<1>7. ~Carries(t, Quotient(-d, 1000), -(d * 1000000))
  BY <1>1, <1>6, SMT DEF Carries, BILLION
<1>8. waitRelative(t, -d).tv_nsec = b + (-(d * 1000000))
  BY <1>1, <1>5, <1>7, SMT DEF waitRelative, Deadline
<1> QED
  BY <1>6, <1>8, SMT
=============================================================================
