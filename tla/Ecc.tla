-------------------------------- MODULE Ecc --------------------------------
(***************************************************************************)
(* The arithmetic of micro-ecc that LogCrypt reaches for secp256k1: the    *)
(* numbers of several machine words ("vli", the least significant word     *)
(* first), the reduction modulo a prime close to a power of two, and the   *)
(* multiplication of a point by a co-Z Montgomery ladder.  Words are       *)
(* WordBits wide and wrap around.  The source has four words of 64 bits    *)
(* and the prime 2^256 - omega; here the sizes and the curve are           *)
(* parameters, and the curve keeps what the code relies on: y^2 = x^3 + b, *)
(* an omega of one word, an order n of as many bits as the words have, and *)
(* no point with x = 0.                                                    *)
(***************************************************************************)
EXTENDS Integers

CONSTANTS WordBits,   \* uECC_WORD_BITS
          Words,      \* num_words_secp256k1
          Omega,      \* 2^256 - p
          N,          \* the order of the curve
          Gx, Gy      \* the base point

Base     == 2^WordBits
P        == Base^Words - Omega
NumNBits == Words * WordBits

ASSUME CurveFits ==
  /\ WordBits \in Nat \ {0} /\ Words \in Nat \ {0}
  /\ Omega \in 1..(Base - 1)
  /\ N \in 2^(NumNBits - 1)..(Base^Words - 1)
  /\ Gx \in 1..(P - 1) /\ Gy \in 1..(P - 1)

Index   == 0..(Words - 1)
Numbers == 0..(Base^Words - 1)
Bool(b) == IF b THEN 1 ELSE 0

\* A number stands for the array of its words: word i of v, and the number
\* whose words, n of them, are w[0], w[1], ...
Word(v, i) == (v \div Base^i) % Base
Number(w, n) ==
  LET value[i \in 0..n] ==
        IF i = 0 THEN 0 ELSE w[i - 1] * Base^(i - 1) + value[i - 1]
  IN  value[n]

-----------------------------------------------------------------------------
(* Words *)

IsZero(v)       == \A i \in Index : Word(v, i) = 0
Even(v)         == Word(v, 0) % 2 = 0
TestBit(v, bit) ==
  (Word(v, bit \div WordBits) \div 2^(bit % WordBits)) % 2 = 1

\* The highest word of a set of words.
Top(words) == CHOOSE i \in words : \A j \in words : j <= i

\* The sign of left - right, by the highest word that differs.
CmpUnsafe(left, right) ==
  LET differ == {i \in Index : Word(left, i) # Word(right, i)}
  IN  IF differ = {} THEN 0
      ELSE IF Word(left, Top(differ)) > Word(right, Top(differ)) THEN 1 ELSE -1

\* The number of bits of v.
NumBits(v) ==
  LET digits == {i \in Index : Word(v, i) # 0}
      Bits(w) == CHOOSE b \in 1..WordBits : w \in 2^(b - 1)..(2^b - 1)
  IN  IF digits = {} THEN 0
      ELSE Top(digits) * WordBits + Bits(Word(v, Top(digits)))

\* Mutant: the carry of the last addition alone.
AddForgets(left, right) ==
  LET Sum(i, c) == (Word(left, i) + Word(right, i) + c) % Base
      carry[i \in 0..Words] ==
        IF i = 0 THEN 0
        ELSE Bool(Sum(i - 1, carry[i - 1]) < Word(left, i - 1))
  IN  [vli   |-> Number([i \in Index |-> Sum(i, carry[i])], Words),
       carry |-> carry[Words]]

\* The sum and its carry.  A sum equal to left leaves the carry as it was:
\* right + carry is then 0 or a full word.
Add(left, right) ==
  LET Sum(i, c) == (Word(left, i) + Word(right, i) + c) % Base
      carry[i \in 0..Words] ==
        IF i = 0 THEN 0
        ELSE LET c   == carry[i - 1]
                 sum == Sum(i - 1, c)
             IN  IF sum # Word(left, i - 1) THEN Bool(sum < Word(left, i - 1))
                 ELSE c
  IN  [vli   |-> Number([i \in Index |-> Sum(i, carry[i])], Words),
       carry |-> carry[Words]]

\* The difference and its borrow.
Sub(left, right) ==
  LET Diff(i, b) == (Word(left, i) - Word(right, i) - b) % Base
      borrow[i \in 0..Words] ==
        IF i = 0 THEN 0
        ELSE LET b    == borrow[i - 1]
                 diff == Diff(i - 1, b)
             IN  IF diff # Word(left, i - 1) THEN Bool(diff > Word(left, i - 1))
                 ELSE b
  IN  [vli    |-> Number([i \in Index |-> Diff(i, borrow[i])], Words),
       borrow |-> borrow[Words]]

\* The comparison by a subtraction: 1, 0 or -1.
Cmp(left, right) ==
  LET difference == Sub(left, right)
  IN  Bool(~ IsZero(difference.vli)) - 2 * difference.borrow

\* v >> 1 word by word, with the bit high shifted in at the top.
ShiftIn(v, high) ==
  LET In(i) == IF i = Words - 1 THEN high ELSE Word(v, i + 1) % 2
  IN  Number([i \in Index |-> Word(v, i) \div 2 + (Base \div 2) * In(i)], Words)
Rshift1(v) == ShiftIn(v, 0)

\* <<r0, r1, r2>> + a * b, a sum of three words.
MulAdd(a, b, r) ==
  LET product == a * b
      r01     == (r[2] * Base + r[1] + product) % (Base * Base)
  IN  <<r01 % Base, r01 \div Base, (r[3] + Bool(r01 < product)) % Base>>

-----------------------------------------------------------------------------
(* Products, and numbers modulo p *)

\* The accumulators after the products left[i] * right[k - i], i from lo to hi.
Column(left, right, k, lo, hi, r) ==
  LET sum[i \in (lo - 1)..hi] ==
        IF i < lo THEN r ELSE MulAdd(Word(left, i), Word(right, k - i), sum[i - 1])
  IN  sum[hi]

\* The product, of twice as many words, column by column.
Mult(left, right) ==
  LET last == 2 * Words - 2
      column[k \in 0..last] ==
        LET r == IF k = 0 THEN <<0, 0, 0>>
                 ELSE <<column[k - 1][2], column[k - 1][3], 0>>
        IN  IF k < Words THEN Column(left, right, k, 0, k, r)
            ELSE Column(left, right, k, k + 1 - Words, Words - 1, r)
  IN  Number([k \in 0..(last + 1) |->
                IF k <= last THEN column[k][1] ELSE column[last][2]], last + 2)

\* <<r0, r1, r2>> + 2 a b: the product's highest bit goes to r2 before it is doubled.
Mul2Add(a, b, r) ==
  LET product == (2 * a * b) % (Base * Base)
      r01     == (r[2] * Base + r[1] + product) % (Base * Base)
  IN  <<r01 % Base, r01 \div Base,
        (r[3] + (2 * a * b) \div (Base * Base) + Bool(r01 < product)) % Base>>

\* left squared with half of the products, each of two different words twice.
Square(left) ==
  LET last == 2 * Words - 2
      column[k \in 0..last] ==
        LET lo == IF k < Words THEN 0 ELSE k + 1 - Words
            sum[i \in (lo - 1)..(k \div 2)] ==
              IF i < lo
              THEN IF k = 0 THEN <<0, 0, 0>> ELSE <<column[k - 1][2], column[k - 1][3], 0>>
              ELSE IF i < k - i THEN Mul2Add(Word(left, i), Word(left, k - i), sum[i - 1])
              ELSE MulAdd(Word(left, i), Word(left, i), sum[i - 1])
        IN  sum[k \div 2]
  IN  Number([k \in 0..(last + 1) |->
                IF k <= last THEN column[k][1] ELSE column[last][2]], last + 2)

\* right times Omega, one word longer than right.
OmegaMult(right) ==
  LET r[k \in 0..Words] ==
        IF k = 0 THEN <<0, 0, 0>>
        ELSE MulAdd(Omega, Word(right, k - 1), <<r[k - 1][2], r[k - 1][3], 0>>)
  IN  Number([k \in 0..Words |->
                IF k < Words THEN r[k + 1][1] ELSE r[Words][2]], Words + 1)

Low(v)  == v % Base^Words
High(v) == v \div Base^Words

\* The high half is folded into the low half, twice, as 2^256 = Omega modulo p.
Folded(product) ==
  LET once   == OmegaMult(High(product))
      first  == Add(Low(product), Low(once))
      second == Add(first.vli, Low(OmegaMult(High(once))))
  IN  [vli |-> second.vli, carry |-> first.carry + second.carry]

\* product modulo p: p is taken off once per carry, and once if it still fits.
\* A subtraction for a carry drops what it borrows, or fails to borrow.
MmodFast(product) ==
  LET folded == Folded(product)
      less[c \in 0..2] == IF c = 0 THEN folded.vli ELSE Sub(less[c - 1], P).vli
      result == less[folded.carry]
  IN  IF CmpUnsafe(result, P) > 0 THEN Sub(result, P).vli ELSE result

ModAdd(left, right, mod) ==
  LET sum == Add(left, right)
  IN  IF sum.carry = 1 \/ CmpUnsafe(mod, sum.vli) # 1
      THEN Sub(sum.vli, mod).vli ELSE sum.vli

ModSub(left, right, mod) ==
  LET difference == Sub(left, right)
  IN  IF difference.borrow = 1 THEN Add(difference.vli, mod).vli
      ELSE difference.vli

\* u / 2 modulo mod, which is odd: mod is added first to an odd u.
ModHalf(u, mod) ==
  IF Even(u) THEN Rshift1(u)
  ELSE LET sum == Add(u, mod) IN ShiftIn(sum.vli, sum.carry)

\* One round of the binary inversion: a = u * input and b = v * input modulo mod.
ModInvRound(s, mod) ==
  LET Minus(x, y) ==
        Sub(IF CmpUnsafe(x, y) < 0 THEN Add(x, mod).vli ELSE x, y).vli
  IN  CASE s.a = s.b -> s
        [] s.a # s.b /\ Even(s.a) ->
             [s EXCEPT !.a = Rshift1(s.a), !.u = ModHalf(s.u, mod)]
        [] s.a # s.b /\ ~ Even(s.a) /\ Even(s.b) ->
             [s EXCEPT !.b = Rshift1(s.b), !.v = ModHalf(s.v, mod)]
        [] ~ Even(s.a) /\ ~ Even(s.b) /\ CmpUnsafe(s.a, s.b) > 0 ->
             [s EXCEPT !.a = Rshift1(Sub(s.a, s.b).vli),
                       !.u = ModHalf(Minus(s.u, s.v), mod)]
        [] ~ Even(s.a) /\ ~ Even(s.b) /\ CmpUnsafe(s.a, s.b) < 0 ->
             [s EXCEPT !.b = Rshift1(Sub(s.b, s.a).vli),
                       !.v = ModHalf(Minus(s.v, s.u), mod)]

\* The inverse of input modulo mod, 0 for 0: every round before a = b takes a
\* bit off a or b, so 2 * NumNBits rounds are enough.
ModInv(input, mod) ==
  LET round[i \in 0..(2 * NumNBits)] ==
        IF i = 0 THEN [a |-> input, b |-> mod, u |-> 1, v |-> 0]
        ELSE ModInvRound(round[i - 1], mod)
  IN  IF IsZero(input) THEN 0 ELSE round[2 * NumNBits].u

-----------------------------------------------------------------------------
(* Points: records of two coordinates.  Between the points the arithmetic is *)
(* that of the integers modulo p, which the word operations above implement  *)
(* (Handshake checks it).                                                    *)

modMult_fast(a, b) == (a * b) % P

a ++ b == (a + b) % P
a -- b == (a - b) % P
a ** b == modMult_fast(a, b)
Sqr(a)      == (a * a) % P    \* uECC_vli_modSquare_fast
Half(a)     == IF a % 2 = 0 THEN a \div 2 ELSE (a + P) \div 2
InverseP(a) == IF a = 0 THEN 0 ELSE CHOOSE i \in 1..(P - 1) : i ** a = 1

G       == [x |-> Gx, y |-> Gy]
NoPoint == [x |-> 0, y |-> 0]     \* what EccPoint_isZero tests

\* (x, y) => (x z^2, y z^3)
ApplyZ(pt, z) ==
  LET z2 == Sqr(z) IN [x |-> pt.x ** z2, y |-> pt.y ** (z2 ** z)]

\* 2 pt in Jacobian coordinates, with the new z: double_jacobian_secp256k1.
DoubleJacobian(pt, z) ==
  LET y2 == Sqr(pt.y)
      A  == pt.x ** y2
      x2 == Sqr(pt.x)
      B  == Half((x2 ++ x2) ++ x2)
      x3 == (Sqr(B) -- A) -- A
  IN  IF IsZero(z) THEN [pt |-> pt, z |-> z]
      ELSE [pt |-> [x |-> x3, y |-> (B ** (A -- x3)) -- Sqr(y2)],
            z  |-> pt.y ** z]

\* <<2 pt, pt>> with a common z.
InitialDouble(pt, initialZ) ==
  LET twice == DoubleJacobian(ApplyZ(pt, initialZ), initialZ)
  IN  <<twice.pt, ApplyZ(pt, twice.z)>>

\* <<pt, qt>>, of a common z, => <<pt, pt + qt>>, of another.
CoZAdd(pt, qt) ==
  LET dx == qt.x -- pt.x
      A  == Sqr(dx)
      B  == pt.x ** A
      C  == qt.x ** A
      dy == qt.y -- pt.y
      E  == pt.y ** (C -- B)
      x3 == (Sqr(dy) -- B) -- C
  IN  <<[x |-> B, y |-> E], [x |-> x3, y |-> (dy ** (B -- x3)) -- E]>>

\* <<pt, qt>> => <<pt - qt, pt + qt>>
CoZAddC(pt, qt) ==
  LET dx == qt.x -- pt.x
      A  == Sqr(dx)
      B  == pt.x ** A
      C  == qt.x ** A
      sy == qt.y ++ pt.y
      dy == qt.y -- pt.y
      E  == pt.y ** (C -- B)
      BC == B ++ C
      x3 == Sqr(dy) -- BC
      xc == Sqr(sy) -- BC
  IN  <<[x |-> xc, y |-> (sy ** (xc -- B)) -- E],
        [x |-> x3, y |-> (dy ** (B -- x3)) -- E]>>

\* One rung of the ladder for the bit nb = 1 - bit: R is the pair of points.
AddC(R, nb) == LET r == CoZAddC(R[1 - nb], R[nb])
               IN  [i \in {0, 1} |-> IF i = nb THEN r[2] ELSE r[1]]
AddL(R, nb) == LET r == CoZAdd(R[nb], R[1 - nb])
               IN  [i \in {0, 1} |-> IF i = nb THEN r[1] ELSE r[2]]

NotBit(scalar, i) == Bool(~ TestBit(scalar, i))

\* The last rung, which keeps R[0] and takes the common z back, by the known
\* coordinates of pt.
LastRung(pt, R, nb) ==
  LET z   == (pt.x ** R[1 - nb].y) ** (R[1].x -- R[0].x)
      inv == (InverseP(z) ** pt.y) ** R[1 - nb].x
  IN  ApplyZ(AddL(R, nb)[0], inv)

\* scalar * pt, for a scalar of num_bits bits whose highest is set.
EccPointMult(pt, scalar, initialZ, num_bits) ==
  LET rung[i \in 1..(num_bits - 1)] ==
        IF i = num_bits - 1
        THEN [b \in {0, 1} |-> InitialDouble(pt, initialZ)[2 - b]]
        ELSE AddL(AddC(rung[i + 1], NotBit(scalar, i)), NotBit(scalar, i))
  IN  LastRung(pt, AddC(rung[1], NotBit(scalar, 0)), NotBit(scalar, 0))

\* Mutant: k + n, whatever its number of bits.
RegularizeOnce(k) == Add(k, N).vli

\* k + n or k + 2n, whichever has exactly one bit more than n.
RegularizeK(k) ==
  LET k0 == Add(k, N)
  IN  IF k0.carry = 1 THEN k0.vli ELSE Add(k0.vli, N).vli

=============================================================================
