------------------------------ MODULE Signing ------------------------------
(***************************************************************************)
(* The rest of micro-ecc for secp256k1: a program that uses the library    *)
(* beside LogCrypt, and whose own LogCrypt got no key.  It computes the    *)
(* public key of a private key, signs, at random or by RFC 6979, and       *)
(* verifies signatures, its own ones and altered ones.  Nothing in KLog    *)
(* calls these functions; they are part of the library it builds.          *)
(*                                                                         *)
(* Drawing a random number is a step of Handshake in detail; here it gives *)
(* a number that is accepted, or fails.  The hash that RFC 6979 iterates   *)
(* is external: it gives any number.                                       *)
(***************************************************************************)
EXTENDS Handshake, Sequences

CONSTANTS ByteBits,     \* the bits of a byte
          SignKeys,     \* private keys the program tries
          Hashes,       \* hashes of messages, sequences of bytes
          Masks         \* numbers that blind the inversion of k

NumBytes == NumNBits \div ByteBits
Bytes    == 0..(2^ByteBits - 1)

ASSUME SigningConstants ==
  /\ ByteBits \in Nat \ {0} /\ NumNBits % ByteBits = 0
  /\ SignKeys \subseteq Numbers /\ Masks \subseteq 1..(N - 1)
  /\ \A h \in Hashes : \A i \in DOMAIN h : h[i] \in Bytes

VARIABLES phase,       \* of the program
          private, public, hash,
          nonce,       \* the k of the last attempt, for the properties
          attempts,    \* of uECC_sign
          signature,   \* bytes of r, then of s
          valid        \* what uECC_verify says of it

signing == <<phase, private, public, hash, nonce, attempts, signature, valid>>

-----------------------------------------------------------------------------
(* Numbers modulo the order n, and bytes *)

\* product modulo mod, for any mod: mod is shifted to the top and taken off,
\* bit by bit, wherever that leaves no borrow.
Mmod(product, mod) ==
  LET shift == 2 * Words * WordBits - NumBits(mod)
      left[i \in -1..shift] ==      \* after mod * 2^shift .. mod * 2^(i + 1)
        IF i = shift THEN product
        ELSE LET multiple == mod * 2^(i + 1)
                 rest     == left[i + 1]
             IN  IF rest < multiple THEN rest ELSE rest - multiple
  IN  left[-1]

ModMult(left, right, mod) == Mmod(Mult(left, right), mod)

\* Big endian, n bytes.
NativeToBytes(v, n) ==
  [i \in 1..n |-> (v \div 2^(ByteBits * (n - i))) % 2^ByteBits]
BytesToNative(bytes) ==
  LET value[i \in 0..Len(bytes)] ==
        IF i = 0 THEN 0 ELSE value[i - 1] * 2^ByteBits + bytes[i]
  IN  value[Len(bytes)]

\* The leftmost bytes of a hash, as a number that may exceed n: n has as many
\* bits as its bytes, so nothing is shifted or reduced.
Bits2Int(bits) == BytesToNative(SubSeq(bits, 1, IF Len(bits) > NumBytes THEN NumBytes ELSE Len(bits)))

-----------------------------------------------------------------------------
(* Keys *)

\* b, from the base point, and x^3 + b.
B == (Gy ** Gy) -- (Gx ** (Gx ** Gx))
XSide(x) == ((x ** x) ** x) ++ B

ValidPoint(pt) ==
  /\ pt # NoPoint
  /\ CmpUnsafe(P, pt.x) = 1 /\ CmpUnsafe(P, pt.y) = 1
  /\ pt.y ** pt.y = XSide(pt.x)

\* uECC_compute_public_key for a private key from outside, NoPoint when it fails.
ComputePublicKey(key) ==
  IF IsZero(key) \/ Cmp(N, key) # 1 THEN NoPoint ELSE PublicKey(key)

-----------------------------------------------------------------------------
(* Signatures *)

NoSignature == <<>>

\* uECC_point_mult: the ladder from Z = 1, for a scalar below 2n.
PointMult(pt, k) == EccPointMult(pt, RegularizeK(k), 1, NumNBits + 1)

\* s = (e + r * d) / k behind r, for an r that is not 0.
RS(r, d, bits, inverse) ==
  LET sum == ModAdd(Bits2Int(bits), ModMult(d, r, N), N)
  IN  IF IsZero(r) THEN NoSignature
      ELSE NativeToBytes(r, NumBytes) \o NativeToBytes(ModMult(sum, inverse, N), NumBytes)

\* Mutant: the mask of the inversion stays in k.
SignBlinded(d, bits, k, mask) ==
  IF IsZero(k) \/ Cmp(N, k) # 1 THEN NoSignature
  ELSE RS(PointMult(G, k).x, d, bits, ModInv(ModMult(k, mask, N), N))

\* uECC_sign_with_k: r is the x of k * G, as it is; the inversion of k is masked.
SignWithK(d, bits, k, mask) ==
  IF IsZero(k) \/ Cmp(N, k) # 1 THEN NoSignature
  ELSE RS(PointMult(G, k).x, d, bits, ModMult(ModInv(ModMult(k, mask, N), N), mask, N))

R(sig) == BytesToNative(SubSeq(sig, 1, NumBytes))
S(sig) == BytesToNative(SubSeq(sig, NumBytes + 1, 2 * NumBytes))

\* G + Q, as a point of z = 1: nothing when Q is G or its opposite.
GPlus(Q) == ApplyZ(CoZAdd(G, Q)[2], InverseP(Q.x -- G.x))

\* The sum, in Jacobian coordinates, is doubled, and a point is added to it.
Doubled(sum) == DoubleJacobian(sum.pt, sum.z)
Added(sum, point) ==
  LET pt == ApplyZ(point, sum.z)
  IN  [pt |-> CoZAdd(pt, sum.pt)[2], z |-> sum.z ** (sum.pt.x -- pt.x)]

\* u1 * G + u2 * Q by Shamir's trick: each bit doubles the sum, and one of u1
\* adds G, one of u2 adds Q, both add G + Q.
Shamir(u1, u2, Q) ==
  LET point(i) == CASE TestBit(u1, i) /\ TestBit(u2, i) -> GPlus(Q)
                    [] TestBit(u1, i) /\ ~ TestBit(u2, i) -> G
                    [] OTHER -> Q
      top == (IF NumBits(u1) > NumBits(u2) THEN NumBits(u1) ELSE NumBits(u2)) - 1
      at[i \in 0..top] ==
        IF i = top THEN [pt |-> point(top), z |-> 1]
        ELSE IF TestBit(u1, i) \/ TestBit(u2, i)
             THEN Added(Doubled(at[i + 1]), point(i))
             ELSE Doubled(at[i + 1])
  IN  at[0]

U1(bits, sig) == ModMult(Bits2Int(bits), ModInv(S(sig), N), N)
U2(sig)       == ModMult(R(sig), ModInv(S(sig), N), N)

InRange(v) == ~ IsZero(v) /\ CmpUnsafe(N, v) = 1

Affine(sum)  == ApplyZ(sum.pt, InverseP(sum.z))
BelowN(x)    == IF CmpUnsafe(N, x) # 1 THEN Sub(x, N).vli ELSE x

\* uECC_verify.
Verify(Q, bits, sig) ==
  /\ InRange(R(sig)) /\ InRange(S(sig))
  /\ BelowN(Affine(Shamir(U1(bits, sig), U2(sig), Q)).x) = R(sig)

-----------------------------------------------------------------------------

SigningInit ==
  /\ HandshakeInit
  /\ phase = "off" /\ private = 0 /\ public = NoPoint /\ hash = <<>>
  /\ nonce = 0 /\ attempts = 0 /\ signature = NoSignature /\ valid = FALSE

\* The program has a private key: uECC_compute_public_key.
SetKey(d) ==
  /\ stage = "done" /\ svrKey = Malformed /\ phase = "off"
  /\ private' = d /\ public' = ComputePublicKey(d)
  /\ phase' = IF public' = NoPoint THEN "refused" ELSE "keyed"
  /\ UNCHANGED <<handshakeVars, hash, nonce, attempts, signature, valid>>

\* uECC_sign and uECC_sign_deterministic begin.
BeginSign(bits, how) ==
  /\ phase = "keyed" /\ hash' = bits /\ phase' = how
  /\ UNCHANGED <<handshakeVars, private, public, nonce, attempts, signature, valid>>

\* One attempt with k: another one after a failure, up to MaxTries of them.
Attempt(k, sig) ==
  /\ signature' = sig
  /\ IF sig # NoSignature
     THEN phase' = "signed" /\ nonce' = k /\ attempts' = 0
     ELSE /\ phase' = IF attempts + 1 = MaxTries THEN "failed" ELSE phase
          /\ attempts' = attempts + 1
          /\ UNCHANGED nonce
  /\ UNCHANGED <<handshakeVars, private, public, hash, valid>>

\* A k that was drawn; the mask is drawn after it, and may fail.
SignRandom(k, mask) ==
  /\ phase = "random"
  /\ Attempt(k, SignWithK(private, hash, k, mask))

MaskFails ==
  /\ phase \in {"random", "deterministic"}
  /\ Attempt(nonce, NoSignature)

\* No k at all.
DrawFails ==
  /\ phase = "random" /\ phase' = "failed"
  /\ UNCHANGED <<handshakeVars, private, public, hash, nonce, attempts, signature, valid>>

\* The hash fills a number of as many bits as n, which may be 0 or exceed n.
SignDeterministic(T, mask) ==
  /\ phase = "deterministic"
  /\ Attempt(T, SignWithK(private, hash, T, mask))

\* A signature as it is, or with another r or s, is verified.
Altered(sig) ==
  LET r == R(sig)
      s == S(sig)
      Of(pair) == NativeToBytes(pair[1], NumBytes) \o NativeToBytes(pair[2], NumBytes)
  IN  {Of(pair) : pair \in {<<r, s>>, <<r, N - s>>, <<s, r>>, <<(r + N) % Base^Words, s>>,
                            <<r, 0>>, <<0, s>>}}

VerifyOne(sig) ==
  /\ phase = "signed" /\ phase' = "verified"
  /\ signature' = sig /\ valid' = Verify(public, hash, sig)
  /\ UNCHANGED <<handshakeVars, private, public, hash, nonce, attempts>>

SigningNext ==
  \/ HandshakeNext /\ UNCHANGED signing
  \/ \E d \in SignKeys : SetKey(d)
  \/ \E bits \in Hashes, how \in {"random", "deterministic"} : BeginSign(bits, how)
  \/ \E k \in 1..(N - 1), mask \in Masks : SignRandom(k, mask)
  \/ MaskFails
  \/ DrawFails
  \/ \E T \in Numbers, mask \in Masks : SignDeterministic(T, mask)
  \/ phase = "signed" /\ \E sig \in Altered(signature) : VerifyOne(sig)

SigningSpec == SigningInit /\ [][SigningNext]_<<handshakeVars, signing>>

-----------------------------------------------------------------------------
(* Properties *)

InverseN(a) == CHOOSE i \in 1..(N - 1) : (i * a) % N = 1

\* u1 * G + u2 * Q by the definition of the group.
Combined(Q, bits, sig) ==
  LET w == InverseN(S(sig))
  IN  AffineAdd(Times((Bits2Int(bits) * w) % N, G), Times((R(sig) * w) % N, Q))

\* The definition of a valid signature.
Holds(Q, bits, sig) ==
  /\ R(sig) \in 1..(N - 1) /\ S(sig) \in 1..(N - 1)
  /\ Combined(Q, bits, sig) # Infinity /\ Combined(Q, bits, sig).x % N = R(sig)

\* An addition of two points with the same x loses the sum.
Lost(Q, bits, sig) == Shamir(U1(bits, sig), U2(sig), Q).z = 0

\* A key that is accepted is a point of the curve, the one the definition gives.
\* A signature is the one the definition gives for the k that was used, whatever
\* number masks the inversion.  uECC_verify accepts no signature that does not
\* hold, and rejects one that does only when an addition on the way loses the
\* sum.  (r may exceed n - 1 and s may be 0 in a signature; both are rejected.)
SignaturesAgree ==
  /\ phase \notin {"off", "refused"} =>
       ValidPoint(public) /\ public = Times(private, G)
  /\ phase = "signed" =>
       LET r == R(signature)
       IN  /\ r = Times(nonce, G).x
           /\ (S(signature) * nonce) % N = (Bits2Int(hash) + r * private) % N
  /\ phase = "verified" =>
       IF valid THEN Holds(public, hash, signature)
       ELSE Holds(public, hash, signature) => Lost(public, hash, signature)
=============================================================================
