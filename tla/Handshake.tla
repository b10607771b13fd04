----------------------------- MODULE Handshake -----------------------------
(***************************************************************************)
(* The constructor of LogCrypt: it makes a key pair of its own, agrees on  *)
(* a secret with the key that was configured, and encrypts the records     *)
(* with the secret; its public key goes into every header, and whoever     *)
(* holds the configured private key computes the secret from the two.      *)
(* Each draw of a random number is a step, because it may fail, and may    *)
(* give a number that is refused.                                          *)
(***************************************************************************)
EXTENDS Ecc

CONSTANTS ServerKeys,   \* private keys whose public keys are configured
          ZDraws,       \* numbers the second draw may give
          MaxTries      \* uECC_RNG_MAX_TRIES

ASSUME HandshakeConstants ==
  /\ ServerKeys \subseteq 1..(N - 1)
  /\ ZDraws \subseteq Numbers
  /\ MaxTries \in Nat \ {0}

Malformed == 0     \* a key of another length, or not in hexadecimal

VARIABLES stage,       \* the step of the constructor
          svrKey,      \* the configured key, by its private half
          draws,       \* tries of uECC_generate_random_int
          tries,       \* tries of uECC_make_key
          clientPri, clientPub, initialZ, ecdhKey, teaKey, isCrypt

handshakeVars == <<stage, svrKey, draws, tries, clientPri, clientPub, initialZ, ecdhKey,
                   teaKey, isCrypt>>

-----------------------------------------------------------------------------
(* The group of the curve by its definition, and k times a point *)

Infinity == [x |-> P, y |-> P]

AffineAdd(p1, p2) ==
  LET slope == IF p1 = p2 THEN ((3 ** p1.x) ** p1.x) ** InverseP(2 ** p1.y)
               ELSE (p2.y -- p1.y) ** InverseP(p2.x -- p1.x)
      x == ((slope ** slope) -- p1.x) -- p2.x
  IN  IF p1 = Infinity THEN p2
      ELSE IF p2 = Infinity THEN p1
      ELSE IF p1.x = p2.x /\ p1.y ++ p2.y = 0 THEN Infinity
      ELSE [x |-> x, y |-> (slope ** (p1.x -- x)) -- p1.y]

Times(k, pt) ==
  LET times[m \in 0..k] ==
        IF m = 0 THEN Infinity
        ELSE LET half  == times[m \div 2]
                 twice == AffineAdd(half, half)
             IN  IF m % 2 = 1 THEN AffineAdd(twice, pt) ELSE twice
  IN  times[k]

-----------------------------------------------------------------------------

HandshakeInit ==
  /\ stage = "check" /\ svrKey \in ServerKeys \union {Malformed}
  /\ draws = 0 /\ tries = 0
  /\ clientPri = 0 /\ clientPub = NoPoint /\ initialZ = 0 /\ ecdhKey = 0
  /\ teaKey = 0 /\ isCrypt = FALSE

\* The length and the digits of the configured key.
CheckKey ==
  /\ stage = "check"
  /\ stage' = IF svrKey = Malformed THEN "done" ELSE "make"
  /\ UNCHANGED <<svrKey, draws, tries, clientPri, clientPub, initialZ, ecdhKey,
                 teaKey, isCrypt>>

\* uECC_generate_random_int: the bits above those of top are masked; 0 and
\* what is not below top are refused.
Masked(r, top)   == r % 2^NumBits(top)
Accepted(r, top) == ~ IsZero(r) /\ Cmp(top, r) = 1

Drawing == stage \in {"make", "secret"}

\* The source of random numbers fails: no encryption.
RngFails ==
  /\ Drawing
  /\ stage' = "done"
  /\ UNCHANGED <<svrKey, draws, tries, clientPri, clientPub, initialZ, ecdhKey,
                 teaKey, isCrypt>>

\* A number is refused; the last refusal ends the constructor.
Refused(r, top) ==
  /\ ~ Accepted(Masked(r, top), top)
  /\ draws' = draws + 1
  /\ stage' = IF draws' = MaxTries THEN "done" ELSE stage
  /\ UNCHANGED <<svrKey, tries, clientPri, clientPub, initialZ, ecdhKey, teaKey,
                 isCrypt>>

PublicKey(k) == EccPointMult(G, RegularizeK(k), 1, NumNBits + 1)

\* uECC_make_key with the draw r.  A private key whose multiplication gives
\* nothing is drawn again.
MakeKey(r) ==
  LET k == Masked(r, N)
  IN  /\ stage = "make"
      /\ \/ Refused(r, N)
         \/ /\ Accepted(k, N)
            /\ clientPri' = k /\ clientPub' = PublicKey(k) /\ draws' = 0
            /\ IF clientPub' = NoPoint
               THEN /\ tries' = tries + 1
                    /\ stage' = IF tries' = MaxTries THEN "done" ELSE stage
               ELSE stage' = "secret" /\ UNCHANGED tries
            /\ UNCHANGED <<svrKey, initialZ, ecdhKey, teaKey, isCrypt>>

\* uECC_shared_secret with the draw r for the initial z, and the first half of
\* its bytes, the most significant ones, for the key of TEA.
SharedSecret(r) ==
  LET z      == Masked(r, P)
      secret == EccPointMult(Times(svrKey, G), RegularizeK(clientPri), z,
                             NumNBits + 1)
  IN  /\ stage = "secret"
      /\ \/ Refused(r, P)
         \/ /\ Accepted(z, P)
            /\ initialZ' = z /\ ecdhKey' = secret.x
            /\ IF secret = NoPoint THEN UNCHANGED <<teaKey, isCrypt>>
               ELSE teaKey' = ecdhKey' \div Base^(Words \div 2) /\ isCrypt' = TRUE
            /\ stage' = "done"
            /\ UNCHANGED <<svrKey, draws, tries, clientPri, clientPub>>

HandshakeNext ==
  \/ CheckKey
  \/ RngFails
  \/ \E r \in Numbers : MakeKey(r)
  \/ \E r \in ZDraws : SharedSecret(r)

-----------------------------------------------------------------------------
(* Properties *)

\* With the public key of the header and its own private key the reader of the
\* file computes the key the records are encrypted with, by the definition of
\* the group and whatever numbers were drawn; and encryption is only given up
\* for a malformed key or a source of random numbers that fails or is refused.
SharedSecretAgrees ==
  /\ isCrypt => LET theirs == Times(svrKey, clientPub)
                IN  /\ theirs # Infinity
                    /\ ecdhKey = theirs.x
                    /\ teaKey = theirs.x \div Base^(Words \div 2)
                    /\ clientPub = Times(clientPri, G)
  /\ (stage = "done" /\ initialZ # 0) => isCrypt

\* With a carry left and p or more in the words, MmodFast loses the carry: the
\* subtraction of p borrows nothing from it.  No operand of the curve of the
\* source is likely to come near it: all but 2^32 + 977 of the 2^256 numbers are below p.
CarryLost(product) == Folded(product).carry > 0 /\ Folded(product).vli >= P

\* The word operations compute the integer operations they are used for, on the
\* numbers the handshake works with: carries and borrows run through the words,
\* the reduction that folds the high half twice is exact unless it loses a
\* carry, and the binary inversion inverts.
ArithmeticAgrees ==
  stage = "done" /\ isCrypt =>
    LET a == clientPri
        b == initialZ
        c == ecdhKey
        Reduces(x, y) == CarryLost(x * y) \/ MmodFast(Mult(x, y)) = x ** y
    IN  /\ Add(a, b) = [vli |-> (a + b) % Base^Words, carry |-> (a + b) \div Base^Words]
        /\ Sub(a, b) = [vli |-> (a - b) % Base^Words, borrow |-> Bool(a < b)]
        /\ Cmp(a, b) = CmpUnsafe(a, b) /\ (Cmp(a, b) = 1) = (a > b)
        /\ Mult(a, b) = a * b /\ Mult(c, c) = c * c
        /\ Square(a) = a * a /\ Square(c) = c * c
        /\ Reduces(a, b) /\ Reduces(c, b) /\ Reduces(c, a)
        /\ ModAdd(a, b, P) = a ++ b /\ ModSub(a, b, P) = a -- b
        /\ ModHalf(c, P) = Half(c)
        /\ ModInv(b, P) = InverseP(b)
=============================================================================
