-------------------------- MODULE NonceIncrement ---------------------------
(***************************************************************************)
(* increment_nonce of src/portal/wasm/src/crypto.rs, byte by byte: walk    *)
(* the nonce from its last byte to its first, add one with wrap-around,    *)
(* and stop at the first byte that did not wrap to zero.  A state is the   *)
(* nonce of one direction of a connection; a step is one more write (or    *)
(* one more accepted read), which is one call of increment_nonce.          *)
(*                                                                         *)
(* SecureChannel treats a nonce as its big-endian value and the increment  *)
(* as +1 modulo the size of the nonce space; the action property below     *)
(* checks that abstraction against the byte-level algorithm.               *)
(***************************************************************************)
EXTENDS Naturals, Sequences

CONSTANTS
    ByteRange,  \* values of one byte (256 in the code)
    NonceLen    \* bytes of a nonce (NONCE_SIZE = 12 in the code)

ASSUME ByteRangeAssumption == ByteRange \in Nat /\ ByteRange >= 2
ASSUME NonceLenAssumption == NonceLen \in Nat \ {0}

ByteNonces == [1 .. NonceLen -> 0 .. ByteRange - 1]

\* The loop of increment_nonce from position i down to the first byte.
RECURSIVE IncrementFrom(_, _)
IncrementFrom(nonce, i) ==
    IF i = 0 THEN nonce
    ELSE LET b == (nonce[i] + 1) % ByteRange
             next == [nonce EXCEPT ![i] = b]
         IN IF b # 0 THEN next ELSE IncrementFrom(next, i - 1)

\* A mutant for the property below: the same carry loop run from the first
\* byte forwards, as a little-endian reading of the nonce would.
RECURSIVE IncrementFromFront(_, _)
IncrementFromFront(nonce, i) ==
    IF i > NonceLen THEN nonce
    ELSE LET b == (nonce[i] + 1) % ByteRange
             next == [nonce EXCEPT ![i] = b]
         IN IF b # 0 THEN next ELSE IncrementFromFront(next, i + 1)

IncrementNonceLittleEndian(nonce) == IncrementFromFront(nonce, 1)

\* A mutant for TypeOK: the last byte incremented with a plain add, without
\* wrapping_add's reduction to a byte.
IncrementNonceNoWrap(nonce) == [nonce EXCEPT ![NonceLen] = @ + 1]

\* increment_nonce(nonce): iter_mut().rev() starts at the last byte.
IncrementNonce(nonce) == IncrementFrom(nonce, NonceLen)

\* Reference: the nonce read as a big-endian number.
RECURSIVE ValueOf(_, _)
ValueOf(nonce, i) == IF i = 0 THEN 0 ELSE ValueOf(nonce, i - 1) * ByteRange + nonce[i]
Value(nonce) == ValueOf(nonce, NonceLen)

VARIABLE nonce

TypeOK == nonce \in ByteNonces

\* client_nonce (or the server's nonce) is random: any byte string.
Init == nonce \in ByteNonces

Next == nonce' = IncrementNonce(nonce)

Spec == Init /\ [][Next]_nonce

\* Each call of increment_nonce moves the nonce to its big-endian successor
\* modulo ByteRange^NonceLen: the counter SecureChannel's Inc stands for,
\* wrapping from all-ones to all-zeros (spec 8.1, 8.6).
IncrementIsSuccessor ==
    [][Value(nonce') = (Value(nonce) + 1) % (ByteRange ^ NonceLen)]_nonce
=============================================================================
