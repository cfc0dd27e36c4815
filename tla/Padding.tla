------------------------------ MODULE Padding ------------------------------
(***************************************************************************)
(* The padding functions of src/crypto/aes/padding.go as operators over    *)
(* byte sequences, checked against the round trip they exist for: an      *)
(* unpadding of a padding gives back the plaintext.  The state is one      *)
(* plaintext, chosen in Init among all byte sequences up to MaxLen over    *)
(* Bytes, so every invariant is checked for every such plaintext.          *)
(***************************************************************************)
EXTENDS Naturals, Sequences, SequencesExt

CONSTANTS
    BlockSize,   \* the blockSize argument
    Bytes,       \* the byte values plaintexts are made of
    MaxLen       \* the longest plaintext checked

ASSUME BlockSize \in Nat \ {0} /\ Bytes \subseteq 0..255 /\ MaxLen \in Nat

VARIABLE plain

\* A ([]byte, error) result.
Err   == [ok |-> FALSE, data |-> <<>>]
Ok(d) == [ok |-> TRUE, data |-> d]

\* Go's byte(n) conversion.
ByteOf(n) == n % 256

\* bytes.Repeat([]byte{b}, n)
Repeat(b, n) == [i \in 1..n |-> b]

\* padding := blockSize - len(plainText)%blockSize
PadLen(p, bs) == bs - (Len(p) % bs)

\* Mutant: pad with zero bytes instead of the padding length.
PKCS5PaddingZeroFill(p, bs) ==
    IF bs # 8 THEN Err ELSE Ok(p \o Repeat(0, PadLen(p, bs)))

ZeroPadding(p, bs) == p \o Repeat(0, PadLen(p, bs))

\* Mutant: strip a single trailing zero byte.
ZeroUnPaddingOneByte(p) ==
    IF p # <<>> /\ Last(p) = 0 THEN Front(p) ELSE p

\* bytes.TrimFunc with r == 0: drops zero bytes at both ends (a zero byte
\* is always a rune of its own in UTF-8, so runes and bytes agree here).
ZeroUnPadding(p) ==
    LET first == SelectInSeq(p, LAMBDA b : b # 0)
        last  == SelectLastInSeq(p, LAMBDA b : b # 0)
    IN  IF first = 0 THEN <<>> ELSE SubSeq(p, first, last)

PKCS5Padding(p, bs) ==
    IF bs # 8 THEN Err
    ELSE Ok(p \o Repeat(ByteOf(PadLen(p, bs)), PadLen(p, bs)))

PKCS7Padding(p, bs) == p \o Repeat(ByteOf(PadLen(p, bs)), PadLen(p, bs))

\* Mutant: keep one padding byte too many.
PKCS7UnPaddingOffByOne(p) ==
    IF Len(p) = 0 THEN Err
    ELSE IF p[Len(p)] >= Len(p) THEN Err
    ELSE Ok(SubSeq(p, 1, Len(p) - p[Len(p)] + 1))

\* The last byte gives the padding size; a size not below the length is
\* an error, anything else is cut off without looking at the other bytes.
PKCS7UnPadding(p) ==
    IF Len(p) = 0 THEN Err
    ELSE IF p[Len(p)] >= Len(p) THEN Err
    ELSE Ok(SubSeq(p, 1, Len(p) - p[Len(p)]))

\* The same code as PKCS7UnPadding.
PKCS5UnPadding(p) == PKCS7UnPadding(p)

-----------------------------------------------------------------------------
Init == plain \in BoundedSeq(Bytes, MaxLen)

Next == UNCHANGED plain

Spec == Init /\ [][Next]_plain

-----------------------------------------------------------------------------
(* PKCS7UnPadding gives back every non-empty plaintext PKCS7Padding padded. *)
PKCS7RoundTripNonEmpty ==
    Len(plain) > 0 =>
        PKCS7UnPadding(PKCS7Padding(plain, BlockSize)) = Ok(plain)

(* With 8-byte blocks, PKCS5UnPadding gives back every non-empty plaintext *)
(* PKCS5Padding padded.                                                    *)
PKCS5RoundTripNonEmpty ==
    (Len(plain) > 0 /\ BlockSize = 8) =>
        /\ PKCS5Padding(plain, BlockSize).ok
        /\ PKCS5UnPadding(PKCS5Padding(plain, BlockSize).data) = Ok(plain)

(* ZeroUnPadding gives back a zero-padded plaintext that neither starts nor *)
(* ends with a zero byte.                                                   *)
ZeroRoundTripInner ==
    (plain # <<>> /\ plain[1] # 0 /\ Last(plain) # 0) =>
        ZeroUnPadding(ZeroPadding(plain, BlockSize)) = plain

=============================================================================
