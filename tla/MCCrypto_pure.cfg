\* Every plaintext over {0, 1} up to 9 bytes.  The paddings are checked with
\* 8-byte blocks (the size PKCS5 requires); the block modes with 4-byte AES
\* blocks, so that such plaintexts span up to three blocks, under keys of a
\* valid and an invalid length and every IV over {0, 1}.  As ciphertexts,
\* the same sequences are forged inputs of every length up to 9.
\* String and Password of 5 and 6 bytes (5 is refused by Password, 6 is its
\* least length and leaves two bytes besides the four class positions),
\* with one byte for each character class, one byte of no class, and a
\* crypto/rand that may fail.
CONSTANTS
    BlockSize = 8
    Bytes = {0, 1}
    MaxLen = 9
    AESBlockSize = 4
    Secrets = {1}
    KeyLens = {15, 16}
    IVBytes = {0, 1}
    NumberChars = {48}
    CapitalChars = {65}
    LowercaseChars = {97}
    SpecialChars = {35}
    OtherBytes = {200}
    Lengths = {5, 6}
    RandFails = TRUE
SPECIFICATION CryptoSpec
INVARIANT PKCS7RoundTripNonEmpty
INVARIANT PKCS5RoundTripNonEmpty
INVARIANT ZeroRoundTripInner
INVARIANT ECBRoundTrip
INVARIANT CBCRoundTrip
INVARIANT DecryptNeverPanics
