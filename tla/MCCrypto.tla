------------------------------ MODULE MCCrypto ------------------------------
(***************************************************************************)
(* The pure crypto helpers checked in one run: the paddings and block      *)
(* modes of AESModes over every plaintext, and one call of String or       *)
(* Password of RandomGen.  The two do not interact, so a behaviour checks  *)
(* one of them: either a plaintext is chosen and the random call stays at  *)
(* its start, or the plaintext is empty and the random call runs.  The     *)
(* state spaces add up instead of multiplying.                             *)
(***************************************************************************)
EXTENDS RandomGen

CONSTANTS BlockSize, Bytes, MaxLen, AESBlockSize, Secrets, KeyLens, IVBytes

VARIABLE plain

AES == INSTANCE AESModes

vars == <<plain, rvars>>

CryptoInit ==
    \/ AES!Init /\ Init /\ call = "String"
    \/ plain = <<>> /\ Init

CryptoNext ==
    \/ AES!Next /\ UNCHANGED rvars
    \/ plain = <<>> /\ Next /\ UNCHANGED plain

CryptoSpec == CryptoInit /\ [][CryptoNext]_vars

\* PKCS7UnPadding undoes PKCS7Padding for every non-empty plaintext.
PKCS7RoundTripNonEmpty == AES!PKCS7RoundTripNonEmpty

\* PKCS5UnPadding undoes PKCS5Padding for every non-empty plaintext.
PKCS5RoundTripNonEmpty == AES!PKCS5RoundTripNonEmpty

\* ZeroUnPadding undoes ZeroPadding where the plaintext has no zero bytes at its ends.
ZeroRoundTripInner == AES!ZeroRoundTripInner

\* DecryptECB undoes EncryptECB under every key of a valid length.
ECBRoundTrip == AES!ECBRoundTrip

\* DecryptCBC undoes EncryptCBC under every valid key and every IV.
CBCRoundTrip == AES!CBCRoundTrip

\* DecryptECB and DecryptCBC never reach a CryptBlocks that panics.
DecryptNeverPanics == AES!DecryptNeverPanics

=============================================================================
