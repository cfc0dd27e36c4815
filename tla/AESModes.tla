------------------------------ MODULE AESModes ------------------------------
(***************************************************************************)
(* The AES block modes of src/crypto/aes/ECB.go and CBC.go, over the       *)
(* paddings of Padding.  The AES block cipher of crypto/aes is abstracted  *)
(* to a keyed permutation of blocks (BlockEncrypt/BlockDecrypt): the modes *)
(* only need that decryption under the same key inverts encryption, and a *)
(* permutation that moves bytes between positions makes block order and   *)
(* chaining matter.  A key is a record of its length, which is all the     *)
(* code checks, and the secret it stands for.  The block is AESBlockSize  *)
(* bytes: AES's block is 16, and a smaller value lets short plaintexts    *)
(* span several blocks; no line of the modes depends on the value 16.     *)
(* The IV that EncryptCBC reads from crypto/rand is any block of IVBytes. *)
(***************************************************************************)
EXTENDS Padding, Bitwise

CONSTANTS
    AESBlockSize,  \* block.BlockSize()
    Secrets,       \* the secrets keys stand for, as small numbers
    KeyLens,       \* the key lengths tried, valid and invalid
    IVBytes        \* the bytes an IV read from crypto/rand is made of

ASSUME AESBlockSize \in Nat \ {0} /\ Secrets \subseteq Nat /\ KeyLens \subseteq Nat

Keys == [len : KeyLens, secret : Secrets]

\* A result of CryptBlocks on input that is not whole blocks: Go panics.
Panic == [ok |-> FALSE, data |-> <<"panic">>]

\* (len(key) != 16) && (len(key) != 24) && (len(key) != 32)
BadKeyLen(key) == key.len \notin {16, 24, 32}

\* The i-th block (1-based) of a sequence of whole blocks.
Block(s, i) == SubSeq(s, (i - 1) * AESBlockSize + 1, i * AESBlockSize)

NumBlocks(s) == Len(s) \div AESBlockSize

\* x.b.Encrypt / x.b.Decrypt: rotate the block one byte left and add the
\* secret to every byte, and the inverse.
BlockEncrypt(key, b) ==
    [i \in 1..Len(b) |-> (b[(i % Len(b)) + 1] + key.secret) % 256]

BlockDecrypt(key, c) ==
    [i \in 1..Len(c) |-> (c[((i - 2) % Len(c)) + 1] + 256 - key.secret) % 256]

XorBlock(a, b) == [i \in 1..Len(a) |-> a[i] ^^ b[i]]

-----------------------------------------------------------------------------
(* ECB: every block on its own.                                           *)

\* (*ecbEncrypt).CryptBlocks: for len(src) > 0, x.b.Encrypt(dst,
\* src[:x.blockSize]) and both advance by a block.  A tail shorter than a
\* block makes crypto/aes panic.
ECBEncryptBlocks(key, src) ==
    IF Len(src) % AESBlockSize # 0 THEN Panic
    ELSE Ok(FoldLeft(LAMBDA acc, i : acc \o BlockEncrypt(key, Block(src, i)),
                     <<>>, [i \in 1..NumBlocks(src) |-> i]))

\* Mutant: dst is not advanced, so every block is written over the first
\* one and the rest of dst keeps the zeros of make().
ECBDecryptBlocksNoDstAdvance(key, src) ==
    IF Len(src) % AESBlockSize # 0 THEN Panic
    ELSE IF src = <<>> THEN Ok(<<>>)
    ELSE Ok(BlockDecrypt(key, Block(src, NumBlocks(src)))
              \o Repeat(0, Len(src) - AESBlockSize))

\* (*ecbDecrypt).CryptBlocks, the same loop with x.b.Decrypt.
ECBDecryptBlocks(key, src) ==
    IF Len(src) % AESBlockSize # 0 THEN Panic
    ELSE Ok(FoldLeft(LAMBDA acc, i : acc \o BlockDecrypt(key, Block(src, i)),
                     <<>>, [i \in 1..NumBlocks(src) |-> i]))

EncryptECB(key, plainText) ==
    IF Len(plainText) = 0 THEN Err
    ELSE IF BadKeyLen(key) THEN Err
    ELSE LET content == PKCS7Padding(plainText, AESBlockSize)
         IN  IF Len(content) % AESBlockSize # 0 THEN Err
             ELSE ECBEncryptBlocks(key, content)

DecryptECB(key, cipherText) ==
    IF Len(cipherText) = 0 THEN Err
    ELSE IF BadKeyLen(key) THEN Err
    ELSE IF Len(cipherText) % AESBlockSize # 0 THEN Err
    ELSE LET out == ECBDecryptBlocks(key, cipherText)
         IN  IF ~out.ok THEN out ELSE PKCS7UnPadding(out.data)

-----------------------------------------------------------------------------
(* CBC: cipher.NewCBCEncrypter / NewCBCDecrypter of the Go library, which *)
(* panic on input that is not whole blocks.                               *)

RECURSIVE CBCEncryptFrom(_, _, _)
CBCEncryptFrom(key, prev, src) ==
    IF src = <<>> THEN <<>>
    ELSE LET c == BlockEncrypt(key, XorBlock(SubSeq(src, 1, AESBlockSize), prev))
         IN  c \o CBCEncryptFrom(key, c, SubSeq(src, AESBlockSize + 1, Len(src)))

CBCEncrypt(key, iv, src) ==
    IF Len(src) % AESBlockSize # 0 THEN Panic ELSE Ok(CBCEncryptFrom(key, iv, src))

\* Mutant: every block is chained to the IV instead of to the block before.
CBCDecryptIVOnly(key, iv, src) ==
    IF Len(src) % AESBlockSize # 0 THEN Panic
    ELSE Ok(FoldLeft(LAMBDA acc, i :
                        acc \o XorBlock(BlockDecrypt(key, Block(src, i)), iv),
                     <<>>, [i \in 1..NumBlocks(src) |-> i]))

\* p_i = D(c_i) xor c_(i-1), with c_0 the IV.
CBCDecrypt(key, iv, src) ==
    IF Len(src) % AESBlockSize # 0 THEN Panic
    ELSE Ok(FoldLeft(LAMBDA acc, i :
                        acc \o XorBlock(BlockDecrypt(key, Block(src, i)),
                                        IF i = 1 THEN iv ELSE Block(src, i - 1)),
                     <<>>, [i \in 1..NumBlocks(src) |-> i]))

\* io.ReadFull(rand.Reader, iv) failing, given as the IV it did not read.
IVReadFailed == <<>>

\* The IV is read into the front of the ciphertext; a failed read is returned.
EncryptCBC(key, plainText, iv) ==
    IF Len(plainText) = 0 THEN Err
    ELSE IF BadKeyLen(key) THEN Err
    ELSE IF iv = IVReadFailed THEN Err
    ELSE LET padded == PKCS7Padding(plainText, AESBlockSize)
             body   == CBCEncrypt(key, iv, padded)
         IN  IF ~body.ok THEN body ELSE Ok(iv \o body.data)

\* Mutant: the whole-blocks check after the IV is cut off is dropped.
DecryptCBCNoBlockCheck(key, cipherText) ==
    IF Len(cipherText) = 0 THEN Err
    ELSE IF BadKeyLen(key) THEN Err
    ELSE IF Len(cipherText) < AESBlockSize THEN Err
    ELSE LET iv    == SubSeq(cipherText, 1, AESBlockSize)
             body  == SubSeq(cipherText, AESBlockSize + 1, Len(cipherText))
             out  == CBCDecrypt(key, iv, body)
         IN  IF ~out.ok THEN out ELSE PKCS7UnPadding(out.data)

DecryptCBC(key, cipherText) ==
    IF Len(cipherText) = 0 THEN Err
    ELSE IF BadKeyLen(key) THEN Err
    ELSE IF Len(cipherText) < AESBlockSize THEN Err
    ELSE LET iv    == SubSeq(cipherText, 1, AESBlockSize)
             body  == SubSeq(cipherText, AESBlockSize + 1, Len(cipherText))
         IN  IF Len(body) % AESBlockSize # 0 THEN Err
             ELSE LET out == CBCDecrypt(key, iv, body)
                  IN  IF ~out.ok THEN out ELSE PKCS7UnPadding(out.data)

IVs == [1..AESBlockSize -> IVBytes]

-----------------------------------------------------------------------------
(* Under every key of a valid length, DecryptECB gives back every         *)
(* non-empty plaintext EncryptECB encrypted, and EncryptECB refuses an     *)
(* empty plaintext and a key of any other length.                         *)
ECBRoundTrip ==
    \A key \in Keys :
        IF Len(plain) = 0 \/ BadKeyLen(key) THEN EncryptECB(key, plain) = Err
        ELSE /\ EncryptECB(key, plain).ok
             /\ DecryptECB(key, EncryptECB(key, plain).data) = Ok(plain)

(* Under every key of a valid length and every IV crypto/rand may give,   *)
(* DecryptCBC gives back every non-empty plaintext EncryptCBC encrypted,  *)
(* the IV travelling in the first block of the ciphertext; an empty       *)
(* plaintext, a bad key or a failed IV read gives an error, never a       *)
(* ciphertext.                                                            *)
CBCRoundTrip ==
    \A key \in Keys, iv \in IVs \cup {IVReadFailed} :
        IF Len(plain) = 0 \/ BadKeyLen(key) \/ iv = IVReadFailed
        THEN EncryptCBC(key, plain, iv) = Err
        ELSE /\ EncryptCBC(key, plain, iv).ok
             /\ DecryptCBC(key, EncryptCBC(key, plain, iv).data) = Ok(plain)

(* Decryption of any byte string, a forged or truncated ciphertext        *)
(* included, returns a result or an error and never reaches a CryptBlocks *)
(* with input that is not whole blocks (a panic in the Go code): the      *)
(* length checks of DecryptECB and DecryptCBC cover every input.           *)
DecryptNeverPanics ==
    \A key \in Keys :
        /\ DecryptECB(key, plain) # Panic
        /\ DecryptCBC(key, plain) # Panic

=============================================================================
