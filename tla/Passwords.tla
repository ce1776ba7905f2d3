----------------------------- MODULE Passwords -----------------------------
(***************************************************************************)
(* How the password of an instance is made, stored and read back, byte by  *)
(* byte (helpers.go, models.go:29-59): what Secrets takes as a pair of     *)
(* plaintext and key.  AES, CFB and base64 are the Go library's; they are  *)
(* modelled by what they compute, AES as any function of key and block.    *)
(***************************************************************************)
EXTENDS Naturals, Sequences, Bitwise

CONSTANTS
    BlockSize,     \* aes.BlockSize, at least 1
    Aes(_, _),     \* what the cipher makes of a block, under a key
    ValidKeys      \* the ENC_KEYs aes.NewCipher accepts

Error == <<256>>  \* not a byte

----------------------------------------------------------------------------
(* base64.StdEncoding, on digits 0 .. 63 and the padding *)

Pad == 64

\* The six bits from bit 6k on.
Digit(b, k) ==
    LET q == (6 * k) \div 8 + 1
        next == IF q < Len(b) THEN b[q + 1] ELSE 0
    IN ((b[q] * 256 + next) \div 2 ^ (10 - ((6 * k) % 8))) % 64

EncodeToString(b) ==
    LET digits == (8 * Len(b) + 5) \div 6
    IN [k \in 1 .. 4 * ((Len(b) + 2) \div 3) |->
           IF k <= digits THEN Digit(b, k - 1) ELSE Pad]

\* The eight bits from bit 8k on.
Octet(d, k) ==
    LET q == (8 * k) \div 6 + 1
        r == (8 * k) % 6
    IN (d[q] % (2 ^ (6 - r))) * (2 ^ (2 + r)) + (d[q + 1] \div (2 ^ (4 - r)))

DecodeString(s) ==
    LET d == SelectSeq(s, LAMBDA x : x # Pad)
    IN [k \in 1 .. (6 * Len(d)) \div 8 |-> Octet(d, k - 1)]

----------------------------------------------------------------------------
(* Encrypt and Decrypt *)

\* The byte of the key stream at position i, of the ciphertext before it.
Stream(c, i, key, iv) ==
    LET j == (i - 1) \div BlockSize
        feed == IF j = 0 THEN iv ELSE SubSeq(c, (j - 1) * BlockSize + 1, j * BlockSize)
    IN Aes(key, feed)[((i - 1) % BlockSize) + 1]

\* cipher.NewCFBEncrypter: what was encrypted feeds the next block.
CFBEncrypt(m, key, iv) ==
    LET c[i \in 0 .. Len(m)] ==
            IF i = 0 THEN <<>>
            ELSE Append(c[i - 1], m[i] ^^ Stream(c[i - 1], i, key, iv))
    IN c[Len(m)]

\* cipher.NewCFBDecrypter: what comes in feeds the next block.
CFBDecrypt(c, key, iv) == [i \in 1 .. Len(c) |-> c[i] ^^ Stream(c, i, key, iv)]

Encrypt(msg, key, iv) ==
    IF key \in ValidKeys THEN EncodeToString(CFBEncrypt(msg, key, iv)) ELSE Error

\* Mutant: the stream of the encrypter, which is right for a first block only.
DecryptAsEncrypt(msg, key, iv) ==
    IF key \in ValidKeys THEN CFBEncrypt(DecodeString(msg), key, iv) ELSE Error

Decrypt(msg, key, iv) ==
    IF key \in ValidKeys THEN CFBDecrypt(DecodeString(msg), key, iv) ELSE Error

----------------------------------------------------------------------------

Dictionary ==
    <<48, 49, 50, 51, 52, 53, 54, 55, 56, 57, 97, 98, 99, 100, 101, 102, 103, 104,
      105, 106, 107, 108, 109, 110, 111, 112, 113, 114, 115, 116, 117, 118, 119,
      120, 121, 122>>

RandStr(bytes) == [k \in DOMAIN bytes |-> Dictionary[(bytes[k] % Len(Dictionary)) + 1]]

\* SetPassword, of the password CreateInstance drew and the salt of GenerateSalt
SetPassword(bytes, key, iv) ==
    LET salt == EncodeToString(iv)
    IN [salt |-> salt, password |-> Encrypt(RandStr(bytes), key, DecodeString(salt))]

GetPassword(instance, key) ==
    IF instance.salt = <<>> \/ instance.password = <<>> THEN Error
    ELSE Decrypt(instance.password, key, DecodeString(instance.salt))

=============================================================================
