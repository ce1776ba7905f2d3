------------------------------ MODULE Secrets ------------------------------
(***************************************************************************)
(* Random names and encrypted passwords (helpers.go, models.go:29-59).     *)
(* Strings are symbolic: a random string is the number of the draw it came *)
(* from, a ciphertext is the pair of what was encrypted and the key.       *)
(***************************************************************************)
EXTENDS Integers

CONSTANTS
    Keys,        \* values ENC_KEY may have when the broker is started
    ValidKeys    \* those of 16, 24 or 32 bytes, which aes.NewCipher accepts

ASSUME KeysAssumption == ValidKeys \subseteq Keys

\* Database and user names and passwords, as far as they can be told apart.
Name == Nat
Password == Int

(***************************************************************************)
(* GenerateIv ignores the error of rand.Read and returns its buffer as it  *)
(* is, so without entropy every string randStr builds is "000...0".  With  *)
(* entropy two draws never meet (36^15 names).                             *)
(***************************************************************************)
ZeroString == 0

\* Mutant: a generator seeded the same way every time.
RandStrUnseeded(draw, entropyFails) == {1}

RandStr(draw, entropyFails) ==
    {draw} \cup (IF entropyFails THEN {ZeroString} ELSE {})

\* The value of the Go variable after GetPassword failed, and what CFB
\* decryption under a key other than the one of the encryption returns.
EmptyPassword == -1
Garbled == -2

Cipher == [plain : Password, key : Keys]

Encrypt(p, key) == [plain |-> p, key |-> key]

Decrypt(c, key) == IF c.key = key THEN c.plain ELSE Garbled

=============================================================================
