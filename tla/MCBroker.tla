------------------------------ MODULE MCBroker ------------------------------
(***************************************************************************)
(* Instances of Broker for TLC.  Workers, service instances and keys are   *)
(* model values.  Symmetry is used in runs without liveness properties     *)
(* only; the valid keys are interchangeable, the invalid one is not.       *)
(*                                                                         *)
(* The broker's secrets are symbols; PasswordsAreSecrets compares what     *)
(* they say of the rows with the bytes of helpers.go, on blocks of two     *)
(* bytes.                                                                  *)
(***************************************************************************)
EXTENDS BrokerInvariants, TLC

Symmetry ==
    Permutations(Workers) \cup Permutations(Uuids) \cup Permutations(ValidKeys)

\* A cipher of blocks of two bytes that mixes both with the key.
SmallAes(key, b) == <<(7 * b[1] + 13 * b[2] + 31 * key) % 256,
                      (151 * b[1] + 5 * b[2] + 101 * key + 17) % 256>>

Bytes == INSTANCE Passwords WITH
    BlockSize <- 2, Aes <- SmallAes, ValidKeys <- {1, 2}

\* Passwords shorter than a block, of one block, and of several.
RandomBytes == UNION {[1 .. n -> {0, 35, 255}] : n \in 1 .. 3} \cup [1 .. 5 -> {0, 255}]
RandomIvs == {<<0, 0>>, <<1, 254>>, <<254, 0>>}

\* Passwords are words of lower-case letters and digits, as long as their random bytes.
Word(text, bytes) ==
    Len(text) = Len(bytes) /\ \A i \in DOMAIN text : text[i] \in 48 .. 57 \cup 97 .. 122

\* How a stored password reads back: under the key it was stored with or another, one
\* that AES accepts or not.
ByteReading(bytes, iv, key, other) ==
    LET text == Bytes!GetPassword(Bytes!SetPassword(bytes, key, iv), other) IN
    [same  |-> key = other,
     valid |-> other \in {1, 2},
     reads |-> CASE text = Bytes!Error -> "error"
                 [] text = Bytes!RandStr(bytes) /\ Word(text, bytes) -> "password"
                 [] OTHER -> "garbage"]

ByteReadings ==
    {ByteReading(bytes, iv, key, other) :
        bytes \in RandomBytes, iv \in RandomIvs, key \in {1, 2}, other \in {1, 2, 3}}

\* What BindInstance reads back of a row, in the symbols of Secrets.
RowReading(row, key) ==
    [same  |-> key = row.cipher.key,
     valid |-> key \in ValidKeys,
     reads |-> IF key \notin ValidKeys THEN "error"
               ELSE IF Decrypt(row.cipher, key) = Garbled THEN "garbage" ELSE "password"]

\* The passwords of the table read back as the bytes of helpers.go and models.go do.
\* Under the key of SetPassword, GetPassword returns the password CREATE USER got,
\* whatever its length; under another key of a restarted broker it returns some other
\* text without an error, and under a key AES refuses an error.
PasswordsAreSecrets ==
    \A i \in DOMAIN rows, key \in Keys :
        LET row == RowReading(rows[i], key) IN
        {b \in ByteReadings : b.same = row.same /\ b.valid = row.valid} = {row}

=============================================================================
