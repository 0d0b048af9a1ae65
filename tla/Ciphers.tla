------------------------------ MODULE Ciphers ------------------------------
(***************************************************************************)
(* Encrypted strings and the keys that open them: cipherstring.rs,         *)
(* identity.rs and locked.rs of bw-core, with decrypt_cipher and           *)
(* encrypt_cipher of bw-agent/src/auth.rs.                                 *)
(*                                                                         *)
(* Cryptography is ideal.  A sealed string is the key it is sealed under   *)
(* and what is in it; the MAC tells the right key from any other.  Without *)
(* a MAC the wrong key gives a padding error, or now and then garbage that *)
(* no parser accepts: both are failures here.                              *)
(***************************************************************************)

CONSTANT None   \* no value: no key opens with it, nothing is sealed under it

\* CipherString: type 2 (symmetric, to be opened with a key), 4 and 6
\* (asymmetric, with a private key), or none that the parser knows.
Sealed(under, plain) == [form |-> "symmetric", under |-> under, plain |-> plain]
SealedFor(under, plain) == [form |-> "asymmetric", under |-> under, plain |-> plain]
Malformed == [form |-> "bad", under |-> None, plain |-> None]

OpensWith(s, k) == s.form = "symmetric" /\ k # None /\ s.under = k
OpensPrivately(s, k) == s.form = "asymmetric" /\ k # None /\ s.under = k

\* encrypt_symmetric
Encrypted(k, plain) == Sealed(k, plain)

----------------------------------------------------------------------------
\* State::key: the user key, or the key of the organization.
KeyFor(ring, org) == IF org \in DOMAIN ring THEN ring[org] ELSE None

\* The key a cipher's fields are sealed under: its own, which the user's or the
\* organization's key opens, or that key itself.  None: an error.
FieldKey(ring, own, org) ==
    LET base == KeyFor(ring, org)
    IN  IF own = None THEN base
        ELSE IF OpensWith(own, base) THEN own.plain ELSE None

\* decrypt_cipher: whether it gives a plaintext, and then which.
Readable(ring, s, own, org) == OpensWith(s, FieldKey(ring, own, org))
Plain(s) == s.plain

\* encrypt_cipher
SealedField(ring, plain, own, org) == Encrypted(FieldKey(ring, own, org), plain)

----------------------------------------------------------------------------
\* Identity::new: the master key of an email, a password and KDF parameters.
\* Zero iterations, Argon2 without memory or parallelism, or with a memory that
\* overflows when it is turned into bytes, are errors.
KdfUsable(kdf) ==
    /\ kdf.iterations # 0
    /\ kdf.type = "argon2id" => kdf.memory = "fits" /\ kdf.parallelism = "set"

MasterKey(email, password, kdf) ==
    IF KdfUsable(kdf) THEN <<email, password, kdf>> ELSE None
=============================================================================
