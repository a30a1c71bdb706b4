-------------------------- MODULE CryptoContext12 ---------------------------
(***************************************************************************)
(* The secrets of a DTLS 1.2 session (dtls12/context.rs).  A context is a  *)
(* record, an operator for a call returns the context after it, and a call *)
(* that fails leaves its CryptoError in the field `error'.                 *)
(*                                                                         *)
(* Cryptography is ideal.  A public key is its group with the side that    *)
(* made it, a shared secret the set of the two public keys, and whatever   *)
(* the PRF yields is the tuple of its inputs.  The randoms of the two      *)
(* hellos are left out: there is one pair in a session.                    *)
(***************************************************************************)
EXTENDS Sequences

NewContext(auth) ==
  [auth |-> auth,                \* Certificate or Psk
   key_exchange |-> <<>>,        \* our key pair, until it is used
   public_key |-> <<>>,          \* key_exchange_public_key, key_exchange_group
   psk |-> "None",
   pre_master_secret |-> {},
   master_secret |-> <<>>,
   keys |-> <<>>,                \* both sides' write keys and ciphers
   error |-> "None"]

CryptoError(cx, error) == [cx EXCEPT !.error = error]

\* All certificates are for ECDSA, as are all suites that need one.
is_cipher_suite_compatible(cx, suite) == cx.auth = (IF suite = "psk" THEN "Psk" ELSE "Certificate")

\* The public key of the first exchange is kept.
maybe_init_key_exchange(cx) ==
  IF cx.public_key # <<>> THEN cx
  ELSE IF cx.key_exchange = <<>> THEN CryptoError(cx, "KeyExchangeNotInitialized")
  ELSE [cx EXCEPT !.public_key = cx.key_exchange]

\* Using the key pair up makes a second use an error.
compute_shared_secret(cx, peer_public_key) ==
  IF cx.key_exchange = <<>> THEN CryptoError(cx, "KeyExchangeNotInitialized")
  ELSE IF cx.key_exchange[1] # peer_public_key[1] THEN CryptoError(cx, "KeyExchange")
  ELSE [cx EXCEPT !.key_exchange = <<>>, !.pre_master_secret = {cx.key_exchange, peer_public_key}]

set_psk(cx, psk) == [cx EXCEPT !.psk = psk]

compute_psk_pre_master_secret(cx) ==
  IF cx.psk = "None" THEN CryptoError(cx, "PskNotSet")
  ELSE [cx EXCEPT !.pre_master_secret = {<<"psk", cx.psk>>}]

init_ecdh_server(cx, named_group, supported) ==
  IF named_group \notin supported THEN CryptoError(cx, "UnsupportedEcdheNamedGroup")
  ELSE maybe_init_key_exchange([cx EXCEPT !.key_exchange = <<named_group, "server">>])

\* The client makes its key pair when it has the server's public key.
process_ecdh_params(cx, server_public, supported) ==
  LET started == maybe_init_key_exchange([cx EXCEPT !.key_exchange = <<server_public[1], "client">>])
  IN  IF server_public[1] \notin supported THEN CryptoError(cx, "UnsupportedEcdheNamedGroup")
      ELSE compute_shared_secret(started, server_public)

derive_extended_master_secret(cx, session_hash) ==
  IF cx.pre_master_secret = {} THEN CryptoError(cx, "PreMasterSecretNotAvailable")
  ELSE [cx EXCEPT !.master_secret = <<cx.pre_master_secret, session_hash>>, !.pre_master_secret = {}]

derive_keys(cx) ==
  IF cx.master_secret = <<>> THEN CryptoError(cx, "MasterSecretNotAvailable")
  ELSE [cx EXCEPT !.keys = cx.master_secret]

\* The key and IV of one direction; none before they are derived.
WriteKey(cx, of_client) ==
  IF cx.keys = <<>> THEN <<>> ELSE <<IF of_client THEN "client" ELSE "server", cx.keys>>

\* What a Finished must contain; nothing can be computed without the secret.
generate_verify_data(cx, handshake_hash, is_client) ==
  IF cx.master_secret = <<>> THEN <<>>
  ELSE <<IF is_client THEN "client finished" ELSE "server finished", cx.master_secret, handshake_hash>>

\* derive_keys is what stores the randoms the exporter needs.
extract_srtp_keying_material(cx, profile) ==
  IF cx.master_secret = <<>> \/ cx.keys = <<>> THEN <<>> ELSE <<profile, cx.master_secret>>
=============================================================================
