--------------------------- MODULE Configuration ----------------------------
(***************************************************************************)
(* Config and its builder (config.rs).  A configuration is a record b of   *)
(* what the builder was given.  An allow-list is a set; the set of all     *)
(* stands for a filter that was not given.  The suites and groups of the   *)
(* crypto provider have an order, which the allow-lists do not change.     *)
(***************************************************************************)
EXTENDS Integers, SequencesExt

CONSTANTS Suites12, Suites13, Groups   \* the provider's, most preferred first

is_psk(suite) == suite = "psk"

\* Suites with a shared key are left out when there is none.
dtls12_cipher_suites(b) ==
  SelectSeq(Suites12, LAMBDA suite : suite \in b.dtls12_cipher_suites /\ (b.psk # "None" \/ ~is_psk(suite)))

dtls13_cipher_suites(b) == SelectSeq(Suites13, LAMBDA suite : suite \in b.dtls13_cipher_suites)

kx_groups(b) == SelectSeq(Groups, LAMBDA group : group \in b.kx_groups)

\* ConfigBuilder::build: the ConfigError, or "None".  An mtu of 0 stands for
\* one that leaves no room beside the headers.
build(b) ==
  LET in12 == Range(dtls12_cipher_suites(b))
      in13 == Range(dtls13_cipher_suites(b))
  IN  IF b.mtu = 0 THEN "MtuTooSmall"
      ELSE IF b.aead_encryption_limit = 0 THEN "AeadEncryptionLimitTooSmall"
      ELSE IF in12 = {} /\ in13 = {} THEN "NoCipherSuitesAfterFiltering"
      ELSE IF b.psk # "None" /\ ~ \E suite \in in12 : is_psk(suite) THEN "PskConfiguredWithoutPskCipherSuite"
      ELSE IF kx_groups(b) = <<>> /\ \E suite \in in12 : ~is_psk(suite)
      THEN "NoDtls12KeyExchangeGroupsAfterFiltering"
      ELSE IF kx_groups(b) = <<>> /\ in13 # {} THEN "NoDtls13KeyExchangeGroupsAfterFiltering"
      ELSE "None"
=============================================================================
