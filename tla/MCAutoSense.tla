----------------------------- MODULE MCAutoSense ----------------------------
EXTENDS AutoSense

CONSTANTS Mtus,    \* how many units fit in a datagram
          Hard     \* the one at which the network is worse

\* Two faults at one size of datagrams, none where data is sent, one at the others.
MCMaxFaults == [mtu \in Mtus |-> IF mtu = Hard THEN 2 ELSE IF mtu \in Sending THEN 0 ELSE 1]

MCSuites12 == <<"ecdsa", "psk">>
MCSuites13 == <<"aes">>
MCGroups == <<"x25519", "p256">>

Builder(versions, mtu, psk, suites12, suites13, groups, cookie) ==
  [versions |-> versions, mtu |-> mtu, psk |-> psk, aead_encryption_limit |-> 1,
   dtls12_cipher_suites |-> suites12, dtls13_cipher_suites |-> suites13, kx_groups |-> groups,
   use_server_cookie |-> cookie, require_client_certificate |-> FALSE]

Clients(mtu) ==
  {Builder(versions, mtu, IF versions = "12psk" THEN "key" ELSE "None", Range(Suites12), Range(Suites13),
           Range(Groups), FALSE) : versions \in {"auto", "12", "12psk", "13"}}

Servers(mtu) ==
  {Builder(versions, mtu, psk, suites12, suites13, groups, cookie) :
     versions \in {"auto", "12", "13"}, psk \in {"None", "key"},
     suites12 \in {{"psk"}, Range(Suites12)}, suites13 \in {{}, Range(Suites13)},
     groups \in {{}, {"p256"}, {"x25519"}}, cookie \in BOOLEAN}

\* A server that is for shared keys only, or one that has all suites.
IsPskOnly(s) == s.versions = "auto" /\ is_dtls12_psk_only(s)

HasAll(s) == WithoutPsk(s) # <<>> /\ s.dtls13_cipher_suites # {}

\* Configurations that were built, where one side at least takes either version
\* and the server has a key for a client that has one.
Match(c, s) ==
  /\ build(c) = "None" /\ build(s) = "None"
  /\ IF c.versions = "12psk" THEN s.versions = "auto" /\ s.psk = "key" /\ (IsPskOnly(s) \/ HasAll(s))
     ELSE "auto" \in {c.versions, s.versions} /\ HasAll(s) /\ (s.psk = "key" => c.versions = "12")

MCConfigs ==
  {[p \in {Client, Server} |-> IF p = Client THEN pair[1] ELSE pair[2]] :
     pair \in UNION {{x \in Clients(mtu) \X Servers(mtu) : Match(x[1], x[2])} : mtu \in Mtus}}
=============================================================================
