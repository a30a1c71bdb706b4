---------------------------- MODULE MCHandshake13 ---------------------------
EXTENDS Handshake13

CONSTANTS Mtus,    \* how many units fit in a datagram
          Hard    \* the one at which the network is worse

\* Two faults at one size of datagrams, one at the others.
MCMaxFaults == [mtu \in Mtus |-> IF mtu = Hard THEN 2 ELSE 1]

Config(mtu, groups, suites, cookie, auth, certificate) ==
  [mtu |-> mtu, groups |-> groups, suites |-> suites, use_server_cookie |-> cookie,
   require_client_certificate |-> auth, certificate |-> certificate, curve |-> IF auth THEN "P384" ELSE "P256"]

\* The server wants a cookie, another group, both or neither; it wants the
\* client to authenticate, which the client can or cannot do, or does not.  When
\* a datagram holds a flight it is all one for which of the two it asks again.
Servers(mtu) ==
  {<<Config(mtu, <<"p256", "x25519">>, <<"aes256">>, FALSE, FALSE, TRUE), TRUE>>,
   <<Config(mtu, <<"p256", "x25519">>, <<"aes256">>, TRUE, FALSE, TRUE), TRUE>>,
   <<Config(mtu, <<"p256">>, <<"aes256">>, TRUE, TRUE, TRUE), TRUE>>}
  \cup IF mtu = Hard THEN {} ELSE {<<Config(mtu, <<"p256">>, <<"aes256">>, FALSE, TRUE, TRUE), FALSE>>}

MCConfigs ==
  {[p \in {Client, Server} |->
      IF p = Server THEN server[1]
      ELSE Config(mtu, <<"x25519", "p256">>, <<"aes128", "aes256">>, FALSE, FALSE, server[2])] :
     <<mtu, server>> \in UNION {{mtu} \X Servers(mtu) : mtu \in Mtus}}
=============================================================================
