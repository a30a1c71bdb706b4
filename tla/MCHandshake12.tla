---------------------------- MODULE MCHandshake12 ---------------------------
EXTENDS Handshake12

CONSTANTS Mtus,    \* how many units fit in a datagram
          Hard    \* the one at which the network is worse

\* Two faults at one size of datagrams, one at the others.
MCMaxFaults == [mtu \in Mtus |-> IF mtu = Hard THEN 2 ELSE 1]

Config(mtu, suites, cookie, auth, psk, hint) ==
  [mtu |-> mtu, suites |-> suites, use_server_cookie |-> cookie,
   require_client_certificate |-> auth, psk |-> psk, psk_hint |-> hint,
   groups |-> <<"p384", "x25519">>, hash |-> "SHA384", hashes |-> IF auth THEN {"SHA384"} ELSE {"SHA256", "SHA384"}]

\* The server wants a cookie or not, the client's certificate or not; with a
\* shared key it has a hint or not, and knows the client or not.  When a datagram
\* holds a flight it is the cookie that makes a difference to the steps.
Servers(mtu) ==
  {Config(mtu, <<"aes256">>, TRUE, TRUE, "None", FALSE),
   Config(mtu, <<"psk">>, FALSE, FALSE, "key", FALSE),
   Config(mtu, <<"psk">>, FALSE, FALSE, "unknown", FALSE)}
  \cup IF mtu = Hard THEN {}
       ELSE {Config(mtu, <<"aes256">>, FALSE, FALSE, "None", FALSE), Config(mtu, <<"psk">>, TRUE, FALSE, "key", TRUE)}

MCConfigs ==
  {[p \in {Client, Server} |->
      IF p = Server THEN server
      ELSE [Config(mtu, <<"psk", "aes128", "aes256">>, FALSE, FALSE,
                   IF server.psk = "None" THEN "None" ELSE "key", FALSE)
              EXCEPT !.groups = <<"x25519", "p256", "p384">>, !.hash = "SHA256", !.hashes = {"SHA256"}]] :
     <<mtu, server>> \in UNION {{mtu} \X Servers(mtu) : mtu \in Mtus}}
=============================================================================
