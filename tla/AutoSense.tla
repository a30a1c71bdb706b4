----------------------------- MODULE AutoSense ------------------------------
(***************************************************************************)
(* The public Dtls (lib.rs) and the sensing of the version (auto.rs) over  *)
(* the endpoints of both versions: a Dtls is one of the five variants of   *)
(* Inner, `kind' says which, and `e' is what the variant holds.  A client  *)
(* that takes either version sends one ClientHello that both read, and     *)
(* becomes a client of the version the first answer shows; a server that   *)
(* takes either is one of DTLS 1.3 until a hello does not offer it.        *)
(***************************************************************************)
EXTENDS Configuration

CONSTANTS Client, Server,
          Configs,      \* the pairs of configurations, one of which is in force
          MaxFaults,    \* bound on the faults of the network, for each mtu
          Sending,      \* the mtus at which each application sends a piece of data
          Unordered,    \* whether datagrams get lost or overtaken before the client knows the version
          MAX_DEFRAGMENT_PACKETS, flight_retries, max_queue_tx, max_queue_rx, MaxRecords12, MaxRecords13,
          MAX_RETAINED_CLIENT_HELLO

VARIABLES config,      \* the pair in force
          dtls,        \* the two Dtls
          net,         \* packets under way to each endpoint, in their order
          reported,    \* what each endpoint's last ACK listed
          data,        \* each application's data: not sent, taken over by its Dtls, or arrived
          faults       \* how many faults there have been

vars == <<config, dtls, net, reported, data, faults>>

D12 == INSTANCE Endpoint12 WITH MaxRecords <- MaxRecords12
D13 == INSTANCE Endpoint13 WITH MaxRecords <- MaxRecords13

Endpoints == {Client, Server}

Peer(p) == IF p = Client THEN Server ELSE Client

\* What an endpoint of each version reads of a configuration.  A DTLS 1.2
\* endpoint is for certificates or for shared keys.
In12(c, psk) ==
  [mtu |-> c.mtu, groups |-> kx_groups(c), suites |-> dtls12_cipher_suites(c),
   use_server_cookie |-> c.use_server_cookie, hash |-> "SHA256", hashes |-> {"SHA256"},
   require_client_certificate |-> c.require_client_certificate, psk |-> psk, psk_hint |-> FALSE]

In13(c) ==
  [mtu |-> c.mtu, groups |-> kx_groups(c), suites |-> dtls13_cipher_suites(c),
   use_server_cookie |-> c.use_server_cookie,
   require_client_certificate |-> c.require_client_certificate, certificate |-> TRUE, curve |-> "P256"]

New12(is_client, c) == D12!NewEngine(is_client, In12(c, "None"))

New12Psk(is_client, c) == D12!NewEngine(is_client, In12(c, c.psk))

New13(is_client, c) == D13!NewEngine(is_client, In13(c))

-----------------------------------------------------------------------------
(* Hellos that both versions read.  A packet says who wrote it: an endpoint *)
(* of version 12 or 13, or a client that takes either.                      *)

WithoutPsk(c) == SelectSeq(dtls12_cipher_suites(c), LAMBDA suite : ~is_psk(suite))

\* Fault: supported_versions has DTLS 1.2 only.
Hybrid_NoVersions(c) ==
  [in12 |-> <<[D12!Plain EXCEPT !.random = "client", !.suites = WithoutPsk(c), !.groups = kx_groups(c)]>>,
   in13 |-> <<[D13!Plain EXCEPT !.random = "client", !.dtls13 = FALSE]>>]

\* HybridClientHello::new: what DTLS 1.2 and DTLS 1.3 see in it.  It offers no
\* suites with a shared key.
Hybrid(c) ==
  [in12 |-> <<[D12!Plain EXCEPT !.random = "client", !.suites = WithoutPsk(c), !.groups = kx_groups(c)]>>,
   in13 |-> <<[D13!Plain EXCEPT !.random = "client", !.group = kx_groups(c)[1],
                                !.groups = kx_groups(c), !.suites = dtls13_cipher_suites(c)]>>]

Hello12(c, body) == D12!create_handshake(New12(TRUE, c), "ClientHello", body).queue_tx[1]

Hello13(c, body) == D13!create_handshake(New13(TRUE, c), "ClientHello", body).queue_tx[1]

wire_packet == [by |-> "both", datagram |-> <<>>]

\* A packet as the parsers of the two versions see it.  What DTLS 1.3 sees in
\* a hello of DTLS 1.2 lacks supported_versions.
Read12(packet) ==
  IF packet.by = "both" THEN Hello12(config[Client], Hybrid(config[Client]).in12) ELSE packet.datagram

Read13(packet) ==
  CASE packet.by = "both" -> Hello13(config[Client], Hybrid(config[Client]).in13)
    [] packet.by = "12"   -> Hello13(config[Client], <<[D13!Plain EXCEPT !.dtls13 = FALSE]>>)
    [] packet.by = "13"   -> packet.datagram

\* The version of the first record's ServerHello or HelloVerifyRequest.
server_hello_version(packet) ==
  LET first == packet.datagram[1]
  IN  IF first.epoch # 0 \/ first.type # "Handshake"
         \/ first.frag.msg_type \notin {"ServerHello", "HelloVerifyRequest"} THEN "Unknown"
      ELSE packet.by

\* The first fragment of a ClientHello: the start of its body, which has the
\* suites.
client_hello_handshake(packet) ==
  LET first == Read12(packet)[1]
  IN  IF first.type = "Handshake" /\ first.frag.msg_type = "ClientHello" THEN first.frag.data ELSE <<>>

\* Whether the first of the client's suites that is allowed has a shared key.
client_hello_wants_psk(packet, c) ==
  LET body    == client_hello_handshake(packet)
      allowed == SelectSeq(body[1].suites, LAMBDA suite : suite \in Range(dtls12_cipher_suites(c)))
  IN  body # <<>> /\ allowed # <<>> /\ is_psk(allowed[1])

-----------------------------------------------------------------------------
(* Construction.                                                           *)

Inner(kind, e) == [kind |-> kind, e |-> e]

is_dtls12_psk_only(c) ==
  dtls13_cipher_suites(c) = <<>> /\ dtls12_cipher_suites(c) # <<>> /\ WithoutPsk(c) = <<>>

new_12(c) == Inner("Server12", New12(FALSE, c))

\* It asserts that there is a key.
new_12_psk(c) ==
  Inner("Server12", IF c.psk # "None" THEN New12Psk(FALSE, c) ELSE D12!Fail(New12Psk(FALSE, c), "AssertionFailed"))

new_13(c) == Inner("Server13", New13(FALSE, c))

new_auto(c) ==
  IF is_dtls12_psk_only(c) THEN Inner("Server12", New12Psk(FALSE, c))
  ELSE Inner("Server13", [New13(FALSE, c) EXCEPT !.auto_mode = TRUE])

New(c) ==
  CASE c.versions = "12"    -> new_12(c)
    [] c.versions = "12psk" -> new_12_psk(c)
    [] c.versions = "13"    -> new_13(c)
    [] c.versions = "auto"  -> new_auto(c)

\* ClientPending::new, which must be able to build its hello.
NewPending(c) ==
  Inner("ClientPending", [error |-> IF kx_groups(c) = <<>> THEN "AssertionFailed" ELSE "None",
                          needs_send |-> TRUE, retransmit |-> "None", count |-> 0])

\* set_active(true) turns a server that has not started into a client.
set_active(d, c) ==
  CASE d.kind = "Server12" -> Inner("Client12", D12!NewEngine(TRUE, d.e.config))
    [] d.kind = "Server13" ->
         IF d.e.auto_mode THEN NewPending(c) ELSE Inner("Client13", D13!NewEngine(TRUE, d.e.config))

\* Fault: the transcript does not begin with the hello.
Client12FromHybrid_NoTranscript(c) ==
  D12!handle_timeout([New12(TRUE, c) EXCEPT
                        !.state = "AwaitHelloVerifyRequest", !.next_seq = 1, !.send_seq[0] = 1], FALSE, FALSE)

\* Client12::new_from_hybrid and Client13::new_from_hybrid: the hello that is
\* out counts as the first message and the first record, but is not among the
\* records of the flight.
Client12FromHybrid(c) ==
  LET sent == [New12(TRUE, c) EXCEPT
                 !.state = "AwaitHelloVerifyRequest", !.next_seq = 1, !.send_seq[0] = 1,
                 !.transcript = <<D12!TranscriptEntry("ClientHello", 0, Hybrid(c).in12)>>]
  IN  D12!handle_timeout(sent, FALSE, FALSE)

Client13FromHybrid(c) ==
  LET hello == Hybrid(c).in13
      sent  == [New13(TRUE, c) EXCEPT
                  !.state = "AwaitServerHello", !.next_seq = 1, !.send_seq[0] = 1, !.share = hello[1].group,
                  !.transcript = <<D13!TranscriptEntry([msg_type |-> "ClientHello", body |-> hello])>>]
  IN  D13!handle_timeout(sent, FALSE, FALSE, FALSE)

-----------------------------------------------------------------------------
(* The calls of Dtls.                                                      *)

\* The first datagram decides, and goes to the client it decides for.
handle_pending_auto_client(d, c, packet) ==
  CASE server_hello_version(packet) = "Unknown" -> [d EXCEPT !.e.error = "UnexpectedMessage"]
    [] server_hello_version(packet) = "12" ->
         Inner("Client12", D12!handle_packet(Client12FromHybrid(c), Read12(packet)))
    [] server_hello_version(packet) = "13" ->
         Inner("Client13", D13!handle_packet(Client13FromHybrid(c), Read13(packet)))

\* The DTLS 1.2 server gets all that was kept; an error ends it.
handle_pending_auto_server(c, buffered) ==
  LET use_psk == c.psk # "None" /\ \E i \in DOMAIN buffered : client_hello_wants_psk(buffered[i], c)
      server  == D12!handle_timeout(IF use_psk THEN New12Psk(FALSE, c) ELSE New12(FALSE, c), FALSE, FALSE)
      Replay(s, packet) == IF D12!Failed(s) THEN s ELSE D12!handle_packet(s, Read12(packet))
  IN  Inner("Server12", FoldLeft(Replay, server, buffered))

\* What the server keeps are the packets as they came.
Retain(e, before, packet) ==
  [e EXCEPT !.retained = [i \in DOMAIN @ |-> IF i <= Len(before) THEN before[i] ELSE packet]]

FallBack(c, e) ==
  IF e.error = "Dtls12Fallback" THEN handle_pending_auto_server(c, e.retained) ELSE Inner("Server13", e)

Server13Packet(d, c, packet) ==
  FallBack(c, Retain(D13!handle_packet(d.e, Read13(packet)), d.e.retained, packet))

handle_packet(d, c, packet) ==
  CASE d.kind \in {"Client12", "Server12"} -> [d EXCEPT !.e = D12!handle_packet(@, Read12(packet))]
    [] d.kind = "Client13" -> [d EXCEPT !.e = D13!handle_packet(@, Read13(packet))]
    [] d.kind = "Server13" -> Server13Packet(d, c, packet)
    [] d.kind = "ClientPending" -> handle_pending_auto_client(d, c, packet)


\* ClientPending::handle_timeout.
PendingTimeout(e, flight_due) ==
  IF e.retransmit = "None" THEN [e EXCEPT !.retransmit = "Armed"]
  ELSE IF ~flight_due THEN e
  ELSE IF e.count >= flight_retries THEN [e EXCEPT !.error = "Timeout(HybridClientHello)"]
  ELSE [e EXCEPT !.count = @ + 1, !.needs_send = TRUE]

handle_timeout(d, connect_due, flight_due, ack_due) ==
  CASE d.kind \in {"Client12", "Server12"} -> [d EXCEPT !.e = D12!handle_timeout(@, connect_due, flight_due)]
    [] d.kind \in {"Client13", "Server13"} ->
         [d EXCEPT !.e = D13!handle_timeout(@, connect_due, flight_due, ack_due)]
    [] d.kind = "ClientPending" -> [d EXCEPT !.e = PendingTimeout(@, flight_due)]

\* poll_output until it answers with a Timeout, and the packets it hands out.
poll_output(d) ==
  CASE d.kind \in {"Client12", "Server12"} -> [d EXCEPT !.e = D12!poll_output(@)]
    [] d.kind \in {"Client13", "Server13"} -> [d EXCEPT !.e = D13!poll_output(@)]
    [] d.kind = "ClientPending" -> [d EXCEPT !.e.needs_send = FALSE]

Packets(d) ==
  LET By(version) == [i \in DOMAIN d.e.queue_tx |-> [by |-> version, datagram |-> d.e.queue_tx[i]]]
  IN  CASE d.kind \in {"Client12", "Server12"} -> By("12")
        [] d.kind \in {"Client13", "Server13"} -> By("13")
        [] d.kind = "ClientPending" -> IF d.e.needs_send THEN <<wire_packet>> ELSE <<>>

protocol_version(d) ==
  CASE d.kind \in {"Client12", "Server12"} -> "12"
    [] d.kind = "Client13" \/ (d.kind = "Server13" /\ ~d.e.auto_mode) -> "13"
    [] d.kind = "ClientPending" \/ (d.kind = "Server13" /\ d.e.auto_mode) -> "None"

is_pending(d) == d.kind = "ClientPending" \/ (d.kind = "Server13" /\ d.e.auto_mode)

\* Fault: a server that does not know the version yet takes data.
send_application_data_Server(d, n) ==
  IF d.kind = "ClientPending" THEN {}
  ELSE {[d EXCEPT !.e = IF d.kind \in {"Client12", "Server12"} THEN D12!send_application_data(@, n)
                        ELSE D13!send_application_data(@, n)]}

\* The Dtls after a call that returns Ok: none while the version is open, when
\* it is HandshakePending.
send_application_data(d, n) ==
  IF is_pending(d) THEN {}
  ELSE {[d EXCEPT !.e = IF d.kind \in {"Client12", "Server12"} THEN D12!send_application_data(@, n)
                        ELSE D13!send_application_data(@, n)]}

ReceivedData(d) ==
  CASE d.kind \in {"Client12", "Server12"} -> D12!ReceivedData(d.e)
    [] d.kind \in {"Client13", "Server13"} -> D13!ReceivedData(d.e)
    [] d.kind = "ClientPending" -> <<>>

-----------------------------------------------------------------------------
(* Two applications and the network.                                       *)

Init ==
  /\ config \in Configs
  /\ dtls = [p \in Endpoints |-> IF p = Client THEN set_active(New(config[p]), config[p]) ELSE New(config[p])]
  /\ net = [p \in Endpoints |-> <<>>]
  /\ reported = [p \in Endpoints |-> {}]
  /\ data = [p \in Endpoints |-> "None"]
  /\ faults = 0

Failed(p) == dtls[p].e.error # "None"

\* A call leaves the Dtls at one of `results' and the data at `given': it is
\* polled, its packets go to the network after those in `left', the data it has
\* got to the application.
Drive(p, results, left, given) ==
  \E after \in results :
    IF after.e.error # "None"
    THEN /\ dtls' = [dtls EXCEPT ![p] = after]
         /\ net' = left
         /\ data' = given
    ELSE /\ dtls' = [dtls EXCEPT ![p] = poll_output(after)]
         /\ net' = [left EXCEPT ![Peer(p)] = @ \o Packets(after)]
         /\ data' = [given EXCEPT ![Peer(p)] = IF ReceivedData(after) = <<>> THEN @ ELSE "Arrived"]

Cost(n) == faults + n <= MaxFaults[config[Client].mtu] /\ faults' = faults + n

IsPendingClient(p) == dtls[p].kind = "ClientPending"

\* The timers of the variant's flight and handshake; the pending client has
\* one for its hello only.
FlightTimer(p) ==
  IF ~IsPendingClient(p) THEN dtls[p].e.flight
  ELSE IF dtls[p].e.retransmit = "None" THEN "Unarmed" ELSE dtls[p].e.retransmit

ConnectTimer(p) == IF IsPendingClient(p) THEN "Disabled" ELSE dtls[p].e.connect

Left(p) == IF IsPendingClient(p) THEN flight_retries - dtls[p].e.count ELSE dtls[p].e.left

CallDue(p) == ~Failed(p) /\ "Unarmed" \in {FlightTimer(p), ConnectTimer(p)}

\* Packet i arrives, ahead of others or with a copy left behind.
HandlePacket(p, i, duplicate) ==
  /\ ~Failed(p) /\ ConnectTimer(p) # "Unarmed" /\ i \in DOMAIN net[p]
  /\ i > 1 /\ IsPendingClient(p) => Unordered
  /\ Cost((IF i = 1 THEN 0 ELSE 1) + (IF duplicate THEN 1 ELSE 0))
  /\ Drive(p, {handle_packet(dtls[p], config[p], net[p][i])},
           IF duplicate THEN net ELSE [net EXCEPT ![p] = RemoveAt(@, i)], data)
  /\ UNCHANGED <<config, reported>>

Lose(p) ==
  /\ net[p] # <<>> /\ Cost(1)
  /\ Len(net[p]) > 1 /\ IsPendingClient(p) => Unordered
  /\ net' = [net EXCEPT ![p] = Tail(@)]
  /\ UNCHANGED <<config, dtls, reported, data>>

Start(p) ==
  /\ CallDue(p)
  /\ Drive(p, {handle_timeout(dtls[p], FALSE, FALSE, FALSE)}, net, data)
  /\ UNCHANGED <<config, reported, faults>>

AckScheduled(p) ==
  ~Failed(p) /\ dtls[p].kind \in {"Client13", "Server13"} /\ dtls[p].e.ack # "None" /\ FlightTimer(p) = "Armed"

NewToReport(p) == AckScheduled(p) /\ D13!QueuedNumbers(dtls[p].e) # reported[p]

Quiet ==
  \A p \in Endpoints :
    ~Failed(p) => net[p] = <<>> /\ ~CallDue(p) /\ (NewToReport(p) => dtls[p].e.ack # "Now")

\* The deadline of an ACK has come.
AckTimeout(p) ==
  /\ NewToReport(p)
  /\ Cost(IF dtls[p].e.ack = "Later" /\ ~Quiet THEN 1 ELSE 0)
  /\ Drive(p, {handle_timeout(dtls[p], FALSE, FALSE, TRUE)}, net, data)
  /\ reported' = [reported EXCEPT ![p] = D13!QueuedNumbers(dtls[p].e)]
  /\ UNCHANGED config

FirstDue(p) == \A q \in Endpoints : ~Failed(q) /\ FlightTimer(q) = "Armed" => Left(q) <= Left(p)

\* The flight's deadline comes after a round trip, with the handshake's at the
\* earliest when all retries have taken place.
FlightTimeout(p, connect_due) ==
  /\ ~Failed(p) /\ FlightTimer(p) = "Armed"
  /\ connect_due => ConnectTimer(p) = "Armed" /\ Left(p) = 0
  /\ Cost(IF Quiet /\ FirstDue(p) /\ \A q \in Endpoints : ~NewToReport(q) THEN 0 ELSE 1)
  /\ Drive(p, {handle_timeout(dtls[p], connect_due, TRUE, TRUE)}, net, data)
  /\ UNCHANGED <<config, reported>>

\* An application sends its data as soon as its Dtls takes it, or later.
SendApplicationData(p) ==
  /\ ~Failed(p) /\ config[p].mtu \in Sending /\ data[p] = "None"
  /\ Drive(p, send_application_data(dtls[p], 1), net, [data EXCEPT ![p] = "Accepted"])
  /\ UNCHANGED <<config, reported, faults>>

Next ==
  \E p \in Endpoints :
    \/ \E i \in DOMAIN net[p], duplicate \in BOOLEAN : HandlePacket(p, i, duplicate)
    \/ Lose(p)
    \/ Start(p)
    \/ AckTimeout(p)
    \/ SendApplicationData(p)
    \/ \E connect_due \in BOOLEAN : FlightTimeout(p, connect_due)

Spec == Init /\ [][Next]_vars

Due ==
  \E p \in Endpoints : ~Failed(p) /\ (net[p] # <<>> \/ CallDue(p) \/ NewToReport(p) \/ FlightTimer(p) = "Armed")

\* As long as something is due the network delivers or an application calls.
Fairness == []<>~Due \/ []<><<faults' = faults>>_vars

FairSpec == Spec /\ Fairness

-----------------------------------------------------------------------------
IsConnected(p) == ~is_pending(dtls[p]) /\ "Connected" \in Range(dtls[p].e.events)

Keys(p) == IF protocol_version(dtls[p]) = "12" THEN dtls[p].e.crypto.keys ELSE dtls[p].e.app_key

\* The version both can speak: DTLS 1.3 unless one of them is for DTLS 1.2.
BestVersion == IF \A p \in Endpoints : config[p].versions \in {"13", "auto"} THEN "13" ELSE "12"

\* Endpoints that connect use the best version they have in common, whatever
\* the network does to the hellos, and both hold the same keys.
BestVersionAgreed ==
  \A p \in Endpoints : IsConnected(p) =>
    /\ protocol_version(dtls[p]) = BestVersion
    /\ IsConnected(Peer(p)) => Keys(p) = Keys(Peer(p))

\* What the network does never surfaces as an error but a timeout.
OnlyTimeouts ==
  \A p \in Endpoints :
    dtls[p].e.error \in {"None", "Timeout(Connect)", "Timeout(Handshake)", "Timeout(HybridClientHello)"}


\* Data for which send_application_data has returned Ok arrives when there is
\* no fault: none is taken by an endpoint that another one will replace.
QueuedDataArrives ==
  \A p \in Endpoints : data[p] = "Accepted" ~> (data[p] = "Arrived" \/ faults > 0)
=============================================================================
