----------------------------- MODULE Endpoint12 -----------------------------
(***************************************************************************)
(* The DTLS 1.2 client and server (dtls12/client.rs, dtls12/server.rs): a  *)
(* state of the handshake is an operator that returns the endpoint after   *)
(* the state's function, in the next state, in the same one when there is  *)
(* nothing to do, or with an error.  Both sides' public calls follow.      *)
(***************************************************************************)
EXTENDS HandshakeEngine12

\* Lengths of the messages: Certificate has two units, ServerHelloDone none.
Body(unit) == <<unit>>

CertificateBody == <<Plain, Plain>>

\* handshake_create_certificate_verify: with the default hash of the key.
CertificateVerifyBody(c) ==
  Body([Plain EXCEPT !.algorithms = <<<<c.config.hash, "ECDSA">>>>, !.digest = c.transcript])

\* The engine's generate_verify_data: over the transcript so far.
VerifyData(e, is_client) == generate_verify_data(e.crypto, e.transcript, is_client)

FinishedBody(e) == Body([Plain EXCEPT !.digest = VerifyData(e, e.is_client)])

To(e, state) == IF Failed(e) THEN e ELSE [e EXCEPT !.state = state]

Emit(e, event) == [e EXCEPT !.events = Append(@, event)]

\* The first suite of a list that is one of a set.
FirstOf(seq, set) ==
  LET i == SelectInSeq(seq, LAMBDA x : x \in set) IN IF i = 0 THEN "None" ELSE seq[i]

is_psk(e) == e.suite = "psk"

CaptureSessionHash(e) == [e EXCEPT !.session_hash = e.transcript]

\* The master secret comes from the captured hash, the keys from it.
DeriveKeys(e) ==
  IF e.session_hash = <<>> THEN Fail(e, "InvalidState")
  ELSE Then(WithContext(e, derive_extended_master_secret(e.crypto, e.session_hash)),
            LAMBDA s : WithContext(s, derive_keys(s.crypto)))

\* The events at the end, of which the second needs a profile.
EmitConnected(e) ==
  Emit([e EXCEPT !.keying = IF e.srtp = "None" THEN <<>> ELSE extract_srtp_keying_material(e.crypto, e.srtp)],
       "Connected")

-----------------------------------------------------------------------------
(* The client.                                                             *)

\* handshake_create_client_hello: the suites that suit our kind of key.
ClientHello(c) ==
  [Plain EXCEPT !.random = "client", !.cookie = c.cookie, !.groups = c.config.groups,
                !.suites = SelectSeq(c.config.suites, LAMBDA suite : is_cipher_suite_compatible(c.crypto, suite))]

send_client_hello(c) ==
  To(create_handshake(flight_begin(c), "ClientHello", Body(ClientHello(c))),
     IF c.cookie # <<>> THEN "AwaitServerHello" ELSE "AwaitHelloVerifyRequest")

\* A server that wants no cookie answers with its ServerHello.
await_hello_verify_request(c) ==
  IF has_complete_handshake(c, "ServerHello") THEN To(c, "AwaitServerHello")
  ELSE Await(c, "HelloVerifyRequest", LAMBDA e, body :
         To(reset_client_for_hello_verify_request([e EXCEPT !.cookie = body[1].cookie]), "SendClientHello"))

AfterServerHello(suite) == IF suite = "psk" THEN "AwaitServerKeyExchange" ELSE "AwaitCertificate"

\* Fault: the profile is the first one offered.
await_server_hello_OwnProfile(c) ==
  Await(c, "ServerHello", LAMBDA e, body :
    To([e EXCEPT !.suite = body[1].suite, !.srtp = SupportedProfiles[1]], AfterServerHello(body[1].suite)))

await_server_hello(c) ==
  Await(c, "ServerHello", LAMBDA e, body :
    IF ~is_cipher_suite_compatible(c.crypto, body[1].suite) \/ ~is_cipher_suite_allowed(c, body[1].suite)
    THEN Fail(e, "SecurityError")
    ELSE To([e EXCEPT !.suite = body[1].suite, !.srtp = body[1].srtp], AfterServerHello(body[1].suite)))

client_await_certificate(c) ==
  Await(c, "Certificate", LAMBDA e, body : To([e EXCEPT !.certificates = TRUE], "AwaitServerKeyExchange"))

\* The signature must be of a kind that was offered and that suits the suite.
ProcessServerKeyExchange(e, ske) ==
  IF ske.public_key = <<>> THEN Fail(e, "UnexpectedMessage")
  ELSE IF ske.algorithms[1] \notin Range(SupportedAlgorithms) \/ ske.algorithms[1][2] # "ECDSA"
  THEN Fail(e, "CryptoError")
  ELSE To(WithContext(e, process_ecdh_params(e.crypto, ske.public_key, Range(e.config.groups))),
          "AwaitCertificateRequest")

await_server_key_exchange_ecdhe(c) ==
  Await(c, "ServerKeyExchange", LAMBDA e, body : ProcessServerKeyExchange(e, body[1]))

\* A server without a hint leaves the message out.
await_server_key_exchange_psk(c) ==
  IF has_complete_handshake(c, "ServerHelloDone") THEN To(c, "AwaitServerHelloDone")
  ELSE Await(c, "ServerKeyExchange", LAMBDA e, body :
         IF body[1].public_key # <<>> THEN Fail(e, "UnexpectedMessage") ELSE To(e, "AwaitServerHelloDone"))

await_server_key_exchange(c) ==
  IF is_psk(c) THEN await_server_key_exchange_psk(c) ELSE await_server_key_exchange_ecdhe(c)

await_certificate_request(c) ==
  IF has_complete_handshake(c, "ServerHelloDone") THEN To(c, "AwaitServerHelloDone")
  ELSE Await(c, "CertificateRequest", LAMBDA e, body :
         IF \A i \in DOMAIN body[1].algorithms : body[1].algorithms[i][1] # c.config.hash
         THEN Fail(e, "CertificateError")
         ELSE To([e EXCEPT !.certificate_verify = TRUE], "AwaitServerHelloDone"))

await_server_hello_done(c) ==
  Await(c, "ServerHelloDone", LAMBDA e, body :
    IF is_psk(c) THEN To(e, "SendClientKeyExchange")
    ELSE IF ~c.certificates THEN Fail(e, "CertificateError")
    ELSE To(Emit(e, "PeerCert"), IF c.certificate_verify THEN "SendCertificate" ELSE "SendClientKeyExchange"))

client_send_certificate(c) ==
  To(create_handshake(flight_begin(c), "Certificate", CertificateBody), "SendClientKeyExchange")

\* handshake_create_client_key_exchange: the public key made for the server's,
\* or the identity; the shared secret is computed along with it.
ClientKeyExchange(c) ==
  LET cx == IF is_psk(c) THEN compute_psk_pre_master_secret(set_psk(c.crypto, c.config.psk))
            ELSE maybe_init_key_exchange(c.crypto)
  IN  [e |-> WithContext(c, cx),
       body |-> Body([Plain EXCEPT !.public_key = IF is_psk(c) THEN <<"identity", c.config.psk>> ELSE cx.public_key])]

\* The session hash covers the messages up to this one.
send_client_key_exchange(c) ==
  LET made == ClientKeyExchange(IF c.certificate_verify THEN c ELSE flight_begin(c))
  IN  Then(Then(made.e, LAMBDA e : create_handshake(e, "ClientKeyExchange", made.body)),
           LAMBDA e : To(CaptureSessionHash(e),
                         IF c.certificate_verify THEN "SendCertificateVerify" ELSE "SendChangeCipherSpec"))

send_certificate_verify(c) ==
  To(create_handshake(c, "CertificateVerify", CertificateVerifyBody(c)), "SendChangeCipherSpec")

client_send_change_cipher_spec(c) ==
  Then(DeriveKeys(c), LAMBDA e : To(create_record(e, 0, Content("ChangeCipherSpec"), TRUE), "SendFinished"))

client_send_finished(c) ==
  To(create_handshake(c, "Finished", FinishedBody(c)), "AwaitChangeCipherSpec")

\* From here on the peer's records are protected.
client_await_change_cipher_spec(c) ==
  IF CcsIsNext(c) THEN To(enable_peer_encryption(drop_pending_ccs(c)), "AwaitNewSessionTicket") ELSE c

\* No NewSessionTicket comes from this server.
await_new_session_ticket(c) ==
  IF has_complete_handshake(c, "Finished") THEN To(c, "AwaitFinished") ELSE c

client_await_finished(c) ==
  Await(c, "Finished", LAMBDA e, body :
    IF body[1].digest # VerifyData(c, FALSE) THEN Fail(e, "SecurityError")
    ELSE To(release_application_data(EmitConnected(flight_stop_resend_timers(e))), "AwaitApplicationData"))

-----------------------------------------------------------------------------
(* The server.                                                             *)

compute_cookie(client_random) == <<client_random>>

verify_cookie(client_random, cookie) == cookie = compute_cookie(client_random)

\* Without a cookie of the server the hello is answered and forgotten.
SendHelloVerifyRequest(s, client_random) ==
  Then(create_handshake(flight_begin(s), "HelloVerifyRequest",
                        Body([Plain EXCEPT !.cookie = compute_cookie(client_random)])),
       reset_server_for_hello_verify_request)

\* The client's order decides, of the suites that are allowed and suit our key.
SelectSuite(s, suites) ==
  FirstOf(suites, {suite \in Range(suites) :
                     is_cipher_suite_allowed(s, suite) /\ is_cipher_suite_compatible(s.crypto, suite)})

\* Here the server's order does.
SelectSrtpProfile(profiles) ==
  FirstOf(<<"AEAD_AES_256_GCM", "AEAD_AES_128_GCM", "AES128_CM_SHA1_80">>, Range(profiles))

select_named_group(client_groups, server_groups) == FirstOf(server_groups, Range(client_groups))

\* The hash of the key first, if it can sign with it and the client knows it.
select_ske_signature_algorithm(client_algs, our_hash, supported_hashes) ==
  LET hash_pref == IF our_hash = "SHA384" THEN <<"SHA384", "SHA256">> ELSE <<"SHA256", "SHA384">>
      hash == FirstOf(hash_pref, {h \in supported_hashes : <<h, "ECDSA">> \in Range(client_algs)})
  IN  <<IF hash = "None" THEN our_hash ELSE hash, "ECDSA">>

select_certificate_request_sig_algs(client_algs) ==
  SelectSeq(client_algs, LAMBDA alg : alg \in Range(SupportedAlgorithms))

ProcessClientHello(s, hello, suite) ==
  IF s.config.use_server_cookie /\ ~verify_cookie(hello.random, hello.cookie)
  THEN SendHelloVerifyRequest(s, hello.random)
  ELSE IF suite = "None" THEN Fail(s, "SecurityError")
  ELSE To([s EXCEPT !.suite = suite, !.srtp = SelectSrtpProfile(SupportedProfiles),
                    !.client_groups = hello.groups], "SendServerHello")

await_client_hello(s) ==
  Await(s, "ClientHello", LAMBDA e, body : ProcessClientHello(e, body[1], SelectSuite(e, body[1].suites)))

ServerHello(s) == [Plain EXCEPT !.suite = s.suite, !.srtp = s.srtp]

\* The server's random comes from its first handle_timeout.
send_server_hello(s) ==
  LET sent == create_handshake(flight_begin(s), "ServerHello", Body(ServerHello(s)))
  IN  IF s.connect = "Unarmed" THEN Fail(s, "AssertionFailed")
      ELSE To(sent, IF is_psk(s) THEN "SendServerKeyExchange" ELSE "SendCertificate")

server_send_certificate(s) ==
  To(create_handshake(s, "Certificate", CertificateBody), "SendServerKeyExchange")

\* handshake_create_server_key_exchange.
ServerKeyExchange(s, named_group, algorithm) ==
  Then(WithContext(s, init_ecdh_server(s.crypto, named_group, Range(s.config.groups))),
       LAMBDA e : create_handshake(e, "ServerKeyExchange",
                    Body([Plain EXCEPT !.public_key = e.crypto.public_key, !.algorithms = <<algorithm>>])))

\* The hint, or nothing at all.
send_server_key_exchange_psk(s) ==
  To(IF s.config.psk_hint THEN create_handshake(s, "ServerKeyExchange", Body(Plain)) ELSE s,
     "SendServerHelloDone")

send_server_key_exchange(s) ==
  LET named_group == select_named_group(s.client_groups, s.config.groups)
      algorithm == select_ske_signature_algorithm(SupportedAlgorithms, s.config.hash, s.config.hashes)
  IN  IF is_psk(s) THEN send_server_key_exchange_psk(s)
      ELSE IF named_group = "None" THEN Fail(s, "SecurityError")
      ELSE To(ServerKeyExchange(s, named_group, algorithm),
              IF s.config.require_client_certificate THEN "SendCertificateRequest" ELSE "SendServerHelloDone")

\* handshake_serialize_certificate_request: all algorithms if none is common.
CertificateRequest(sig_algs) ==
  [Plain EXCEPT !.algorithms = IF sig_algs = <<>> THEN SupportedAlgorithms ELSE sig_algs]

send_certificate_request(s) ==
  LET request == CertificateRequest(select_certificate_request_sig_algs(SupportedAlgorithms))
  IN  To(create_handshake(s, "CertificateRequest", Body(request)), "SendServerHelloDone")

send_server_hello_done(s) ==
  To(create_handshake(s, "ServerHelloDone", <<>>),
     IF ~is_psk(s) /\ s.config.require_client_certificate
     THEN "AwaitCertificate" ELSE "AwaitClientKeyExchange")

server_await_certificate(s) ==
  Await(s, "Certificate", LAMBDA e, body :
    To(Emit([e EXCEPT !.certificates = TRUE], "PeerCert"), "AwaitClientKeyExchange"))

\* The key the resolver has for an identity, none if it does not know it.
Resolve(config, identity) == IF config.psk = identity THEN config.psk ELSE "None"

\* An identity that is not known gets a random key, so that the client's
\* Finished fails.
SharedSecret(s, public_key) ==
  LET psk == Resolve(s.config, public_key[2])
      valid == [s EXCEPT !.psk_valid = IF psk = "None" THEN "No" ELSE "Yes"]
  IN  IF ~is_psk(s) THEN WithContext(s, compute_shared_secret(s.crypto, public_key))
      ELSE WithContext(valid, compute_psk_pre_master_secret(
                                set_psk(s.crypto, IF psk = "None" THEN "dummy" ELSE psk)))

\* The keys are derived here, ahead of the ChangeCipherSpec.
ProcessClientKeyExchange(s, key) ==
  IF (key[1] = "identity") # is_psk(s) THEN Fail(s, "UnexpectedMessage")
  ELSE Then(SharedSecret(s, key), LAMBDA e :
              To(DeriveKeys(CaptureSessionHash(e)),
                 IF s.certificates THEN "AwaitCertificateVerify" ELSE "AwaitChangeCipherSpec"))

await_client_key_exchange(s) ==
  Await(s, "ClientKeyExchange", LAMBDA e, body : ProcessClientKeyExchange(e, body[1].public_key))

await_certificate_verify(s) ==
  Await(s, "CertificateVerify", LAMBDA e, body :
    IF body[1].digest # s.transcript THEN Fail(e, "CryptoError") ELSE To(e, "AwaitChangeCipherSpec"))

server_await_change_cipher_spec(s) ==
  IF CcsIsNext(s) THEN To(enable_peer_encryption(drop_pending_ccs(s)), "AwaitFinished") ELSE s

server_await_finished(s) ==
  Await(s, "Finished", LAMBDA e, body :
    IF body[1].digest # VerifyData(s, TRUE) THEN Fail(e, "SecurityError")
    ELSE IF is_psk(s) /\ s.psk_valid = "None" THEN Fail(e, "AssertionFailed")
    ELSE IF s.psk_valid = "No" THEN Fail(e, "SecurityError")
    ELSE To(e, "SendChangeCipherSpec"))

server_send_change_cipher_spec(s) ==
  To(create_record(flight_begin(s), 0, Content("ChangeCipherSpec"), TRUE), "SendFinished")

\* The last flight: it is sent again only when the client repeats its own.
server_send_finished(s) ==
  Then(create_handshake(s, "Finished", FinishedBody(s)), LAMBDA e :
         To(release_application_data(EmitConnected(flight_stop_resend_timers(e))), "AwaitApplicationData"))

-----------------------------------------------------------------------------
(* Both.                                                                   *)

SendAlert(e) == create_record(e, 1, Content("Alert"), FALSE)

\* Fault: the queue is emptied, not sent.
await_application_data_Drops(e) == [e EXCEPT !.queued = <<>>]

\* A close_notify is answered at once and before all data.
await_application_data(e) ==
  LET SendQueued(s, n) == IF Failed(s) THEN s ELSE create_record(s, 1, DataContent(n), FALSE)
  IN  IF e.close_notify THEN To(SendAlert(discard_pending_writes(e)), "Closed")
      ELSE FoldLeft(SendQueued, [e EXCEPT !.queued = <<>>], e.queued)

ClientStep(c) ==
  CASE c.state = "SendClientHello"         -> send_client_hello(c)
    [] c.state = "AwaitHelloVerifyRequest" -> await_hello_verify_request(c)
    [] c.state = "AwaitServerHello"        -> await_server_hello(c)
    [] c.state = "AwaitCertificate"        -> client_await_certificate(c)
    [] c.state = "AwaitServerKeyExchange"  -> await_server_key_exchange(c)
    [] c.state = "AwaitCertificateRequest" -> await_certificate_request(c)
    [] c.state = "AwaitServerHelloDone"    -> await_server_hello_done(c)
    [] c.state = "SendCertificate"         -> client_send_certificate(c)
    [] c.state = "SendClientKeyExchange"   -> send_client_key_exchange(c)
    [] c.state = "SendCertificateVerify"   -> send_certificate_verify(c)
    [] c.state = "SendChangeCipherSpec"    -> client_send_change_cipher_spec(c)
    [] c.state = "SendFinished"            -> client_send_finished(c)
    [] c.state = "AwaitChangeCipherSpec"   -> client_await_change_cipher_spec(c)
    [] c.state = "AwaitNewSessionTicket"   -> await_new_session_ticket(c)
    [] c.state = "AwaitFinished"           -> client_await_finished(c)
    [] c.state = "AwaitApplicationData"    -> await_application_data(c)
    [] c.state = "Closed"                  -> c

ServerStep(s) ==
  CASE s.state = "AwaitClientHello"        -> await_client_hello(s)
    [] s.state = "SendServerHello"         -> send_server_hello(s)
    [] s.state = "SendCertificate"         -> server_send_certificate(s)
    [] s.state = "SendServerKeyExchange"   -> send_server_key_exchange(s)
    [] s.state = "SendCertificateRequest"  -> send_certificate_request(s)
    [] s.state = "SendServerHelloDone"     -> send_server_hello_done(s)
    [] s.state = "AwaitCertificate"        -> server_await_certificate(s)
    [] s.state = "AwaitClientKeyExchange"  -> await_client_key_exchange(s)
    [] s.state = "AwaitCertificateVerify"  -> await_certificate_verify(s)
    [] s.state = "AwaitChangeCipherSpec"   -> server_await_change_cipher_spec(s)
    [] s.state = "AwaitFinished"           -> server_await_finished(s)
    [] s.state = "SendChangeCipherSpec"    -> server_send_change_cipher_spec(s)
    [] s.state = "SendFinished"            -> server_send_finished(s)
    [] s.state = "AwaitApplicationData"    -> await_application_data(s)
    [] s.state = "Closed"                  -> s

\* States follow each other until one stays.
RECURSIVE make_progress(_)
make_progress(e) ==
  Then(IF e.is_client THEN ClientStep(e) ELSE ServerStep(e),
       LAMBDA next : IF next.state = e.state THEN next ELSE make_progress(next))

\* What is transient is not reported.
into_public_error(e) == IF e.error = "Transient" THEN [e EXCEPT !.error = "None"] ELSE e

handle_packet(e, datagram) == into_public_error(Then(parse_packet(e, datagram), make_progress))

\* `connect_due' and `flight_due' say which deadlines set by earlier calls have
\* come.
EngineTimeout(e, connect_due, flight_due) ==
  LET armed == [e EXCEPT !.flight = IF @ = "Unarmed" THEN "Armed" ELSE @,
                         !.connect = IF @ = "Unarmed" THEN "Armed" ELSE @]
      due   == e.flight = "Armed" /\ flight_due
      timed == IF due THEN flight_resend([armed EXCEPT !.left = @ - 1]) ELSE armed
  IN  IF e.connect = "Armed" /\ connect_due THEN Fail(armed, "Timeout(Connect)")
      ELSE IF due /\ e.left = 0 THEN Fail(armed, "Timeout(Handshake)")
      ELSE timed

handle_timeout(e, connect_due, flight_due) ==
  Then(EngineTimeout(e, connect_due, flight_due), LAMBDA timed : into_public_error(make_progress(timed)))

send_application_data(e, n) ==
  IF e.state = "AwaitApplicationData" THEN create_record(e, 1, DataContent(n), FALSE)
  ELSE [e EXCEPT !.queued = Append(@, n)]

close(e) ==
  IF e.state = "AwaitApplicationData" THEN To(SendAlert(e), "Closed")
  ELSE [abort(e) EXCEPT !.state = "Closed"]

\* The data poll_output hands out, and the endpoint when it has been polled
\* until it answered with a Timeout.
ReceivedData(e) ==
  SelectSeq(FlattenSeq(e.queue_rx), LAMBDA r : e.released /\ r.type = "ApplicationData" /\ ~r.handled)

poll_output(e) ==
  [e EXCEPT !.queue_tx = <<>>, !.queue_rx = purge_handled_queue_rx(MarkHandled(@, ReceivedData(e)))]
=============================================================================
