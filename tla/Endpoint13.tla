----------------------------- MODULE Endpoint13 -----------------------------
(***************************************************************************)
(* The DTLS 1.3 client and server (dtls13/client.rs, dtls13/server.rs): a  *)
(* state of the handshake is an operator that returns the endpoint after   *)
(* the state's function, in the next state, in the same one when there is  *)
(* nothing to do, or with an error.  Both sides' public calls follow.      *)
(***************************************************************************)
EXTENDS HandshakeEngine13

CONSTANT MAX_RETAINED_CLIENT_HELLO

ASSUME RetainedAssumption == MAX_RETAINED_CLIENT_HELLO \in Nat \ {0}

\* Lengths of the messages: only Certificate needs more than one unit.
Body(unit) == <<unit>>

CertificateBody(e) ==
  LET unit == [Plain EXCEPT !.scheme = e.config.curve]
  IN  IF e.config.certificate THEN <<unit, unit>> ELSE <<Plain>>

\* SignatureScheme::supported; the curve each is for, its hash and algorithm.
SupportedSchemes == {"ECDSA_SECP256R1_SHA256", "ECDSA_SECP384R1_SHA384"}

named_group(scheme) == IF scheme = "ECDSA_SECP256R1_SHA256" THEN "P256" ELSE "P384"

signature_scheme_to_components(scheme) ==
  <<IF scheme = "ECDSA_SECP256R1_SHA256" THEN "SHA256" ELSE "SHA384", "ECDSA">>

\* SigningKey::algorithm and hash_algorithm, and the scheme for the two.
SigningKey(curve) == <<IF curve = "P256" THEN "SHA256" ELSE "SHA384", "ECDSA">>

SchemeOf(key) == IF key[1] = "SHA256" THEN "ECDSA_SECP256R1_SHA256" ELSE "ECDSA_SECP384R1_SHA384"

\* The content that a CertificateVerify signs says whose it is.
SignedContent(e, is_client) == <<IF is_client THEN "client" ELSE "server", e.transcript>>

\* handshake_create_certificate_verify.
CertificateVerifyBody(e) ==
  LET key == SigningKey(e.config.curve)
  IN  Body([Plain EXCEPT !.scheme = SchemeOf(key), !.digest = <<e.config.curve, key, SignedContent(e, e.is_client)>>])

FinishedBody(e) == Body([Plain EXCEPT !.digest = compute_verify_data(e, e.is_client)])

To(e, state) == IF Failed(e) THEN e ELSE [e EXCEPT !.state = state]

Emit(e, event) == [e EXCEPT !.events = Append(@, event)]

\* Consume the message that was taken and go on to a state.
Accept(e, state) == IF Failed(e) THEN e ELSE To(advance_peer_handshake_seq(e), state)

\* The first element of a list of preferences that satisfies a test.
FirstOf(seq, set) ==
  LET i == SelectInSeq(seq, LAMBDA x : x \in set) IN IF i = 0 THEN "None" ELSE seq[i]

is_cipher_suite_allowed(e, suite) == suite \in Range(e.config.suites)

-----------------------------------------------------------------------------
(* The client.                                                             *)

\* handshake_create_client_hello.
ClientHello(c, group) ==
  [Plain EXCEPT !.group = group, !.random = "client", !.cookie = c.cookie,
                !.groups = c.config.groups, !.suites = c.config.suites]

\* The first group is tried, or the one the server asked for.
send_client_hello(c) ==
  LET group == IF c.group # "None" THEN c.group ELSE c.config.groups[1]
  IN  IF group \notin Range(c.config.groups) THEN Fail(c, "KeyExchangeGroupNotFound")
      ELSE To(create_handshake([flight_begin(c) EXCEPT !.share = group], "ClientHello", Body(ClientHello(c, group))),
              "AwaitServerHello")

\* A HelloRetryRequest: only the first one counts.
HelloRetryRequest(c, e, hello) ==
  LET retried == [e EXCEPT !.group = IF hello.group # "None" THEN hello.group ELSE @,
                           !.cookie = hello.cookie, !.suite = hello.suite]
      reset   == reset_for_hello_retry(advance_peer_handshake_seq(
                   replace_transcript_with_message_hash(retried, Len(c.transcript))))
  IN  IF c.hello_retry THEN [e EXCEPT !.transcript = c.transcript]
      ELSE IF ~is_cipher_suite_allowed(c, hello.suite) THEN Fail(e, "SecurityError")
      ELSE To([reset EXCEPT !.hello_retry = TRUE, !.share = "None"], "SendClientHello")

ProcessServerHello(c, e, hello) ==
  LET agreed == [e EXCEPT !.suite = hello.suite, !.share = "None", !.shared = <<c.share, hello.group>>]
  IN  IF hello.retry THEN HelloRetryRequest(c, e, hello)
      ELSE IF ~is_cipher_suite_allowed(c, hello.suite) THEN Fail(e, "SecurityError")
      ELSE IF c.share = "None" THEN Fail(e, "InvalidState")
      ELSE IF c.share # hello.group THEN Fail(e, "SecurityError")
      ELSE Accept(enable_peer_encryption(install_handshake_keys(agreed, derive_handshake_secrets(agreed))),
                  "AwaitEncryptedExtensions")

await_server_hello(c) == Await(c, "ServerHello", LAMBDA e, body : ProcessServerHello(c, e, body[1]))

\* Fault: the profile in the message is not looked at.
await_encrypted_extensions_NoProfile(c) ==
  Await(c, "EncryptedExtensions", LAMBDA e, body : Accept(e, "AwaitCertificateRequest"))

await_encrypted_extensions(c) ==
  Await(c, "EncryptedExtensions", LAMBDA e, body :
    Accept([e EXCEPT !.srtp = body[1].srtp], "AwaitCertificateRequest"))

\* The server need not send a CertificateRequest.
await_certificate_request(c) ==
  IF has_complete_handshake13(c.queue_rx, "Certificate", c.peer_seq) THEN To(c, "AwaitCertificate")
  ELSE Await(c, "CertificateRequest", LAMBDA e, body : Accept([e EXCEPT !.auth = TRUE], "AwaitCertificate"))

client_await_certificate(c) ==
  Await(c, "Certificate", LAMBDA e, body :
    IF Len(body) = 1 THEN Fail(e, "CertificateError")
    ELSE Accept(Emit([e EXCEPT !.peer_curve = body[1].scheme], "PeerCert"), "AwaitCertificateVerify"))

verify_scheme_curve(scheme, curve) == named_group(scheme) = curve

\* A signature says by which key, how and of what it was made.
verify_signature(curve, components, content, signature) == signature = <<curve, components, content>>

\* The signature covers the transcript before the message, by a scheme that
\* was offered and for the curve of the certificate.
VerifySignature(before, e, cv) ==
  IF cv.scheme \notin SupportedSchemes THEN Fail(e, "SecurityError")
  ELSE IF before.peer_curve = "None" THEN Fail(e, "CertificateError")
  ELSE IF ~verify_scheme_curve(cv.scheme, before.peer_curve) THEN Fail(e, "SecurityError")
  ELSE IF ~verify_signature(before.peer_curve, signature_scheme_to_components(cv.scheme),
                            SignedContent(before, ~before.is_client), cv.digest) THEN Fail(e, "CryptoError")
  ELSE e

client_await_certificate_verify(c) ==
  Await(c, "CertificateVerify", LAMBDA e, body : Accept(VerifySignature(c, e, body[1]), "AwaitFinished"))

\* Fault: the application keys come from the transcript before the Finished.
client_await_finished_EarlyKeys(c) ==
  Await(c, "Finished", LAMBDA e, body :
    Accept(install_application_keys(e, derive_application_secrets(c)),
           IF c.auth THEN "SendCertificate" ELSE "SendFinished"))

client_await_finished(c) ==
  Await(c, "Finished", LAMBDA e, body :
    IF body[1].digest # compute_verify_data(c, FALSE) THEN Fail(e, "SecurityError")
    ELSE Accept(install_application_keys(e, derive_application_secrets(e)),
                IF c.auth THEN "SendCertificate" ELSE "SendFinished"))

client_send_certificate(c) ==
  To(create_handshake(flight_begin(c), "Certificate", CertificateBody(c)),
     IF c.config.certificate THEN "SendCertificateVerify" ELSE "SendFinished")

client_send_certificate_verify(c) ==
  To(create_handshake(c, "CertificateVerify", CertificateVerifyBody(c)), "SendFinished")

\* The events at the end, of which the second needs a profile.
EmitConnected(e) ==
  Emit([e EXCEPT !.keying = IF e.srtp = "None" THEN <<>> ELSE extract_srtp_keying_material(e, e.srtp)],
       "Connected")

\* The client is connected when it has sent its Finished.  Its timers go on.
client_send_finished(c) ==
  Then(create_handshake(IF c.auth THEN c ELSE flight_begin(c), "Finished", FinishedBody(c)),
       LAMBDA e : To(release_application_data(EmitConnected(e)), "AwaitApplicationData"))

-----------------------------------------------------------------------------
(* The server.                                                             *)

compute_cookie(client_random) == <<client_random>>

\* send_hello_retry_request: a ServerHello with a cookie and, perhaps, a group.
HelloRetry(suite, cookie, group) ==
  [Plain EXCEPT !.retry = TRUE, !.group = group, !.cookie = cookie, !.suite = suite]

\* The request, and what surrounds it.
SendHelloRetryRequest(s, hello, suite, group) ==
  LET hashed == replace_transcript_with_message_hash([s EXCEPT !.suite = suite], Len(s.transcript))
  IN  Then(create_handshake(flight_begin(hashed), "ServerHello",
                            Body(HelloRetry(suite, compute_cookie(hello.random), group))),
           LAMBDA e : [reset_for_hello_retry(advance_peer_handshake_seq(e)) EXCEPT !.hello_retry = TRUE])

\* The client's order decides on the suite and on the profile (its hello lists
\* all of SrtpProfileId::supported), the server's on the group of a retry.
SelectSuite(s, hello) == FirstOf(hello.suites, {suite \in Range(hello.suites) : is_cipher_suite_allowed(s, suite)})

SelectSrtpProfile ==
  FirstOf(<<"AES128_CM_SHA1_80", "AEAD_AES_128_GCM", "AEAD_AES_256_GCM">>,
          {"AES128_CM_SHA1_80", "AEAD_AES_128_GCM", "AEAD_AES_256_GCM"})

CommonGroup(s, hello) == FirstOf(s.config.groups, Range(hello.groups))

\* The share of the client is for one of the server's groups.
HasMatchingShare(s, hello) == hello.group \in Range(s.config.groups)

\* A hello without a cookie: the answer asks for one and, while at it, for a
\* share that is missing.  A second such hello is a late copy of the first.
RetryForCookie(s, e, hello, suite) ==
  IF s.hello_retry THEN [e EXCEPT !.transcript = s.transcript]
  ELSE SendHelloRetryRequest(e, hello, suite,
                             IF HasMatchingShare(s, hello) THEN "None" ELSE CommonGroup(s, hello))

RetryForShare(e, hello, suite, common) ==
  IF common = "None" THEN Fail(e, "NoCommonKeyExchangeGroup")
  ELSE IF e.hello_retry THEN Fail(e, "CannotSendSecondHelloRetryRequest")
  ELSE SendHelloRetryRequest(e, hello, suite, common)

\* The key exchange is over with the client's share.
Agree(e, hello, suite) ==
  Accept([e EXCEPT !.group = hello.group, !.suite = suite, !.srtp = SelectSrtpProfile,
                   !.shared = <<hello.group, hello.group>>], "SendServerHello")

ProcessClientHello(s, e, hello, suite) ==
  IF ~hello.dtls13 THEN Fail(e, IF s.auto_mode THEN "Dtls12Fallback" ELSE "SecurityError")
  ELSE IF suite = "None" THEN Fail(e, "NoCommonCipherSuite")
  ELSE IF s.config.use_server_cookie /\ hello.cookie = <<>> THEN RetryForCookie(s, e, hello, suite)
  ELSE IF hello.cookie \notin {<<>>, compute_cookie(hello.random)} THEN Fail(e, "SecurityError")
  ELSE IF HasMatchingShare(s, hello) THEN Agree(e, hello, suite)
  ELSE RetryForShare(e, hello, suite, CommonGroup(s, hello))

await_client_hello(s) ==
  Await(s, "ClientHello", LAMBDA e, body : ProcessClientHello(s, e, body[1], SelectSuite(s, body[1])))

ServerHello(s) == [Plain EXCEPT !.group = s.group, !.suite = s.suite]

\* The server's random comes from its first handle_timeout.
send_server_hello(s) ==
  IF s.connect = "Unarmed" THEN Fail(s, "AssertionFailed")
  ELSE Then(create_handshake(flight_begin(s), "ServerHello", Body(ServerHello(s))), LAMBDA e :
              IF s.shared = <<>> THEN Fail(e, "InvalidState")
              ELSE To(install_handshake_keys(e, derive_handshake_secrets(e)), "SendEncryptedExtensions"))

\* handshake_create_encrypted_extensions: the profile is all there is.
EncryptedExtensions(s) == [Plain EXCEPT !.srtp = s.srtp]

send_encrypted_extensions(s) ==
  To(create_handshake(s, "EncryptedExtensions", Body(EncryptedExtensions(s))),
     IF s.config.require_client_certificate THEN "SendCertificateRequest" ELSE "SendCertificate")

\* handshake_create_certificate_request: no context, and the schemes that every
\* endpoint supports.
CertificateRequest == Plain

send_certificate_request(s) ==
  Then(create_handshake(s, "CertificateRequest", Body(CertificateRequest)),
       LAMBDA e : To([e EXCEPT !.auth = TRUE], "SendCertificate"))

server_send_certificate(s) ==
  To(create_handshake(s, "Certificate", CertificateBody(s)), "SendCertificateVerify")

server_send_certificate_verify(s) ==
  To(create_handshake(s, "CertificateVerify", CertificateVerifyBody(s)), "SendFinished")

server_send_finished(s) ==
  Then(create_handshake(s, "Finished", FinishedBody(s)), LAMBDA e :
         To(enable_peer_encryption(install_application_keys(e, derive_application_secrets(e))),
            IF s.auth THEN "AwaitCertificate" ELSE "AwaitFinished"))

\* An empty Certificate is accepted; either way the timers stop.
server_await_certificate(s) ==
  Await(s, "Certificate", LAMBDA e, body :
    LET stopped == flight_stop_resend_timers(e)
    IN  IF Len(body) = 1 THEN Accept(stopped, "AwaitFinished")
        ELSE Accept(Emit([stopped EXCEPT !.peer_curve = body[1].scheme], "PeerCert"), "AwaitCertificateVerify"))

server_await_certificate_verify(s) ==
  Await(s, "CertificateVerify", LAMBDA e, body : Accept(VerifySignature(s, e, body[1]), "AwaitFinished"))

\* The server acknowledges the client's flight and is connected.
server_await_finished(s) ==
  Await(s, "Finished", LAMBDA e, body :
    IF body[1].digest # compute_verify_data(s, TRUE) THEN Fail(e, "SecurityError")
    ELSE Then(send_ack(advance_peer_handshake_seq(e)), LAMBDA acked :
           To(release_application_data(EmitConnected(flight_stop_resend_timers(acked))), "AwaitApplicationData")))

-----------------------------------------------------------------------------
(* Both.                                                                   *)

\* Fault: the queue is emptied, not sent.
await_application_data_Drops(e) == [e EXCEPT !.queued = <<>>]

\* The data the application queued leaves on the application keys.  Engine13
\* models the rest of this state.
await_application_data(e) ==
  LET SendQueued(s, n) == IF Failed(s) THEN s ELSE create_record(s, 3, DataContent(n), FALSE)
  IN  FoldLeft(SendQueued, [e EXCEPT !.queued = <<>>], e.queued)

ClientStep(c) ==
  CASE c.state = "SendClientHello"          -> send_client_hello(c)
    [] c.state = "AwaitServerHello"         -> await_server_hello(c)
    [] c.state = "AwaitEncryptedExtensions" -> await_encrypted_extensions(c)
    [] c.state = "AwaitCertificateRequest"  -> await_certificate_request(c)
    [] c.state = "AwaitCertificate"         -> client_await_certificate(c)
    [] c.state = "AwaitCertificateVerify"   -> client_await_certificate_verify(c)
    [] c.state = "AwaitFinished"            -> client_await_finished(c)
    [] c.state = "SendCertificate"          -> client_send_certificate(c)
    [] c.state = "SendCertificateVerify"    -> client_send_certificate_verify(c)
    [] c.state = "SendFinished"             -> client_send_finished(c)
    [] c.state = "AwaitApplicationData"     -> await_application_data(c)
    [] c.state = "Closed"                   -> c

ServerStep(s) ==
  CASE s.state = "AwaitClientHello"         -> await_client_hello(s)
    [] s.state = "SendServerHello"          -> send_server_hello(s)
    [] s.state = "SendEncryptedExtensions"  -> send_encrypted_extensions(s)
    [] s.state = "SendCertificateRequest"   -> send_certificate_request(s)
    [] s.state = "SendCertificate"          -> server_send_certificate(s)
    [] s.state = "SendCertificateVerify"    -> server_send_certificate_verify(s)
    [] s.state = "SendFinished"             -> server_send_finished(s)
    [] s.state = "AwaitCertificate"         -> server_await_certificate(s)
    [] s.state = "AwaitCertificateVerify"   -> server_await_certificate_verify(s)
    [] s.state = "AwaitFinished"            -> server_await_finished(s)
    [] s.state = "AwaitApplicationData"     -> await_application_data(s)
    [] s.state = "Closed"                   -> s

\* States follow each other until one stays.
RECURSIVE make_progress(_)
make_progress(e) ==
  Then(IF e.is_client THEN ClientStep(e) ELSE ServerStep(e),
       LAMBDA next : IF next.state = e.state THEN next ELSE make_progress(next))

\* What is transient is not reported.
into_public_error(e) == IF e.error = "Transient" THEN [e EXCEPT !.error = "None"] ELSE e

\* While the version is open the server keeps what it gets for a fallback; the
\* version is settled when it leaves AwaitClientHello.
IsSensing(e) == e.auto_mode /\ e.state = "AwaitClientHello"

Settle(e) ==
  IF Failed(e) \/ IsSensing(e) THEN into_public_error(e) ELSE [e EXCEPT !.retained = <<>>, !.auto_mode = FALSE]

handle_packet(e, datagram) ==
  IF IsSensing(e) /\ Len(e.retained) >= MAX_RETAINED_CLIENT_HELLO
  THEN Fail(e, "TooManyClientHelloFragments")
  ELSE Settle(Then(parse_packet(IF IsSensing(e) THEN [e EXCEPT !.retained = Append(@, datagram)] ELSE e, datagram),
                   make_progress))

\* `connect_due', `flight_due' and `ack_due' say which deadlines set by earlier
\* calls have come.  A scheduled ACK is not looked at when no flight timer runs.
FlushAck(planned, later) == maybe_flush_handshake_ack(planned, planned.ack = "Now" \/ later)

EngineTimeout(e, connect_due, flight_due, ack_due) ==
  LET armed == [e EXCEPT !.flight = IF @ = "Unarmed" THEN "Armed" ELSE @,
                         !.connect = IF @ = "Unarmed" THEN "Armed" ELSE @]
      due   == e.flight = "Armed" /\ flight_due
  IN  IF e.connect = "Armed" /\ connect_due THEN Fail(armed, "Timeout(Connect)")
      ELSE IF due /\ e.left = 0 THEN Fail(armed, "Timeout(Handshake)")
      ELSE Then(IF due THEN flight_resend([armed EXCEPT !.left = @ - 1]) ELSE armed, LAMBDA resent :
                  IF armed.flight # "Armed" THEN resent
                  ELSE FlushAck(maybe_schedule_handshake_ack(resent), e.ack = "Later" /\ ack_due))

handle_timeout(e, connect_due, flight_due, ack_due) ==
  Then(EngineTimeout(e, connect_due, flight_due, ack_due), LAMBDA timed : into_public_error(make_progress(timed)))

send_application_data(e, n) ==
  IF e.state = "AwaitApplicationData" THEN create_record(e, 3, DataContent(n), FALSE)
  ELSE [e EXCEPT !.queued = Append(@, n)]

\* close() before the handshake is over.
close_handshake(e) == [abort(e) EXCEPT !.state = "Closed"]

\* The data poll_output hands out, and the endpoint when it has been polled
\* until it answered with a Timeout.
ReceivedData(e) ==
  SelectSeq(FlattenSeq(e.queue_rx), LAMBDA r : e.released /\ r.type = "ApplicationData" /\ ~r.handled)

poll_output(e) ==
  maybe_schedule_handshake_ack(
    [e EXCEPT !.queue_tx = <<>>, !.queue_rx = purge_handled_queue_rx(MarkHandled(@, ReceivedData(e)))])
=============================================================================
