---------------------------- MODULE Handshake12 -----------------------------
(***************************************************************************)
(* A DTLS 1.2 client and server from the first ClientHello to the          *)
(* close_notify, over a network that loses, duplicates, delays and         *)
(* reorders datagrams.  Each application polls its endpoint until it gets  *)
(* a Timeout after every call, as the README's loop does, and throws an    *)
(* endpoint away that has returned an Error.                               *)
(***************************************************************************)
EXTENDS Endpoint12

CONSTANTS Client, Server,
          Configs,      \* the pairs of configurations, one of which is in force
          MaxData,      \* bound on the data each application sends
          MaxFaults,    \* bound on the faults of network and applications, for each mtu
          Closing,      \* whether an application may close
          EarlyCopies,  \* whether what comes before its keys may come twice
          Punctual      \* whether handle_timeout is called when poll_output says, no sooner

VARIABLES engine,      \* the endpoints
          net,         \* datagrams under way to each endpoint, in their order
          sent,        \* how many pieces of data each application has sent
          delivered,   \* how often each piece reached each application
          faults       \* how many faults there have been

vars == <<engine, net, sent, delivered, faults>>

Endpoints == {Client, Server}

Peer(p) == IF p = Client THEN Server ELSE Client

Init ==
  /\ \E config \in Configs :
       engine = [p \in Endpoints |-> NewEngine(p = Client, config[p])]
  /\ net = [p \in Endpoints |-> <<>>]
  /\ sent = [p \in Endpoints |-> 0]
  /\ delivered = [p \in Endpoints |-> [n \in 1 .. MaxData |-> 0]]
  /\ faults = 0

Alive(p) == ~Failed(engine[p])

\* A call leaves the endpoint at one of `results': it is polled, its packets go
\* to the network after those in `left', its data to the application.
Drive(p, results, left) ==
  \E after \in results :
    IF Failed(after)
    THEN /\ engine' = [engine EXCEPT ![p] = after]
         /\ net' = left
         /\ UNCHANGED delivered
    ELSE /\ engine' = [engine EXCEPT ![p] = poll_output(after)]
         /\ net' = [left EXCEPT ![Peer(p)] = @ \o after.queue_tx]
         /\ delivered' = [delivered EXCEPT ![p] =
              [n \in DOMAIN @ |-> @[n] + Len(SelectSeq(ReceivedData(after), LAMBDA r : r.data = n))]]

Cost(n) == faults + n <= MaxFaults[engine[Client].config.mtu] /\ faults' = faults + n

\* The datagram begins with a protected record that cannot be opened yet.
IsEarly(p, datagram) == datagram[1].epoch = 1 /\ ~engine[p].peer_enc

\* Datagram i arrives.  It overtakes the ones before it, or a copy stays
\* under way: each is a fault of the network.  The first call of all is
\* handle_timeout, which poll_output asks for at once.
HandlePacket(p, i, duplicate) ==
  /\ Alive(p) /\ engine[p].connect # "Unarmed" /\ i \in DOMAIN net[p]
  /\ duplicate /\ IsEarly(p, net[p][i]) => EarlyCopies
  /\ Cost((IF i = 1 THEN 0 ELSE 1) + (IF duplicate THEN 1 ELSE 0))
  /\ Drive(p, {handle_packet(engine[p], net[p][i])},
           IF duplicate THEN net ELSE [net EXCEPT ![p] = RemoveAt(@, i)])
  /\ UNCHANGED sent

\* The network loses the next datagram.
Lose(p) ==
  /\ net[p] # <<>> /\ Cost(1)
  /\ net' = [net EXCEPT ![p] = Tail(@)]
  /\ UNCHANGED <<engine, sent, delivered>>

\* handle_timeout with no deadline come: it starts the client and arms timers.
\* While the handshake's timer runs poll_output does not ask for the call that
\* arms the flight's.
CallDue(p) ==
  /\ Alive(p)
  /\ \/ engine[p].connect = "Unarmed"
     \/ engine[p].flight = "Unarmed" /\ ~(Punctual /\ engine[p].connect = "Armed")

Start(p) ==
  /\ CallDue(p)
  /\ Drive(p, {handle_timeout(engine[p], FALSE, FALSE)}, net)
  /\ UNCHANGED <<sent, faults>>

\* Nothing is under way and no call is due.
Quiet == \A p \in Endpoints : Alive(p) => net[p] = <<>> /\ ~CallDue(p)

\* The timers double with every retry: who has retried less is due first.
FirstDue(p) == \A q \in Endpoints : Alive(q) /\ engine[q].flight = "Armed" => engine[q].left <= engine[p].left

\* The flight timer is longer than a round trip: when it comes while datagrams
\* are under way these are late, which is a fault.
FlightTimeout(p) ==
  /\ Alive(p) /\ engine[p].flight = "Armed"
  /\ Cost(IF Quiet /\ FirstDue(p) THEN 0 ELSE 1)
  /\ Drive(p, {handle_timeout(engine[p], FALSE, TRUE)}, net)
  /\ UNCHANGED sent

\* The handshake's own deadline comes when all retries have taken place, or
\* when no flight's timer runs.
ConnectTimeout(p) ==
  /\ Alive(p) /\ engine[p].connect = "Armed"
  /\ Quiet
  /\ IF engine[p].flight = "Armed" THEN engine[p].left = 0 /\ FirstDue(p)
     ELSE \A q \in Endpoints : Alive(q) => engine[q].flight # "Armed"
  /\ Drive(p, {handle_timeout(engine[p], TRUE, TRUE)}, net)
  /\ UNCHANGED <<sent, faults>>

SendApplicationData(p) ==
  /\ Alive(p) /\ engine[p].state # "Closed" /\ sent[p] < MaxData
  /\ Drive(p, {send_application_data(engine[p], sent[p] + 1)}, net)
  /\ sent' = [sent EXCEPT ![p] = @ + 1]
  /\ UNCHANGED faults

\* An application ends the association, or gives up the handshake.
Close(p) ==
  /\ Alive(p) /\ Closing /\ engine[p].state # "Closed" /\ Cost(1)
  /\ Drive(p, {close(engine[p])}, net)
  /\ UNCHANGED sent

Next ==
  \E p \in Endpoints :
    \/ \E i \in DOMAIN net[p], duplicate \in BOOLEAN : HandlePacket(p, i, duplicate)
    \/ Lose(p)
    \/ Start(p)
    \/ FlightTimeout(p)
    \/ ConnectTimeout(p)
    \/ SendApplicationData(p)
    \/ Close(p)

Spec == Init /\ [][Next]_vars

\* A datagram, a deadline or a first call is due.
Due ==
  \E p \in Endpoints :
    Alive(p) /\ (net[p] # <<>> \/ CallDue(p) \/ engine[p].flight = "Armed" \/ engine[p].connect = "Armed")

\* Weak fairness of the steps that are no faults: as long as something is due,
\* the network delivers or an application calls handle_timeout.  Due stands for
\* the ENABLED of these steps.
Fairness == []<>~Due \/ []<><<faults' = faults>>_vars

FairSpec == Spec /\ Fairness

-----------------------------------------------------------------------------
IsConnected(p) == "Connected" \in Range(engine[p].events)

\* The server knows the client's identity, or needs none.
SameSecret == engine[Client].config.psk = engine[Server].config.psk

\* Neither endpoint ever fails but by a timeout, and by none when there was no
\* fault: what faults leave in the queues (a stale HelloVerifyRequest, repeated
\* flights, protected records ahead of the ChangeCipherSpec) is never taken for
\* a message that is wrong.
OnlyTimeouts ==
  SameSecret =>
    \A p \in Endpoints :
      /\ engine[p].error \in {"None", "Timeout(Connect)", "Timeout(Handshake)"}
      /\ faults = 0 => ~Failed(engine[p])

\* No step of the code runs into one of its assertions.
NoAssertionFails == \A p \in Endpoints : engine[p].error # "AssertionFailed"

\* Applications that are connected got the same keying material for SRTP, with
\* the same profile.
SameKeyingMaterial ==
  (\A p \in Endpoints : IsConnected(p)) =>
    engine[Client].keying = engine[Server].keying /\ engine[Client].keying # <<>>

\* Once the peer is known to have finished, none of its old messages draws the
\* flight again; only the timer of an endpoint that waits does.
FlightOver ==
  [][\A p \in Endpoints :
       engine[p].confirmed /\ engine'[p].left = engine[p].left => engine'[p].send_seq[0] = engine[p].send_seq[0]]_vars


\* Data an application hands over before or after it is connected reaches the
\* other one when there is no fault and the
\* server knows the client.
QueuedDataArrives ==
  \A p \in Endpoints : \A n \in 1 .. MaxData :
    sent[Peer(p)] >= n ~> (delivered[p][n] > 0 \/ faults > 0 \/ ~SameSecret)

\* The promise of the association, as the two applications see it.  After its
\* own close an endpoint still hands out what the peer sent before its close.
Phase(p) ==
  CASE Failed(engine[p]) -> "Over"
    [] ~Failed(engine[p]) /\ IsConnected(p) ->
         IF engine[p].state = "Closed" /\ engine[p].close_notify THEN "Over" ELSE "Connected"
    [] ~Failed(engine[p]) /\ ~IsConnected(p) ->
         IF engine[p].state = "Closed" THEN "Over" ELSE "Handshake"

Transcripts ==
  Seq([msg_type : STRING, seq : Nat,
       body : Seq([random : STRING, cookie : Seq(STRING), suite : STRING, suites : Seq(STRING), groups : Seq(STRING),
                   srtp : STRING, public_key : Seq(STRING), algorithms : Seq(STRING \X STRING),
                   digest : {<<>>}])])

\* A master secret.
Masters == (SUBSET Seq(STRING)) \X Transcripts

Association ==
  INSTANCE Session WITH
    First <- Server, Second <- Client, Data <- 1 .. MaxData,
    Secrets <- Masters, NoSecret <- <<>>,
    phase <- [p \in Endpoints |-> Phase(p)],
    agreed <- [p \in Endpoints |-> IF IsConnected(p) THEN engine[p].crypto.keys ELSE <<>>],
    sent <- [p \in Endpoints |-> 1 .. sent[p]],
    received <- delivered

\* The endpoints connect with the same keys, the server first, and data is
\* handed out once, between endpoints that have connected.
ImplementsSession == Association!Spec
=============================================================================
