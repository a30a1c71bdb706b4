---------------------------- MODULE Handshake13 -----------------------------
(***************************************************************************)
(* A DTLS 1.3 client and server from the first ClientHello to the first    *)
(* application data, over a network that loses, duplicates, delays and     *)
(* reorders datagrams.  Each application polls its endpoint until it gets  *)
(* a Timeout after every call, as the README's loop does, and throws an    *)
(* endpoint away that has returned an Error.                               *)
(***************************************************************************)
EXTENDS Endpoint13

CONSTANTS Client, Server,
          Configs,      \* the pairs of configurations, one of which is in force
          MaxData,      \* bound on the data each application sends
          MaxFaults,    \* bound on the faults of network and applications, for each mtu
          Closing       \* whether an application may give up

VARIABLES engine,      \* the endpoints
          net,         \* datagrams under way to each endpoint, in their order
          sent,        \* how many pieces of data each application has sent
          delivered,   \* how often each piece reached each application
          reported,    \* what each endpoint's last ACK listed
          faults       \* how many faults there have been

vars == <<engine, net, sent, delivered, reported, faults>>

Endpoints == {Client, Server}

Peer(p) == IF p = Client THEN Server ELSE Client

Init ==
  /\ \E config \in Configs :
       engine = [p \in Endpoints |-> NewEngine(p = Client, config[p])]
  /\ net = [p \in Endpoints |-> <<>>]
  /\ sent = [p \in Endpoints |-> 0]
  /\ delivered = [p \in Endpoints |-> [n \in 1 .. MaxData |-> 0]]
  /\ reported = [p \in Endpoints |-> {}]
  /\ faults = 0

Alive(p) == ~Failed(engine[p])

\* A call leaves the endpoint at one of `results': it is polled, its packets go
\* to the network after those in `left', its data to the application.
Drive(p, results, left) ==
  \E after \in results :
    IF Failed(after)
    THEN /\ engine' = [engine EXCEPT ![p] = after]
         /\ net' = left
         /\ UNCHANGED delivered
    ELSE /\ engine' = [engine EXCEPT ![p] = poll_output(after)]
         /\ net' = [left EXCEPT ![Peer(p)] = @ \o after.queue_tx]
         /\ delivered' = [delivered EXCEPT ![p] =
              [n \in DOMAIN @ |-> @[n] + Len(SelectSeq(ReceivedData(after), LAMBDA r : r.data = n))]]

Cost(n) == faults + n <= MaxFaults[engine[Client].config.mtu] /\ faults' = faults + n

\* Datagram i arrives.  It overtakes the ones before it, or a copy stays
\* under way: each is a fault of the network.  The first call of all is
\* handle_timeout, which poll_output asks for at once.
HandlePacket(p, i, duplicate) ==
  /\ Alive(p) /\ engine[p].connect # "Unarmed" /\ i \in DOMAIN net[p]
  /\ Cost((IF i = 1 THEN 0 ELSE 1) + (IF duplicate THEN 1 ELSE 0))
  /\ Drive(p, {handle_packet(engine[p], net[p][i])},
           IF duplicate THEN net ELSE [net EXCEPT ![p] = RemoveAt(@, i)])
  /\ UNCHANGED <<sent, reported>>

\* The network loses the next datagram.
Lose(p) ==
  /\ net[p] # <<>> /\ Cost(1)
  /\ net' = [net EXCEPT ![p] = Tail(@)]
  /\ UNCHANGED <<engine, sent, delivered, reported>>

\* handle_timeout with no deadline come: it starts the client and arms timers.
CallDue(p) == Alive(p) /\ (engine[p].connect = "Unarmed" \/ engine[p].flight = "Unarmed")

Start(p) ==
  /\ CallDue(p)
  /\ Drive(p, {handle_timeout(engine[p], FALSE, FALSE, FALSE)}, net)
  /\ UNCHANGED <<sent, reported, faults>>

AckScheduled(p) == Alive(p) /\ engine[p].ack # "None" /\ engine[p].flight = "Armed"

NewToReport(p) == AckScheduled(p) /\ QueuedNumbers(engine[p]) # reported[p]

\* Nothing is under way and no call is due; the deadline of an ACK comes
\* before that of a flight.
Quiet ==
  \A p \in Endpoints : Alive(p) => net[p] = <<>> /\ ~CallDue(p) /\ (NewToReport(p) => engine[p].ack # "Now")

NoAckDue == \A p \in Endpoints : ~NewToReport(p)

\* The deadline of an ACK has come.  While a gap lasts the code schedules the
\* ACK anew, for at once, whenever it has sent it: one that repeats the last is
\* counted as a fault, or there would be no end of them.
AckTimeout(p) ==
  LET early == engine[p].ack = "Later" /\ ~Quiet
      again == ~NewToReport(p)
  IN  /\ AckScheduled(p)
      /\ Cost((IF early THEN 1 ELSE 0) + (IF again THEN 1 ELSE 0))
      /\ Drive(p, {handle_timeout(engine[p], FALSE, FALSE, TRUE)}, net)
      /\ reported' = [reported EXCEPT ![p] = QueuedNumbers(engine[p])]
      /\ UNCHANGED sent

\* The timers double with every retry: who has retried less is due first.
FirstDue(p) == \A q \in Endpoints : Alive(q) /\ engine[q].flight = "Armed" => engine[q].left <= engine[p].left

\* The flight timer is longer than a round trip: when it comes while datagrams
\* are under way these are late, which is a fault.  The handshake's own deadline
\* comes when all retries have taken place.
FlightTimeout(p, connect_due) ==
  /\ Alive(p) /\ engine[p].flight = "Armed"
  /\ connect_due => engine[p].connect = "Armed" /\ engine[p].left = 0
  /\ Cost(IF Quiet /\ NoAckDue /\ FirstDue(p) THEN 0 ELSE 1)
  /\ Drive(p, {handle_timeout(engine[p], connect_due, TRUE, TRUE)}, net)
  /\ UNCHANGED <<sent, reported>>

SendApplicationData(p) ==
  /\ Alive(p) /\ engine[p].state # "Closed" /\ sent[p] < MaxData
  /\ Drive(p, {send_application_data(engine[p], sent[p] + 1)}, net)
  /\ sent' = [sent EXCEPT ![p] = @ + 1]
  /\ UNCHANGED <<reported, faults>>

\* An application gives up before the handshake is over.
Close(p) ==
  /\ Alive(p) /\ Closing /\ engine[p].state \notin {"AwaitApplicationData", "Closed"} /\ Cost(1)
  /\ Drive(p, {close_handshake(engine[p])}, net)
  /\ UNCHANGED <<sent, reported>>

Next ==
  \E p \in Endpoints :
    \/ \E i \in DOMAIN net[p], duplicate \in BOOLEAN : HandlePacket(p, i, duplicate)
    \/ Lose(p)
    \/ Start(p)
    \/ AckTimeout(p)
    \/ \E connect_due \in BOOLEAN : FlightTimeout(p, connect_due)
    \/ SendApplicationData(p)
    \/ Close(p)

Spec == Init /\ [][Next]_vars

\* A datagram, a deadline or a first call is due.
Due ==
  \E p \in Endpoints : Alive(p) /\ (net[p] # <<>> \/ CallDue(p) \/ NewToReport(p) \/ engine[p].flight = "Armed")

\* Weak fairness of the steps that are no faults: as long as something is due,
\* the network delivers or an application calls handle_timeout.  Due stands for
\* the ENABLED of these steps.
Fairness == []<>~Due \/ []<><<faults' = faults>>_vars

FairSpec == Spec /\ Fairness

-----------------------------------------------------------------------------
IsConnected(p) == "Connected" \in Range(engine[p].events)

\* Neither endpoint ever fails but by a timeout, and by none when there was no
\* fault: what faults leave in the queues (a stale HelloRetryRequest, a repeated
\* ClientHello, old flights) is never taken for a message that is wrong.
OnlyTimeouts ==
  \A p \in Endpoints :
    /\ engine[p].error \in {"None", "Timeout(Connect)", "Timeout(Handshake)"}
    /\ faults = 0 => ~Failed(engine[p])

\* A record of the server's flight that the server takes for acknowledged
\* holds a message the client has, in its queue or behind it.
AckedIsHeld ==
  \A p \in Endpoints : \A i \in DOMAIN engine[p].saved :
    LET entry == engine[p].saved[i]
        frag  == entry.content.frag
    IN  entry.acked =>
          \/ engine[Peer(p)].peer_seq > frag.message_seq
          \/ \E r \in Range(FlattenSeq(engine[Peer(p)].queue_rx)) : IsHandshake(r) /\ r.frag = frag

\* Applications that are connected got the same keying material for SRTP, with
\* the same profile.
SameKeyingMaterial ==
  (\A p \in Endpoints : IsConnected(p)) =>
    engine[Client].keying = engine[Server].keying /\ engine[Client].keying # <<>>


\* Data an application hands over before or after it is connected reaches the
\* other one when there is no fault.
QueuedDataArrives ==
  \A p \in Endpoints : \A n \in 1 .. MaxData :
    sent[Peer(p)] >= n ~> (delivered[p][n] > 0 \/ faults > 0)

\* The promise of the association, as the two applications see it.
Phase(p) ==
  CASE Failed(engine[p]) \/ engine[p].state = "Closed" -> "Over"
    [] ~Failed(engine[p]) /\ engine[p].state = "AwaitApplicationData" -> "Connected"
    [] OTHER -> "Handshake"

Transcripts ==
  Seq([msg_type : STRING,
       body : Seq([dtls13 : {TRUE}, retry : BOOLEAN, group : STRING, random : STRING,
                   cookie : Seq(STRING), suite : STRING, groups : Seq(STRING),
                   suites : Seq(STRING), srtp : STRING, scheme : STRING, digest : {<<>>}])])

\* The secrets of the application's traffic.
TrafficSecrets == {"ap traffic"} \X (STRING \X STRING) \X Transcripts

Association ==
  INSTANCE Session WITH
    First <- Client, Second <- Server, Data <- 1 .. MaxData,
    Secrets <- TrafficSecrets, NoSecret <- <<>>,
    phase <- [p \in Endpoints |-> Phase(p)],
    agreed <- [p \in Endpoints |-> IF IsConnected(p) THEN engine[p].app_key ELSE <<>>],
    sent <- [p \in Endpoints |-> 1 .. sent[p]],
    received <- delivered

\* The endpoints connect with the same keys, the client first, and data is
\* handed out once, between endpoints that have connected.
ImplementsSession == Association!Spec
=============================================================================
