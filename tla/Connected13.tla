---------------------------- MODULE Connected13 -----------------------------
(***************************************************************************)
(* A DTLS 1.3 client and server after the handshake, over an unreliable    *)
(* datagram network: application data, KeyUpdates in both directions and   *)
(* their ACKs, retransmission, close.  The application calls each engine   *)
(* (Engine13) in any order; an engine that has returned an Error is thrown *)
(* away, as the README asks.                                               *)
(***************************************************************************)
EXTENDS Engine13

CONSTANTS Client, Server,
          MaxData,          \* bound on the data each application sends
          MaxLosses,        \* bound on the datagrams the network loses
          MaxDups,          \* bound on the datagrams it duplicates
          MaxReorders,      \* bound on the datagrams that overtake another
          Lossy,            \* the record types whose datagrams it may lose
          Prompt,           \* the endpoints whose application drains the output
                            \* before each event, as the README's loop does
          Patient,          \* timers only fire when no datagram is under way
          ConnectExpires,   \* the run is longer than handshake_timeout
          Closing           \* whether the applications may close

ASSUME ConnectedAssumption ==
  /\ Client # Server
  /\ MaxData \in Nat /\ MaxLosses \in Nat /\ MaxDups \in Nat
  /\ MaxReorders \in Nat /\ Prompt \subseteq {Client, Server} /\ Patient \in BOOLEAN
  /\ ConnectExpires \in BOOLEAN /\ Closing \in BOOLEAN
  /\ Lossy \subseteq {"ApplicationData", "Ack", "Alert", "Handshake"}

VARIABLES engine,      \* the engine of each endpoint
          net,         \* datagrams under way to each endpoint
          sent,        \* how many pieces of data each application has sent
          delivered,   \* how often each piece reached each application
          losses, dups, reorders

vars == <<engine, net, sent, delivered, losses, dups, reorders>>

Endpoints == {Client, Server}

Peer(p) == IF p = Client THEN Server ELSE Client

Init ==
  /\ \E threshold \in [Endpoints -> JitteredThresholds] :
       engine = [p \in Endpoints |-> ConnectedEngine(p = Client, threshold[p])]
  /\ net = [p \in Endpoints |-> <<>>]
  /\ sent = [p \in Endpoints |-> 0]
  /\ delivered = [p \in Endpoints |-> [n \in 1 .. MaxData |-> 0]]
  /\ losses = 0 /\ dups = 0 /\ reorders = 0

Alive(p) == ~Failed(engine[p])

\* The application has polled until it got a Timeout.
Drained(p) == poll_output(engine[p]) = engine[p]

SendApplicationData(p) ==
  /\ Alive(p) /\ CanSend(engine[p]) /\ sent[p] < MaxData
  /\ engine' = [engine EXCEPT ![p] = send_application_data(@, sent[p] + 1)]
  /\ sent' = [sent EXCEPT ![p] = @ + 1]
  /\ UNCHANGED <<net, delivered, losses, dups, reorders>>

\* Datagram i arrives; a duplicate of it stays under way.
HandlePacket(p, i, duplicate) ==
  /\ Alive(p) /\ i \in DOMAIN net[p]
  /\ i = 1 \/ reorders < MaxReorders
  /\ p \in Prompt => Drained(p)
  /\ duplicate => dups < MaxDups
  /\ \E after \in handle_packet(engine[p], net[p][i]) :
       engine' = [engine EXCEPT ![p] = after]
  /\ net' = [net EXCEPT ![p] = IF duplicate THEN @ ELSE RemoveAt(@, i)]
  /\ dups' = IF duplicate THEN dups + 1 ELSE dups
  /\ reorders' = IF i = 1 THEN reorders ELSE reorders + 1
  /\ UNCHANGED <<sent, delivered, losses>>

Quiet == \A p \in Endpoints : net[p] = <<>> /\ engine[p].queue_tx = <<>>

HandleTimeout(p, connect_due, flight_due) ==
  /\ Alive(p)
  /\ p \in Prompt => Drained(p)
  /\ connect_due => ConnectExpires
  /\ flight_due => Quiet \/ ~Patient
  /\ \E after \in handle_timeout(engine[p], connect_due, flight_due) :
       engine' = [engine EXCEPT ![p] = after]
  /\ UNCHANGED <<net, sent, delivered, losses, dups, reorders>>

\* The application polls until it gets a Timeout: packets go to the network,
\* data to the application.
PollOutput(p) ==
  /\ Alive(p)
  /\ engine' = [engine EXCEPT ![p] = poll_output(@)]
  /\ net' = [net EXCEPT ![Peer(p)] = @ \o engine[p].queue_tx]
  /\ delivered' = [delivered EXCEPT ![p] =
       [n \in DOMAIN @ |-> @[n] + Len(SelectSeq(ReceivedData(engine[p]), LAMBDA r : r.payload.data = n))]]
  /\ UNCHANGED <<sent, losses, dups, reorders>>

Close(p) ==
  /\ Alive(p) /\ CanSend(engine[p]) /\ Closing
  /\ engine' = [engine EXCEPT ![p] = close(@)]
  /\ UNCHANGED <<net, sent, delivered, losses, dups, reorders>>

\* The network loses datagram i.
Lose(p, i) ==
  /\ i \in DOMAIN net[p] /\ losses < MaxLosses
  /\ \E k \in DOMAIN net[p][i] : net[p][i][k].payload.type \in Lossy
  /\ net' = [net EXCEPT ![p] = RemoveAt(@, i)]
  /\ losses' = losses + 1
  /\ UNCHANGED <<engine, sent, delivered, dups, reorders>>

Next ==
  \E p \in Endpoints :
    \/ SendApplicationData(p)
    \/ \E i \in DOMAIN net[p], duplicate \in BOOLEAN : HandlePacket(p, i, duplicate)
    \/ \E connect_due, flight_due \in BOOLEAN : HandleTimeout(p, connect_due, flight_due)
    \/ PollOutput(p)
    \/ Close(p)
    \/ \E i \in DOMAIN net[p] : Lose(p, i)

Spec == Init /\ [][Next]_vars

\* The application's loop: it drains the output, hands over what arrives and
\* keeps the timers going; it sends its data when it can.
Fairness ==
  \A p \in Endpoints :
    /\ WF_vars(PollOutput(p))
    /\ WF_vars(HandlePacket(p, 1, FALSE))
    /\ WF_vars(HandleTimeout(p, FALSE, TRUE))

FairSpec == Spec /\ Fairness

-----------------------------------------------------------------------------
NewestRecv(e) == Last(e.recv.app_recv_keys).epoch

\* No application is given a piece of data twice, whatever the network
\* duplicates or reorders and however the keys change meanwhile, and none that
\* its peer did not send.
DeliveredOnce ==
  \A p \in Endpoints, n \in 1 .. MaxData :
    delivered[p][n] <= (IF n <= sent[Peer(p)] THEN 1 ELSE 0)

\* An endpoint never installs receive keys its peer does not send with yet, and
\* is at most two KeyUpdates behind: the peer starts no further one while one
\* is unacknowledged, except to answer a KeyUpdate that asked for it.
KeysInStep ==
  \A p \in Endpoints :
    NewestRecv(engine[p]) <= engine[Peer(p)].send.app_send_epoch
    /\ engine[Peer(p)].send.app_send_epoch <= NewestRecv(engine[p]) + 2

\* An endpoint drops the keys it kept for retransmitting a KeyUpdate only when
\* its peer has the receive keys of every epoch it ever sent with.
KeysRetiredWhenFollowed ==
  \A p \in Endpoints :
    ~engine[p].send.prev_app_send_keys
      => NewestRecv(engine[Peer(p)]) = engine[p].send.app_send_epoch

\* A KeyUpdate that enters the receive queue is processed by the call that
\* queued it: none waits there for the next call.
NoKeyUpdateLeftBehind ==
  \A p \in Endpoints :
    Alive(p) /\ engine[p].state # "Closed" => WaitingKeyUpdates(engine[p]) = <<>>

\* An endpoint protects no further record once it has closed: neither a
\* retransmission, nor an ACK, nor a KeyUpdate follows its close_notify.
SilentAfterClose ==
  [][\A p \in Endpoints :
       ~CanSend(engine[p]) => engine'[p].send = engine[p].send]_vars

AckRecords(e) ==
  SelectSeq(FlattenSeq(e.queue_tx), LAMBDA r : r.payload.type = "Ack")



\* The handshake timeout only bounds the handshake: a connected endpoint does
\* not fail because of it.
HandshakeTimeoutOver == \A p \in Endpoints : engine[p].error # "Timeout(Connect)"

\* An endpoint that waits, its output drained, for the ACK of a record it has
\* to retransmit has announced a timeout to the application.
RetransmissionScheduled ==
  \A p \in Endpoints :
    Alive(p) /\ engine[p].saved # <<>> /\ engine[p].queue_tx = <<>>
      => poll_timeout(engine[p]) # {"DistantFuture"}

\* Every KeyUpdate ends: the old keys are eventually dropped, unless a KeyUpdate
\* was overtaken by what it announced.
KeyUpdateCompletes ==
  \A p \in Endpoints : []<>(~engine[p].send.prev_app_send_keys \/ reorders > 0)

=============================================================================
