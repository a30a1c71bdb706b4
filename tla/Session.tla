------------------------------ MODULE Session -------------------------------
(***************************************************************************)
(* What a DTLS association promises its two applications, whatever the     *)
(* version: the two agree on the keys, one side connects first and the     *)
(* other not without it, keys never change hands again, and a piece of     *)
(* data comes out at most once, after it went in, at an endpoint that is   *)
(* connected to one that was.  Endpoint13 and Endpoint12 with their        *)
(* networks implement it.                                                  *)
(***************************************************************************)
EXTENDS Naturals

CONSTANTS First, Second,   \* the endpoints, in the order in which they connect
          Data,            \* the pieces of data an application can send
          Secrets,         \* what the handshake can agree on
          NoSecret

VARIABLES phase,      \* Handshake, Connected or Over, for each endpoint
          agreed,     \* the secret of each endpoint
          sent,       \* the data each application has handed in
          received    \* how often each piece was handed out at each endpoint

vars == <<phase, agreed, sent, received>>

Endpoints == {First, Second}

Peer(p) == IF p = First THEN Second ELSE First

\* The hypothesis of what SessionProofs shows.
Distinct == First # Second /\ NoSecret \notin Secrets

Init ==
  /\ phase = [p \in Endpoints |-> "Handshake"]
  /\ agreed = [p \in Endpoints |-> NoSecret]
  /\ sent = [p \in Endpoints |-> {}]
  /\ received = [p \in Endpoints |-> [d \in Data |-> 0]]

\* Data may be handed in before the endpoint is connected.
Send(p, d) ==
  /\ phase[p] # "Over" /\ d \notin sent[p]
  /\ sent' = [sent EXCEPT ![p] = @ \cup {d}]
  /\ UNCHANGED <<phase, agreed, received>>

\* The secret of an endpoint that is connected: the first one's is for the
\* handshake to choose, the second one has the first one's.
Hold(p, secret) ==
  /\ secret \in Secrets
  /\ p = Second => secret = agreed[First]
  /\ agreed[p] # NoSecret => secret = agreed[p]
  /\ agreed' = [agreed EXCEPT ![p] = secret]

\* A step of the endpoint: it connects or is connected, and hands out data; the
\* peer's farewell may come with the data.
Advance(p, S, last) ==
  /\ phase[p] # "Over" /\ Hold(p, agreed'[p])
  /\ \A d \in S : d \in sent[Peer(p)] /\ received[p][d] = 0
  /\ S # {} => agreed[Peer(p)] # NoSecret
  /\ phase' = [phase EXCEPT ![p] = IF last THEN "Over" ELSE "Connected"]
  /\ received' = [received EXCEPT ![p] = [d \in Data |-> IF d \in S THEN 1 ELSE @[d]]]
  /\ UNCHANGED sent

\* A failure, or a close.
End(p) ==
  /\ phase[p] # "Over"
  /\ phase' = [phase EXCEPT ![p] = "Over"]
  /\ UNCHANGED <<agreed, sent, received>>

Next ==
  \E p \in Endpoints :
    \/ \E d \in Data : Send(p, d)
    \/ \E S \in SUBSET Data, last \in BOOLEAN : Advance(p, S, last)
    \/ End(p)

Spec == Init /\ [][Next]_vars

-----------------------------------------------------------------------------
\* The four functions have their types.
TypeOK ==
  /\ phase \in [Endpoints -> {"Handshake", "Connected", "Over"}]
  /\ agreed \in [Endpoints -> Secrets \cup {NoSecret}]
  /\ sent \in [Endpoints -> SUBSET Data]
  /\ received \in [Endpoints -> [Data -> Nat]]

\* Two endpoints that are or were connected hold the same secret, and the
\* second one connected after the first.
Agreement ==
  agreed[Second] # NoSecret => agreed[First] = agreed[Second]

\* Data comes out at most once, only if it went in at the peer, and only
\* between endpoints that have connected.
DataIntegrity ==
  \A p \in Endpoints, d \in Data :
    /\ received[p][d] <= 1
    /\ received[p][d] > 0 => d \in sent[Peer(p)] /\ agreed[p] # NoSecret /\ agreed[Peer(p)] # NoSecret

\* An endpoint's secret is for good, and after its end it hands out nothing.
Settled ==
  [][\A p \in Endpoints :
       /\ agreed[p] # NoSecret => agreed'[p] = agreed[p]
       /\ phase[p] = "Over" => phase'[p] = "Over" /\ received'[p] = received[p]]_vars
=============================================================================
