---------------------------- MODULE SessionProofs ---------------------------
(***************************************************************************)
(* What the abstract association promises, for any data and any secrets.   *)
(* The handshakes of both versions are checked to implement Session, so    *)
(* their applications are promised the same.                               *)
(***************************************************************************)
EXTENDS Session, TLAPS

\* The inductive invariant: Agreement and DataIntegrity need each other's types
\* only, so it is their conjunction.
SessionInv == TypeOK /\ Agreement /\ DataIntegrity

\* No endpoint has done anything yet.
LEMMA SessionInit == Distinct /\ Init => SessionInv
  BY DEF Distinct, Init, SessionInv, TypeOK, Agreement, DataIntegrity, Endpoints, Peer

\* What holding a secret does: it is a secret, the second endpoint's is the
\* first one's, and a secret that was held stays.
LEMMA HoldFacts ==
  ASSUME Distinct, SessionInv, NEW p \in Endpoints, Hold(p, agreed'[p])
  PROVE  /\ agreed' \in [Endpoints -> Secrets \cup {NoSecret}]
         /\ agreed'[p] # NoSecret
         /\ \A q \in Endpoints : agreed[q] # NoSecret => agreed'[q] = agreed[q]
         /\ Agreement'
<1>1. agreed \in [Endpoints -> Secrets \cup {NoSecret}] BY DEF SessionInv, TypeOK
<1>2. agreed'[p] \in Secrets BY DEF Hold
<1>3. \A q \in Endpoints : q # p => agreed'[q] = agreed[q] BY <1>1 DEF Hold
<1>4. agreed' \in [Endpoints -> Secrets \cup {NoSecret}] BY <1>1, <1>2 DEF Hold
<1>5. \A q \in Endpoints : agreed[q] # NoSecret => agreed'[q] = agreed[q] BY <1>3 DEF Hold
<1>6. CASE p = Second
  <2>1. agreed'[First] = agreed[First] BY <1>3, <1>6 DEF Distinct, Endpoints
  <2>2. agreed'[Second] = agreed[First] BY <1>6 DEF Hold
  <2> QED BY <1>2, <1>4, <1>5, <2>1, <2>2 DEF Distinct, Agreement
<1>7. CASE p = First
  <2>1. agreed'[Second] = agreed[Second] BY <1>3, <1>7 DEF Distinct, Endpoints
  <2>2. ASSUME agreed[Second] # NoSecret PROVE agreed'[First] = agreed'[Second]
    <3>1. agreed[First] = agreed[Second] BY <2>2 DEF SessionInv, Agreement
    <3> QED BY <1>5, <2>1, <2>2, <3>1 DEF Endpoints
  <2> QED BY <1>2, <1>4, <1>5, <2>1, <2>2 DEF Distinct, Agreement
<1> QED BY <1>6, <1>7 DEF Endpoints

\* Every step of Next preserves the invariant.
LEMMA SessionStep == ASSUME Distinct, SessionInv, [Next]_vars PROVE SessionInv'
<1> USE DEF SessionInv
<1>0. \A q \in Endpoints : Peer(q) \in Endpoints BY DEF Peer, Endpoints
<1>1. ASSUME NEW p \in Endpoints, NEW d \in Data, Send(p, d) PROVE SessionInv'
  <2>1. TypeOK' BY <1>1 DEF Send, TypeOK
  <2>2. Agreement' BY <1>1 DEF Send, Agreement
  <2>3. \A q \in Endpoints : sent[q] \subseteq sent'[q] BY <1>1 DEF Send, TypeOK
  <2>4. DataIntegrity' BY <1>0, <1>1, <2>3 DEF Send, DataIntegrity
  <2> QED BY <2>1, <2>2, <2>4
<1>2. ASSUME NEW p \in Endpoints, NEW S \in SUBSET Data, NEW last \in BOOLEAN, Advance(p, S, last)
      PROVE  SessionInv'
  <2> USE <1>2
  <2>0. Hold(p, agreed'[p]) BY DEF Advance
  <2>1. /\ agreed' \in [Endpoints -> Secrets \cup {NoSecret}]
        /\ agreed'[p] # NoSecret
        /\ \A q \in Endpoints : agreed[q] # NoSecret => agreed'[q] = agreed[q]
        /\ Agreement'
    BY <2>0, HoldFacts
  <2>2. /\ received' = [received EXCEPT ![p] = [d \in Data |-> IF d \in S THEN 1 ELSE received[p][d]]]
        /\ sent' = sent
        /\ phase' = [phase EXCEPT ![p] = IF last THEN "Over" ELSE "Connected"]
    BY DEF Advance
  <2>3. TypeOK' BY <2>1, <2>2 DEF TypeOK
  <2>4. ASSUME NEW q \in Endpoints, NEW d \in Data
        PROVE  /\ received'[q][d] <= 1
               /\ received'[q][d] > 0 => /\ d \in sent'[Peer(q)]
                                         /\ agreed'[q] # NoSecret
                                         /\ agreed'[Peer(q)] # NoSecret
    <3>1. /\ received[q][d] <= 1
          /\ received[q][d] > 0 => d \in sent[Peer(q)] /\ agreed[q] # NoSecret /\ agreed[Peer(q)] # NoSecret
      BY DEF DataIntegrity
    <3>2. CASE q = p /\ d \in S
      <4>1. received'[q][d] = 1 BY <2>2, <3>2 DEF TypeOK
      <4>2. d \in sent[Peer(q)] /\ agreed[Peer(q)] # NoSecret BY <3>2 DEF Advance
      <4> QED BY <1>0, <2>1, <2>2, <3>2, <4>1, <4>2
    <3>3. CASE ~(q = p /\ d \in S)
      <4>1. received'[q][d] = received[q][d] BY <2>2, <3>3 DEF TypeOK
      <4> QED BY <1>0, <2>1, <2>2, <3>1, <4>1
    <3> QED BY <3>2, <3>3
  <2>5. DataIntegrity' BY <2>4 DEF DataIntegrity
  <2> QED BY <2>1, <2>3, <2>5
<1>3. ASSUME NEW p \in Endpoints, End(p) PROVE SessionInv'
  <2>1. TypeOK' BY <1>3 DEF End, TypeOK
  <2> QED BY <1>3, <2>1 DEF End, Agreement, DataIntegrity
<1>4. CASE UNCHANGED vars
  BY <1>4 DEF vars, TypeOK, Agreement, DataIntegrity
<1> QED BY <1>1, <1>2, <1>3, <1>4 DEF Next

\* The secrets, the data and the phases stay what they are declared to be.
THEOREM SessionTyped == ASSUME Distinct PROVE Spec => []TypeOK
<1>1. SessionInv => TypeOK BY DEF SessionInv
<1> QED BY SessionInit, SessionStep, <1>1, PTL DEF Spec

\* Two endpoints that have connected hold the same secret, and the second one
\* has none without the first.
THEOREM SecretsAgree == ASSUME Distinct PROVE Spec => []Agreement
<1>1. SessionInv => Agreement BY DEF SessionInv
<1> QED BY SessionInit, SessionStep, <1>1, PTL DEF Spec

\* A piece of data comes out at most once, after it went in, between endpoints
\* that have connected.
THEOREM DataOnce == ASSUME Distinct PROVE Spec => []DataIntegrity
<1>1. SessionInv => DataIntegrity BY DEF SessionInv
<1> QED BY SessionInit, SessionStep, <1>1, PTL DEF Spec

\* No step changes a secret that is held, revives an endpoint or lets one that
\* has ended hand out data.
LEMMA SettledStep ==
  ASSUME Distinct, SessionInv, [Next]_vars
  PROVE  [\A p \in Endpoints :
            /\ agreed[p] # NoSecret => agreed'[p] = agreed[p]
            /\ phase[p] = "Over" => phase'[p] = "Over" /\ received'[p] = received[p]]_vars
<1>1. ASSUME NEW p \in Endpoints, NEW q \in Endpoints,
             NEW S \in SUBSET Data, NEW last \in BOOLEAN, Advance(p, S, last)
      PROVE  /\ agreed[q] # NoSecret => agreed'[q] = agreed[q]
             /\ phase[q] = "Over" => phase'[q] = "Over" /\ received'[q] = received[q]
  <2>1. Hold(p, agreed'[p]) BY <1>1 DEF Advance
  <2>2. agreed[q] # NoSecret => agreed'[q] = agreed[q] BY <2>1, HoldFacts
  <2>3. phase[q] = "Over" => q # p BY <1>1 DEF Advance
  <2>4. q # p => phase'[q] = phase[q] /\ received'[q] = received[q]
    BY <1>1 DEF Advance, SessionInv, TypeOK
  <2> QED BY <2>2, <2>3, <2>4
<1>2. ASSUME NEW p \in Endpoints, NEW q \in Endpoints, NEW d \in Data, Send(p, d)
      PROVE  /\ agreed[q] # NoSecret => agreed'[q] = agreed[q]
             /\ phase[q] = "Over" => phase'[q] = "Over" /\ received'[q] = received[q]
  BY <1>2 DEF Send
<1>3. ASSUME NEW p \in Endpoints, NEW q \in Endpoints, End(p)
      PROVE  /\ agreed[q] # NoSecret => agreed'[q] = agreed[q]
             /\ phase[q] = "Over" => phase'[q] = "Over" /\ received'[q] = received[q]
  BY <1>3 DEF End, SessionInv, TypeOK
<1> QED BY <1>1, <1>2, <1>3 DEF Next

\* An endpoint's secret is for good, and after its end it hands out nothing.
THEOREM SecretsSettled == ASSUME Distinct PROVE Spec => Settled
BY SessionInit, SessionStep, SettledStep, PTL DEF Spec, Settled
=============================================================================
