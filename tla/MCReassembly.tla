---------------------------- MODULE MCReassembly ----------------------------
EXTENDS ReassemblySpec

\* A short message, one in up to four fragments, one without a body, and one in
\* up to two.
MCFlight ==
  <<[msg_type |-> "ServerHello", length |-> 1], [msg_type |-> "Certificate", length |-> 4],
    [msg_type |-> "ServerHelloDone", length |-> 0], [msg_type |-> "Finished", length |-> 2]>>
=============================================================================
