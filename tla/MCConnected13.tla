---------------------------- MODULE MCConnected13 ---------------------------
EXTENDS Connected13

CONSTANTS MaxEpoch,    \* bound on the application epochs
          MaxMishaps   \* bound on the losses, duplications, reorderings and
                       \* closes together

Mishaps ==
  losses + dups + reorders + Cardinality({p \in Endpoints : ~CanSend(engine[p])})

\* Stop exploring beyond the bounds.
Bounded ==
  /\ \A p \in Endpoints : engine[p].send.app_send_epoch <= MaxEpoch
  /\ Mishaps <= MaxMishaps
=============================================================================
