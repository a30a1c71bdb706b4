----------------------------- MODULE MCSendKeys -----------------------------
EXTENDS SendKeysSpec

CONSTANTS MaxSends,   \* bound on the records that leave
          MaxEpoch    \* bound on the application epochs

\* Stop exploring beyond the bounds.
Bounded == sends <= MaxSends /\ keys.app_send_epoch <= MaxEpoch
=============================================================================
