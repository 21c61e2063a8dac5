--------------------------- MODULE MCConsumerLoop ---------------------------
EXTENDS ConsumerLoop, TLC

\* Present and former channel of a batch or of worker 0; worker 1 only ever shares.
MCPool == (0 :> {3, 4}) @@ (1 :> {})
=============================================================================
