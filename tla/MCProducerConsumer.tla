------------------------- MODULE MCProducerConsumer -------------------------
(* One producer and two consumers, none of which wakes without a signal.      *)
EXTENDS ProducerConsumer
=============================================================================
