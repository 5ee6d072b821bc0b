------------------------ MODULE MCConsumerAndClient ------------------------
(***************************************************************************)
(* The thread consumer and the TCP client, each with the fairness of its   *)
(* thread.  They share nothing, so `part` tells which of them takes the    *)
(* steps of a behaviour; the other stays as one of its initial states.     *)
(***************************************************************************)
EXTENDS ThreadConsumer, ConnectClient

VARIABLE part

PartsInit ==
    /\ part \in {"consumer", "client"}
    /\ ConsumerInit /\ (part # "consumer" => ~timed)
    /\ Init /\ (part # "client" => client.limit = CHOOSE l \in Limits : TRUE)

ConsumerSteps == part = "consumer" /\ ConsumerNext /\ UNCHANGED <<part, client>>

ClientSteps == part = "client" /\ Next /\ UNCHANGED <<part, consumerVars>>

PartsNext == ConsumerSteps \/ ClientSteps

(* What is fair to one part asks nothing of the other, which waits in a    *)
(* state where no thread has been started and no handler is queued.        *)
PartsSpec ==
    PartsInit /\ [][PartsNext]_<<part, consumerVars, client>> /\ Fairness /\ ClientFairness
=============================================================================
