-------------------------- MODULE MCKafkaProducer ---------------------------
(* An instance for TLC of KafkaProducer and of Transactions: which of the   *)
(* two a behaviour is about is chosen at its start.                        *)
EXTENDS KafkaProducer, Transactions

CONSTANTS r1, r2, t1, t2, poll, none

(* Callbacks that send go with infinite timeouts: see README.md on what    *)
(* happens otherwise.                                                      *)
MCModes ==
    {[auto |-> TRUE,  timeouts |-> TRUE,  callbacks |-> "never",   capacity |-> 1],
     [auto |-> FALSE, timeouts |-> TRUE,  callbacks |-> "never",   capacity |-> 1],
     [auto |-> TRUE,  timeouts |-> FALSE, callbacks |-> "noblock", capacity |-> 2]}

VARIABLE about

MCInit ==
    /\ about \in {"delivery", "transactions"}
    /\ Init /\ TransactionsInit
    /\ about = "delivery" => style = "documented" /\ recoverable = FALSE
    /\ about = "transactions" => mode = CHOOSE m \in Modes : TRUE

Delivery(A) == about = "delivery" /\ A /\ UNCHANGED <<about, transactionsVars>>
Transacting(A) == about = "transactions" /\ A /\ UNCHANGED <<about, vars>>

mcVars == <<about, vars, transactionsVars>>

(* KafkaProducer's fairness asks for nothing where no call has been made.   *)
(* The application of the transactions goes on.                            *)
MCSpec ==
    /\ MCInit /\ [][Delivery(Next) \/ Transacting(TransactionsNext)]_mcVars
    /\ Fairness
    /\ WF_mcVars(Transacting(AppStep))
=============================================================================
