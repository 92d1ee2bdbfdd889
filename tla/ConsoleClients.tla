--------------------------- MODULE ConsoleClients ---------------------------
(***************************************************************************)
(* KafkaConsoleConsumer.cc and KafkaConsoleProducer.cc: main() with its     *)
(* exits, the consumer's loop against the SIGINT handler, the producer's    *)
(* loop of syncSend().                                                     *)
(*                                                                         *)
(* External: KafkaConsumer with its default of committing automatically,    *)
(* see ConsumerOffsets (poll() first commits what the poll() before it      *)
(* returned, the destructor commits the rest), one partition; syncSend().   *)
(***************************************************************************)
EXTENDS Naturals

CONSTANTS MaxRead,      \* bound: records of the topic, or lines of the input
          MaxSignals    \* bound: SIGINTs

ASSUME ConsoleConstants == MaxRead \in Nat /\ MaxSignals \in Nat

VARIABLES
    client,      \* "consumer" or "producer"
    commandLine, \* "help", "bad" (a --props that is not key=value), "reserved" (a
                 \* --props for a key that only takes a callback) or "good"
    step,        \* what main() does, or how the process ended
    running,     \* the flag the handler clears
    handler,     \* what SIGINT does: "default", "stopRunning" or SIG_IGN
    signals,
    stored,      \* consumer: records poll() returned; producer: lines delivered
    shown,       \* the records printed, or the lines reported as sent
    committed    \* the group's offset

consoleVars == <<client, commandLine, step, running, handler, signals, stored, shown, committed>>
setup == <<client, commandLine>>

Ended == {"success", "failure", "terminated", "killed"}

ConsoleInit ==
    /\ client \in {"consumer", "producer"}
    /\ commandLine \in {"help", "bad", "reserved", "good"}
    /\ step = "parse"
    /\ running = TRUE /\ handler = "default" /\ signals = 0
    /\ stored = 0 /\ shown = 0 /\ committed = 0

-----------------------------------------------------------------------------
(* ParseArguments() throws std::invalid_argument, which the producer's      *)
(* main() does not catch; put() of a reserved key throws                    *)
(* std::runtime_error, which neither catches.                               *)
Parse ==
    /\ step = "parse"
    /\ step' = CASE commandLine = "help" -> "success"
                 [] commandLine = "good" -> "start"
                 [] commandLine = "bad" /\ client = "consumer" -> "failure"
                 [] OTHER -> "terminated"
    /\ handler' = IF commandLine = "good" /\ client = "consumer" THEN "stopRunning" ELSE handler
    /\ UNCHANGED <<setup, running, signals, stored, shown, committed>>

(* The client is constructed, the consumer subscribed; both may throw.      *)
Start ==
    /\ step = "start"
    /\ step' \in {"loop", "failure"}
    /\ UNCHANGED <<setup, running, handler, signals, stored, shown, committed>>

(* stopRunning(): the first SIGINT clears the flag, the second makes the    *)
(* process ignore the others.                                              *)
stopRunning ==
    /\ running' = FALSE
    /\ handler' = IF running THEN handler ELSE "ignore"

SigInt ==
    /\ step \notin Ended /\ signals < MaxSignals
    /\ signals' = signals + 1
    /\ \/ handler = "default" /\ step' = "killed" /\ UNCHANGED <<running, handler>>
       \/ handler = "stopRunning" /\ stopRunning /\ UNCHANGED step
       \/ handler = "ignore" /\ UNCHANGED <<step, running, handler>>
    /\ UNCHANGED <<setup, stored, shown, committed>>

-----------------------------------------------------------------------------
(* while (running) consumer.poll(): some records, perhaps none.             *)
Poll ==
    /\ client = "consumer" /\ step = "loop" /\ running
    /\ committed' = stored
    /\ stored' \in stored..MaxRead
    /\ step' = "print"
    /\ UNCHANGED <<setup, running, handler, signals, shown>>

StopsPrinting == shown < stored /\ running          \* faulty
KeepsPrinting == shown < stored

(* Every record is printed, whatever has become of the flag meanwhile.      *)
PrintRecord ==
    /\ client = "consumer" /\ step = "print" /\ KeepsPrinting
    /\ shown' = shown + 1
    /\ UNCHANGED <<setup, step, running, handler, signals, stored, committed>>

PrintedAll ==
    /\ client = "consumer" /\ step = "print" /\ ~KeepsPrinting
    /\ step' = "loop"
    /\ UNCHANGED <<setup, running, handler, signals, stored, shown, committed>>

(* The loop ends, or poll() throws: the consumer's destructor closes it.    *)
LoopEnds(status) ==
    /\ client = "consumer" /\ step = "loop"
    /\ status = "success" => ~running
    /\ committed' = stored
    /\ step' = status
    /\ UNCHANGED <<setup, running, handler, signals, stored, shown>>

-----------------------------------------------------------------------------
(* A line is read and syncSend() called: the record is delivered or not,    *)
(* and a delivery may still end in an exception.                           *)
ReadLine ==
    /\ client = "producer" /\ step = "loop" /\ stored < MaxRead
    /\ step' = "send"
    /\ UNCHANGED <<setup, running, handler, signals, stored, shown, committed>>

EndOfInput ==
    /\ client = "producer" /\ step = "loop"
    /\ step' = "success"
    /\ UNCHANGED <<setup, running, handler, signals, stored, shown, committed>>

syncSend ==
    /\ client = "producer" /\ step = "send"
    /\ stored' \in {stored, stored + 1}
    /\ \/ step' = "failure"
       \/ stored' = stored + 1 /\ step' = "report"
    /\ UNCHANGED <<setup, running, handler, signals, shown, committed>>

Report ==
    /\ client = "producer" /\ step = "report"
    /\ shown' = shown + 1
    /\ step' = "loop"
    /\ UNCHANGED <<setup, running, handler, signals, stored, committed>>

MainThread ==
    \/ Parse \/ Start
    \/ Poll \/ PrintRecord \/ PrintedAll \/ \E s \in {"success", "failure"} : LoopEnds(s)
    \/ ReadLine \/ EndOfInput \/ syncSend \/ Report

ConsoleNext == MainThread \/ SigInt

ConsoleSpec == ConsoleInit /\ [][ConsoleNext]_consoleVars

-----------------------------------------------------------------------------
(* Whenever SIGINT comes, and however the consumer's loop ends: no offset   *)
(* is committed of a record that was not printed.  The producer reports a   *)
(* line as sent only if it is delivered, and has at most one that is        *)
(* delivered and not reported.                                             *)
ConsoleTellsTruth ==
    /\ client = "consumer" => committed <= shown
    /\ client = "producer" => shown <= stored /\ stored <= shown + 1

(* A consumer that was sent SIGINT ends.                                    *)
StopsOnSignal == ~running ~> step \in Ended
=============================================================================
