------------------------------ MODULE MCTools -------------------------------
(* The clients with KafkaTopics, the performance tests and the console      *)
(* clients: one of the three per behaviour.                                *)
EXTENDS MCClients, PerfTest, ConsoleClients

VARIABLE program

ToolsInit ==
    /\ program \in {"client", "perf test", "console client"}
    /\ program # "client" => driver = "application" /\ existing = {}
    /\ ToolInit
    /\ program # "perf test" => /\ tool = "consumer" /\ build = "wraps"
                                /\ perfArgs = CHOOSE a \in Options : AcceptedArgs(tool, a)
    /\ PerfInit
    /\ program # "console client" => client = "consumer" /\ commandLine = "help"
    /\ ConsoleInit

Client(A) == program = "client" /\ A /\ UNCHANGED <<program, perfVars, consoleVars>>
Perf(A) == program = "perf test" /\ A /\ UNCHANGED <<program, allVars, consoleVars>>
Console(A) == program = "console client" /\ A /\ UNCHANGED <<program, allVars, perfVars>>

ToolsNext == Client(ToolNext) \/ Perf(PerfNext) \/ Console(ConsoleNext)

toolsVars == <<program, allVars, perfVars, consoleVars>>

(* Each thread runs, time passes, every record is delivered or times out    *)
(* (message.timeout.ms), and the topic goes on having records to read.      *)
(* AdminFairness asks for nothing before a call has been made.              *)
ToolsSpec ==
    /\ ToolsInit /\ [][ToolsNext]_toolsVars
    /\ AdminFairness
    /\ WF_toolsVars(Client(ParseArguments \/ ConstructStep \/ ToolCalls \/ ToolReturns))
    /\ WF_toolsVars(Perf(MainStep)) /\ WF_toolsVars(Perf(ReceiveSome))
    /\ WF_toolsVars(Perf(CallbackStep)) /\ WF_toolsVars(Perf(ReporterStep))
    /\ WF_toolsVars(Perf(Tick))
    /\ WF_toolsVars(Console(MainThread))

(* Each program ends: a performance test, whose reporter is never stopped   *)
(* with a line to print and never waits for one that cannot be printed, and *)
(* a console consumer that was sent SIGINT.                                 *)
EveryToolEnds ==
    /\ (program = "perf test" /\ MayEnd) ~> (mainPc \in {"success", "failure"})
    /\ StopsOnSignal
=============================================================================
