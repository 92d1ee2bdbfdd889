----------------------------- MODULE TopicsTool -----------------------------
(***************************************************************************)
(* KafkaTopics.cc: the command line is parsed, an AdminClient constructed   *)
(* (ClientConstruction) and one of its calls made (AdminClient); the exit   *)
(* status says how it went.  The same composition with an application in    *)
(* the place of the tool makes any calls.                                   *)
(*                                                                         *)
(* A command line is what its options amount to: the operations in the      *)
(* order given, whether there is a topic, how many of --partitions and      *)
(* --replication-factor ("word": one is no number) and so on.  A            *)
(* --topic-props or --admin-config is "good", or "bad" when it is not       *)
(* key=value, its value has an '=' itself or its key only takes a callback. *)
(***************************************************************************)
EXTENDS ClientConstruction, AdminClient, Sequences, SequencesExt

CONSTANTS Lines,        \* the command lines
          Named         \* the topic that --topic names

ASSUME ToolsTopic == Named \in Topic

VARIABLES driver,       \* who uses the client: "nobody", "application", "KafkaTopics"
          line,         \* the command line
          main          \* what main() does: "parse", "construct", "call", or how it exited

toolVars == <<driver, line, main>>

(* --list, --create and --delete set opType, which is Create at first: the  *)
(* last one counts, and countOps is 1 whatever was given.                   *)
opType == IF line.ops = <<>> THEN "--create" ELSE Last(line.ops)

(* ParseArguments() after the options: what the operation needs and what it *)
(* does not take.                                                          *)
NothingElse == line.sizes = "none" /\ line.topicProps = "none"
InvalidLine ==
    \/ line.adminConfig = "bad"
    \/ opType = "--list" /\ ~(NothingElse /\ ~line.topic)
    \/ opType = "--create" /\ (~line.topic \/ line.sizes # "both" \/ line.topicProps = "bad")
    \/ opType = "--delete" /\ ~(NothingElse /\ line.topic)

(* An empty broker list is a property, with which no broker can be added.   *)
adminConf(l) ==
    [k \in Key |-> IF k = "bootstrap.servers" THEN (IF l.brokers THEN "brokers" ELSE "nowhere")
                   ELSE IF k = "other" /\ l.adminConfig = "good" THEN "supported"
                   ELSE Absent]

Exit(status) == main' = status /\ UNCHANGED <<driver, line>>

ParseArguments ==
    /\ driver = "KafkaTopics" /\ main = "parse"
    /\ IF line.sizes = "word" THEN Exit("failure")         \* std::stoi() throws
       ELSE IF line.help THEN Exit("success")
       ELSE IF InvalidLine THEN Exit("failure")
       ELSE main' = "construct" /\ UNCHANGED <<driver, line>>
    /\ UNCHANGED <<vars, adminVars>>

(* AdminClient adminClient(adminConf).                                      *)
ConstructStep ==
    /\ driver = "KafkaTopics" => main = "construct"
    /\ Next
    /\ IF driver = "KafkaTopics" /\ stage' \in {"thrown", "constructed"}
       THEN Exit(IF stage' = "thrown" THEN "failure" ELSE "call")
       ELSE UNCHANGED toolVars
    /\ UNCHANGED adminVars

ToolCalls ==
    /\ main = "call" /\ call = 0
    /\ CASE opType = "--list"   -> listTopics
         [] opType = "--create" -> createTopics({Named})
         [] OTHER               -> deleteTopics({Named})
    /\ UNCHANGED <<vars, toolVars>>

IgnoresResult ==                                    \* faulty
    Exit("success")
ExitWithResult ==
    Exit(IF result = "NO_ERROR" THEN "success" ELSE "failure")

ToolReturns ==
    /\ main = "call" /\ call = 1 /\ pc = "idle"
    /\ ExitWithResult
    /\ UNCHANGED <<vars, adminVars>>

ApplicationCalls ==
    /\ driver = "application" /\ stage = "constructed"
    /\ AnyCall
    /\ UNCHANGED <<vars, toolVars>>

(* The call goes on; after the tool has exited, what it sent still may.     *)
CallStep == AdminProgress /\ UNCHANGED <<vars, toolVars>>

ToolNext ==
    \/ ParseArguments \/ ConstructStep \/ ToolCalls \/ ToolReturns
    \/ ApplicationCalls \/ CallStep

allVars == <<toolVars, vars, adminVars>>

(* The input is a constructor call; the tool and the application of the     *)
(* admin calls construct an AdminClient with the brokers given.             *)
ToolInit ==
    /\ driver \in {"nobody", "application", "KafkaTopics"}
    /\ line \in Lines
    /\ driver # "KafkaTopics" => line = CHOOSE l \in Lines : TRUE
    /\ main = "parse"
    /\ Init /\ AdminInit
    /\ driver # "nobody" => type = "AdminClient" /\ userCbs = {}
    /\ driver = "KafkaTopics" => given = adminConf(line)
    /\ driver = "application" => given = [NoProperties EXCEPT !["bootstrap.servers"] = "brokers"]
    /\ driver = "nobody" => existing = {}

(* The thread of the calls runs, and time passes (see AdminClient).         *)
ToolSpec ==
    /\ ToolInit /\ [][ToolNext]_allVars
    /\ AdminFairness
    /\ WF_allVars(ParseArguments \/ ConstructStep \/ ToolCalls \/ ToolReturns)

-----------------------------------------------------------------------------
OneOperation == Len(line.ops) = 1

(* The tool's exit status is the truth about the cluster, for a command     *)
(* line with one of --list, --create and --delete: success means that it    *)
(* was done to the topic named and to no other; a line that is refused, or  *)
(* a client that could not be constructed, has sent nothing; and no other   *)
(* request than the one asked for is ever sent.                             *)
ExitStatusIsReal ==
    driver = "KafkaTopics" /\ (OneOperation \/ line.help) =>
        /\ main = "success" /\ ~line.help /\ opType # "--list" => applied[1] = {Named}
        /\ main = "success" /\ ~line.help /\ opType = "--list" => result = "NO_ERROR"
        /\ (\/ line.help \/ line.sizes = "word" \/ InvalidLine \/ ~line.brokers
            \/ opType = "--list") =>
              requests = {} /\ \A c \in Calls : applied[c] = {}
        /\ \A c \in Calls : applied[c] \subseteq {Named}

(* "MUST choose exactly one operation from '--list/--create/--delete'"      *)
(* (KafkaTopics.cc:110): a command line with none of them, or with two, is  *)
(* refused, and nothing is sent to the brokers.                             *)
OneOperationOnly ==
    driver = "KafkaTopics" /\ ~OneOperation /\ ~line.help => main # "success" /\ requests = {}
=============================================================================
