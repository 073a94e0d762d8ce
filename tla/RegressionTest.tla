----------------------------- MODULE RegressionTest -----------------------------
(***************************************************************************)
(* rwcompare: a plan is sent by the plan runner to a capture file or over  *)
(* the network, TShark dissects the capture to PDML, the PDML is turned    *)
(* into a plan, and the plan is compared with the expected one.            *)
(*                                                                         *)
(* Three programs run: rwcompare, the Java runner and TShark, the last in  *)
(* a thread beside the runner when the network is used.  They share files, *)
(* which outlive them: rwcompare is called again and again in a directory, *)
(* and may be killed.                                                      *)
(***************************************************************************)
EXTENDS Integers, Sequences

CONSTANTS
  PlanFile,   \* the plan files there are: their root elements
  Invocation, \* the command lines that are tried
  Registered, \* the preferences that the installed plug-in registers
  MaxRuns,    \* bound on the number of invocations
  Template    \* the ids of the templates there are

(***************************************************************************)
(* What the programs do to the plans, packets and PDML that they pass on.  *)
(* The control of the test is the same whatever that is; module Plans says *)
(* what it is.                                                             *)
(***************************************************************************)
CONSTANTS
  Packets(_, _),    \* the packets that a plan makes of these templates
  Shown(_, _),      \* the PDML of packets, with or without empty fields
  ReadBack(_),      \* the plan that is made of PDML
  Equivalent(_, _), \* whether two lists of plan elements are equivalent
  Says(_, _),       \* whether of packets a plan says what there is to say
  Readable(_)       \* whether no name shown for packets holds a colon

NoFile == "(null)"

ASSUME InvocationAssumption ==
  Invocation \subseteq
    [runner : BOOLEAN, network : BOOLEAN, bypass : BOOLEAN, tmpl : BOOLEAN,
     pcap : BOOLEAN, pdml : BOOLEAN, plan : BOOLEAN,
     send : STRING, expect : STRING]
ASSUME MaxRunsAssumption == MaxRuns \in Nat

(* What an invocation's runner has to send; without a plan nothing. *)
Traffic(a) ==
  IF a.send \in DOMAIN PlanFile
  THEN Packets(PlanFile[a.send], IF a.bypass THEN {} ELSE Template)
  ELSE << >>

ASSUME TrafficAssumption ==
  \A a \in Invocation : Traffic(a) \in Seq({Traffic(a)[i] : i \in DOMAIN Traffic(a)})

VARIABLES
  args,   \* the command line
  pc,     \* where main of rwcompare is
  goodp,  \* its local variable
  planp,  \* its plan_filename has been made
  runs,   \* number of invocations so far
  files,  \* the intermediate files there are
  runner, \* the process of the plan runner
  left,   \* the packets that it has yet to send
  tshark, \* the process, or thread and process, of TShark
  output, \* what TShark has printed, a set of at most one file
  \* history
  opened, \* the runner of this invocation has opened its output
  sent,   \* the packets that it has sent
  source, \* what TShark has dissected: the packets and who captured them
  judged, \* the plans of this invocation were compared
  trouble \* a program or a file could not be opened, or was cut off

vars == <<args, pc, goodp, planp, runs, files, runner, left, tshark, output,
          opened, sent, source, judged, trouble>>
mainvars == <<args, runs>>
history  == <<opened, sent, source, judged, trouble>>

(* A name not given is made from the one before it. *)
pcap_filename(a) == IF a.pcap THEN <<"output.pcap">>
                    ELSE IF a.tmpl THEN <<a.expect, ".pcap">> ELSE <<NoFile>>
pdml_filename(a) == IF a.pdml THEN <<"output.pdml">> ELSE pcap_filename(a) \o <<"-pdml.xml">>
plan_filename(a) == IF a.plan THEN <<"output.plan">> ELSE pcap_filename(a) \o <<"-plan.xml">>

(* With a file of its own name each file says whose invocation wrote it.   *)
(* cut marks a file that was not written to its end.                       *)
File(run, cut, body) == [run |-> run, cut |-> cut, body |-> body]

Write(name, file) == [n \in DOMAIN files \cup {name} |-> IF n = name THEN file ELSE files[n]]
Without(names) == [name \in DOMAIN files \ names |-> files[name]]

Captures(a) == a.tmpl /\ a.runner /\ a.network /\ a.send # NoFile
PdmlNamed(a) == a.pdml \/ a.tmpl

ProcessState == {"none", "starting", "running", "ended", "done", "failed"}
MainState == {"idle", "spawn", "run_plan", "runner_wait", "join", "run_tshark",
              "tshark_wait", "generate", "compare", "remove", "exit"}

(* Processes run only while main waits for them or, TShark in its thread,  *)
(* beside it; TShark has printed something exactly when it has ended.      *)
TypeOK ==
  /\ args \in Invocation
  /\ pc \in MainState
  /\ goodp \in BOOLEAN /\ planp \in BOOLEAN /\ opened \in BOOLEAN /\ judged \in BOOLEAN
  /\ trouble \in BOOLEAN
  /\ runs \in 0..MaxRuns
  /\ runner \in ProcessState /\ tshark \in ProcessState
  /\ runner \in {"starting", "running"} => pc = "runner_wait"
  /\ tshark \in {"starting", "running", "ended"} =>
       \/ pc = "tshark_wait"
       \/ Captures(args) /\ pc \in {"run_plan", "runner_wait", "join"}
  /\ output # {} <=> tshark = "ended"
  /\ \A name \in DOMAIN files : files[name].run \in 1..runs
  /\ source.run \in 0..runs

Init ==
  /\ args \in Invocation /\ pc = "idle" /\ goodp = TRUE /\ planp = FALSE /\ runs = 0
  /\ files = << >>
  /\ runner = "none" /\ left = << >>
  /\ tshark = "none" /\ output = {}
  /\ opened = FALSE /\ sent = << >> /\ judged = FALSE /\ trouble = FALSE
  /\ source = [run |-> 0, packets |-> << >>]

--------------------------------------------------------------------------------
(* main of rwcompare.                                                      *)

(* The stage that main goes on with. *)
AfterTShark(a, good) == IF good /\ PdmlNamed(a) THEN "generate"
                        ELSE IF good /\ a.plan /\ a.expect # NoFile THEN "compare" ELSE "remove"

FirstStage(a) ==
  IF ~a.tmpl THEN AfterTShark(a, TRUE)
  ELSE IF Captures(a) THEN "spawn"
  ELSE IF a.runner /\ ~a.network THEN "run_plan" ELSE "run_tshark"

Start ==
  /\ pc \in {"idle", "exit"} /\ runs < MaxRuns
  /\ runs' = runs + 1
  /\ args' \in Invocation
  /\ pc' = FirstStage(args') /\ goodp' = TRUE /\ planp' = args'.plan
  /\ runner' = "none" /\ tshark' = "none" /\ left' = << >> /\ output' = {}
  /\ opened' = FALSE /\ sent' = << >> /\ judged' = FALSE /\ trouble' = FALSE
  /\ source' = [run |-> 0, packets |-> << >>]
  /\ UNCHANGED files

(* spawn_tshark; the pause that follows orders nothing. *)
SpawnTShark ==
  /\ pc = "spawn" /\ pc' = "run_plan"
  /\ tshark' = "starting"
  /\ UNCHANGED <<goodp, planp, files, runner, left, output>> /\ UNCHANGED mainvars /\ UNCHANGED history

(* run_plan, which waits for the runner. *)
RunPlan ==
  /\ pc = "run_plan" /\ pc' = "runner_wait"
  /\ runner' = "starting"
  /\ UNCHANGED <<goodp, planp, files, left, tshark, output>> /\ UNCHANGED mainvars /\ UNCHANGED history

(* Mutant: the runner is started and not waited for. *)
RunPlanInBackground ==
  /\ pc = "runner_wait"
  /\ goodp' = (runner # "failed")
  /\ pc' = IF Captures(args) THEN "join"
           ELSE IF goodp' THEN "run_tshark" ELSE AfterTShark(args, FALSE)
  /\ UNCHANGED <<planp, files, runner, left, tshark, output>> /\ UNCHANGED mainvars /\ UNCHANGED history

(* Mutant: a runner that could not be started is waited for. *)
RunPlanWaits ==
  /\ pc = "runner_wait" /\ runner = "done"
  /\ goodp' = TRUE
  /\ pc' = IF Captures(args) THEN "join"
           ELSE IF goodp' THEN "run_tshark" ELSE AfterTShark(args, FALSE)
  /\ UNCHANGED <<planp, files, runner, left, tshark, output>> /\ UNCHANGED mainvars /\ UNCHANGED history

(* run_gather tells whether the program was started, not how it exited. *)
RunPlanReturns ==
  /\ pc = "runner_wait" /\ runner \in {"done", "failed"}
  /\ goodp' = (runner = "done")
  /\ pc' = IF Captures(args) THEN "join"
           ELSE IF goodp' THEN "run_tshark" ELSE AfterTShark(args, FALSE)
  /\ UNCHANGED <<planp, files, runner, left, tshark, output>> /\ UNCHANGED mainvars /\ UNCHANGED history

RunTShark ==
  /\ pc = "run_tshark" /\ pc' = "tshark_wait"
  /\ tshark' = "starting"
  /\ UNCHANGED <<goodp, planp, files, runner, left, output>> /\ UNCHANGED mainvars /\ UNCHANGED history

(* Mutant: the thread is not waited for once the runner has failed. *)
JoinIfGood ==
  /\ pc \in {"join", "tshark_wait"} /\ (goodp => tshark \in {"done", "failed"})
  /\ goodp' = (goodp /\ tshark = "done")
  /\ pc' = AfterTShark(args, goodp')
  /\ UNCHANGED <<planp, files, runner, left, tshark, output>> /\ UNCHANGED mainvars /\ UNCHANGED history

(* g_thread_join, or the return of run_tshark. *)
Join ==
  /\ pc \in {"join", "tshark_wait"} /\ tshark \in {"done", "failed"}
  /\ goodp' = (goodp /\ tshark = "done")
  /\ pc' = AfterTShark(args, goodp')
  /\ UNCHANGED <<planp, files, runner, left, tshark, output>> /\ UNCHANGED mainvars /\ UNCHANGED history

(* Whether a PDML file is there and is one. *)
Parses(name) == name \in DOMAIN files /\ ~files[name].cut

(* generatePlanFromPDML: when the PDML does not parse, the writer is never *)
(* closed and leaves the file unfinished.                                  *)
Generate ==
  /\ pc = "generate" /\ planp' = TRUE
  /\ goodp' = Parses(pdml_filename(args))
  /\ files' = Write(plan_filename(args),
       IF goodp' THEN File(runs, FALSE, ReadBack(files[pdml_filename(args)].body))
       ELSE File(runs, TRUE, ReadBack(<< >>)))
  /\ pc' = IF goodp' /\ args.expect # NoFile THEN "compare" ELSE "remove"
  /\ UNCHANGED <<runner, left, tshark, output>> /\ UNCHANGED mainvars /\ UNCHANGED history

(* xmlNewTextWriterFilename cannot create the plan. *)
GenerateFails ==
  /\ pc = "generate" /\ planp' = TRUE
  /\ goodp' = FALSE /\ pc' = "remove"
  /\ trouble' = TRUE
  /\ UNCHANGED <<files, runner, left, tshark, output, opened, sent, source, judged>>
  /\ UNCHANGED mainvars

(* equiv_plan_files: a file that does not parse is compared like an empty  *)
(* list of nodes, so two of them are equal.                                *)
Compare ==
  /\ pc = "compare" /\ pc' = "remove"
  /\ LET cnodes == IF Parses(plan_filename(args))
                   THEN <<files[plan_filename(args)].body>> ELSE << >>
         enodes == IF args.expect \in DOMAIN PlanFile
                   THEN <<PlanFile[args.expect]>> ELSE << >>
     IN  goodp' = IF Equivalent(cnodes, enodes) THEN TRUE ELSE FALSE
  /\ judged' = TRUE
  /\ UNCHANGED <<planp, files, runner, left, tshark, output, opened, sent, source, trouble>>
  /\ UNCHANGED mainvars

(* Mutant: the PDML is taken away only with the capture. *)
RemoveForgets ==
  /\ pc = "remove" /\ pc' = "exit"
  /\ files' = Without({name \in {pcap_filename(args), pdml_filename(args)} :
                        args.tmpl /\ ~args.pcap /\ ~args.pdml}
                    \cup {name \in {plan_filename(args)} : planp /\ ~args.plan})
  /\ UNCHANGED <<goodp, planp, runner, left, tshark, output>>
  /\ UNCHANGED mainvars /\ UNCHANGED history

(* The names that main has made, none of them given, and its exit. *)
RemoveIntermediary ==
  /\ pc = "remove" /\ pc' = "exit"
  /\ files' = Without({name \in {pcap_filename(args)} : args.tmpl /\ ~args.pcap}
                    \cup {name \in {pdml_filename(args)} : args.tmpl /\ ~args.pdml}
                    \cup {name \in {plan_filename(args)} : planp /\ ~args.plan})
  /\ UNCHANGED <<goodp, planp, runner, left, tshark, output>>
  /\ UNCHANGED mainvars /\ UNCHANGED history

MainStep ==
  \/ SpawnTShark \/ RunPlan \/ RunPlanReturns \/ RunTShark \/ Join
  \/ Generate \/ GenerateFails \/ Compare \/ RemoveIntermediary

(* External: the user interrupts the test, all programs of it end, and the *)
(* files stay as they are.                                                 *)
Interrupted ==
  /\ pc \notin {"idle", "exit"}
  /\ pc' = "idle"
  /\ runner' = "none" /\ tshark' = "none" /\ output' = {}
  /\ UNCHANGED <<goodp, planp, files, left>> /\ UNCHANGED mainvars /\ UNCHANGED history

--------------------------------------------------------------------------------
(* The plan runner.                                                        *)

notrunner == <<args, pc, goodp, planp, runs, tshark, output, source, judged>>
Trouble   == trouble' = TRUE

(* g_spawn_sync finds no java. *)
RunnerFails ==
  /\ runner = "starting" /\ runner' = "failed" /\ Trouble
  /\ UNCHANGED <<files, left, opened, sent>> /\ UNCHANGED notrunner

(* It ends before it has opened its output: no such jar, a port that is no *)
(* short, or no plan named.                                                *)
RunnerExits ==
  /\ runner = "starting" /\ runner' = "done" /\ Trouble
  /\ UNCHANGED <<files, left, opened, sent>> /\ UNCHANGED notrunner

(* The output is opened before the plan is loaded; a capture file is then  *)
(* empty.                                                                  *)
RunnerOpens ==
  /\ runner = "starting" /\ runner' = "running"
  /\ args.send # NoFile
  /\ opened' = TRUE
  /\ files' = IF Captures(args) THEN files
              ELSE Write(pcap_filename(args), File(runs, FALSE, << >>))
  /\ left' = Traffic(args)
  /\ UNCHANGED <<sent, trouble>> /\ UNCHANGED notrunner

Extend(name, packet) == [files EXCEPT ![name].body = Append(@, packet)]

(* A packet goes to the capture file, or to whoever listens: TShark if it  *)
(* is capturing by now and has not stopped.                                *)
RunnerSends ==
  /\ runner = "running" /\ left # << >>
  /\ left' = Tail(left) /\ sent' = Append(sent, Head(left))
  /\ files' = IF ~Captures(args) \/ tshark = "running"
              THEN Extend(pcap_filename(args), Head(left)) ELSE files
  /\ UNCHANGED <<runner, opened, trouble>> /\ UNCHANGED notrunner

(* It exits, after the last packet or an exception. *)
RunnerEnds ==
  /\ runner = "running" /\ left = << >>
  /\ runner' = "done"
  /\ UNCHANGED <<files, left, opened, sent, trouble>> /\ UNCHANGED notrunner

RunnerStep == RunnerFails \/ RunnerExits \/ RunnerOpens \/ RunnerSends \/ RunnerEnds

--------------------------------------------------------------------------------
(* TShark and the thread around it.                                        *)

nottshark == <<args, pc, goodp, planp, runs, runner, left, opened, sent, judged>>

(***************************************************************************)
(* The preferences that run_tshark sets: of eleven, if a template and a    *)
(* port are among them, the last one is not passed on.                     *)
(***************************************************************************)
Preferences ==
  <<"template", "port", "enabled", "sci_notation", "show_empty", "implementation",
    "show_field_dictionaries", "show_field_keys", "show_field_operators",
    "show_field_mandatoriness", "enable_dialogs">>
nprefs == 10
Passed == {Preferences[i] : i \in 1..nprefs}

(* g_spawn_sync finds no TShark. *)
TSharkFails ==
  /\ tshark = "starting" /\ tshark' = "failed" /\ Trouble
  /\ UNCHANGED <<files, output, source>> /\ UNCHANGED nottshark

(* It ends at once and prints nothing: a preference that is not registered,*)
(* no such file, no right to capture.                                      *)
TSharkExits ==
  /\ tshark = "starting" /\ tshark' = "ended"
  /\ output' = {File(runs, TRUE, << >>)}
  /\ trouble' = (trouble \/ Passed \subseteq Registered)
  /\ UNCHANGED <<files, source>> /\ UNCHANGED nottshark

(* With a duration, a capture file is begun. *)
TSharkCaptures ==
  /\ tshark = "starting" /\ tshark' = "running"
  /\ Captures(args) /\ Passed \subseteq Registered
  /\ files' = Write(pcap_filename(args), File(runs, FALSE, << >>))
  /\ UNCHANGED <<output, source, trouble>> /\ UNCHANGED nottshark

Prints(file) ==
  /\ tshark' = "ended"
  /\ output' = {File(runs, FALSE, Shown(file.body, "show_empty" \in Passed))}
  /\ source' = [run |-> file.run, packets |-> file.body]

(* The duration is over. *)
CaptureEnds ==
  /\ tshark = "running"
  /\ Prints(files[pcap_filename(args)])
  /\ UNCHANGED <<files, trouble>> /\ UNCHANGED nottshark

(* Without, the capture file is read. *)
TSharkReads ==
  /\ tshark = "starting"
  /\ ~Captures(args) /\ Passed \subseteq Registered
  /\ Parses(pcap_filename(args))
  /\ Prints(files[pcap_filename(args)])
  /\ UNCHANGED <<files, trouble>> /\ UNCHANGED nottshark

(* run_tshark writes what was printed. *)
OutputWritten ==
  /\ tshark = "ended" /\ tshark' = "done"
  /\ \E file \in output : files' = Write(pdml_filename(args), file)
  /\ output' = {}
  /\ UNCHANGED <<source, trouble>> /\ UNCHANGED nottshark

(* fopen fails. *)
OutputLost ==
  /\ tshark = "ended" /\ tshark' = "failed" /\ Trouble
  /\ output' = {}
  /\ UNCHANGED <<files, source>> /\ UNCHANGED nottshark

TSharkStep == TSharkFails \/ TSharkExits \/ TSharkCaptures \/ CaptureEnds
                \/ TSharkReads \/ OutputWritten \/ OutputLost

Next == Start \/ MainStep \/ Interrupted \/ RunnerStep \/ TSharkStep

(* Each of the three programs goes on; a capture ends after its duration.  *)
Fairness == WF_vars(MainStep) /\ WF_vars(RunnerStep) /\ WF_vars(TSharkStep)

Spec == Init /\ [][Next]_vars /\ Fairness

--------------------------------------------------------------------------------
(***************************************************************************)
(* The verdict of an invocation that got as far as the comparison is right:*)
(* success exactly if the expected plan says of the messages that TShark   *)
(* dissected what there is to say, though in between they are shown, read  *)
(* back from what was shown, and compared as trees of names.  The names of *)
(* templates and fields hold no colon: a value begins after the first.     *)
(***************************************************************************)
VerdictRight ==
  (pc = "exit" /\ judged /\ args.tmpl /\ Readable(source.packets)) =>
    (goodp <=> /\ args.expect \in DOMAIN PlanFile
               /\ Says(source.packets, PlanFile[args.expect]))

(***************************************************************************)
(* A test that succeeds was about the packets that its own runner sent,    *)
(* all of them or over the network a stretch of them, whatever files an    *)
(* earlier test has left, unless the runner ended before it opened its     *)
(* output, which rwcompare does not notice.                                *)
(***************************************************************************)
OwnTraffic ==
  (pc = "exit" /\ goodp /\ args.tmpl /\ opened) =>
    /\ source.run = runs
    /\ IF Captures(args)
       THEN \E i, j \in 0..Len(sent) : source.packets = SubSeq(sent, i + 1, j)
       ELSE source.packets = sent

(***************************************************************************)
(* When rwcompare exits, the files that it wrote and whose names were not  *)
(* given are gone, and nothing writes them after that; also if a stage     *)
(* failed.                                                                 *)
(***************************************************************************)
NothingLeft ==
  pc = "exit" =>
    \A name \in DOMAIN files :
      files[name].run = runs =>
        \/ args.pcap /\ name = pcap_filename(args)
        \/ args.pdml /\ name = pdml_filename(args)
        \/ args.plan /\ name = plan_filename(args)

(***************************************************************************)
(* "If we get out what we put in, the plugin works": when every program    *)
(* could run, all packets were captured and the expected plan says what    *)
(* was sent, the test succeeds.                                            *)
(***************************************************************************)
EchoPasses ==
  (/\ pc = "exit" /\ ~trouble /\ args.tmpl /\ opened /\ ~Captures(args)
   /\ Readable(sent)
   /\ args.expect \in DOMAIN PlanFile /\ Says(sent, PlanFile[args.expect])) => goodp

(***************************************************************************)
(* Every test comes to an end: main never waits for a program that failed  *)
(* or has ended already.                                                   *)
(***************************************************************************)
TestEnds == pc \notin {"idle", "exit"} ~> pc \in {"idle", "exit"}
================================================================================
