-------------------------- MODULE RegressionTestProofs --------------------------
(***************************************************************************)
(* Proofs about RegressionTest: processes run only while main waits for    *)
(* them, files are taken away, and the verdict is about the traffic of its *)
(* own test, for any plans and whatever the programs make of them.         *)
(***************************************************************************)
EXTENDS RegressionTest, SequenceTheorems, TLAPS

--------------------------------------------------------------------------------
(* The inductive invariant, in parts.                                      *)

IsFile(file) == file = File(file.run, file.cut, file.body)

Pcap == pcap_filename(args)
PDML == pdml_filename(args)
Made == plan_filename(args)

(* Where main may be for which command line, and with which processes.     *)
Control ==
  /\ pc # "idle" => runs \in 1..MaxRuns
  /\ pc \in {"spawn", "run_plan", "runner_wait", "join", "run_tshark", "tshark_wait"} =>
       args.tmpl
  /\ pc = "spawn" => tshark = "none"
  /\ pc \in {"spawn", "join"} => Captures(args)
  /\ pc \in {"run_tshark", "tshark_wait"} => ~Captures(args)
  /\ pc \in {"run_plan", "runner_wait", "run_tshark"} /\ ~Captures(args) => tshark = "none"
  /\ tshark = "running" => Captures(args)
  /\ pc \in {"spawn", "run_plan"} \/ runner = "starting" => ~opened
  /\ runner = "running" => opened
  /\ judged => pc \in {"remove", "exit", "idle"}

(* The files that there are, and what TShark has printed. *)
FilesOK ==
  /\ \A name \in DOMAIN files : IsFile(files[name])
  /\ \A file \in output : IsFile(file) /\ file.run = runs

(* What the runner has sent and has yet to send is what it was to send. *)
Packet == UNION {{Traffic(a)[i] : i \in DOMAIN Traffic(a)} : a \in Invocation}

Sending ==
  /\ sent \in Seq(Packet)
  /\ ~opened => sent = << >>
  /\ Len(sent) <= Len(Traffic(args))
  /\ sent = SubSeq(Traffic(args), 1, Len(sent))
  /\ opened => left = SubSeq(Traffic(args), Len(sent) + 1, Len(Traffic(args)))

(* A capture is a stretch of some runner's traffic. *)
Stretches(traffic) == {SubSeq(traffic, i + 1, j) : i \in 0..Len(traffic), j \in 0..Len(traffic)}
Capturable == UNION {Stretches(Traffic(a)) : a \in Invocation}

Stored ==
  \A a \in Invocation :
    pcap_filename(a) \in DOMAIN files => files[pcap_filename(a)].body \in Capturable

(* The capture of this invocation, while it is needed. *)
Capturing ==
  /\ opened /\ ~Captures(args) /\ pc \in {"runner_wait", "run_tshark", "tshark_wait"} =>
       Pcap \in DOMAIN files /\ files[Pcap] = File(runs, FALSE, sent)
  /\ tshark = "running" =>
       /\ Pcap \in DOMAIN files /\ files[Pcap].run = runs /\ ~files[Pcap].cut
       /\ \E i \in 0..Len(sent) : files[Pcap].body = SubSeq(Traffic(args), i + 1, Len(sent))

(* What TShark has dissected is a capture, and of this invocation's traffic*)
(* if there is any.                                                        *)
Own ==
  /\ source.packets \in Capturable
  /\ Captures(args) =>
       /\ source.run = runs
       /\ \E i, j \in 0..Len(sent) : source.packets = SubSeq(Traffic(args), i + 1, j)
  /\ ~Captures(args) /\ opened => source = [run |-> runs, packets |-> sent]

Shows(file) == file.cut \/ (file.body = Shown(source.packets, TRUE) /\ Own)

(* The display, the plan made of it, and the verdict are about what TShark *)
(* has dissected.                                                          *)
Chain ==
  /\ \A file \in output : Shows(file)
  /\ \/ tshark = "done" /\ pc \in {"run_plan", "runner_wait", "join", "tshark_wait"}
     \/ args.tmpl /\ pc = "generate"
     => PDML \in DOMAIN files /\ Shows(files[PDML])
  /\ args.tmpl /\ pc \in {"generate", "compare"} => goodp
  /\ args.tmpl /\ pc = "compare" =>
       /\ Own
       /\ Made \in DOMAIN files /\ ~files[Made].cut
       /\ files[Made].body = ReadBack(Shown(source.packets, TRUE))
  /\ args.tmpl /\ pc \in {"remove", "exit"} /\ (goodp \/ judged) => Own
  /\ args.tmpl /\ pc \in {"remove", "exit"} /\ judged =>
       (goodp <=> Equivalent(<<ReadBack(Shown(source.packets, TRUE))>>,
                             IF args.expect \in DOMAIN PlanFile
                             THEN <<PlanFile[args.expect]>> ELSE << >>))

(* The files of this invocation that main will take away, or has. *)
Mine ==
  pc \notin {"idle", "exit"} =>
    \A name \in DOMAIN files :
      files[name].run = runs =>
        \/ args.tmpl /\ name \in {Pcap, PDML}
        \/ planp /\ name = Made

(* Without trouble, nothing stops a test before the comparison. *)
Unhindered ==
  /\ \A file \in output : ~file.cut
  /\ (tshark = "done" /\ pc = "tshark_wait") \/ pc = "generate" => ~files[PDML].cut
  /\ pc \in {"remove", "exit"} => goodp \/ judged

Untroubled ==
  /\ runner # "failed" /\ tshark # "failed"
  /\ pc \in {"spawn", "run_plan", "runner_wait", "join", "run_tshark", "tshark_wait"} => goodp
  /\ (opened /\ args.tmpl /\ ~Captures(args)) => Unhindered

Smooth == (Passed \subseteq Registered /\ ~trouble) => Untroubled

IInv ==
  /\ TypeOK /\ Control /\ FilesOK /\ Sending /\ Stored /\ Capturing /\ Chain
  /\ Mine /\ NothingLeft /\ Smooth

--------------------------------------------------------------------------------
(* Lemmas about names, files and stretches of traffic.                     *)

LEMMA Tuples ==
  ASSUME NEW S, NEW x \in S, NEW y \in S
  PROVE  /\ <<x>> \in Seq(S) /\ Len(<<x>>) = 1 /\ <<x>>[1] = x
         /\ <<x, y>> \in Seq(S) /\ Len(<<x, y>>) = 2 /\ <<x, y>>[2] = y
<1>1. <<x>> = Append(<< >>, x) /\ <<x, y>> = Append(<<x>>, y)
  OBVIOUS
<1>2. <<x>> \in Seq(S) /\ Len(<<x>>) = 1 /\ <<x>>[1] = x
  BY <1>1, AppendProperties, EmptySeq
<1> QED
  BY <1>1, <1>2, AppendProperties

(* The names of captures, of PDML and of plans are three kinds of name, of *)
(* whatever invocations they are.                                          *)
LEMMA NamesDiffer ==
  \A a, b \in Invocation :
    /\ pcap_filename(a) # pdml_filename(b)
    /\ pcap_filename(a) # plan_filename(b)
    /\ pdml_filename(a) # plan_filename(b)
<1> SUFFICES ASSUME NEW a \in Invocation, NEW b \in Invocation
             PROVE  /\ pcap_filename(a) # pdml_filename(b)
                    /\ pcap_filename(a) # plan_filename(b)
                    /\ pdml_filename(a) # plan_filename(b)
  OBVIOUS
<1> DEFINE End(s)   == s[Len(s)]
           Parts(c) == {c.expect, "output.pcap", ".pcap", "(null)", "-pdml.xml", "-plan.xml"}
<1>1. ASSUME NEW c \in Invocation
      PROVE  pcap_filename(c) \in Seq(Parts(c)) /\ Len(pcap_filename(c)) \in {1, 2}
             /\ End(pcap_filename(c)) \in {"output.pcap", ".pcap", "(null)"}
  <2>1. c.expect \in Parts(c)
    OBVIOUS
  <2>2. "output.pcap" \in Parts(c) /\ ".pcap" \in Parts(c) /\ NoFile \in Parts(c)
    BY DEF NoFile
  <2> HIDE DEF Parts
  <2>3. CASE c.pcap
    <3>1. pcap_filename(c) = <<"output.pcap">>
      BY <2>3 DEF pcap_filename
    <3> QED
      BY <2>2, <3>1, Tuples
  <2>4. CASE ~c.pcap /\ c.tmpl
    <3>1. pcap_filename(c) = <<c.expect, ".pcap">>
      BY <2>4 DEF pcap_filename
    <3> QED
      BY <2>1, <2>2, <3>1, Tuples
  <2>5. CASE ~c.pcap /\ ~c.tmpl
    <3>1. pcap_filename(c) = <<NoFile>>
      BY <2>5 DEF pcap_filename
    <3> QED
      BY <2>2, <3>1, Tuples DEF NoFile
  <2> QED
    BY <2>3, <2>4, <2>5
<1>2. ASSUME NEW c \in Invocation, NEW suffix \in {"-pdml.xml", "-plan.xml"}
      PROVE  End(pcap_filename(c) \o <<suffix>>) = suffix
  <2>1. <<suffix>> \in Seq(Parts(c)) /\ Len(<<suffix>>) = 1 /\ <<suffix>>[1] = suffix
    BY Tuples
  <2> HIDE DEF Parts
  <2> QED
    BY <1>1, <2>1, ConcatProperties
<1>3. ASSUME NEW c \in Invocation
      PROVE  End(pdml_filename(c)) \in {"output.pdml", "-pdml.xml"}
  BY <1>2 DEF pdml_filename
<1>4. ASSUME NEW c \in Invocation
      PROVE  End(plan_filename(c)) \in {"output.plan", "-plan.xml"}
  BY <1>2 DEF plan_filename
<1> HIDE DEF End
<1> QED
  BY <1>1, <1>3, <1>4

(* Writing a file leaves the others as they are. *)
LEMMA WriteFacts ==
  ASSUME NEW name, NEW file
  PROVE  /\ DOMAIN Write(name, file) = DOMAIN files \cup {name}
         /\ Write(name, file)[name] = file
         /\ \A n \in DOMAIN files : n # name => Write(name, file)[n] = files[n]
BY DEF Write

LEMMA FileFields ==
  ASSUME NEW run, NEW cut, NEW body
  PROVE  /\ File(run, cut, body).run = run /\ File(run, cut, body).cut = cut
         /\ File(run, cut, body).body = body /\ IsFile(File(run, cut, body))
BY DEF File, IsFile

(* What a runner has to send is a sequence of packets. *)
LEMMA TrafficType == ASSUME NEW a \in Invocation PROVE Traffic(a) \in Seq(Packet)
<1> DEFINE S == {Traffic(a)[i] : i \in DOMAIN Traffic(a)}
<1>1. Traffic(a) \in Seq(S)
  BY TrafficAssumption
<1>2. S \subseteq Packet
  BY DEF Packet
<1> HIDE DEF S
<1> QED
  BY <1>1, <1>2, SeqMonotonic

(* One more packet makes a stretch longer. *)
LEMMA StretchGrows ==
  ASSUME NEW S, NEW t \in Seq(S), NEW n \in 0..Len(t), n < Len(t), NEW i \in 0..n
  PROVE  Append(SubSeq(t, i + 1, n), t[n + 1]) = SubSeq(t, i + 1, n + 1)
<1>1. SubSeq(t, i + 1, n + 1) = SubSeq(t, i + 1, n) \o <<t[n + 1]>>
  <2>1. i + 1 \in 1..Len(t) /\ n + 1 \in (i + 1)..Len(t) /\ n + 1 - 1 = n
    OBVIOUS
  <2> QED
    BY <2>1, SubSeqRecursiveSecond
<1>2. SubSeq(t, i + 1, n) \in Seq(S) /\ t[n + 1] \in S
  <2>1. \A k \in (i + 1)..n : t[k] \in S
    OBVIOUS
  <2> QED
    BY <2>1, SubSeqProperties
<1> QED
  BY <1>1, <1>2, AppendIsConcat

(* What is left gets shorter by its first packet. *)
LEMMA LeftShrinks ==
  ASSUME NEW S, NEW t \in Seq(S), NEW n \in 0..Len(t),
         SubSeq(t, n + 1, Len(t)) # << >>
  PROVE  /\ n < Len(t)
         /\ Head(SubSeq(t, n + 1, Len(t))) = t[n + 1]
         /\ Tail(SubSeq(t, n + 1, Len(t))) = SubSeq(t, n + 2, Len(t))
<1>1. n < Len(t)
  <2>1. CASE n = Len(t)
    BY <2>1, SubSeqEmpty
  <2> QED
    BY <2>1
<1>2. n + 1 \in 1..Len(t) /\ Len(t) \in (n + 1)..Len(t)
  BY <1>1
<1> QED
  BY <1>1, <1>2, HeadTailOfSubSeq

(* A stretch of what has been sent is one of what was to be sent. *)
LEMMA StretchOfPrefix ==
  ASSUME NEW S, NEW t \in Seq(S), NEW n \in 0..Len(t), NEW i \in 0..n, NEW j \in 0..n
  PROVE  SubSeq(SubSeq(t, 1, n), i + 1, j) = SubSeq(t, i + 1, j)
<1>1. CASE i >= j
  BY <1>1, SubSeqEmpty
<1>2. CASE i < j
  <2>1. 1 \in 1..Len(t) /\ n \in 1..Len(t) /\ i + 1 \in 1..(n - 1 + 1) /\ j \in 1..(n - 1 + 1)
    BY <1>2
  <2>2. SubSeq(SubSeq(t, 1, n), i + 1, j) = SubSeq(t, 1 + (i + 1) - 1, 1 + j - 1)
    BY <2>1, SubSeqOfSubSeq
  <2> QED
    BY <2>2
<1> QED
  BY <1>1, <1>2

--------------------------------------------------------------------------------
(* Files stay as they are, but one is written, extended or taken away.     *)

(* A file that is written is of this invocation. *)
LEMMA WriteKeeps ==
  ASSUME FilesOK, TypeOK, NEW name, NEW cut, NEW body, NEW r \in 1..runs,
         files' = Write(name, File(r, cut, body))
  PROVE  \A n \in DOMAIN files' : IsFile(files'[n]) /\ files'[n].run \in 1..runs
<1> SUFFICES ASSUME NEW n \in DOMAIN files'
             PROVE  IsFile(files'[n]) /\ files'[n].run \in 1..runs
  OBVIOUS
<1>1. CASE n = name
  <2>1. files'[n] = File(r, cut, body)
    BY <1>1, WriteFacts
  <2> QED
    BY <2>1, FileFields
<1>2. CASE n # name
  <2>1. DOMAIN files' = DOMAIN files \cup {name}
    BY WriteFacts
  <2>2. n \in DOMAIN files
    BY <1>2, <2>1
  <2>3. files'[n] = files[n]
    BY <1>2, <2>2 DEF Write
  <2> QED
    BY <2>2, <2>3 DEF FilesOK, TypeOK
<1> QED
  BY <1>1, <1>2

(* A file that is extended is still of the invocation that wrote it. *)
LEMMA ExtendFacts ==
  ASSUME FilesOK, NEW name \in DOMAIN files, NEW packet
  PROVE  /\ DOMAIN Extend(name, packet) = DOMAIN files
         /\ Extend(name, packet)[name] =
              File(files[name].run, files[name].cut, Append(files[name].body, packet))
         /\ \A n \in DOMAIN files : n # name => Extend(name, packet)[n] = files[n]
<1>1. Extend(name, packet)[name] = [files[name] EXCEPT !.body = Append(files[name].body, packet)]
  BY DEF Extend
<1>2. IsFile(files[name])
  BY DEF FilesOK
<1>3. [files[name] EXCEPT !.body = Append(files[name].body, packet)] =
        File(files[name].run, files[name].cut, Append(files[name].body, packet))
  BY <1>2 DEF IsFile, File
<1> QED
  BY <1>1, <1>3 DEF Extend

LEMMA InitInv == Init => IInv
<1> SUFFICES ASSUME Init PROVE IInv
  OBVIOUS
<1> USE DEF Init
<1>1. TypeOK
  <2>1. DOMAIN files = {}
    OBVIOUS
  <2>2. source.run \in 0..runs /\ runs \in 0..MaxRuns
    BY MaxRunsAssumption
  <2>3. pc \in MainState /\ runner \in ProcessState /\ tshark \in ProcessState
    BY DEF MainState, ProcessState
  <2> QED
    BY <2>1, <2>2, <2>3 DEF TypeOK
<1>2. Control /\ FilesOK /\ Stored /\ Mine /\ NothingLeft
  BY DEF Control, FilesOK, Stored, Mine, NothingLeft
<1>3. Sending
  <2>1. Traffic(args) \in Seq(Packet)
    BY TrafficType
  <2>2. SubSeq(Traffic(args), 1, 0) = << >>
    BY SubSeqEmpty
  <2>3. Len(<< >>) = 0 /\ << >> \in Seq(Packet)
    BY EmptySeq
  <2> QED
    BY <2>1, <2>2, <2>3 DEF Sending
<1>4. Capturing /\ Chain /\ Smooth
  BY DEF Capturing, Chain, Smooth, Untroubled, Unhindered
<1> QED
  BY <1>1, <1>2, <1>3, <1>4 DEF IInv

--------------------------------------------------------------------------------
(* Types, processes and files, step by step.                               *)

(* Processes run only while main waits for them or beside it. *)
Processes ==
  /\ args \in Invocation
  /\ pc \in MainState
  /\ goodp \in BOOLEAN /\ planp \in BOOLEAN /\ opened \in BOOLEAN /\ judged \in BOOLEAN
  /\ trouble \in BOOLEAN
  /\ runs \in 0..MaxRuns
  /\ runner \in ProcessState /\ tshark \in ProcessState
  /\ runner \in {"starting", "running"} => pc = "runner_wait"
  /\ tshark \in {"starting", "running", "ended"} =>
       \/ pc = "tshark_wait"
       \/ Captures(args) /\ pc \in {"run_plan", "runner_wait", "join"}
  /\ output # {} <=> tshark = "ended"

Files ==
  /\ \A name \in DOMAIN files : files[name].run \in 1..runs
  /\ source.run \in 0..runs

LEMMA TypeParts == TypeOK <=> Processes /\ Files
BY DEF TypeOK, Processes, Files

LEMMA ArgsType ==
  ASSUME NEW a \in Invocation
  PROVE  /\ a.tmpl \in BOOLEAN /\ a.pcap \in BOOLEAN /\ a.pdml \in BOOLEAN /\ a.plan \in BOOLEAN
         /\ Captures(a) \in BOOLEAN /\ (Captures(a) => a.tmpl)
BY InvocationAssumption DEF Captures

LEMMA ProcessesStep == IInv /\ [Next]_vars => Processes'
<1> SUFFICES ASSUME IInv, [Next]_vars PROVE Processes'
  OBVIOUS
<1>0. Processes /\ Control
  BY TypeParts DEF IInv
<1> USE DEF Processes, Control, MainState, ProcessState, mainvars, history
<1>1. CASE Start
  <2>0. runs' \in 0..MaxRuns
    BY <1>0, <1>1, MaxRunsAssumption DEF Start
  <2>1. /\ args' \in Invocation /\ pc' = FirstStage(args')
        /\ goodp' = TRUE /\ planp' = args'.plan /\ runner' = "none" /\ tshark' = "none"
        /\ output' = {} /\ opened' = FALSE /\ judged' = FALSE /\ trouble' = FALSE
    BY <1>1 DEF Start
  <2>2. planp' \in BOOLEAN
    BY <2>1, ArgsType
  <2>3. FirstStage(args') \in MainState
    BY DEF FirstStage, AfterTShark
  <2> QED
    BY <2>0, <2>1, <2>2, <2>3
<1>2. CASE SpawnTShark \/ RunPlan \/ RunTShark
  BY <1>0, <1>2 DEF SpawnTShark, RunPlan, RunTShark
<1>3. CASE RunPlanReturns
  BY <1>0, <1>3 DEF RunPlanReturns, AfterTShark
<1>4. CASE Join
  BY <1>0, <1>4 DEF Join, AfterTShark
<1>5. CASE Generate
  BY <1>0, <1>5 DEF Generate, Parses
<1>6. CASE GenerateFails
  BY <1>0, <1>6 DEF GenerateFails
<1>7. CASE Compare
  BY <1>0, <1>7 DEF Compare
<1>8. CASE RemoveIntermediary
  BY <1>0, <1>8 DEF RemoveIntermediary
<1>9. CASE Interrupted
  BY <1>0, <1>9 DEF Interrupted
<1>10. CASE RunnerStep
  BY <1>0, <1>10 DEF RunnerStep, RunnerFails, RunnerExits, RunnerOpens, RunnerSends, RunnerEnds,
                     notrunner, Trouble
<1>11. CASE TSharkStep
  <2>1. CASE TSharkFails \/ TSharkExits
    BY <1>0, <2>1 DEF TSharkFails, TSharkExits, nottshark, Trouble
  <2>2. CASE TSharkCaptures \/ CaptureEnds \/ TSharkReads
    BY <1>0, <2>2 DEF TSharkCaptures, CaptureEnds, TSharkReads, Prints, nottshark
  <2>3. CASE OutputWritten \/ OutputLost
    BY <1>0, <2>3 DEF OutputWritten, OutputLost, nottshark, Trouble
  <2> QED
    BY <1>11, <2>1, <2>2, <2>3 DEF TSharkStep
<1>12. CASE UNCHANGED vars
  BY <1>0, <1>12 DEF vars
<1> QED
  BY <1>1, <1>2, <1>3, <1>4, <1>5, <1>6, <1>7, <1>8, <1>9, <1>10, <1>11, <1>12
     DEF Next, MainStep

LEMMA ControlStep == IInv /\ [Next]_vars => Control'
<1> SUFFICES ASSUME IInv, [Next]_vars PROVE Control'
  OBVIOUS
<1>0. Processes /\ Control
  BY TypeParts DEF IInv
<1> USE DEF Processes, Control, MainState, ProcessState, mainvars, history
<1>1. CASE Start
  <2>1. /\ args' \in Invocation /\ runs' \in 1..MaxRuns /\ pc' = FirstStage(args')
        /\ runner' = "none" /\ tshark' = "none" /\ ~opened' /\ ~judged'
    BY <1>0, <1>1, MaxRunsAssumption DEF Start
  <2>2. pc' \in {"generate", "compare", "remove"} \/
        (/\ args'.tmpl /\ pc' \in {"spawn", "run_plan", "run_tshark"}
         /\ (pc' = "spawn" <=> Captures(args')))
    BY <2>1 DEF FirstStage, AfterTShark
  <2> QED
    BY <2>1, <2>2
<1>2. CASE SpawnTShark \/ RunPlan \/ RunTShark
  BY <1>0, <1>2 DEF SpawnTShark, RunPlan, RunTShark
<1>3. CASE RunPlanReturns
  BY <1>0, <1>3 DEF RunPlanReturns, AfterTShark
<1>4. CASE Join
  BY <1>0, <1>4 DEF Join, AfterTShark
<1>5. CASE Generate
  BY <1>0, <1>5 DEF Generate, Parses
<1>6. CASE GenerateFails
  BY <1>0, <1>6 DEF GenerateFails
<1>7. CASE Compare
  BY <1>0, <1>7 DEF Compare
<1>8. CASE RemoveIntermediary
  BY <1>0, <1>8 DEF RemoveIntermediary
<1>9. CASE Interrupted
  BY <1>0, <1>9 DEF Interrupted
<1>10. CASE RunnerStep
  <2>1. pc' = pc /\ args' = args /\ runs' = runs /\ tshark' = tshark /\ judged' = judged
    BY <1>10 DEF RunnerStep, RunnerFails, RunnerExits, RunnerOpens, RunnerSends, RunnerEnds, notrunner
  <2>2. pc = "runner_wait" /\ runner' # "starting"
    BY <1>0, <1>10
       DEF RunnerStep, RunnerFails, RunnerExits, RunnerOpens, RunnerSends, RunnerEnds
  <2>3. runner' = "running" => opened'
    BY <1>0, <1>10
       DEF RunnerStep, RunnerFails, RunnerExits, RunnerOpens, RunnerSends, RunnerEnds
  <2> QED
    BY <1>0, <2>1, <2>2, <2>3
<1>11. CASE TSharkStep
  <2>1. /\ pc' = pc /\ args' = args /\ runs' = runs /\ runner' = runner /\ opened' = opened
        /\ judged' = judged
    BY <1>11 DEF TSharkStep, TSharkFails, TSharkExits, TSharkCaptures, CaptureEnds,
                 TSharkReads, OutputWritten, OutputLost, nottshark
  <2>2. tshark # "none"
    BY <1>11 DEF TSharkStep, TSharkFails, TSharkExits, TSharkCaptures, CaptureEnds,
                 TSharkReads, OutputWritten, OutputLost, Prints
  <2>3. tshark' = "running" => Captures(args)
    BY <1>11 DEF TSharkStep, TSharkFails, TSharkExits, TSharkCaptures, CaptureEnds,
                 TSharkReads, OutputWritten, OutputLost, Prints
  <2>4. tshark \in {"starting", "running", "ended"}
    BY <1>11 DEF TSharkStep, TSharkFails, TSharkExits, TSharkCaptures, CaptureEnds,
                 TSharkReads, OutputWritten, OutputLost, Prints
  <2> QED
    BY <1>0, <2>1, <2>2, <2>3, <2>4
<1>12. CASE UNCHANGED vars
  BY <1>0, <1>12 DEF vars
<1> QED
  BY <1>1, <1>2, <1>3, <1>4, <1>5, <1>6, <1>7, <1>8, <1>9, <1>10, <1>11, <1>12
     DEF Next, MainStep

(* What the steps leave of the files, of what TShark printed and of what it*)
(* dissected, and of the command line.                                     *)
LEMMA FilesStep == IInv /\ [Next]_vars => (Files /\ FilesOK)'
<1> SUFFICES ASSUME IInv, [Next]_vars PROVE Files' /\ FilesOK'
  BY DEF Files, FilesOK
<1>0. TypeOK /\ Processes /\ Files /\ Control /\ FilesOK /\ Capturing
  BY TypeParts DEF IInv
<1>a. ASSUME UNCHANGED files, UNCHANGED output, UNCHANGED source, UNCHANGED runs
      PROVE  Files' /\ FilesOK'
  BY <1>0, <1>a DEF Files, FilesOK
<1>1. CASE Start
  <2>1. /\ files' = files /\ output' = {} /\ source' = [run |-> 0, packets |-> << >>]
        /\ runs' = runs + 1 /\ runs \in 0..MaxRuns
    BY <1>0, <1>1 DEF Start, Processes
  <2>2. runs' \in Nat /\ runs \in Nat
    BY <2>1, MaxRunsAssumption
  <2>3. \A name \in DOMAIN files : files[name].run \in 1..runs'
    BY <1>0, <2>1, <2>2 DEF Files
  <2>4. source'.run \in 0..runs'
    BY <2>1, <2>2
  <2> QED
    BY <1>0, <2>1, <2>3, <2>4 DEF Files, FilesOK
<1>2. CASE SpawnTShark \/ RunPlan \/ RunTShark \/ RunPlanReturns \/ Join
  BY <1>2, <1>a DEF SpawnTShark, RunPlan, RunTShark, RunPlanReturns, Join, mainvars, history
<1>3. CASE Generate
  <2>1. runs \in 1..runs
    BY <1>0, <1>3, MaxRunsAssumption DEF Generate, Control
  <2>2. UNCHANGED output /\ UNCHANGED source /\ UNCHANGED runs
    BY <1>3 DEF Generate, mainvars, history
  <2>3. PICK cut, body : files' = Write(Made, File(runs, cut, body))
    BY <1>3 DEF Generate, Made
  <2>4. \A n \in DOMAIN files' : IsFile(files'[n]) /\ files'[n].run \in 1..runs
    BY <1>0, <2>1, <2>3, WriteKeeps
  <2> QED
    BY <1>0, <2>2, <2>4 DEF Files, FilesOK
<1>4. CASE GenerateFails \/ Compare
  BY <1>4, <1>a DEF GenerateFails, Compare, mainvars
<1>5. CASE RemoveIntermediary
  <2>1. UNCHANGED output /\ UNCHANGED source /\ UNCHANGED runs
    BY <1>5 DEF RemoveIntermediary, mainvars, history
  <2>2. PICK names : files' = Without(names)
    BY <1>5 DEF RemoveIntermediary
  <2>3. \A n \in DOMAIN files' : n \in DOMAIN files /\ files'[n] = files[n]
    BY <2>2 DEF Without
  <2> QED
    BY <1>0, <2>1, <2>3 DEF Files, FilesOK
<1>6. CASE Interrupted
  BY <1>0, <1>6 DEF Interrupted, mainvars, history, Files, FilesOK
<1>7. CASE RunnerFails \/ RunnerExits \/ RunnerEnds
  BY <1>7, <1>a DEF RunnerFails, RunnerExits, RunnerEnds, notrunner
<1>8. CASE RunnerOpens
  <2>1. runs \in 1..runs
    BY <1>0, <1>8, MaxRunsAssumption DEF RunnerOpens, Control, Processes
  <2>2. UNCHANGED output /\ UNCHANGED source /\ UNCHANGED runs
    BY <1>8 DEF RunnerOpens, notrunner
  <2>3. CASE Captures(args)
    BY <1>8, <1>a, <2>2, <2>3 DEF RunnerOpens
  <2>4. CASE ~Captures(args)
    <3>1. files' = Write(Pcap, File(runs, FALSE, << >>))
      BY <1>8, <2>4 DEF RunnerOpens, Pcap
    <3>2. \A n \in DOMAIN files' : IsFile(files'[n]) /\ files'[n].run \in 1..runs
      BY <1>0, <2>1, <3>1, WriteKeeps
    <3> QED
      BY <1>0, <2>2, <3>2 DEF Files, FilesOK
  <2> QED
    BY <2>3, <2>4
<1>9. CASE RunnerSends
  <2>1. UNCHANGED output /\ UNCHANGED source /\ UNCHANGED runs
    BY <1>9 DEF RunnerSends, notrunner
  <2>2. CASE Captures(args) /\ tshark # "running"
    BY <1>9, <1>a, <2>1, <2>2 DEF RunnerSends
  <2>3. CASE ~(Captures(args) /\ tshark # "running")
    <3>1. files' = Extend(Pcap, Head(left))
      BY <1>9, <2>3 DEF RunnerSends, Pcap
    <3>2. Pcap \in DOMAIN files
      BY <1>0, <1>9, <2>3 DEF Capturing, RunnerSends, Control, Processes
    <3>3. \A n \in DOMAIN files' : IsFile(files'[n]) /\ files'[n].run \in 1..runs
      BY <1>0, <3>1, <3>2, ExtendFacts, FileFields DEF Files, FilesOK
    <3> QED
      BY <1>0, <2>1, <3>3 DEF Files, FilesOK
  <2> QED
    BY <2>2, <2>3
<1>10. CASE TSharkFails
  BY <1>10, <1>a DEF TSharkFails, nottshark
<1>11. CASE TSharkExits
  <2>1. UNCHANGED files /\ UNCHANGED source /\ UNCHANGED runs
    BY <1>11 DEF TSharkExits, nottshark
  <2>2. \A file \in output' : IsFile(file) /\ file.run = runs
    <3>1. output' = {File(runs, TRUE, << >>)}
      BY <1>11 DEF TSharkExits
    <3>2. IsFile(File(runs, TRUE, << >>)) /\ File(runs, TRUE, << >>).run = runs
      BY DEF File, IsFile
    <3> QED
      BY <3>1, <3>2
  <2> QED
    BY <1>0, <2>1, <2>2 DEF Files, FilesOK
<1>12. CASE TSharkCaptures
  <2>1. runs \in 1..runs
    BY <1>0, <1>12, MaxRunsAssumption DEF TSharkCaptures, Control, Processes
  <2>2. UNCHANGED output /\ UNCHANGED source /\ UNCHANGED runs
    BY <1>12 DEF TSharkCaptures, nottshark
  <2>3. files' = Write(Pcap, File(runs, FALSE, << >>))
    BY <1>12 DEF TSharkCaptures, Pcap
  <2>4. \A n \in DOMAIN files' : IsFile(files'[n]) /\ files'[n].run \in 1..runs
    BY <1>0, <2>1, <2>3, WriteKeeps
  <2> QED
    BY <1>0, <2>2, <2>4 DEF Files, FilesOK
<1>13. CASE CaptureEnds \/ TSharkReads
  <2>1. UNCHANGED files /\ UNCHANGED runs /\ Prints(files[Pcap]) /\ Pcap \in DOMAIN files
    BY <1>0, <1>13 DEF CaptureEnds, TSharkReads, nottshark, Pcap, Parses, Capturing
  <2>2. \A file \in output' : IsFile(file) /\ file.run = runs
    <3>1. PICK body : output' = {File(runs, FALSE, body)}
      BY <2>1 DEF Prints
    <3>2. IsFile(File(runs, FALSE, body)) /\ File(runs, FALSE, body).run = runs
      BY DEF File, IsFile
    <3> QED
      BY <3>1, <3>2
  <2>3. source'.run = files[Pcap].run
    BY <2>1 DEF Prints
  <2>4. source'.run \in 0..runs
    BY <1>0, <2>1, <2>3 DEF Files
  <2> QED
    BY <1>0, <2>1, <2>2, <2>4 DEF Files, FilesOK
<1>14. CASE OutputWritten
  <2>1. runs \in 1..runs
    BY <1>0, <1>14, MaxRunsAssumption DEF OutputWritten, Control, Processes
  <2>2. output' = {} /\ UNCHANGED source /\ UNCHANGED runs
    BY <1>14 DEF OutputWritten, nottshark
  <2>3. PICK file \in output : files' = Write(PDML, file)
    BY <1>14 DEF OutputWritten, PDML
  <2>4. file = File(runs, file.cut, file.body)
    BY <1>0 DEF FilesOK, IsFile
  <2>5. \A n \in DOMAIN files' : IsFile(files'[n]) /\ files'[n].run \in 1..runs
    BY <1>0, <2>1, <2>3, <2>4, WriteKeeps
  <2> QED
    BY <1>0, <2>2, <2>5 DEF Files, FilesOK
<1>15. CASE OutputLost
  BY <1>0, <1>15 DEF OutputLost, nottshark, Files, FilesOK
<1>16. CASE UNCHANGED vars
  BY <1>16, <1>a DEF vars
<1> QED
  BY <1>1, <1>2, <1>3, <1>4, <1>5, <1>6, <1>7, <1>8, <1>9, <1>10, <1>11, <1>12, <1>13, <1>14,
     <1>15, <1>16 DEF Next, MainStep, RunnerStep, TSharkStep

(***************************************************************************)
(* RegressionTest's TypeOK: processes run only while main waits for them   *)
(* or, TShark in its thread, beside it.                                    *)
(***************************************************************************)
LEMMA TypeStep == IInv /\ [Next]_vars => TypeOK'
<1> SUFFICES ASSUME IInv, [Next]_vars PROVE TypeOK'
  OBVIOUS
<1>1. Processes' /\ Files'
  BY ProcessesStep, FilesStep
<1> QED
  BY <1>1 DEF Processes, Files, TypeOK

--------------------------------------------------------------------------------
(* What is sent, and what is captured of it.                               *)

(* A packet that is sent is the next of the traffic. *)
LEMMA SendFacts ==
  ASSUME IInv, RunnerSends
  PROVE  /\ UNCHANGED args /\ opened /\ UNCHANGED opened
         /\ sent' = Append(sent, Head(left)) /\ sent' \in Seq(Packet)
         /\ Len(sent) \in Nat /\ Len(sent') = Len(sent) + 1 /\ Len(sent') <= Len(Traffic(args))
         /\ left' = SubSeq(Traffic(args), Len(sent') + 1, Len(Traffic(args)))
         /\ sent = SubSeq(Traffic(args), 1, Len(sent))
         /\ sent' = SubSeq(Traffic(args), 1, Len(sent'))
         /\ \A i \in 0..Len(sent) :
              Append(SubSeq(Traffic(args), i + 1, Len(sent)), Head(left)) =
                SubSeq(Traffic(args), i + 1, Len(sent'))
<1> DEFINE T == Traffic(args)
           n == Len(sent)
<1>0. args \in Invocation /\ Control /\ Sending
  BY DEF IInv, TypeOK
<1>1. T \in Seq(Packet) /\ Len(T) \in Nat /\ n \in Nat
  BY <1>0, TrafficType, LenProperties DEF Sending
<1>2. /\ left # << >> /\ left' = Tail(left) /\ sent' = Append(sent, Head(left))
      /\ UNCHANGED opened /\ UNCHANGED args /\ opened
  BY <1>0 DEF RunnerSends, notrunner, Control
<1>3. n \in 0..Len(T) /\ left = SubSeq(T, n + 1, Len(T)) /\ sent = SubSeq(T, 1, n)
  BY <1>0, <1>1, <1>2 DEF Sending
<1> HIDE DEF T, n
<1>4. n < Len(T) /\ Head(left) = T[n + 1] /\ Tail(left) = SubSeq(T, n + 2, Len(T))
  BY <1>1, <1>2, <1>3, LeftShrinks
<1>5. \A i \in 0..n : Append(SubSeq(T, i + 1, n), Head(left)) = SubSeq(T, i + 1, n + 1)
  BY <1>1, <1>3, <1>4, StretchGrows
<1>6. sent' = SubSeq(T, 1, n + 1)
  <2>1. 0 \in 0..n /\ 0 + 1 = 1
    BY <1>1
  <2>2. Append(SubSeq(T, 1, n), Head(left)) = SubSeq(T, 1, n + 1)
    BY <1>5, <2>1
  <2> QED
    BY <1>2, <1>3, <2>2
<1>7. Head(left) \in Packet
  BY <1>1, <1>3, <1>4
<1>8. sent' \in Seq(Packet) /\ Len(sent') = n + 1
  BY <1>0, <1>2, <1>7, AppendProperties DEF Sending, n
<1>9. Len(sent') + 1 = n + 2 /\ Len(sent') <= Len(T)
  BY <1>1, <1>3, <1>4, <1>8
<1>10. left' = SubSeq(T, Len(sent') + 1, Len(T))
  BY <1>2, <1>4, <1>9
<1> QED
  BY <1>1, <1>2, <1>3, <1>5, <1>6, <1>8, <1>9, <1>10 DEF T, n

LEMMA SendingStep == IInv /\ [Next]_vars => Sending'
<1> SUFFICES ASSUME IInv, [Next]_vars PROVE Sending'
  OBVIOUS
<1>0. args \in Invocation /\ args' \in Invocation /\ Control /\ Sending
  BY TypeStep DEF IInv, TypeOK
<1> DEFINE T == Traffic(args)
<1>1. T \in Seq(Packet) /\ Len(T) \in Nat /\ Len(sent) \in Nat
  BY <1>0, TrafficType, LenProperties DEF Sending
<1>2. ASSUME sent' = << >> PROVE Len(sent') = 0 /\ sent' \in Seq(Packet)
                                 /\ sent' = SubSeq(Traffic(args'), 1, 0)
                                 /\ 0 <= Len(Traffic(args'))
  <2>1. Traffic(args') \in Seq(Packet)
    BY <1>0, TrafficType
  <2> QED
    BY <1>2, <2>1, SubSeqEmpty, EmptySeq, LenProperties
<1>3. CASE Start
  <2>1. sent' = << >> /\ opened' = FALSE
    BY <1>3 DEF Start
  <2> QED
    BY <1>2, <2>1 DEF Sending
<1>4. CASE RunnerOpens
  <2>1. opened' = TRUE /\ left' = T /\ sent' = sent /\ args' = args
    BY <1>4 DEF RunnerOpens, notrunner
  <2>2. sent = << >>
    BY <1>0, <1>4 DEF RunnerOpens, Control, Sending
  <2>3. T = SubSeq(T, 1, Len(T))
    BY <1>1, SubSeqFull
  <2>4. Len(sent) = 0
    BY <2>2
  <2> HIDE DEF T
  <2>5. left' = SubSeq(T, Len(sent') + 1, Len(T))
    BY <2>1, <2>3, <2>4
  <2> QED
    BY <1>0, <2>1, <2>5 DEF Sending, T
<1>5. CASE RunnerSends
  BY <1>5, SendFacts DEF Sending
<1>6. CASE MainStep \/ Interrupted \/ RunnerFails \/ RunnerExits \/ RunnerEnds \/ TSharkStep
           \/ UNCHANGED vars
  <2>1. UNCHANGED <<args, opened, sent>> /\ UNCHANGED left
    BY <1>6 DEF MainStep, SpawnTShark, RunPlan, RunPlanReturns, RunTShark, Join, Generate,
                GenerateFails, Compare, RemoveIntermediary, Interrupted, mainvars, history,
                RunnerFails, RunnerExits, RunnerEnds, notrunner, TSharkStep, TSharkFails,
                TSharkExits, TSharkCaptures, CaptureEnds, TSharkReads, OutputWritten,
                OutputLost, nottshark, vars
  <2> QED
    BY <1>0, <2>1 DEF Sending
<1> QED
  BY <1>3, <1>4, <1>5, <1>6 DEF Next, RunnerStep

(* Every stretch of this invocation's traffic may be a capture. *)
LEMMA StretchCapturable ==
  ASSUME args \in Invocation, NEW i \in 0..Len(Traffic(args)), NEW j \in 0..Len(Traffic(args))
  PROVE  SubSeq(Traffic(args), i + 1, j) \in Capturable
BY DEF Capturable, Stretches

LEMMA EmptyCapturable == ASSUME args \in Invocation PROVE << >> \in Capturable
<1>1. Len(Traffic(args)) \in Nat
  BY TrafficType, LenProperties
<1>2. SubSeq(Traffic(args), 0 + 1, 0) \in Capturable
  BY <1>1, StretchCapturable
<1>3. SubSeq(Traffic(args), 0 + 1, 0) = << >>
  BY SubSeqEmpty
<1> QED
  BY <1>2, <1>3

(* Writing something that is no capture, or an empty one, keeps captures.  *)
LEMMA StoredWrite ==
  ASSUME Stored, NEW name, NEW file, files' = Write(name, file),
         \/ \A a \in Invocation : pcap_filename(a) # name
         \/ file.body \in Capturable
  PROVE  Stored'
<1> SUFFICES ASSUME NEW a \in Invocation, pcap_filename(a) \in DOMAIN files'
             PROVE  files'[pcap_filename(a)].body \in Capturable
  BY DEF Stored
<1>1. CASE pcap_filename(a) = name
  BY <1>1 DEF Write
<1>2. CASE pcap_filename(a) # name
  BY <1>2 DEF Write, Stored
<1> QED
  BY <1>1, <1>2

LEMMA StoredStep == IInv /\ [Next]_vars => Stored'
<1> SUFFICES ASSUME IInv, [Next]_vars PROVE Stored'
  OBVIOUS
<1>0. args \in Invocation /\ Stored /\ Capturing /\ Control /\ FilesOK /\ Processes
  BY TypeParts DEF IInv, TypeOK
<1>1. CASE Generate
  <2>1. PICK file : files' = Write(Made, file)
    BY <1>1 DEF Generate, Made
  <2>2. \A a \in Invocation : pcap_filename(a) # Made
    BY <1>0, NamesDiffer DEF Made
  <2> QED
    BY <1>0, <2>1, <2>2, StoredWrite
<1>2. CASE OutputWritten
  <2>1. PICK file : files' = Write(PDML, file)
    BY <1>2 DEF OutputWritten, PDML
  <2>2. \A a \in Invocation : pcap_filename(a) # PDML
    BY <1>0, NamesDiffer DEF PDML
  <2> QED
    BY <1>0, <2>1, <2>2, StoredWrite
<1>3. CASE RunnerOpens \/ TSharkCaptures
  <2>1. CASE UNCHANGED files
    BY <1>0, <2>1 DEF Stored
  <2>2. CASE files' # files
    <3>1. files' = Write(Pcap, File(runs, FALSE, << >>))
      BY <1>3, <2>2 DEF RunnerOpens, TSharkCaptures, Pcap
    <3>2. File(runs, FALSE, << >>).body \in Capturable
      BY <1>0, EmptyCapturable DEF File
    <3> QED
      BY <1>0, <3>1, <3>2, StoredWrite
  <2> QED
    BY <2>1, <2>2
<1>4. CASE RunnerSends
  <2>1. CASE Captures(args) /\ tshark # "running"
    BY <1>0, <1>4, <2>1 DEF RunnerSends, Stored
  <2>2. CASE ~(Captures(args) /\ tshark # "running")
    <3>1. files' = Extend(Pcap, Head(left))
      BY <1>4, <2>2 DEF RunnerSends, Pcap
    <3>2. Pcap \in DOMAIN files /\ \E i \in 0..Len(sent) :
            files[Pcap].body = SubSeq(Traffic(args), i + 1, Len(sent))
      <4>1. CASE tshark = "running"
        BY <1>0, <4>1 DEF Capturing
      <4>2. CASE ~Captures(args)
        <5>1. Pcap \in DOMAIN files /\ files[Pcap] = File(runs, FALSE, sent)
          BY <1>0, <1>4, <4>2 DEF RunnerSends, Capturing, Control, Processes
        <5>2. 0 \in 0..Len(sent) /\ 0 + 1 = 1 /\ sent = SubSeq(Traffic(args), 1, Len(sent))
          BY <1>4, SendFacts
        <5>3. files[Pcap].body = SubSeq(Traffic(args), 0 + 1, Len(sent))
          BY <5>1, <5>2 DEF File
        <5> QED
          BY <5>1, <5>2, <5>3
      <4> QED
        BY <2>2, <4>1, <4>2
    <3>3. PICK i \in 0..Len(sent) : files[Pcap].body = SubSeq(Traffic(args), i + 1, Len(sent))
      BY <3>2
    <3>4. files'[Pcap].body = SubSeq(Traffic(args), i + 1, Len(sent'))
      <4>1. files'[Pcap].body = Append(files[Pcap].body, Head(left))
        <5>1. files'[Pcap] = File(files[Pcap].run, files[Pcap].cut,
                                  Append(files[Pcap].body, Head(left)))
          BY <1>0, <3>1, <3>2, ExtendFacts
        <5> QED
          BY <5>1 DEF File
      <4> QED
        BY <1>4, <3>3, <4>1, SendFacts
    <3>5. i \in 0..Len(Traffic(args)) /\ Len(sent') \in 0..Len(Traffic(args))
      <4>1. Len(Traffic(args)) \in Nat
        BY <1>0, TrafficType, LenProperties
      <4> QED
        BY <1>4, <4>1, SendFacts
    <3>6. files'[Pcap].body \in Capturable
      BY <1>0, <3>4, <3>5, StretchCapturable
    <3>7. DOMAIN files' = DOMAIN files /\ \A m \in DOMAIN files : m # Pcap => files'[m] = files[m]
      BY <1>0, <3>1, <3>2, ExtendFacts
    <3> QED
      BY <1>0, <3>6, <3>7 DEF Stored
  <2> QED
    BY <2>1, <2>2
<1>5. CASE RemoveIntermediary
  <2>1. PICK names : files' = Without(names)
    BY <1>5 DEF RemoveIntermediary
  <2>2. \A m \in DOMAIN files' : m \in DOMAIN files /\ files'[m] = files[m]
    BY <2>1 DEF Without
  <2> QED
    BY <1>0, <2>2 DEF Stored
<1>6. CASE \/ Start \/ SpawnTShark \/ RunPlan \/ RunPlanReturns \/ RunTShark \/ Join
           \/ GenerateFails \/ Compare \/ Interrupted \/ RunnerFails \/ RunnerExits \/ RunnerEnds
           \/ TSharkFails \/ TSharkExits \/ CaptureEnds \/ TSharkReads \/ OutputLost
           \/ UNCHANGED vars
  <2>1. UNCHANGED files
    BY <1>6 DEF Start, SpawnTShark, RunPlan, RunPlanReturns, RunTShark, Join, GenerateFails,
                Compare, Interrupted, RunnerFails, RunnerExits, RunnerEnds, TSharkFails,
                TSharkExits, CaptureEnds, TSharkReads, OutputLost, vars
  <2> QED
    BY <1>0, <2>1 DEF Stored
<1> QED
  BY <1>1, <1>2, <1>3, <1>4, <1>5, <1>6 DEF Next, MainStep, RunnerStep, TSharkStep

(* The capture that this invocation needs stays and grows with what is sent. *)
LEMMA CapturingStep == IInv /\ [Next]_vars => Capturing'
<1> SUFFICES ASSUME IInv, [Next]_vars PROVE Capturing'
  OBVIOUS
<1>0. args \in Invocation /\ Capturing /\ Control /\ FilesOK /\ Processes /\ Sending /\ Control'
  BY TypeParts, ControlStep DEF IInv, TypeOK
<1> DEFINE Needed == opened /\ ~Captures(args) /\ pc \in {"runner_wait", "run_tshark", "tshark_wait"}
           Begun  == tshark = "running"
<1>1. CASE Start \/ Interrupted
  <2>1. ~Begun' /\ ~Needed'
    BY <1>1 DEF Start, Interrupted
  <2> QED
    BY <2>1 DEF Capturing
<1>2. CASE SpawnTShark \/ RunPlan \/ RunPlanReturns \/ RunTShark
  <2>1. UNCHANGED <<args, runs, files, opened, sent>> /\ (Begun' => Begun)
    BY <1>0, <1>2
       DEF SpawnTShark, RunPlan, RunPlanReturns, RunTShark, mainvars, history, Processes
  <2>2. Needed' => Needed
    BY <1>0, <1>2, <2>1
       DEF SpawnTShark, RunPlan, RunPlanReturns, RunTShark, Control, AfterTShark
  <2> QED
    BY <1>0, <2>1, <2>2 DEF Capturing, Pcap
<1>3. CASE Join \/ Generate \/ GenerateFails \/ Compare \/ RemoveIntermediary
  <2>1. ~Begun' /\ ~Needed'
    BY <1>0, <1>3 DEF Join, Generate, GenerateFails, Compare, RemoveIntermediary, AfterTShark,
                      Processes
  <2> QED
    BY <2>1 DEF Capturing
<1>4. CASE RunnerOpens
  <2>1. /\ UNCHANGED <<args, pc, runs, tshark, sent>> /\ sent = << >>
    BY <1>0, <1>4 DEF RunnerOpens, notrunner, Control, Sending
  <2>2. CASE Captures(args)
    BY <1>0, <1>4, <2>1, <2>2 DEF RunnerOpens, Capturing, Pcap
  <2>3. CASE ~Captures(args)
    <3>1. files' = Write(Pcap, File(runs, FALSE, << >>)) /\ ~Begun'
      BY <1>0, <1>4, <2>1, <2>3 DEF RunnerOpens, Pcap, Control
    <3>2. Pcap \in DOMAIN files' /\ files'[Pcap] = File(runs, FALSE, sent)
      BY <2>1, <3>1, WriteFacts
    <3> QED
      BY <2>1, <3>1, <3>2 DEF Capturing, Pcap
  <2> QED
    BY <2>2, <2>3
<1>5. CASE RunnerSends
  <2>1. UNCHANGED <<args, pc, runs, tshark, opened>> /\ opened /\ pc = "runner_wait"
    BY <1>0, <1>5 DEF RunnerSends, notrunner, Control, Processes
  <2>2. CASE Captures(args) /\ ~Begun
    BY <1>0, <2>1, <2>2 DEF Capturing, Pcap
  <2>3. CASE ~Captures(args)
    <3>1. files' = Extend(Pcap, Head(left)) /\ Pcap \in DOMAIN files
      BY <1>0, <1>5, <2>1, <2>3 DEF RunnerSends, Pcap, Capturing
    <3>2. files[Pcap] = File(runs, FALSE, sent) /\ ~Begun'
      BY <1>0, <2>1, <2>3 DEF Capturing, Control
    <3>3. files[Pcap].run = runs /\ files[Pcap].cut = FALSE /\ files[Pcap].body = sent
      BY <3>2 DEF File
    <3>4. files'[Pcap] = File(runs, FALSE, Append(sent, Head(left))) /\ Pcap \in DOMAIN files'
      BY <1>0, <3>1, <3>3, ExtendFacts
    <3>5. files'[Pcap] = File(runs, FALSE, sent')
      BY <1>5, <3>4 DEF RunnerSends
    <3> QED
      BY <2>1, <3>2, <3>4, <3>5 DEF Capturing, Pcap
  <2>4. CASE Captures(args) /\ Begun
    <3>1. files' = Extend(Pcap, Head(left)) /\ Pcap \in DOMAIN files
      BY <1>0, <1>5, <2>1, <2>4 DEF RunnerSends, Pcap, Capturing
    <3>2. PICK i \in 0..Len(sent) : files[Pcap].body = SubSeq(Traffic(args), i + 1, Len(sent))
      BY <1>0, <2>4 DEF Capturing
    <3>3. files[Pcap].run = runs /\ ~files[Pcap].cut
      BY <1>0, <2>4 DEF Capturing
    <3>4. /\ Pcap \in DOMAIN files'
          /\ files'[Pcap] = File(files[Pcap].run, files[Pcap].cut,
                                 Append(files[Pcap].body, Head(left)))
      BY <1>0, <3>1, ExtendFacts
    <3>5. files'[Pcap].run = runs /\ ~files'[Pcap].cut
      BY <3>3, <3>4 DEF File
    <3>6. files'[Pcap].body = Append(files[Pcap].body, Head(left))
      BY <3>4 DEF File
    <3>7. files'[Pcap].body = SubSeq(Traffic(args), i + 1, Len(sent'))
      BY <1>5, <3>2, <3>6, SendFacts
    <3>8. i \in 0..Len(sent')
      BY <1>5, SendFacts
    <3>9. UNCHANGED Pcap
      BY <2>1 DEF Pcap
    <3> QED
      BY <2>1, <2>4, <3>4, <3>5, <3>7, <3>8, <3>9 DEF Capturing
  <2> QED
    BY <2>2, <2>3, <2>4
<1>6. CASE TSharkCaptures
  <2>1. UNCHANGED <<args, pc, runs, opened, sent>> /\ Captures(args)
    BY <1>6 DEF TSharkCaptures, nottshark
  <2>2. files' = Write(Pcap, File(runs, FALSE, << >>))
    BY <1>6 DEF TSharkCaptures, Pcap
  <2>3. Pcap \in DOMAIN files' /\ files'[Pcap] = File(runs, FALSE, << >>)
    BY <2>2, WriteFacts
  <2>4. files'[Pcap].run = runs /\ files'[Pcap].cut = FALSE /\ files'[Pcap].body = << >>
    BY <2>3 DEF File
  <2>5. Len(sent) \in 0..Len(sent) /\ << >> = SubSeq(Traffic(args), Len(sent) + 1, Len(sent))
    <3>1. Len(sent) \in Nat
      BY <1>0, LenProperties DEF Sending
    <3> QED
      BY <3>1, SubSeqEmpty
  <2> QED
    BY <2>1, <2>3, <2>4, <2>5 DEF Capturing, Pcap
<1>7. CASE OutputWritten
  <2>1. UNCHANGED <<args, pc, runs, opened, sent>> /\ ~Begun' /\ \E file : files' = Write(PDML, file)
    BY <1>7 DEF OutputWritten, nottshark, PDML
  <2>2. PICK file : files' = Write(PDML, file)
    BY <2>1
  <2>3. Pcap # PDML
    BY <1>0, NamesDiffer DEF Pcap, PDML
  <2>4. Pcap \in DOMAIN files => Pcap \in DOMAIN files' /\ files'[Pcap] = files[Pcap]
    BY <2>2, <2>3 DEF Write
  <2> QED
    BY <1>0, <2>1, <2>4 DEF Capturing, Pcap
<1>8. CASE \/ RunnerFails \/ RunnerExits \/ RunnerEnds \/ TSharkFails \/ TSharkExits
           \/ CaptureEnds \/ TSharkReads \/ OutputLost \/ UNCHANGED vars
  <2>1. UNCHANGED <<args, pc, runs, opened, sent, files>> /\ (Begun' => Begun)
    BY <1>8 DEF RunnerFails, RunnerExits, RunnerEnds, notrunner, TSharkFails, TSharkExits,
                CaptureEnds, TSharkReads, OutputLost, Prints, nottshark, vars
  <2> QED
    BY <1>0, <2>1 DEF Capturing, Pcap
<1> QED
  BY <1>1, <1>2, <1>3, <1>4, <1>5, <1>6, <1>7, <1>8 DEF Next, MainStep, RunnerStep, TSharkStep

--------------------------------------------------------------------------------
(* From what TShark has dissected to the verdict.                          *)

(* What has been dissected stays so while main and TShark go on. *)
LEMMA OwnStays ==
  ASSUME Own, Capturable' = Capturable,
         UNCHANGED <<args, runs, source, opened, sent>>
  PROVE  Own'
BY DEF Own

(* It does while the runner sends, if TShark is captured beside it. *)
LEMMA OwnWhileSending ==
  ASSUME IInv, Own, RunnerSends \/ RunnerOpens, Captures(args)
  PROVE  Own'
<1>1. UNCHANGED <<args, runs, source>>
  BY DEF RunnerSends, RunnerOpens, notrunner
<1>2. Len(sent) \in Nat /\ Len(sent') \in Nat /\ Len(sent) <= Len(sent')
  <2>1. CASE RunnerSends
    BY <2>1, SendFacts
  <2>2. CASE RunnerOpens
    BY <2>2, LenProperties DEF RunnerOpens, IInv, Sending
  <2> QED
    BY <2>1, <2>2
<1>3. PICK i \in 0..Len(sent), j \in 0..Len(sent) :
        source.packets = SubSeq(Traffic(args), i + 1, j)
  BY DEF Own
<1>4. i \in 0..Len(sent') /\ j \in 0..Len(sent')
  BY <1>2
<1> QED
  BY <1>1, <1>3, <1>4 DEF Own

(* What TShark prints is what it has dissected. *)
LEMMA OwnDissected ==
  ASSUME IInv, CaptureEnds \/ TSharkReads
  PROVE  Own' /\ \A file \in output' : ~file.cut /\ file.body = Shown(source'.packets, TRUE)
<1>0. args \in Invocation /\ Capturing /\ Control /\ Stored /\ FilesOK /\ Processes
  BY TypeParts DEF IInv, TypeOK
<1>1. UNCHANGED <<args, runs, opened, sent, pc>> /\ Prints(files[Pcap]) /\ Pcap \in DOMAIN files
  BY <1>0 DEF CaptureEnds, TSharkReads, nottshark, Pcap, Parses, Capturing
<1>2. source' = [run |-> files[Pcap].run, packets |-> files[Pcap].body]
  BY <1>1 DEF Prints
<1>3. source'.packets \in Capturable
  BY <1>0, <1>1, <1>2 DEF Stored, Pcap
<1>4. ASSUME Captures(args) PROVE Own'
  <2>1. tshark = "running"
    BY <1>4 DEF CaptureEnds, TSharkReads
  <2>2. files[Pcap].run = runs
    BY <1>0, <2>1 DEF Capturing
  <2>3. PICK i \in 0..Len(sent) : files[Pcap].body = SubSeq(Traffic(args), i + 1, Len(sent))
    BY <1>0, <2>1 DEF Capturing
  <2>4. Len(sent) \in 0..Len(sent)
    BY LenProperties DEF IInv, Sending
  <2>5. Captures(args')
    BY <1>1, <1>4
  <2> QED
    BY <1>1, <1>2, <1>3, <2>2, <2>3, <2>4, <2>5 DEF Own
<1>5. ASSUME ~Captures(args) PROVE Own'
  <2>1. tshark = "starting"
    BY <1>0, <1>5 DEF CaptureEnds, TSharkReads, Control
  <2>2. pc = "tshark_wait"
    BY <1>0, <1>5, <2>1 DEF Processes
  <2>3. opened => files[Pcap] = File(runs, FALSE, sent)
    BY <1>0, <1>5, <2>2 DEF Capturing
  <2>4. opened => source' = [run |-> runs, packets |-> sent]
    BY <1>2, <2>3 DEF File
  <2>5. ~Captures(args')
    BY <1>1, <1>5
  <2> QED
    BY <1>1, <1>3, <2>4, <2>5 DEF Own
<1>6. \A file \in output' : ~file.cut /\ file.body = Shown(source'.packets, TRUE)
  <2>1. "show_empty" \in Passed
    <3>1. 4 \in 1..nprefs /\ Preferences[4] = "sci_notation" /\ 5 \in 1..nprefs /\ Preferences[5] = "show_empty"
      BY DEF nprefs, Preferences
    <3> QED
      BY <3>1 DEF Passed
  <2>2. ("show_empty" \in Passed) = TRUE
    BY <2>1
  <2>3. output' = {File(runs, FALSE, Shown(files[Pcap].body, TRUE))}
    BY <1>1, <2>2 DEF Prints
  <2>4. source'.packets = files[Pcap].body
    BY <1>2
  <2>5. /\ File(runs, FALSE, Shown(files[Pcap].body, TRUE)).cut = FALSE
        /\ File(runs, FALSE, Shown(files[Pcap].body, TRUE)).body = Shown(files[Pcap].body, TRUE)
    BY DEF File
  <2> QED
    BY <2>3, <2>4, <2>5
<1> QED
  BY <1>4, <1>5, <1>6

LEMMA ChainStep == IInv /\ [Next]_vars => Chain'
<1> SUFFICES ASSUME IInv, [Next]_vars PROVE Chain'
  OBVIOUS
<1>0. args \in Invocation /\ Capturing /\ Control /\ Processes /\ Chain
  BY TypeParts DEF IInv, TypeOK
<1>c. Capturable' = Capturable
  BY DEF Capturable, Stretches, Traffic
<1>1. CASE Start
  <2>1. output' = {} /\ tshark' = "none" /\ pc' = FirstStage(args')
    BY <1>1 DEF Start
  <2>2. args'.tmpl => pc' \in {"spawn", "run_plan", "run_tshark"}
    BY <2>1 DEF FirstStage
  <2> QED
    BY <2>1, <2>2 DEF Chain
<1>2. CASE Interrupted
  BY <1>2 DEF Interrupted, Chain
<1>3. CASE SpawnTShark \/ RunTShark
  <2>1. output' = {} /\ tshark' = "starting" /\ pc' \in {"run_plan", "tshark_wait"}
    BY <1>0, <1>3 DEF SpawnTShark, RunTShark, Processes
  <2> QED
    BY <2>1 DEF Chain
<1>4. CASE RunPlan
  <2>1. /\ pc = "run_plan" /\ pc' = "runner_wait"
        /\ UNCHANGED <<args, runs, source, opened, sent, files, output, tshark>>
    BY <1>4 DEF RunPlan, mainvars, history
  <2>2. Own => Own'
    BY <1>c, <2>1, OwnStays
  <2> QED
    BY <1>0, <2>1, <2>2 DEF Chain, Shows, PDML
<1>5. CASE RunPlanReturns
  <2>1. /\ pc = "runner_wait" /\ judged = FALSE /\ args.tmpl
        /\ UNCHANGED <<args, runs, source, opened, sent, files, output, tshark, judged>>
    BY <1>0, <1>5 DEF RunPlanReturns, mainvars, history, Control, Processes
  <2>2. Own => Own'
    BY <1>c, <2>1, OwnStays
  <2>3. \/ pc' = "join"
        \/ pc' = "run_tshark" /\ tshark = "none"
        \/ pc' = "remove" /\ ~goodp'
    BY <1>0, <1>5 DEF RunPlanReturns, AfterTShark, Control
  <2> QED
    BY <1>0, <2>1, <2>2, <2>3 DEF Chain, Shows, PDML
<1>6. CASE Join
  <2>1. /\ pc \in {"join", "tshark_wait"} /\ judged = FALSE /\ args.tmpl
        /\ UNCHANGED <<args, runs, source, opened, sent, files, output, tshark, judged>>
    BY <1>0, <1>6 DEF Join, mainvars, history, Control, Processes
  <2>2. Own => Own'
    BY <1>c, <2>1, OwnStays
  <2>3. \/ pc' = "generate" /\ goodp' /\ tshark = "done"
        \/ pc' = "remove" /\ ~goodp'
    BY <1>0, <1>6, <2>1 DEF Join, AfterTShark, PdmlNamed, Processes
  <2> QED
    BY <1>0, <2>1, <2>2, <2>3 DEF Chain, Shows, PDML
<1>7. CASE Generate
  <2>1. /\ pc = "generate" /\ judged = FALSE /\ output = {}
        /\ UNCHANGED <<args, runs, source, opened, sent, output, tshark, judged>>
    BY <1>0, <1>7 DEF Generate, mainvars, history, Control, Processes
  <2>2. Own => Own'
    BY <1>c, <2>1, OwnStays
  <2>3. pc' \in {"compare", "remove"} /\ (pc' = "compare" => goodp') /\ goodp' = Parses(PDML)
    BY <1>7 DEF Generate, PDML
  <2>4. ASSUME args.tmpl, goodp'
        PROVE  /\ Own'
               /\ Made \in DOMAIN files' /\ ~files'[Made].cut
               /\ files'[Made].body = ReadBack(Shown(source.packets, TRUE))
    <3>1. ~files[PDML].cut
      BY <2>3, <2>4 DEF Parses
    <3>2. Own /\ files[PDML].body = Shown(source.packets, TRUE)
      BY <1>0, <2>1, <2>4, <3>1 DEF Chain, Shows
    <3>3. files' = Write(Made, File(runs, FALSE, ReadBack(files[PDML].body)))
      BY <1>7, <2>4 DEF Generate, Made, PDML
    <3>4. Made \in DOMAIN files' /\ files'[Made] = File(runs, FALSE, ReadBack(files[PDML].body))
      BY <3>3, WriteFacts
    <3>5. files'[Made].cut = FALSE /\ files'[Made].body = ReadBack(files[PDML].body)
      BY <3>4 DEF File
    <3> QED
      BY <2>2, <3>2, <3>4, <3>5
  <2> QED
    BY <2>1, <2>3, <2>4 DEF Chain, Made
<1>8. CASE GenerateFails
  <2>1. /\ pc' = "remove" /\ goodp' = FALSE /\ judged' = FALSE /\ output' = {}
    BY <1>0, <1>8 DEF GenerateFails, Control, Processes
  <2> QED
    BY <2>1 DEF Chain
<1>9. CASE Compare
  <2>1. /\ pc = "compare" /\ pc' = "remove" /\ output = {}
        /\ UNCHANGED <<args, runs, source, opened, sent, files, output, tshark>>
    BY <1>0, <1>9 DEF Compare, mainvars, Processes
  <2>2. Own => Own'
    BY <1>c, <2>1, OwnStays
  <2> DEFINE enodes == IF args.expect \in DOMAIN PlanFile THEN <<PlanFile[args.expect]>> ELSE << >>
             found  == ReadBack(Shown(source.packets, TRUE))
  <2>3. ASSUME args.tmpl PROVE Own' /\ (goodp' <=> Equivalent(<<found>>, enodes))
    <3>1. Own /\ Parses(Made) /\ files[Made].body = found
      BY <1>0, <2>1, <2>3 DEF Chain, Parses
    <3>2. goodp' = IF Equivalent(<<found>>, enodes) THEN TRUE ELSE FALSE
      BY <1>9, <3>1 DEF Compare, Made
    <3> HIDE DEF found, enodes
    <3> QED
      BY <2>2, <3>1, <3>2
  <2> QED
    BY <2>1, <2>3 DEF Chain
<1>10. CASE RemoveIntermediary
  <2>1. /\ pc = "remove" /\ pc' = "exit" /\ output = {}
        /\ UNCHANGED <<args, runs, source, opened, sent, output, tshark, judged, goodp>>
    BY <1>0, <1>10 DEF RemoveIntermediary, mainvars, history, Processes
  <2>2. Own => Own'
    BY <1>c, <2>1, OwnStays
  <2> QED
    BY <1>0, <2>1, <2>2 DEF Chain
<1>11. CASE RunnerStep
  <2>1. /\ pc = "runner_wait"
        /\ UNCHANGED <<args, pc, goodp, runs, tshark, output, source, judged>>
    BY <1>0, <1>11 DEF RunnerStep, RunnerFails, RunnerExits, RunnerOpens, RunnerSends, RunnerEnds,
                       notrunner, Processes
  <2>2. CASE ~Captures(args)
    <3>1. tshark = "none" /\ output = {}
      BY <1>0, <2>1, <2>2 DEF Control, Processes
    <3> QED
      BY <2>1, <3>1 DEF Chain
  <2>3. CASE Captures(args)
    <3>1. Own => Own'
      <4>1. CASE RunnerSends \/ RunnerOpens
        BY <2>3, <4>1, OwnWhileSending
      <4>2. CASE RunnerFails \/ RunnerExits \/ RunnerEnds
        BY <1>c, <2>1, <4>2, OwnStays DEF RunnerFails, RunnerExits, RunnerEnds
      <4> QED
        BY <1>11, <4>1, <4>2 DEF RunnerStep
    <3>2. PDML \in DOMAIN files => PDML \in DOMAIN files' /\ files'[PDML] = files[PDML]
      <4>1. CASE files' = files
        BY <4>1
      <4>2. CASE files' # files
        <5>1. RunnerSends /\ tshark = "running" /\ files' = Extend(Pcap, Head(left))
          BY <1>11, <2>3, <4>2 DEF RunnerStep, RunnerFails, RunnerExits, RunnerOpens, RunnerSends,
                                   RunnerEnds, Pcap
        <5>2. Pcap \in DOMAIN files /\ FilesOK
          BY <1>0, <5>1 DEF Capturing, IInv
        <5>3. PDML # Pcap
          BY <1>0, NamesDiffer DEF PDML, Pcap
        <5> QED
          BY <5>1, <5>2, <5>3, ExtendFacts
      <4> QED
        BY <4>1, <4>2
    <3>3. UNCHANGED PDML
      BY <2>1 DEF PDML
    <3> QED
      BY <1>0, <2>1, <3>1, <3>2, <3>3 DEF Chain, Shows
  <2> QED
    BY <2>2, <2>3
<1>12. CASE TSharkStep
  <2>1. /\ pc \in {"tshark_wait", "run_plan", "runner_wait", "join"}
        /\ UNCHANGED <<args, pc, goodp, runs, opened, sent, judged>>
    BY <1>0, <1>12 DEF TSharkStep, TSharkFails, TSharkExits, TSharkCaptures, CaptureEnds,
                       TSharkReads, OutputWritten, OutputLost, nottshark, Processes
  <2>2. CASE TSharkFails \/ TSharkCaptures \/ OutputLost
    <3>1. output' = {} /\ tshark' # "done"
      BY <1>0, <2>2 DEF TSharkFails, TSharkCaptures, OutputLost, Processes
    <3> QED
      BY <2>1, <3>1 DEF Chain
  <2>3. CASE TSharkExits
    <3>1. output' = {File(runs, TRUE, << >>)} /\ tshark' = "ended"
      BY <2>3 DEF TSharkExits
    <3>2. \A file \in output' : file.cut
      BY <3>1 DEF File
    <3> QED
      BY <2>1, <3>1, <3>2 DEF Chain, Shows
  <2>4. CASE CaptureEnds \/ TSharkReads
    <3>1. tshark' = "ended"
      BY <2>4 DEF CaptureEnds, TSharkReads, Prints
    <3> QED
      BY <2>1, <2>4, <3>1, OwnDissected DEF Chain, Shows
  <2>5. CASE OutputWritten
    <3>1. output' = {} /\ UNCHANGED source
      BY <2>5 DEF OutputWritten
    <3>2. PICK file \in output : files' = Write(PDML, file)
      BY <2>5 DEF OutputWritten, PDML
    <3>3. PDML \in DOMAIN files' /\ files'[PDML] = file
      BY <3>2, WriteFacts
    <3>4. Own => Own'
      BY <1>c, <2>1, <3>1, OwnStays
    <3>5. Shows(file)
      BY <1>0 DEF Chain
    <3>6. UNCHANGED PDML
      BY <2>1 DEF PDML
    <3> QED
      BY <2>1, <3>1, <3>3, <3>4, <3>5, <3>6 DEF Chain, Shows
  <2> QED
    BY <1>12, <2>2, <2>3, <2>4, <2>5 DEF TSharkStep
<1>13. CASE UNCHANGED vars
  <2>1. UNCHANGED <<args, pc, goodp, runs, source, opened, sent, files, output, tshark, judged>>
    BY <1>13 DEF vars
  <2>2. Own => Own'
    BY <1>c, <2>1, OwnStays
  <2> QED
    BY <1>0, <2>1, <2>2 DEF Chain, Shows, PDML, Made
<1> QED
  BY <1>1, <1>2, <1>3, <1>4, <1>5, <1>6, <1>7, <1>8, <1>9, <1>10, <1>11, <1>12, <1>13
     DEF Next, MainStep

--------------------------------------------------------------------------------
(* The files of an invocation are taken away.                              *)

(* What is written is a file that main will take away. *)
LEMMA MineWrite ==
  ASSUME Mine, pc \notin {"idle", "exit"}, UNCHANGED <<args, runs>>, planp => planp',
         NEW name, NEW file, files' = Write(name, file),
         (args.tmpl /\ name \in {Pcap, PDML}) \/ (planp' /\ name = Made)
  PROVE  Mine'
<1>1. UNCHANGED <<Pcap, PDML, Made>>
  BY DEF Pcap, PDML, Made
<1> SUFFICES ASSUME NEW n \in DOMAIN files', files'[n].run = runs
             PROVE  (args.tmpl /\ n \in {Pcap, PDML}) \/ (planp' /\ n = Made)
  BY <1>1 DEF Mine
<1>2. CASE n = name
  BY <1>2
<1>3. CASE n # name
  <2>1. n \in DOMAIN files /\ files'[n] = files[n]
    BY <1>3 DEF Write
  <2> QED
    BY <2>1 DEF Mine
<1> QED
  BY <1>2, <1>3

LEMMA MineStep == IInv /\ [Next]_vars => Mine'
<1> SUFFICES ASSUME IInv, [Next]_vars PROVE Mine'
  OBVIOUS
<1>0. args \in Invocation /\ Capturing /\ Control /\ Processes /\ Mine /\ Files /\ FilesOK
  BY TypeParts DEF IInv, TypeOK
<1>1. CASE Start
  <2>1. runs' = runs + 1 /\ runs \in 0..MaxRuns /\ files' = files
    BY <1>0, <1>1 DEF Start, Processes
  <2>2. \A name \in DOMAIN files : files[name].run # runs + 1
    BY <1>0, <2>1, MaxRunsAssumption DEF Files
  <2> QED
    BY <2>1, <2>2 DEF Mine
<1>2. CASE Interrupted \/ RemoveIntermediary
  BY <1>2 DEF Interrupted, RemoveIntermediary, Mine
<1>3. CASE \/ SpawnTShark \/ RunPlan \/ RunPlanReturns \/ RunTShark \/ Join \/ GenerateFails
           \/ Compare \/ RunnerFails \/ RunnerExits \/ RunnerEnds \/ TSharkFails \/ TSharkExits
           \/ CaptureEnds \/ TSharkReads \/ OutputLost \/ UNCHANGED vars
  <2>1. UNCHANGED <<args, runs, files>>
    BY <1>3 DEF SpawnTShark, RunPlan, RunPlanReturns, RunTShark, Join, GenerateFails, Compare,
                mainvars, RunnerFails, RunnerExits, RunnerEnds, notrunner, TSharkFails,
                TSharkExits, CaptureEnds, TSharkReads, OutputLost, nottshark, vars
  <2>2. planp => planp'
    BY <1>3 DEF SpawnTShark, RunPlan, RunPlanReturns, RunTShark, Join, GenerateFails, Compare,
                RunnerFails, RunnerExits, RunnerEnds, notrunner, TSharkFails,
                TSharkExits, CaptureEnds, TSharkReads, OutputLost, nottshark, vars
  <2>3. pc' \notin {"idle", "exit"} => pc \notin {"idle", "exit"}
    BY <1>3 DEF SpawnTShark, RunPlan, RunPlanReturns, RunTShark, Join, GenerateFails, Compare,
                RunnerFails, RunnerExits, RunnerEnds, notrunner, TSharkFails,
                TSharkExits, CaptureEnds, TSharkReads, OutputLost, nottshark, vars
  <2> QED
    BY <1>0, <2>1, <2>2, <2>3 DEF Mine, Pcap, PDML, Made
<1>4. CASE Generate
  <2>1. PICK file : files' = Write(Made, file)
    BY <1>4 DEF Generate, Made
  <2>2. pc \notin {"idle", "exit"} /\ UNCHANGED <<args, runs>> /\ planp' = TRUE
    BY <1>4 DEF Generate, mainvars
  <2> QED
    BY <1>0, <2>1, <2>2, MineWrite
<1>5. CASE RunnerOpens \/ TSharkCaptures \/ OutputWritten
  <2>1. /\ pc \notin {"idle", "exit"} /\ args.tmpl
        /\ UNCHANGED <<args, runs, pc, planp>>
    BY <1>0, <1>5 DEF RunnerOpens, TSharkCaptures, OutputWritten, notrunner, nottshark, Control,
                      Processes
  <2>2. CASE files' = files
    BY <1>0, <2>1, <2>2 DEF Mine, Pcap, PDML, Made
  <2>3. CASE files' # files
    <3>1. PICK name \in {Pcap, PDML} : \E file : files' = Write(name, file)
      BY <1>5, <2>3 DEF RunnerOpens, TSharkCaptures, OutputWritten, Pcap, PDML
    <3>2. PICK file : files' = Write(name, file)
      BY <3>1
    <3> QED
      BY <1>0, <2>1, <3>2, MineWrite
  <2> QED
    BY <2>2, <2>3
<1>6. CASE RunnerSends
  <2>1. UNCHANGED <<args, runs, pc, planp>> /\ pc = "runner_wait"
    BY <1>0, <1>6 DEF RunnerSends, notrunner, Processes
  <2>2. DOMAIN files' = DOMAIN files /\ \A n \in DOMAIN files : files'[n].run = files[n].run
    <3>1. CASE files' = files
      BY <3>1
    <3>2. CASE files' # files
      <4>1. files' = Extend(Pcap, Head(left)) /\ Pcap \in DOMAIN files
        BY <1>0, <1>6, <2>1, <3>2 DEF RunnerSends, Pcap, Capturing, Control
      <4>2. /\ files'[Pcap] = File(files[Pcap].run, files[Pcap].cut,
                                   Append(files[Pcap].body, Head(left)))
            /\ DOMAIN files' = DOMAIN files
            /\ \A n \in DOMAIN files : n # Pcap => files'[n] = files[n]
        BY <1>0, <4>1, ExtendFacts
      <4>3. files'[Pcap].run = files[Pcap].run
        BY <4>2 DEF File
      <4> QED
        BY <4>2, <4>3
    <3> QED
      BY <3>1, <3>2
  <2> QED
    BY <1>0, <2>1, <2>2 DEF Mine, Pcap, PDML, Made
<1> QED
  BY <1>1, <1>2, <1>3, <1>4, <1>5, <1>6 DEF Next, MainStep, RunnerStep, TSharkStep

LEMMA NothingLeftStep == IInv /\ [Next]_vars => NothingLeft'
<1> SUFFICES ASSUME IInv, [Next]_vars PROVE NothingLeft'
  OBVIOUS
<1>0. Processes /\ Mine /\ NothingLeft
  BY TypeParts DEF IInv
<1>1. CASE RemoveIntermediary
  <2> SUFFICES ASSUME NEW name \in DOMAIN files', files'[name].run = runs
               PROVE  \/ args.pcap /\ name = Pcap
                      \/ args.pdml /\ name = PDML
                      \/ args.plan /\ name = Made
    BY <1>1 DEF NothingLeft, RemoveIntermediary, mainvars, Pcap, PDML, Made
  <2>1. /\ name \in DOMAIN files /\ files'[name] = files[name]
        /\ ~(args.tmpl /\ ~args.pcap /\ name = Pcap)
        /\ ~(args.tmpl /\ ~args.pdml /\ name = PDML)
        /\ ~(planp /\ ~args.plan /\ name = Made)
    BY <1>1 DEF RemoveIntermediary, Without, Pcap, PDML, Made
  <2>2. \/ args.tmpl /\ name \in {Pcap, PDML}
        \/ planp /\ name = Made
    BY <1>0, <1>1, <2>1 DEF Mine, RemoveIntermediary
  <2> QED
    BY <2>1, <2>2
<1>2. CASE Start \/ Interrupted \/ (MainStep /\ ~RemoveIntermediary)
  <2>1. pc' # "exit"
    BY <1>2 DEF Start, FirstStage, AfterTShark, Interrupted, MainStep, SpawnTShark, RunPlan,
                RunPlanReturns, RunTShark, Join, Generate, GenerateFails, Compare
  <2> QED
    BY <2>1 DEF NothingLeft
<1>3. CASE RunnerStep \/ TSharkStep
  <2>1. pc # "exit" /\ pc' = pc
    BY <1>0, <1>3
       DEF Processes, RunnerStep, RunnerFails, RunnerExits, RunnerOpens, RunnerSends, RunnerEnds,
           notrunner, TSharkStep, TSharkFails, TSharkExits, TSharkCaptures, CaptureEnds,
           TSharkReads, OutputWritten, OutputLost, nottshark
  <2> QED
    BY <2>1 DEF NothingLeft
<1>4. CASE UNCHANGED vars
  BY <1>0, <1>4 DEF vars, NothingLeft
<1> QED
  BY <1>1, <1>2, <1>3, <1>4 DEF Next

--------------------------------------------------------------------------------
(* Without trouble a test gets to its verdict.                             *)

LEMMA SmoothStep == IInv /\ [Next]_vars => Smooth'
<1> SUFFICES ASSUME IInv, [Next]_vars, (Passed \subseteq Registered)', trouble' # TRUE
             PROVE  Untroubled'
  BY DEF Smooth
<1>0. args \in Invocation /\ Control /\ Processes /\ Chain /\ Passed \subseteq Registered
  BY TypeParts DEF IInv, TypeOK, Passed, Preferences, nprefs
<1>1. CASE Start
  <2>1. runner' = "none" /\ tshark' = "none" /\ opened' = FALSE /\ goodp' = TRUE
    BY <1>1 DEF Start
  <2> QED
    BY <2>1 DEF Untroubled
<1>s. ASSUME ~Start PROVE trouble = FALSE
  BY <1>0, <1>s DEF Processes, Next, MainStep, SpawnTShark, RunPlan, RunPlanReturns, RunTShark,
                Join, Generate, GenerateFails, Compare, RemoveIntermediary, Interrupted, history,
                RunnerStep, RunnerFails, RunnerExits, RunnerOpens, RunnerSends, RunnerEnds,
                TSharkStep, TSharkFails, TSharkExits, TSharkCaptures, CaptureEnds, TSharkReads,
                OutputWritten, OutputLost, Trouble, vars
<1>h. ASSUME ~Start
      PROVE  Untroubled
  BY <1>0, <1>h, <1>s DEF IInv, Smooth
<1>2. CASE Interrupted
  BY <1>0, <1>2 DEF Interrupted, Untroubled, Unhindered
<1>3. CASE SpawnTShark \/ RunPlan
  <2>1. opened' = FALSE
    BY <1>0, <1>3 DEF SpawnTShark, RunPlan, history, Control, Processes
  <2>2. /\ ~Start /\ pc \in {"spawn", "run_plan"} /\ goodp' = goodp
        /\ runner' \in {runner, "starting"} /\ tshark' \in {tshark, "starting"}
    BY <1>3 DEF SpawnTShark, RunPlan, Start
  <2> QED
    BY <1>h, <2>1, <2>2 DEF Untroubled
<1>4. CASE RunPlanReturns
  <2>0. ~Start
    BY <1>4 DEF RunPlanReturns, Start
  <2>1. /\ runner = "done" /\ goodp' = TRUE
        /\ pc' \in {"join", "run_tshark"} /\ (pc' = "join" <=> Captures(args))
        /\ UNCHANGED <<args, runner, tshark, opened, files, output>>
    BY <1>h, <1>4, <2>0 DEF RunPlanReturns, mainvars, history, Untroubled
  <2>2. ~Captures(args) => tshark = "none" /\ output = {}
    BY <1>0, <1>4 DEF RunPlanReturns, Control, Processes
  <2> QED
    BY <1>h, <2>0, <2>1, <2>2 DEF Untroubled, Unhindered
<1>5. CASE RunTShark
  <2>1. output' = {} /\ tshark' = "starting" /\ pc' = "tshark_wait"
        /\ UNCHANGED <<args, runner, goodp>>
    BY <1>0, <1>5 DEF RunTShark, mainvars, Processes
  <2> QED
    BY <1>5, <1>h, <2>1 DEF Untroubled, Unhindered, Start, RunTShark
<1>6. CASE Join
  <2>0. ~Start
    BY <1>6 DEF Join, Start
  <2>1. /\ tshark = "done" /\ goodp' = TRUE /\ pc' = "generate" /\ output = {}
        /\ UNCHANGED <<args, runner, tshark, opened, files, output>>
    BY <1>0, <1>h, <1>6, <2>0
       DEF Join, mainvars, history, AfterTShark, PdmlNamed, Control, Processes, Untroubled
  <2>2. ~Captures(args) => pc = "tshark_wait"
    BY <1>0, <1>6 DEF Join, Control
  <2> QED
    BY <1>h, <2>0, <2>1, <2>2 DEF Untroubled, Unhindered, PDML
<1>7. CASE Generate
  <2>0. ~Start
    BY <1>7 DEF Generate, Start
  <2>1. /\ pc = "generate" /\ pc' \in {"compare", "remove"} /\ output = {}
        /\ UNCHANGED <<args, runner, tshark, opened, output>> /\ goodp' = Parses(PDML)
    BY <1>0, <1>7 DEF Generate, mainvars, history, Processes, PDML
  <2>2. (opened /\ args.tmpl /\ ~Captures(args)) => goodp'
    BY <1>0, <1>h, <2>0, <2>1 DEF Untroubled, Unhindered, Parses, Chain
  <2> QED
    BY <1>h, <2>0, <2>1, <2>2 DEF Untroubled, Unhindered
<1>8. CASE GenerateFails
  BY <1>8 DEF GenerateFails
<1>9. CASE Compare
  <2>1. judged' = TRUE /\ pc' = "remove" /\ output' = {} /\ UNCHANGED <<runner, tshark>>
    BY <1>0, <1>9 DEF Compare, Processes
  <2> QED
    BY <1>9, <1>h, <2>1 DEF Untroubled, Unhindered, Start, Compare
<1>10. CASE RemoveIntermediary
  <2>1. /\ pc = "remove" /\ pc' = "exit" /\ output' = {}
        /\ UNCHANGED <<args, runner, tshark, opened, judged, goodp>>
    BY <1>0, <1>10 DEF RemoveIntermediary, mainvars, history, Processes
  <2> QED
    BY <1>10, <1>h, <2>1 DEF Untroubled, Unhindered, Start, RemoveIntermediary
<1>11. CASE RunnerFails \/ RunnerExits
  BY <1>11 DEF RunnerFails, RunnerExits, Trouble
<1>12. CASE RunnerOpens \/ RunnerSends \/ RunnerEnds
  <2>0. pc = "runner_wait" /\ ~Start
    BY <1>0, <1>12 DEF RunnerOpens, RunnerSends, RunnerEnds, Processes, Start
  <2>1. UNCHANGED <<args, pc, goodp, tshark, output>> /\ runner' # "failed"
    BY <1>12 DEF RunnerOpens, RunnerSends, RunnerEnds, notrunner
  <2>2. ~Captures(args) => output = {}
    BY <1>0, <2>0 DEF Control, Processes
  <2> QED
    BY <1>h, <2>0, <2>1, <2>2 DEF Untroubled, Unhindered
<1>13. CASE TSharkFails \/ OutputLost
  BY <1>13 DEF TSharkFails, OutputLost, Trouble
<1>14. CASE TSharkExits
  BY <1>0, <1>14 DEF TSharkExits
<1>15. CASE TSharkCaptures \/ CaptureEnds \/ TSharkReads \/ OutputWritten
  <2>0. ~Start /\ pc \in {"tshark_wait", "run_plan", "runner_wait", "join"}
    BY <1>0, <1>15 DEF TSharkCaptures, CaptureEnds, TSharkReads, OutputWritten, Prints, Processes,
                       Start, nottshark
  <2>1. UNCHANGED <<args, pc, goodp, runner, opened>> /\ tshark' # "failed"
    BY <1>15 DEF TSharkCaptures, CaptureEnds, TSharkReads, OutputWritten, Prints, nottshark
  <2>2. ASSUME opened, args.tmpl, ~Captures(args) PROVE Unhindered'
    <3>1. CASE TSharkCaptures
      BY <2>2, <3>1 DEF TSharkCaptures
    <3>2. CASE CaptureEnds \/ TSharkReads
      <4>1. tshark' = "ended"
        BY <3>2 DEF CaptureEnds, TSharkReads, Prints
      <4> QED
        BY <2>0, <2>1, <3>2, <4>1, OwnDissected DEF Untroubled, Unhindered
    <3>3. CASE OutputWritten
      <4>1. PICK file \in output : files' = Write(PDML, file)
        BY <3>3 DEF OutputWritten, PDML
      <4>2. files'[PDML] = file /\ output' = {} /\ UNCHANGED PDML
        BY <2>1, <3>3, <4>1, WriteFacts DEF OutputWritten, PDML
      <4>3. ~file.cut
        BY <1>h, <2>0, <2>2, <4>1 DEF Untroubled, Unhindered
      <4> QED
        BY <2>0, <2>1, <4>2, <4>3 DEF Untroubled, Unhindered
    <3> QED
      BY <1>15, <3>1, <3>2, <3>3
  <2> QED
    BY <1>h, <2>0, <2>1, <2>2 DEF Untroubled
<1>16. CASE UNCHANGED vars
  <2>1. ~Start
    BY <1>0, <1>16, MaxRunsAssumption DEF vars, Start, Processes
  <2> QED
    BY <1>16, <1>h, <2>1 DEF vars, Untroubled, Unhindered, PDML
<1> QED
  BY <1>1, <1>2, <1>3, <1>4, <1>5, <1>6, <1>7, <1>8, <1>9, <1>10, <1>11, <1>12, <1>13, <1>14,
     <1>15, <1>16 DEF Next, MainStep, RunnerStep, TSharkStep

--------------------------------------------------------------------------------
(* The theorems.                                                           *)

LEMMA NextInv == IInv /\ [Next]_vars => IInv'
BY TypeStep, ControlStep, FilesStep, SendingStep, StoredStep, CapturingStep, ChainStep, MineStep,
   NothingLeftStep, SmoothStep DEF IInv

THEOREM Invariance == Spec => []IInv
BY InitInv, NextInv, PTL DEF Spec

(***************************************************************************)
(* Processes run only while main waits for them or, TShark in its thread,  *)
(* beside it, and files are of invocations that there were.                *)
(***************************************************************************)
THEOREM TypeCorrect == Spec => []TypeOK
<1>1. IInv => TypeOK
  BY DEF IInv
<1> QED
  BY <1>1, Invariance, PTL

(***************************************************************************)
(* RegressionTest's NothingLeft: when rwcompare exits, the files that it   *)
(* wrote and whose names were not given are gone, whatever failed.         *)
(***************************************************************************)
THEOREM FilesTakenAway == Spec => []NothingLeft
<1>1. IInv => NothingLeft
  BY DEF IInv
<1> QED
  BY <1>1, Invariance, PTL

(***************************************************************************)
(* RegressionTest's OwnTraffic: a test that succeeds was about the packets *)
(* of its own runner, or over the network about a stretch of them.         *)
(***************************************************************************)
THEOREM SuccessIsOwn == Spec => []OwnTraffic
<1>1. IInv => OwnTraffic
  <2> SUFFICES ASSUME IInv, pc = "exit", goodp, args.tmpl, opened
               PROVE  /\ source.run = runs
                      /\ IF Captures(args)
                         THEN \E i, j \in 0..Len(sent) : source.packets = SubSeq(sent, i + 1, j)
                         ELSE source.packets = sent
    BY DEF OwnTraffic
  <2>1. Own /\ Sending /\ args \in Invocation
    BY DEF IInv, Chain, TypeOK
  <2>2. CASE ~Captures(args)
    BY <2>1, <2>2 DEF Own
  <2>3. CASE Captures(args)
    <3>1. PICK i \in 0..Len(sent), j \in 0..Len(sent) :
            source.packets = SubSeq(Traffic(args), i + 1, j)
      BY <2>1, <2>3 DEF Own
    <3>2. Traffic(args) \in Seq(Packet) /\ Len(sent) \in 0..Len(Traffic(args))
      <4>1. Traffic(args) \in Seq(Packet)
        BY <2>1, TrafficType
      <4>2. Len(sent) \in Nat /\ Len(Traffic(args)) \in Nat
        BY <2>1, <4>1, LenProperties DEF Sending
      <4> QED
        BY <2>1, <4>1, <4>2 DEF Sending
    <3>3. SubSeq(SubSeq(Traffic(args), 1, Len(sent)), i + 1, j) = SubSeq(Traffic(args), i + 1, j)
      BY <3>2, StretchOfPrefix
    <3>4. SubSeq(sent, i + 1, j) = SubSeq(Traffic(args), i + 1, j)
      BY <2>1, <3>3 DEF Sending
    <3> QED
      BY <2>1, <2>3, <3>1, <3>4 DEF Own
  <2> QED
    BY <2>2, <2>3
<1> QED
  BY <1>1, Invariance, PTL

(***************************************************************************)
(* Without any assumption: the verdict is the comparison of the expected   *)
(* plan with what was read back of the packets that TShark dissected in    *)
(* this invocation, never of a file that was left or cut off, and those    *)
(* packets are a stretch of what some runner had to send.                  *)
(***************************************************************************)
Verdict ==
  (pc = "exit" /\ judged /\ args.tmpl) =>
    /\ source.packets \in Capturable
    /\ goodp <=> Equivalent(<<ReadBack(Shown(source.packets, TRUE))>>,
                            IF args.expect \in DOMAIN PlanFile
                            THEN <<PlanFile[args.expect]>> ELSE << >>)

THEOREM VerdictOnDissected == Spec => []Verdict
<1>1. IInv => Verdict
  BY DEF IInv, Chain, Own, Verdict
<1> QED
  BY <1>1, Invariance, PTL

(***************************************************************************)
(* What module Plans must give: the display of packets that can be         *)
(* captured, read back and compared with a plan, tells whether the plan    *)
(* says of them what there is to say; and it is not equivalent to nothing. *)
(***************************************************************************)
Faithful ==
  \A packets \in Capturable :
    Readable(packets) =>
      /\ ~Equivalent(<<ReadBack(Shown(packets, TRUE))>>, << >>)
      /\ \A name \in DOMAIN PlanFile :
           Equivalent(<<ReadBack(Shown(packets, TRUE))>>, <<PlanFile[name]>>)
             <=> Says(packets, PlanFile[name])

(***************************************************************************)
(* RegressionTest's VerdictRight, given what Plans must give.              *)
(***************************************************************************)
THEOREM VerdictIsRight ==
  ASSUME Faithful
  PROVE  Spec => []VerdictRight
<1>1. IInv => VerdictRight
  <2> SUFFICES ASSUME IInv, pc = "exit", judged, args.tmpl, Readable(source.packets)
               PROVE  goodp <=> /\ args.expect \in DOMAIN PlanFile
                                /\ Says(source.packets, PlanFile[args.expect])
    BY DEF VerdictRight
  <2> DEFINE found == <<ReadBack(Shown(source.packets, TRUE))>>
  <2>1. /\ source.packets \in Capturable
        /\ goodp <=> Equivalent(found, IF args.expect \in DOMAIN PlanFile
                                       THEN <<PlanFile[args.expect]>> ELSE << >>)
    BY DEF IInv, Chain, Own
  <2>2. /\ ~Equivalent(found, << >>)
        /\ \A name \in DOMAIN PlanFile :
             Equivalent(found, <<PlanFile[name]>>) <=> Says(source.packets, PlanFile[name])
    BY <2>1 DEF Faithful
  <2> HIDE DEF found
  <2>3. CASE args.expect \in DOMAIN PlanFile
    BY <2>1, <2>2, <2>3
  <2>4. CASE args.expect \notin DOMAIN PlanFile
    BY <2>1, <2>2, <2>4
  <2> QED
    BY <2>3, <2>4
<1> QED
  BY <1>1, Invariance, PTL

(***************************************************************************)
(* RegressionTest's EchoPasses, given what Plans must give and a plug-in   *)
(* that registers the preferences that are set: a test whose expected plan *)
(* says what was sent succeeds if nothing went wrong on the way.           *)
(***************************************************************************)
THEOREM EchoIsPassed ==
  ASSUME Faithful, Passed \subseteq Registered
  PROVE  Spec => []EchoPasses
<1>1. IInv => EchoPasses
  <2> SUFFICES ASSUME IInv, pc = "exit", ~trouble, args.tmpl, opened, ~Captures(args),
                      Readable(sent), args.expect \in DOMAIN PlanFile,
                      Says(sent, PlanFile[args.expect])
               PROVE  goodp
    BY DEF EchoPasses
  <2>1. goodp \/ judged
    BY DEF IInv, Smooth, Untroubled, Unhindered
  <2>2. CASE judged
    <3>1. /\ Own
          /\ goodp <=> Equivalent(<<ReadBack(Shown(source.packets, TRUE))>>,
                                  <<PlanFile[args.expect]>>)
      BY <2>2 DEF IInv, Chain
    <3>2. source.packets = sent /\ sent \in Capturable
      BY <3>1 DEF Own
    <3>3. Equivalent(<<ReadBack(Shown(sent, TRUE))>>, <<PlanFile[args.expect]>>)
      BY <3>2 DEF Faithful
    <3> QED
      BY <3>1, <3>2, <3>3
  <2> QED
    BY <2>1, <2>2
<1> QED
  BY <1>1, Invariance, PTL
================================================================================
