# A TLA+ model of the FAST dissector plug-in for Wireshark

FAST is a compression for market data: a message is an encoding of the fields
of a template, and most fields are sent only as a difference from a *previous
value* that encoder and decoder both remember. Whether a field is in the
message at all is said by a *presence map*, a bit string in front of the
message. A decoder that takes one bit too many, or remembers one value too
few, shows plausible nonsense from there on. That is what this project is
about.

The modules model the C sources of the plug-in and of the programs it is
tested with. All are written in TLA+ proper and checked with TLC on small
instances; for the dictionaries, the dissection of flat and of nested templates,
two dissectors side by side, the template parser, the plug-in, the test server
and the control of the comparison tool, theorems are proved with TLAPS for every
value of the constants.

## 1. The system

| Part | Source | State | Operations |
|---|---|---|---|
| Field types and values | `basic-field.[ch]`, `template.h`, `basic-dissect.h` | none; `FieldValue` is a union | init, copy, cleanup, parse from text |
| Stop-bit codec | `decode.c`, `basic-dissect.c`; encoder in `util/client/encode.c` | none | count an entity's bytes; decode to map, integer, string; encode; check bounds |
| Basic dissection | `basic-dissect.c` | `DissectPosition`: bytes left, presence map, index in it | shift bytes, shift or peek a map bit, take a null, dissect an integer, a string, a map, set an error |
| Dictionaries | `dictionaries.c` | `src_table`: previous values by source, destination, dictionary, key | look up, store, clear a conversation |
| Template parser | `parse-template.c`, `template.c` | `templateID` while parsing; the trees | parse a file to trees; build the template table; decide which groups have a map |
| Dissection | `dissect.c` | the static `template_id`; the data tree | `dissect_fast_bytes`, the walk, optional fields, operators, one function per type |
| Plug-in | `packet-fast.c` | preferences, port list, templates by file, templates by port, data per conversation and per packet | register, hand-off after a change of preferences, dissect a packet, display it |
| Error log | `error_log.c` | its preferences | static and dynamic errors to dialog, console and file |
| Test client | `util/client` | the message in the making: template id, presence map, bytes | one per option; send to every address of the host |
| Test server | `util/server/server.c` | one process per address; each remembers one other (`chain_func`) | bind and fork, receive, pass a signal on and exit |
| Comparison tool | `util/rwcompare` | files for capture, PDML and plan that outlive it; two programs and a thread | run the plan runner, run TShark, make a plan of the PDML, compare, remove the files |
| Plan runner | `test/src` (Java) | its output, the position in the plan | load a plan, encode by OpenFAST, write a capture or send |

How they interact. Wireshark calls `proto_reg_handoff_fast` after each change
of the preferences; that parses template files and fills `templates_map` and
`port_map`. Wireshark calls `dissect_fast` for packets on the registered
ports, whenever it wants to show them, so in any order. The first time a
packet is shown with its tree, a loop calls `dissect_fast_bytes` until the
bytes are used up. That walks the template tree, and for each node
`dissect_value` asks `dissect_optional` whether the field is there, tries its
operator, and calls the function for its type. These move the position and
read and write the dictionaries of the packet's conversation. The data tree is
kept with the packet and shown again from then on.

The client and the plan runner are the two sources of packets. `rwcompare`
closes the circle: it starts the runner with one plan, has TShark (that is,
the plug-in) show what was captured, turns what is shown into a plan, and
compares that with the plan which was expected.

The plug-in runs in one thread. What is hard there is the order of events, and
state that outlives the call that made it:

* dictionaries, the last template id and the tables of the plug-in persist
  across packets, conversations and changes of the preferences, and packets
  come in the order in which the user looks at them;
* presence map, byte stream, template tree and data tree are walked side by
  side by code in several files that must agree step by step;
* errors do not stop the dissection of a message, so what happens after an
  error matters;
* packets can be cut anywhere, within a stop-bit entity or the header of a
  flavor too, name unknown templates, and hold any bytes.

The programs around it are concurrent:

* the server's processes are signalled at any moment, by the user, by Ctrl-C
  to all of them, and by each other, while main is still forking;
* TShark captures in a thread beside the runner, ordered by a pause only, may
  end early, and both may fail to start; files of an earlier test are there;
  a test may be killed;
* the client's datagrams are read by one dictionary per address, and may be
  lost or come with somebody else's.

What makes each part correct:

* *Dictionaries*: a lookup returns the last write to the same conversation,
  dictionary and key since the last clear, and nothing else.
* *Dissection*: each field consumes exactly the presence map bits that the
  template grants it; what is stored is what was shown; an absent field shows
  what its operator says; the data tree has the shape of the template and its
  byte windows nest; the loop ends.
* *Codec*: the decoder undoes the encoder; a number is refused exactly if it
  does not fit its type.
* *Parser*: identity of a field (template id, dictionary, key) depends on the
  field and what encloses it, not on what was parsed before; nothing is
  dropped without an error, and an operator that is refused is not kept.
* *Plug-in*: tables follow the preferences; a packet is dissected with the
  file and flavor listed for it, one conversation always with the same.
* *Client*: the fields arrive as given on the command line.
* *Server*: no listener outlives the server, and its announcement is true.
* *Comparison*: a verdict is right, is about the test's own packets, always
  comes, and leaves nothing behind.

## 2. Modules

    Fields ─ Dictionaries ─┬─ DictionaryStore
                           └─ DissectFields ─┬─ DissectFast ─ DissectTwin
                                             └─ Templates ─ DissectTree
    Fields ─ ParseTemplate        PacketFast        Server
    Codec ─ Client                RegressionTest    Plans

(each module extends the one to its left; instances for TLC are in the `MC`
modules, and MCRegressionTest joins RegressionTest with Plans; proofs are in)

    DissectFieldsProofs ─┬─ DictionaryStoreProofs
                         ├─ DissectFastProofs
                         └─ DissectTreeProofs
    ParseTemplateProofs  PacketFastProofs  ServerProofs  RegressionTestProofs

(DissectFastProofs is also about DissectTwin, and DissectFieldsProofs has the
lemmas about the operations of Dictionaries).

**Fields** has the enumerations and records of `basic-field.h`, `template.h`
and `basic-dissect.h`. Integers have a width (`Width32`, `Width64`), `Wrap` is
the C conversion, and `FieldValue` keeps what of the union can be told apart.

**Dictionaries** is `dictionaries.c`. The hash tables nested by source,
destination, dictionary and key are one function from conversations to cells;
tables are created on first use in the code, and an absent table answers as an
empty one.

**DictionaryStore** drives it with any sequence of calls. Its history variable
`log` records the calls; the promise of the interface is stated on `log`
alone, so it serves as the abstract specification of the dictionaries.

**DissectFields** is `basic-dissect.c` and the parts of `dissect.c` that deal
with one scalar field: for each C function one operator from a stack (position,
field data, dictionaries) to a stack. Guards and their order are the code's,
including what it does after errors D2 and D4 to D7. A packet is a sequence of
*tokens*, entities that end with a stop bit, and a *rest* without one. What a
token decodes to is given by constants (`AsUnsigned`, `AsSigned`, `AsText`,
`AsPmap`), one for each way of reading it, since the code may read any token as
anything; `Size` is its number of bytes, by which errors D2 and D7 are decided
together with its value. `NoEntity` is where `count_stop_bit_encoded` finds
nothing and returns 0: a field then reads as 0 or as the empty text and
consumes nothing. The rest of a position is

| `rest` | `nbytes` |
|---|---|
| `none` | 0 behind the last token |
| `torn` | some bytes behind it, none with a stop bit; they are never consumed |
| `outside` | wrapped around: the position is past its packet, and the tokens are whatever the memory there holds |
| `fault` | more than that memory was read |

What the locals of `dissect_ascii_delta` hold that are not initialised, the
previous string (`text`) and the status of the subtraction length (`failed`), is a
nondeterministic choice.

**DissectFast** has the loop of `dissect_fast` and `dissect_fast_bytes` over
flat templates, for several conversations, some of a flavor (CME, UMDF, MOEX)
that precedes the messages by a header and clears the dictionaries after each
packet.

| Variable | Code |
|---|---|
| `tables` | `src_table` |
| `template_id` | the static of `dissect_fast_bytes` |
| `pos` | the `DissectPosition` |
| `next` | the template node that `dissector_walk` has reached |
| `shown` | the data tree of the message |
| `phase`, `pair`, `packets` | where the loop is, or `crashed`; the packet's addresses; how many so far |
| `due`, `latest` | history: bits granted so far; last field shown per cell |

| Action | Code |
|---|---|
| `ReceivePacket` | `dissect_fast` sets up the position and skips the header, if the flavor has one |
| `ReceiveShort` | the same for a packet that is shorter than the header: nobody compares, and `nbytes` wraps around |
| `BeginMessage`, `UnknownTemplate` | head of `dissect_fast_bytes`, with a template or with error D9 |
| `DissectField` | one round of `dissector_walk`: `dissect_descend`, `dissect_value` |
| `EndMessage`, `EndPacket` | its return; the end of the loop and `clear_dictionaries` |
| `Crash` | a message whose presence map has no stop bit: `dissect_fast_bytes` returns before it makes the data node that `dissect_fast` then reads; or a read of memory that may not be read |

**DissectTwin** runs two dissectors (INSTANCE of DissectFast for the second).
The second sees only the packets of one watched conversation, from the start
or, if that conversation's flavor resets the dictionaries, from any moment on.
It is a construction for comparing two runs of the program and stands for no
code of its own.

**Templates** has the tree of a template as the parser builds it and
`fixup_walk_template`, which decides where a presence map begins.
**DissectTree** is the walk of such trees: groups with a presence map of their
own or their caller's, sequences, decimals, for one conversation, `flavored` if
it is one with a header. The C activations of `dissector_walk` and
`dissect_sequence` are frames on `stack`; `dtree` is the data tree in preorder,
each node with its byte window. Packets, `ReceiveShort` and `Crash` are as in
DissectFast: a nested presence map that is cut off leaves its group without
bits, and a sequence whose bytes left hold no stop bit runs to its announced
length.

**ParseTemplate** is `parse-template.c` from the root's children down, with the
set of static errors that were logged, and the template table of `template.c`.
The tree in the making is the sequence of its nodes in the order in which they
are created, each with the number of its parent and the element it was made of;
the calls of C that are under way are frames on a stack. Keys and names are
texts, a beginning and the suffixes `-length`, `-exponent` and `-mantissa` it
ends in, so that what the parser derives and what a file spells out are the
same string when they read the same.

| Variable | Code |
|---|---|
| `file`, `cur` | the template file, its elements still to parse |
| `templateID` | the static of `parse-template.c` |
| `stack` | the activations of `parser_walk_children`, `parse_decimal` and `prepend_length`: the node each works on, the element it has come to |
| `tree`, `templates` | the tree in the making, those that are done |
| `errors`, `table` | the static errors logged; the hash table of `create_templates_table` |

| Action | Code |
|---|---|
| `parse_template`, `TemplateReturns`, `SkipElement`, `create_templates_table` | `parse_templates_xml`, element by element, and the table |
| `PlainField`, `SizedField`, `DecimalField`, `GroupField`, `SequenceField` | `new_parsed_field`, by type, up to the call that walks the element's children |
| `UnknownField`, `RefuseField` | its error path: the field is left out |
| `WalkReturns`, `Ignore` | the end of a group or sequence, after which `prepend_length` is called; an element that a loop passes over |
| `DecimalPart`, `DecimalOperator`, `DecimalReturns` | the loop of `parse_decimal` and what follows it |
| `LengthPart`, `LengthReturns` | the loop of `prepend_length` and what follows it |

**PacketFast** is the plug-in around it: preferences, port list, template
files that are edited, `templates_map`, `port_map`, the data of conversations
and packets. What Wireshark and the user do (`EditFile`, `Reload`, the
identity of conversations) is external and modelled from how the code uses it.

**Server** is `server.c`. A process is named by the number of its address.

| Variable | Code |
|---|---|
| `pc`, `addrc`, `addr`, `spawnc`, `announced` | where main is in `spawn_listeners`, its loop, its count, the line it prints |
| `recorded`; `pred[c]` | the static `pid` of `chain_func` in main; in listener `c`, a copy of main's at the time of its fork |
| `status[c]` | not forked, in `recvfrom`, in `pause` after a failure, gone |
| `pending` | the processes with a signal that the kernel has not delivered |
| `interrupted`, `cut` | history: Ctrl-C was pressed; a process went without passing the signal on |

| Action | Code |
|---|---|
| `Resolve`, `OpenSocket`, `BindSocket`, `Fork`, `ForkFails`, `Record`, `ListDone`, `Announce` | `spawn_listeners` call by call, each of which may fail, and `main` |
| `MainDies`, `ListenerDies(c)` | `listener_die`: `chain_func (0, 0)` signals the remembered process, then exit |
| `ReceiveFails(c)`, `EmptyDatagram(c)` | `receive_string`; the length 9 * 0 - 1 of an empty datagram |
| `Signal(p)`, `CtrlC` | the user and the script |

**Codec** has `decode.c`, the readers and bounds checks of `basic-dissect.c` and
`encode.c` byte by byte, over bytes with `B` bits beside the stop bit. The
numbers `7`, `32` and `64` of the code are parameters, and its constants (number
of bytes, mask of the extra bits) are computed from them.

**Client** is `client.c`, one action per option (`SetTid`, `NoTid`, `Require`,
`Field`, `Refuse` for an empty text, `Nop`), then `send_fast`; composed with a
reader that takes the packets of the addresses apart as the dissector does
(`ReadHead`, `SkipField`, `DissectField`, `NextAddress`). One field may be a
byte vector with the delta operator, whose previous values are kept per
address. `Foreign` is an entity from somebody else.

**Plans** is what becomes of a message in a test: the elements of a plan file
(`XMLDataPlanLoader`), the values the runner fills a template with, the lines
`display_message` shows, and the elements `pdmlParser.c` and `xmlPlanWriter.c`
make of them. What OpenFAST encodes is taken to be what the dissector decodes;
that is the subject of the other modules. What the dissector makes of the bits
of a `bytemessage` is the constant `Decoded`.

**RegressionTest** is `rwcompare.c` and `run-exe.c` around it, invoked several
times in one directory. What the programs do to what they pass on is given by
constant operators: the packets that a plan makes (`Packets`), the PDML shown
for packets (`Shown`), the plan made of PDML (`ReadBack`), the comparison
(`Equivalent`), and what a plan should say of packets (`Says`, `Readable`). In
MCRegressionTest they are the operators of Plans; the control does not depend
on what they are, and its theorems hold for any.

| Variable | Code |
|---|---|
| `args`, `goodp`, `planp`, `pc` | the command line, two locals of `main`, where it is |
| `files` | the intermediate files: who wrote each, whether to its end |
| `runner`, `left`; `tshark`, `output` | the two programs, what each has still to send or has printed |
| `runs`, `opened`, `sent`, `source`, `judged`, `trouble` | bound and history |

| Action | Code |
|---|---|
| `SpawnTShark`, `RunPlan`, `RunPlanReturns`, `RunTShark`, `Join`, `Generate`, `GenerateFails`, `Compare`, `RemoveIntermediary` | the stages of `main`, with `spawn_tshark`, `run_gather`, `g_thread_join` |
| `RunnerFails`, `RunnerExits`, `RunnerOpens`, `RunnerSends`, `RunnerEnds` | `Main.java`, `DataPlanRunner.java`, `PcapFileWriter.java` |
| `TSharkFails`, `TSharkExits`, `TSharkCaptures`, `CaptureEnds`, `TSharkReads`, `OutputWritten`, `OutputLost` | TShark (external), and the file `run_tshark` makes of what it prints |
| `Start`, `Interrupted` | the next test in the directory; a test that is killed |

Operators marked *Mutant* are variants of a definition with a plausible
mistake. No specification uses them; substituting one shows that a property
notices the mistake.

## 3. Runs

Bounds are constants of the `.cfg` files. In the dissector runs a byte has
three payload bits instead of seven, so that a presence map of one byte serves
the template id and two fields and is used up by the third; 32-bit integers
have 8 values and 64-bit ones 16, so increments, deltas and nullable values
overflow within two packets. The longest 32-bit integer has one byte and the
longest 64-bit one two, so that tokens of two bytes are too long for the first.
In the Client run integers have 5 and 7 bits,
which keeps two facts of the real widths: the first of the most bytes holds
some bits of the short integer beside extra ones, and a single bit of the long.

| Run | States | Bounds and what they cover |
|---|---|---|
| DictionaryStore | 143,365 | three calls, two addresses, four fields: write, overwrite or clear, look up, for two types on one key, two template dictionaries, an initial value |
| DissectScalars | 236,930 | two packets of up to two messages, of five templates and an unknown one, whole, cut within a map, an id or a field, or shorter than the header, with all seven operators, mandatory and optional, over shared cells of two integer types and strings, two of the fields of one cell with different initial values; one plain and one resetting conversation, each the other's direction |
| DissectTwin | 66,270 | three packets of two conversations of one source; copy, increment, no operator |
| DissectTree | 231,070 | two packets of up to five tokens, whole, cut within an entity or shorter than the header; unknown template ids; five templates with groups in groups in sequences, lengths 0 to 3, decimals with operators on themselves or their parts, one with an optional mantissa, maps shared and nested |
| ParseTemplate | 438,912 | files of two templates and an element between them; about thirty field elements, well formed and not, two of which spell the key that is derived for another |
| PacketFast | 12,324 | four changes of preferences among four port lists, one edit of each of two files, five packets of three conversations |
| Server | 26,948 | up to four addresses; signals to any process at any step |
| Client | 1,220,096 | any number of invocations with two field options and one `--nop` each, out of eight that cover every encoder, signs, deltas and an empty text; two addresses; entities of all bytes up to length 3 and some of length 4; vectors of up to two bytes |
| RegressionTest | 73,537 | two tests, each one of 17 command lines, nine plans, three templates |

Two packets are the least for a previous value to be used, and three calls the
least for a value to be written, hidden and asked for. Interference beyond
that repeats with more of the same, and where section 4 has a theorem the proof
removes the bound. Four listeners are one more than the
longest case of the chain argument (sender, next, the one after it). Two tests
are enough for one to find the files of another, which is all they share.

Properties, beside the type invariants:

* `LastWriteFound`, `NothingInvented` (DictionaryStore): the promise of the
  dictionaries.
* `PmapAgreement`: before each field `dissect.c` has consumed exactly the bits
  that `requires_pmap_bit` of `template.c` grants the fields so far. Messages
  after a field with the tail operator are excepted (see findings).
* `PreviousIsLatest`: the previous value in a dictionary is what the last
  field of that cell *showed*, through defaults, constants, empty fields and
  resets; the dictionary neither lags behind nor runs ahead of the display. Only
  an initial value that a copy field showed is not in it.
* `AbsentMandatoryContract` (an action property): what an absent mandatory
  copy or increment field shows follows from the last field shown on its cell:
  the same value or its successor, the initial value, or error D4, D5 or D6.
  After a copy field that showed its own initial value the next field of the
  cell may start from its own as well, since the first was not stored.
* `ShownIndependently`, `DictionariesIndependent` (DissectTwin): neither the
  packets of other conversations, nor for resetting flavors the packets of the
  same one, change what is shown. Messages must carry their template id: the
  id of a message without one is global to the program by construction. And
  packets are no shorter than their header: the memory behind them is not the
  same for both.
* `NestedPmapAgreement`, `SharedMapUntouched` (DissectTree): agreement with
  `template.c` for each open presence map, and that a group without a map
  really needs no bit. Excepted are the nodes of `OutOfStep`: tail; an optional
  decimal or sequence whose first child is constant; a decimal with operators
  both of its own and of its parts; a decimal with an operator that the parser
  refuses.
* `WindowsNest`, `TreeMirrorsTemplate`: bytes are not claimed twice, and the
  data tree fits the template as the display assumes: an activation that ends
  has added one data node for each node it was to walk, in their order. A
  sequence has the number of elements that it shows, or fewer if bytes or
  presence map ran out.
* `TypeOK` of DissectFast and DissectTree bounds the position: it stays within
  its presence map, and within its packet but for those that are shorter than
  the header of their flavor. Then it is `outside`, and no field is dissected
  after a `fault`.
* `PacketCompletes` (liveness): the loop over a packet ends, also where the
  bytes left hold no stop bit and fields consume nothing: a message always
  takes a presence map, and without one the loop is left by `Crash`; the loop
  of a sequence is bounded by the length it announces. It is stated as "`Done`
  again and again", `Done` being idle or crashed, which says the same as "not
  `Done` leads to `Done`" and lets TLC check it in half a minute.
* `OwnTemplateId`, `DictionaryIsNearest`, `KeysSeparate`, `NeverDroppedSilently`,
  `OperatorsValid` (ParseTemplate). The last is about every field but decimals,
  which keep a refused operator. `KeysSeparate`: two fields share a key only if
  two elements of the template have one name or key (or the keys are derived
  from that), or if an element spells out what is derived for another one, as a
  field named `v-length` does beside a sequence `v`. The lengths of
  unnamed sequences, all keyed `(null)-length`, are excepted.
* `TablesFollowPreferences`, `ShownAsListed`, `ConversationUniform`
  (PacketFast).
* `Chained`, `NoOrphans` (Server): unless the chain was cut, by a signal
  between `fork` and `chain_func` or by a listener that crashed, each live
  listener will still be signalled, and when all is quiet after main's end
  none is left. `ReadyCount`: what main announces is the number of listeners.
  `TerminationSpreads`, `InterruptEndsAll` (liveness): a signal to main ends
  all listeners, unless the chain is cut; Ctrl-C ends them in any case.
* `ArgumentsArrive`, `PacketUsedUp` (Client): each option is read back, with
  its value and presence, in order, to the last byte and bit.
  `BoundsErrorExact`: error D2 appears for exactly the entities that stand for
  a number out of the type's range or are longer than any number of it.
  `EncodersUndone`: any entity read and encoded again is as short or shorter and
  reads the same; texts of digits give the bytes they spell. `DeltaApplied`: a
  byte vector's delta changes the previous value of its own address only, and
  keeps what it does not cut.
* `VerdictRight` (RegressionTest): a test that gets to the comparison succeeds
  exactly if the expected plan agrees with what TShark dissected, stated on
  the packets while the code compares trees of names read back from text.
  `OwnTraffic`: success is about packets that this test's runner sent.
  `NothingLeft`: no intermediate file is left or written after the end.
  `EchoPasses`: what was put in and expected passes. `TestEnds` (liveness).

*Fairness.* Each assumption is what the operating system or the caller does:

* DissectTree: the program infinitely often changes state, or is idle or has
  ended. Wireshark calls `dissect_fast` synchronously, in one thread, so it runs
  until it returns; the assumption is that and no more, and favours no action. The run
  also checks for deadlock, so a state from which the loop cannot go on would
  be found rather than excluded by it. (`FairSpec` states this without ENABLED,
  which keeps the check affordable; in the absence of deadlock it says what
  weak fairness of `Dissect` says.)
* Server: weak fairness of main's steps, of `MainDies` and of `ListenerDies(c)`
  for each listener: the kernel schedules every process, and a signal stays
  pending until it is delivered. Signals, failures and datagrams are not fair.
* RegressionTest: weak fairness of main, of the runner and of TShark, three
  programs that the kernel schedules; a capture ends because TShark is given a
  duration. Failures are disjuncts of these steps and need not happen; a new
  test and a kill are not fair.

All other specifications state safety only.

Deadlock is checked in DissectTree, ParseTemplate, PacketFast, Server and
Client. The other runs stop when their bound of calls, packets or tests is
reached.

### Findings

Three runs show that the code does not do what a document, test or message of
the repository says; `PROJECT.json` quotes the lines.

| Run | What it shows |
|---|---|
| FindAbsentReads | a copy field in error D5 or D6 is read from the stream although it is not there |
| FindTailBit | the parser grants the tail operator a presence map bit that the dissector never takes |
| FindPreferences | `rwcompare` sets preferences the plug-in no longer registers, so TShark ends at once and every test fails |

What else was met while modelling. The models contain these behaviours where
the part is modelled, and the properties except them by name; no run is spent
on them:

* Dissection. A packet that is cut within the presence map of a message does not
  get the error message of an unknown template: `dissect_fast_bytes` returns
  before it sets `parent->data` (`dissect.c:260`), which the code for the error
  then dereferences (`packet-fast.c:553`). The header of a flavor is skipped
  without a look at the packet's length, so that `nbytes` wraps around if it is
  shorter (`packet-fast.c:529`). Both are actions of the models, `Crash` and
  `ReceiveShort`. An optional field with an empty default shows 0 when it is left
  out (`dissect.c:524`). The largest value of a nullable unsigned field is
  flagged D2 (`dissect.c:541`). A decimal delta after an empty value computes
  with uninitialised memory instead of raising D6 (`dissect.c:638`). After
  error D7 a byte vector goes on with a negative length (`dissect.c:776`); its
  length is not compared with the bytes left (`dissect.c:751`). An optional
  decimal or sequence asks a constant first child for a presence it does not
  have (`dissect.c:428`).
* Plug-in. One that was disabled goes on dissecting the ports it had
  (`packet-fast.c:395`). A template file that does not parse gives NULL, which
  is dereferenced (`packet-fast.c:427`). Two preferences share one variable
  (`packet-fast.c:335` and `341`). Dictionaries survive the capture they came
  from (`dictionaries.c:64`).
* Parser. A decimal keeps an operator that was refused (`parse-template.c:433`).
  Of two templates with one id the later replaces the earlier without a word
  (`template.c:42`).
* Client. `--int64` calls `encode_uint64` (`client.c:184`). The encoders have
  room for nine septets, one less than a 64-bit number may need.
* Server. The length computed for an empty datagram is huge (`server.c:69`).
* Comparison. The exit status of the programs is dropped (`run-exe.c:79`), so a
  runner that ends before it opens its output leaves an older capture to be
  judged. Two plans neither of which parses are equal. Ten of the eleven
  preferences in the array are passed on.

## 4. Proofs

| Theorem | Says |
|---|---|
| `DictionaryStoreProofs!StoreTypeCorrect` | `Spec => []TypeOK` |
| `DictionaryStoreProofs!LookupFindsLastWrite` | `Spec => []LastWriteFound` |
| `DictionaryStoreProofs!LookupInventsNothing` | `Spec => []NothingInvented` |
| `DissectFastProofs!DissectTypeCorrect` | `Spec => []TypeOK` |
| `DissectFastProofs!PmapAgrees` | `Spec => []PmapAgreement` |
| `DissectFastProofs!DictionaryFollowsDisplay` | `Spec => []PreviousIsLatest` |
| `DissectFastProofs!AbsentFieldsFollow` | `Spec => AbsentMandatoryContract` |
| `DissectFastProofs!TwinsAreDissectors` | `TwinSpec => Spec /\ Second!Spec` |
| `DissectFastProofs!TwinsShowTheSame` | `TwinSpec => []ShownIndependently`, if `Determinate` |
| `DissectFastProofs!TwinsRememberTheSame` | `TwinSpec => []DictionariesIndependent`, if `Determinate` |
| `DissectTreeProofs!NestingTypeCorrect` | `Spec => []TypeOK` |
| `DissectTreeProofs!NoBitForSharedMap` | `Spec => []SharedMapUntouched` |
| `DissectTreeProofs!MapsInStep` | `Spec => []NestedPmapAgreement` |
| `DissectTreeProofs!WindowsNestAlways` | `Spec => []WindowsNest` |
| `DissectTreeProofs!TreeMirrored` | `Spec => []TreeMirrorsTemplate` |
| `ParseTemplateProofs!ParserTyped` | `Spec => []Typed` |
| `ParseTemplateProofs!TemplateIdIsOwn` | `Spec => []OwnTemplateId` |
| `ParseTemplateProofs!Dictionaries` | `Spec => []DictionaryIsNearest` |
| `ParseTemplateProofs!KeysAreSeparate` | `Spec => []KeysSeparate` |
| `ParseTemplateProofs!NothingDropped` | `Spec => []NeverDroppedSilently` |
| `ParseTemplateProofs!Operators` | `Spec => []OperatorsValid` |
| `PacketFastProofs!PluginTypeCorrect` | `Spec => []TypeOK` |
| `PacketFastProofs!TablesAgree` | `Spec => []TablesFollowPreferences` |
| `PacketFastProofs!PacketsShownAsListed` | `Spec => []ShownAsListed` |
| `PacketFastProofs!ConversationsUniform` | `Spec => []ConversationUniform` |
| `ServerProofs!ServerTypeCorrect` | `Spec => []TypeOK` |
| `ServerProofs!ChainIntact` | `Spec => []Chained` |
| `ServerProofs!NoOrphansLeft` | `Spec => []NoOrphans` |
| `ServerProofs!ReadyCountTrue` | `Spec => []ReadyCount` |
| `RegressionTestProofs!TypeCorrect` | `Spec => []TypeOK` |
| `RegressionTestProofs!FilesTakenAway` | `Spec => []NothingLeft` |
| `RegressionTestProofs!SuccessIsOwn` | `Spec => []OwnTraffic` |
| `RegressionTestProofs!VerdictOnDissected` | `Spec => []Verdict`: a verdict is the comparison of what was dissected in the same invocation, and that is a stretch of some runner's traffic |
| `RegressionTestProofs!VerdictIsRight` | `Spec => []VerdictRight`, if `Faithful` |
| `RegressionTestProofs!EchoIsPassed` | `Spec => []EchoPasses`, if `Faithful` and `Passed \subseteq Registered` |

Assumptions are the ASSUMEs of the modules: widths are even and ordered,
`NoKey` is no key and the template dictionary no named one, `NoEntry` and
`None` are no value, tokens decode to numbers, strings and bits and have at
least one byte, an entity with fewer bytes than the most its type may have
fits into it, the null byte is one byte, packets are tokens and a rest that is
`none` or `torn`, fields are ones that passed `check_valid_operator`,
templates are sequences of fields, or trees whose decimals and sequences have
the children that the parser gives them, and initial values of unsigned fields
are not negative; the entries of port lists are typed; the number of addresses
of the server is a natural number; command lines are typed and a runner's
traffic is a sequence; the attributes of XML elements are typed, their keys
and names are texts, and an unset key is none. Templates and their nesting,
XML elements and theirs, packets, conversations, addresses, port lists, files,
command lines, plans, numbers of calls, packets, changes and tests are
arbitrary. The twin theorems and two of the comparison have hypotheses of
their own, see below. All inductive invariants were checked with TLC first.

*Dictionaries.* `LastWriteFound` is not inductive: it speaks of lookups. The
inductive invariant is `CellHoldsLast`: for every conversation and field with
a key, the cell holds what the last call that concerns it left there (the
stored entry, or nothing after a clear), and nothing if no call concerns it.
`SetHolds` and `ClearHolds` show that each call keeps it, by `AppendLast` (what
a new call changes about "last") and `CellShared` (two fields have one cell
exactly when they share a previous value, which is where the names of
dictionaries and the template ids matter). Both theorems follow by computing a
lookup from the cell.

*Dissection of a field.* The work is in **DissectFieldsProofs**: for each
function of `dissect.c` a lemma `Result(s, t, n)`: from a well typed stack it
returns a well typed one, at a position no earlier in the same packet, with
exactly `n` presence map bits taken (none past the end of the map). The count
for `dissect_value` is put together from three parts that each may take a bit:
`OptionalResult`, `OperatorResult` and `FnResult`; `ValueResult` shows that for
any type, operator other than tail, presence and content at most one of them
does, and that it is the one granted by `requires_pmap_bit`. `ValueStored` says
the same about the dictionaries: a field leaves them alone (a constant, a null
delta), or stores exactly what it shows, or shows what a copy field found.

*Flat messages.* `PmapAgrees` is then inductive together with `TypeOK`. The
restriction to the fields before the first tail is part of the property and
needed: FindTailBit shows why. `DictionaryFollowsDisplay` is inductive with the
types of the history (`Remembered`): a step changes the one cell of its field,
where `SetAgrees` and `GetAgrees` apply; the end of a packet clears cells and
history together. `AbsentFieldsFollow` is about single steps from such states:
`AbsentMandatory` computes what an absent mandatory field shows from a lookup,
`LookupTold` the lookup from what was last shown.

*Two dissectors.* The invariant is `Twins`: the second works exactly when the
first works on a packet that both have (`Paired`); a conversation whose flavor
resets has empty dictionaries whenever none of its packets is in work
(`Cleared`), which is why the second may join late; and once it has joined the
two agree on the conversation's dictionaries at any moment and on the place
within a packet (`Alike`). That `dissect_value` is given the dictionaries of
one conversation and no other state is what makes the steps agree. The one
exception is the local of `dissect_ascii_delta` that is not initialised: two
dissectors may find different things there. Hence the hypothesis `Determinate`:
no field of a string type has the operators delta or tail, or what is found is
the same in both. It holds in the DissectTwin run. Packets shorter than the
header of their flavor are no part of `TwinSpec`.

*Nested templates.* `fixup_walk_template` is defined by recursion over a tree,
and the prover must know that such a function exists. `FixupEquation` shows it
from the least set of nodes closed under what the function asks of the
children, without induction. Each action is brought to one of a few shapes (it
steps over a node, calls for a node's children, returns, starts the next
element, begins or ends a message), and the invariants are proved for the shapes.

* `Typed` adds to `TypeOK` that all activations work on the same packet
  (`SameBytes`): what a nested position gives back is its offset only, which
  would not keep the caller within its packet otherwise. Its steps show that
  each activation is where it may be (`Placed`: past the packet only with a
  header to be shorter than) and that a fault met by a nested activation
  ends all of them (`NoneGoesOn`): the caller is never walked on.
* `Sharing`: an activation without a map of its own has only nodes left that
  need no bit, and stands in the map where its caller does. It rests on
  `NeedsNoBit` being inherited through decimals, sequences and groups as
  `fixup_walk_template` decides it. `NoBitForSharedMap` follows.
* `MapsInStep` is inductive with `Sharing`: the bits granted and the bits taken
  by decimals, sequences and groups are computed from those of their parts
  (`DecimalOver`, `SequenceOver`, `GroupOver`), outside `OutOfStep`.
* `Windows`: the open nodes are one below the other and everything added since
  is below them (`OpenNodes`); windows begin in the order of the nodes
  (`Starts`); a closed one ends where the walk has been (`Ends`), contains those
  below it and precedes those after it (`Apart`). When an activation returns, its
  node is closed at the walk's place, so that `Apart` needs all the others.
* `Mirrored`: the nodes that an activation has added below its data node are the
  beginning of those it was to add, in order, and what it has still to walk is
  the rest (`Fills`); only the innermost activation can have left a sequence's
  loop instead (`Filled`). A node's place is the number of added ones up to it,
  so a step changes one cardinality by one and leaves the places before it
  alone (`AddedGrows`, `AddedStill`, `FillsNext`). A sequence must be walked as
  often as its length node *shows*; that the two agree needs the
  dictionaries: none holds a negative number for an unsigned field
  (`Counts`), whatever was stored, defaulted or added before, so the length
  that is shown is the one that the loop runs to.

*Parser.* Elements are nested to any depth, so what the parser makes of them is
stated step by step: the activations are on a stack, and `IInv` says how each
node of the tree in the making follows from its *parent*. Of a parent only the
operator changes once it has children (`Same`).

* `Nodes`: a node is made of an element of its own (`Own`), is the group of a
  sequence (`Inner`), or is a length, an exponent or a mantissa (`Part`). The
  latter are `Open` while an activation still describes them: their key and
  dictionary may be missing, and what is missing is what the parent will give.
  All others are `Settled`: they have the template's id and the dictionary of
  the nearest element around them that names one. That the nearest one is found
  by handing a dictionary down from parent to child is `NearestAppend`, by
  well-foundedness instead of an induction. `TemplateIdIsOwn` and
  `Dictionaries` follow, since nothing is open when a template is done.
* `Valid`: the operators are valid, but for decimals after an error; hence
  `Operators`.
* `Frames`: the activations stand on nodes one behind the other, and each has
  come further along its elements than the nodes it has made of them, so a field
  that is given up is taken away with everything behind it and no activation
  misses a node (`DropShape`). `Found` and `Reported`: the elements that a walk
  has passed over have their nodes, unless an error was logged; hence
  `NothingDropped`.
* `Groups`, `Lengths`, `Ordered`: a sequence has its group and then one length,
  and siblings are in the order of their elements. `KeysAreSeparate` rests on
  them: a key is a field's own, or was given to a part by an element of that
  part's tag (`Spells`), or is derived from the parent's (`Derives`). Two nodes
  keyed by one element that both spell, or both derive, are then one part of one
  parent (`OnePart`), which therefore is one node. That one of them spells what
  the other derives cannot be excluded, and is allowed by the property.

The steps are proved by shape: one that skips an element, adds nodes, changes
open nodes, returns, or drops a field (`SkipShape`, `PlainShape`, `CallShape`,
`ChangedTree`, `DropShape`, ...). The types of the parser are a theorem
(`ParserTyped`) and not checked by the run as well.

*Plug-in.* `IInv` adds to the types and `TablesFollowPreferences`: a port with
templates is listed, with those of its *last* item (`PortMapListed`); a
conversation has the file and flavor of one item for one of its ports
(`ConversationListed`); a packet has what its conversation has
(`KeptWithConversation`). The first holds while the plug-in is enabled, since
`proto_reg_handoff_fast` does nothing otherwise. That a listed port has a last
item takes well-foundedness.

*Server.* `Chained` speaks of a moment in which each listener is held by
something: a signal, main, a later listener. For its step one must know what
main's loop has done: `Loop` says which listeners are forked and which of them
main remembers, and that a listener remembers only earlier ones; `Overtaken`
covers the gap between `fork` and `chain_func`, when a listener that has died
already may still be the one main is about to remember. `IInv` is these with
`TypeOK` and is inductive. `ReadyCount` needs `Counted`, which ties `spawnc` to
the set of forked listeners, whose cardinality grows by one with each fork.
For `NoOrphans` take the last live listener (`LastListener`, by
well-foundedness on the distance from `N`): nobody later can hold it, main is
gone, no signal is left, so `Chained` is contradicted.

*Comparison.* `IInv` follows a test through its stages. `Control` says with
which command line main is where, and which processes run; `Sending` that what
the runner has sent is the beginning of what it was to send; `Stored` and
`Capturing` that a capture file, whoever left it, holds a stretch of a runner's
traffic, and that the one of this test does so of this runner's, from the
moment the runner or TShark opens it; `Chain` that what TShark printed, the
file made of it, the plan and the verdict are about the packets that TShark
dissected. A file that is cut off breaks that chain, and main then does not
compare. `Mine` says which files of this test main has yet to take away, hence
`NothingLeft`; `Smooth` that a test without trouble is not stopped before its
comparison. Files that other or killed tests left may be there throughout.

`VerdictIsRight` and `EchoIsPassed` have the hypothesis `Faithful`: for
captures of readable packets, reading back what was shown and comparing it
tells whether the plan says of them what there is to say. It speaks of the
constant operators only, and is the interface to Plans. For the plans and
captures of the run TLC checks it through `VerdictRight`: by
`VerdictOnDissected` that invariant says the same about each capture that is
judged. `EchoIsPassed` needs in addition that TShark accepts the
preferences it is given, which FindPreferences shows not to be so today; the
run RegressionTest registers the preferences that `rwcompare` was written for.

*Found while proving.* Two statements were wrong and were corrected, after TLC
had shown the counterexample on a richer instance. `AbsentMandatoryContract`
did not allow for two fields of one cell with different initial values, the
first of which, a copy field, shows its own without storing it.
`Entitled` judged by the outcome of a decimal whether its mantissa had been
reached, which is wrong for a mantissa that is optional and left out.

*Model-checked only.*

* `PacketCompletes`, `TestEnds`, `TerminationSpreads` and `InterruptEndsAll`:
  liveness under fairness.
* Plans: what becomes of a plan is computed by recursion over nested messages
  and over texts, with RECURSIVE operators, which the prover cannot use, and
  what they compute for every plan would be an induction over data. It enters
  the theorems about RegressionTest by the hypothesis `Faithful` and no other
  way.
* Client: `ArgumentsArrive`, `PacketUsedUp`, `BoundsErrorExact` and
  `EncodersUndone` rest on digits of numbers of any length and on powers with
  a variable exponent, of which the provers know nothing (not even that `2^n`
  is a number) without an induction; so does `DeltaApplied`, since the reader
  decodes each delta before it applies it.

## 5. Not modelled

* In the dissector modules the codec: a token's readings are constants there,
  so their properties hold whatever `decode.c` computes. What `decode.c` does
  compute is checked in Client, on single entities and flat messages.
* In the dissector modules, what a capture that kept fewer bytes than the packet
  had does: copying them (`packet-fast.c:527`) throws, and Wireshark ends the
  dissection of the packet. In DissectTree and DissectFast what lies in memory
  behind a packet shorter than its header is any packet of the run.
* Byte vectors and unicode strings within DissectTree. `dissect_byte_vector` is
  modelled in Client, with the lengths the client sends; a null length of an
  optional vector and a length past the packet are not.
* Most of `basic-field.c`: allocation, and parsing a default value from text
  beyond whether it parses.
* `generate_field_info`, `to_decimal`, the display of decimals and byte
  vectors, the Info column. `display_message` and `display_fields` are in Plans
  as far as `rwcompare` reads them back.
* Files that libxml2 rejects or whose root is not `templates`.
* What the encoders write out of bounds for numbers of more than nine septets;
  text with characters above 127.
* The plan runner's TCP and binary outputs, its receiver, and plans with packet
  addresses; OpenFAST itself. Usage errors of the command lines.
* Memory: what is allocated per packet or per file, freed or leaked. Of the
  two places where it decides what happens next, the empty datagram is
  modelled by its outcomes.
* The error log, and the preferences of the display.

* The name of a parsed field apart from its key: when several elements describe
  one length, exponent or mantissa, a later one with neither key nor name leaves
  the key alone, while the code takes the name that an earlier one left, if that
  had a key as well.

Abstractions that a reader should know: on the 64-bit builds modelled here an
integer keeps its value when `err_d` overwrites the error pointer of the same
union; a decimal's exponent, which does share its place with that pointer,
overwrites it (`DecimalChildren`). In RegressionTest the texts are sequences of
symbols of which colon, blank and zero are told apart, and messages have a few
kinds of fields: what goes wrong between plan and verdict is structure and
separators, not digits.

## 6. Plan

Done, in this order: dictionaries; scalar fields; the message loop; two
dissectors side by side; nested templates; the parser; the plug-in; the proofs
of the first three; the server and its proofs; the codec with client and byte
vectors; the comparison tool with its programs; the proofs about the rest of
flat messages, the twins, nested templates and the plug-in; the comparison
tool's control separated from Plans and proved; the shape of the data tree; the
parser as a machine with its activations on a stack, and its proofs. Next:

1. **Capture**: PacketFast composed with the dictionaries: `src_table`
   survives reloading a capture, and packets are dissected in viewing order.
2. **Byte vectors in trees**: their length child and their null length in
   DissectTree, decimals and vectors in the display.
