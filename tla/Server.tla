------------------------------- MODULE Server -------------------------------
(***************************************************************************)
(* util/server/server.c: main binds one UDP socket per address and forks a *)
(* listener for each.  main remembers only its newest child; a listener    *)
(* inherits what main remembered when it was forked, the listener before   *)
(* it.  A process that gets SIGTERM or SIGINT signals the one process it   *)
(* remembers and exits, so a signal runs "down the chain".                 *)
(***************************************************************************)
EXTENDS Integers, FiniteSets

CONSTANT N      \* bound on the addresses getaddrinfo() lists
ASSUME NAssumption == N \in Nat

VARIABLES
    pc,         \* where main is
    addrc,      \* the number of addresses in the list
    addr,       \* the address of the for loop
    spawnc,     \* spawn_listeners' count of listeners
    recorded,   \* main's static pid of chain_func, NoPid before a record
    announced,  \* the number main has printed, 0 before that
    status,     \* of the listener for each address
    pred,       \* a listener's static pid of chain_func
    pending,    \* the processes with an undelivered SIGTERM or SIGINT
    interrupted,\* history: Ctrl-C has signalled every process of the group
    cut         \* history: a process went without passing the signal on

procs == <<status, pred>>
count == <<addrc, addr, spawnc, recorded, announced>>
history == <<interrupted, cut>>
vars == <<pc, count, procs, pending, history>>

Listeners == 1 .. N         \* named by their address
NoPid == 0
Main == N + 1

Receiving == "receiving"    \* in recvfrom()
Failed == "failed"          \* recvfrom() failed: in pause()
Live == {c \in Listeners : status[c] \in {Receiving, Failed}}
Forked == {c \in Listeners : status[c] # "unborn"}
MainLive == pc # "exited"

TypeOK ==
    /\ pc \in {"boot", "socket", "bind", "fork", "record", "announce",
               "pause", "exited"}
    /\ addrc \in 0 .. N
    /\ addr \in 1 .. (N + 1)
    /\ spawnc \in 0 .. N
    /\ recorded \in 0 .. N
    /\ announced \in 0 .. N
    /\ status \in [Listeners -> {"unborn", Receiving, Failed, "dead"}]
    /\ pred \in [Listeners -> 0 .. N]
    /\ pending \subseteq Listeners \cup {Main}
    /\ interrupted \in BOOLEAN
    /\ cut \in BOOLEAN

Init ==
    /\ pc = "boot"
    /\ addrc = 0 /\ addr = 1 /\ spawnc = 0
    /\ recorded = NoPid /\ announced = 0
    /\ status = [c \in Listeners |-> "unborn"]
    /\ pred = [c \in Listeners |-> NoPid]
    /\ pending = {}
    /\ interrupted = FALSE /\ cut = FALSE

-----------------------------------------------------------------------------
(* main and spawn_listeners *)

\* The handlers are set and getaddrinfo() lists its addresses; a failure
\* returns 0 listeners, as an empty list does.
Resolve ==
    /\ pc = "boot"
    /\ addrc' \in 0 .. N
    /\ pc' = "socket"
    /\ UNCHANGED <<addr, spawnc, recorded, announced, procs, pending, history>>

Advance ==
    /\ addr' = addr + 1
    /\ pc' = "socket"

\* Mutant: the loop looks one address past the list.
OpenSocketPast ==
    /\ pc = "socket" /\ addr <= addrc + 1
    /\ \/ pc' = "bind" /\ UNCHANGED addr
       \/ Advance
    /\ UNCHANGED <<addrc, spawnc, recorded, announced, procs, pending, history>>

\* socket() for the next address, which may fail.
OpenSocket ==
    /\ pc = "socket" /\ addr <= addrc
    /\ \/ pc' = "bind" /\ UNCHANGED addr
       \/ Advance
    /\ UNCHANGED <<addrc, spawnc, recorded, announced, procs, pending, history>>

BindSocket ==
    /\ pc = "bind"
    /\ \/ pc' = "fork" /\ UNCHANGED addr
       \/ Advance
    /\ UNCHANGED <<addrc, spawnc, recorded, announced, procs, pending, history>>

\* fork() succeeds; the kernel delivers a pending signal before it forks.
Fork ==
    /\ pc = "fork" /\ Main \notin pending
    /\ status' = [status EXCEPT ![addr] = Receiving]
    /\ pred' = [pred EXCEPT ![addr] = recorded]
    /\ pc' = "record"
    /\ UNCHANGED <<count, pending, history>>

\* Mutant: a failed fork() counts as a listener.
ForkFailsCounted ==
    /\ pc = "fork"
    /\ Advance
    /\ spawnc' = spawnc + 1
    /\ UNCHANGED <<addrc, recorded, announced, procs, pending, history>>

ForkFails ==
    /\ pc = "fork"
    /\ Advance
    /\ UNCHANGED <<addrc, spawnc, recorded, announced, procs, pending, history>>

\* Mutant: main remembers the first listener only.
RecordFirst ==
    /\ pc = "record"
    /\ recorded' = IF recorded = NoPid THEN addr ELSE recorded
    /\ spawnc' = spawnc + 1
    /\ Advance
    /\ UNCHANGED <<addrc, announced, procs, pending, history>>

\* chain_func (sock, pid) in the parent.
Record ==
    /\ pc = "record"
    /\ recorded' = addr
    /\ spawnc' = spawnc + 1
    /\ Advance
    /\ UNCHANGED <<addrc, announced, procs, pending, history>>

ListDone ==
    /\ pc = "socket" /\ addr > addrc
    /\ pc' = IF spawnc = 0 THEN "exited" ELSE "announce"
    /\ UNCHANGED <<count, procs, pending, history>>

\* "%d listeners spawned" tells the parent script that main is ready.
Announce ==
    /\ pc = "announce"
    /\ announced' = spawnc
    /\ pc' = "pause"
    /\ UNCHANGED <<addrc, addr, spawnc, recorded, procs, pending, history>>

MainStep == \/ Resolve \/ OpenSocket \/ BindSocket \/ Fork \/ ForkFails
            \/ Record \/ ListDone \/ Announce

-----------------------------------------------------------------------------
(* Signals: listener_die and chain_func (0, 0) *)

\* kill (pid, SIGTERM): nothing happens to a process that is gone.
KillDown(sender, target) ==
    pending' = (pending \ {sender}) \cup ({target} \cap Live)

\* Mutant: main exits and leaves its listeners alone.
MainDiesAlone ==
    /\ MainLive /\ Main \in pending
    /\ pending' = pending \ {Main}
    /\ pc' = "exited"
    /\ cut' = (cut \/ pc = "record")
    /\ UNCHANGED <<count, procs, interrupted>>

\* main gets the signal.  Before signal() it dies of it and has no children.
MainDies ==
    /\ MainLive /\ Main \in pending
    /\ KillDown(Main, recorded)
    /\ pc' = "exited"
    /\ cut' = (cut \/ pc = "record")
    /\ UNCHANGED <<count, procs, interrupted>>

\* Mutant: a listener exits without a signal to the one before it.
ListenerDiesAlone(c) ==
    /\ c \in Live /\ c \in pending
    /\ pending' = pending \ {c}
    /\ status' = [status EXCEPT ![c] = "dead"]
    /\ UNCHANGED <<pc, count, pred, history>>

\* Mutant: the handler passes the signal on and does not exit.
ListenerLivesOn(c) ==
    /\ c \in Live /\ c \in pending
    /\ KillDown(c, pred[c])
    /\ UNCHANGED <<pc, count, procs, history>>

ListenerDies(c) ==
    /\ c \in Live /\ c \in pending
    /\ KillDown(c, pred[c])
    /\ status' = [status EXCEPT ![c] = "dead"]
    /\ UNCHANGED <<pc, count, pred, history>>

\* receive_string: recvfrom() fails and the listener waits for a signal.
ReceiveFails(c) ==
    /\ status[c] = Receiving
    /\ status' = [status EXCEPT ![c] = Failed]
    /\ UNCHANGED <<pc, count, pred, pending, history>>

\* bit_byte of an empty datagram computes the length 9*0-1 and writes 4 GiB
\* past its buffer.  Where that address is mapped the listener goes on, which
\* is a stuttering step; elsewhere it dies without chain_func.
EmptyDatagram(c) ==
    /\ status[c] = Receiving
    /\ status' = [status EXCEPT ![c] = "dead"]
    /\ pending' = pending \ {c}
    /\ cut' = TRUE
    /\ UNCHANGED <<pc, count, pred, interrupted>>

-----------------------------------------------------------------------------
(* The user and the test script *)

Signal(p) ==
    /\ p \notin pending
    /\ \/ p = Main /\ MainLive
       \/ p \in Live
    /\ pending' = pending \cup {p}
    /\ UNCHANGED <<pc, count, procs, history>>

\* Ctrl-C goes to every process of the foreground group at once.
CtrlC ==
    /\ MainLive /\ ~interrupted
    /\ pending' = pending \cup Live \cup {Main}
    /\ interrupted' = TRUE
    /\ UNCHANGED <<pc, count, procs, cut>>

Finished == ~MainLive /\ Live = {} /\ UNCHANGED vars

Next ==
    \/ MainStep
    \/ MainDies
    \/ \E c \in Listeners :
          ListenerDies(c) \/ ReceiveFails(c) \/ EmptyDatagram(c)
    \/ \E p \in Listeners \cup {Main} : Signal(p)
    \/ CtrlC
    \/ Finished

\* The kernel schedules every process and delivers every signal.
Fairness ==
    /\ WF_vars(MainStep)
    /\ WF_vars(MainDies)
    /\ \A c \in Listeners : WF_vars(ListenerDies(c))

Spec == Init /\ [][Next]_vars /\ Fairness

-----------------------------------------------------------------------------
(* Properties *)

Unrecorded(c) == pc = "record" /\ c = addr

\* "That process is set to kill previous one": unless a process went without
\* passing the signal on, each live listener is signalled already, is the one
\* main will signal, is just forked, or is remembered by a live listener.
Chained ==
    ~cut => \A c \in Live :
        \/ c \in pending
        \/ MainLive /\ recorded = c
        \/ Unrecorded(c)
        \/ \E d \in Live : d > c /\ pred[d] = c

\* The number main announces is the number of listeners that were started.
ReadyCount == announced > 0 => announced = Cardinality(Forked)

\* No signal is left to deliver, main is gone, and yet a listener holds its
\* port: happens only after a process went without passing the signal on.
NoOrphans == ~MainLive /\ pending = {} /\ ~cut => Live = {}

\* "This is used to recursively kill forked processes": a signal to main ends
\* every listener, unless it came between fork() and chain_func or a listener
\* of the chain crashed.
TerminationSpreads == Main \in pending /\ ~cut ~> Live = {} \/ cut

\* "... and sometimes I use C-c": Ctrl-C ends every listener whatever happened
\* to the chain.
InterruptEndsAll == interrupted ~> ~MainLive /\ Live = {}
=============================================================================
