---------------------------- MODULE ServerProofs ----------------------------
(***************************************************************************)
(* Proofs about Server, for every bound N on the number of addresses: the  *)
(* chain of listeners is intact in every state in which no process went    *)
(* without passing its signal on.                                          *)
(***************************************************************************)
EXTENDS Server, FiniteSetTheorems, WellFoundedInduction, TLAPS

(* What the loop of spawn_listeners keeps: only addresses before the       *)
(* current one have a listener, and main remembers one of those.           *)
Loop ==
    /\ pc \in {"bind", "fork", "record"} => addr <= addrc
    /\ \A c \in Forked : c < addr \/ (c = addr /\ pc \in {"record", "exited"})
    /\ recorded < addr /\ spawnc < addr
    /\ spawnc = 0 => recorded = NoPid
    /\ \A c \in Forked : pred[c] < c
    /\ pc = "record" => addr \in Forked /\ pred[addr] = recorded

(* The listener that main is about to record has passed a signal on to the *)
(* one that main remembers until then.                                     *)
Overtaken ==
    pc = "record" /\ addr \notin Live /\ ~cut =>
        recorded \notin Live \/ recorded \in pending

(* main's count, one behind while a new listener is not recorded. *)
Counted ==
    /\ IsFiniteSet(Forked)
    /\ MainLive =>
         Cardinality(Forked) = IF pc = "record" THEN spawnc + 1 ELSE spawnc
    /\ announced > 0 => pc \in {"pause", "exited"} /\ announced = Cardinality(Forked)

IInv == TypeOK /\ Loop /\ Overtaken /\ Chained

USE NAssumption DEF NAssumption

LEMMA InitInv == Init => IInv
<1> SUFFICES ASSUME Init PROVE IInv
  OBVIOUS
<1>1. TypeOK
  <2>1. status \in [Listeners -> {"unborn", Receiving, Failed, "dead"}]
    BY DEF Init
  <2>2. pred \in [Listeners -> 0 .. N]
    BY DEF Init, NoPid
  <2>3. 0 \in 0 .. N /\ 1 \in 1 .. (N + 1)
    OBVIOUS
  <2>4. pending = {} /\ pc = "boot" /\ interrupted \in BOOLEAN /\ cut \in BOOLEAN
    BY DEF Init
  <2> QED
    BY <2>1, <2>2, <2>3, <2>4 DEF Init, TypeOK, NoPid
<1>2. Forked = {} /\ Live = {}
  BY DEF Init, Forked, Live, Receiving, Failed
<1> QED
  BY <1>1, <1>2 DEF Init, IInv, Loop, Overtaken, Chained, NoPid

LEMMA TypeStep == IInv /\ [Next]_vars => TypeOK'
<1> SUFFICES ASSUME IInv, [Next]_vars PROVE TypeOK'
  OBVIOUS
<1> USE DEF IInv, TypeOK, Listeners, Main, Receiving, Failed
<1>1. CASE MainStep
  <2>1. CASE Resolve \/ ListDone \/ Announce
    BY <2>1 DEF Resolve, ListDone, Announce, procs, count, history
  <2>2. CASE OpenSocket \/ BindSocket \/ ForkFails
    <3>1. addr \in 1 .. N
      BY <2>2 DEF OpenSocket, BindSocket, ForkFails, Loop
    <3>2. addr' \in {addr, addr + 1} /\ pc' \in {"socket", "bind", "fork"}
      BY <2>2 DEF OpenSocket, BindSocket, ForkFails, Advance
    <3>3. UNCHANGED <<addrc, spawnc, recorded, announced, procs, pending, history>>
      BY <2>2 DEF OpenSocket, BindSocket, ForkFails
    <3> QED
      BY <3>1, <3>2, <3>3 DEF procs, history
  <2>3. CASE Fork
    BY <2>3 DEF Fork, procs, count, history, Loop
  <2>4. CASE Record
    BY <2>4 DEF Record, Advance, procs, history, Loop
  <2> QED
    BY <1>1, <2>1, <2>2, <2>3, <2>4 DEF MainStep
<1>2. CASE MainDies
  BY <1>2 DEF MainDies, KillDown, Live, procs, count, history
<1>3. ASSUME NEW c \in Listeners, ListenerDies(c) PROVE TypeOK'
  BY <1>3 DEF ListenerDies, KillDown, Live, count, history
<1>4. ASSUME NEW c \in Listeners, ReceiveFails(c) \/ EmptyDatagram(c) PROVE TypeOK'
  BY <1>4 DEF ReceiveFails, EmptyDatagram, count, history
<1>5. ASSUME NEW p \in Listeners \cup {Main}, Signal(p) PROVE TypeOK'
  BY <1>5 DEF Signal, procs, count, history
<1>6. CASE CtrlC
  BY <1>6 DEF CtrlC, Live, procs, count
<1>7. CASE UNCHANGED vars
  BY <1>7 DEF vars, procs, count, history
<1> QED
  BY <1>1, <1>2, <1>3, <1>4, <1>5, <1>6, <1>7 DEF Next, Finished

LEMMA LoopStep == IInv /\ [Next]_vars => Loop'
<1> SUFFICES ASSUME IInv, [Next]_vars PROVE Loop'
  OBVIOUS
<1> USE DEF IInv, TypeOK, Loop, Forked, Listeners, NoPid, Receiving
<1>1. CASE MainStep
  <2>1. CASE Resolve \/ OpenSocket \/ BindSocket \/ ForkFails \/ ListDone \/ Announce
    BY <1>1, <2>1, SMTT(30) DEF Resolve, OpenSocket, BindSocket, ForkFails, ListDone, Announce,
       Advance, procs, count, history
  <2>2. CASE Fork
    BY <2>2 DEF Fork, count, history
  <2>3. CASE Record
    BY <2>3 DEF Record, Advance, procs, history
  <2> QED
    BY <1>1, <2>1, <2>2, <2>3 DEF MainStep
<1>2. CASE MainDies
  BY <1>2 DEF MainDies, procs, count
<1>3. ASSUME NEW c \in Listeners, ListenerDies(c) \/ ReceiveFails(c) \/ EmptyDatagram(c)
      PROVE  Loop'
  <2>1. status[c] # "unborn" /\ UNCHANGED <<pc, count, pred>>
        /\ \E s \in {"dead", Failed} : status' = [status EXCEPT ![c] = s]
    BY <1>3 DEF ListenerDies, ReceiveFails, EmptyDatagram, Live, Failed
  <2>2. Forked' = Forked
    BY <2>1 DEF Failed
  <2> QED
    BY <2>1, <2>2 DEF count
<1>4. CASE UNCHANGED <<pc, count, procs>>
  BY <1>4 DEF count, procs
<1> QED
  BY <1>1, <1>2, <1>3, <1>4 DEF Next, Finished, Signal, CtrlC, vars

LEMMA OvertakenStep == IInv /\ [Next]_vars => Overtaken'
<1> SUFFICES ASSUME IInv, [Next]_vars, pc' = "record", addr' \notin Live', ~cut'
             PROVE  recorded' \notin Live' \/ recorded' \in pending'
  BY DEF Overtaken
<1> USE DEF IInv, TypeOK, Overtaken, Live, Listeners, Receiving, Failed
<1>1. CASE MainStep
  <2>1. Fork
    BY <1>1 DEF MainStep, Resolve, OpenSocket, BindSocket, ForkFails, Record,
       ListDone, Announce, Advance
  <2>2. addr \in Listeners
    BY <2>1 DEF Fork, Loop
  <2>3. addr' \in Live'
    BY <2>1, <2>2 DEF Fork, count
  <2> QED
    BY <2>3
<1>2. CASE MainDies
  BY <1>2 DEF MainDies
<1>3. ASSUME NEW c \in Listeners, ListenerDies(c)
      PROVE  recorded' \notin Live' \/ recorded' \in pending'
  <2>1. CASE c = addr
    <3>1. pred[c] = recorded
      BY <1>3, <2>1 DEF ListenerDies, Loop, count
    <3>2. recorded \in Live => recorded \in pending'
      BY <1>3, <3>1 DEF ListenerDies, KillDown
    <3> QED
      BY <1>3, <3>2 DEF ListenerDies, count
  <2>2. CASE c # addr
    BY <1>3, <2>2 DEF ListenerDies, KillDown, count, history
  <2> QED
    BY <2>1, <2>2
<1>4. ASSUME NEW c \in Listeners, ReceiveFails(c)
      PROVE  recorded' \notin Live' \/ recorded' \in pending'
  BY <1>4 DEF ReceiveFails, count, history
<1>5. ASSUME NEW c \in Listeners, EmptyDatagram(c) PROVE FALSE
  BY <1>5 DEF EmptyDatagram
<1>6. CASE /\ UNCHANGED <<pc, count, procs, cut>>
           /\ pending \subseteq pending'
  BY <1>6 DEF count, procs
<1> QED
  BY <1>1, <1>2, <1>3, <1>4, <1>5, <1>6
  DEF Next, Finished, Signal, CtrlC, vars, history

LEMMA ChainedStep == IInv /\ [Next]_vars => Chained'
<1> DEFINE Held(c) == \/ c \in pending
                      \/ MainLive /\ recorded = c
                      \/ Unrecorded(c)
                      \/ \E d \in Live : d > c /\ pred[d] = c
<1> SUFFICES ASSUME IInv, [Next]_vars, ~cut', NEW c \in Live' PROVE Held(c)'
  BY DEF Chained
<1>1. ~cut
  BY DEF Next, MainStep, Resolve, OpenSocket, BindSocket, Fork, ForkFails, Record,
     ListDone, Announce, MainDies, ListenerDies, ReceiveFails, EmptyDatagram,
     Signal, CtrlC, Finished, vars, history
<1>2. ASSUME c \in Live PROVE Held(c)
  BY <1>1, <1>2 DEF IInv, Chained
<1> HIDE DEF Held
<1> USE DEF IInv, TypeOK, Live, Listeners, Receiving, Failed, MainLive, Unrecorded
<1>3. CASE MainStep
  <2>1. CASE Resolve \/ OpenSocket \/ BindSocket \/ ForkFails \/ ListDone \/ Announce
    <3>1. /\ UNCHANGED <<recorded, status, pred, pending>>
          /\ pc \notin {"record", "exited"}
          /\ pc' = "exited" => spawnc = 0 /\ ListDone
      BY <2>1 DEF Resolve, OpenSocket, BindSocket, ForkFails, ListDone, Announce,
         Advance, procs, count
    <3>2. Held(c)
      BY <1>2, <3>1
    <3> QED
      BY <3>1, <3>2 DEF Held, Loop, NoPid
  <2>2. CASE Fork
    <3>1. addr \in Listeners /\ addr \notin Live
      BY <2>2 DEF Fork, Loop, Forked
    <3>2. CASE c = addr
      BY <2>2, <3>2 DEF Fork, Held, count
    <3>3. CASE c # addr
      <4>1. Held(c)
        BY <1>2, <2>2, <3>3 DEF Fork
      <4> QED
        BY <2>2, <3>1, <3>3, <4>1 DEF Fork, Held, count
    <3> QED
      BY <3>2, <3>3
  <2>3. CASE Record
    <3>1. Held(c)
      BY <1>2, <2>3 DEF Record, procs
    <3>2. CASE c = recorded
      BY <1>1, <2>3, <3>2 DEF Record, Advance, Held, procs, Loop, Overtaken
    <3>3. CASE c # recorded
      BY <2>3, <3>1, <3>3 DEF Record, Advance, Held, procs
    <3> QED
      BY <3>2, <3>3
  <2> QED
    BY <1>3, <2>1, <2>2, <2>3 DEF MainStep
<1>4. CASE MainDies
  <2>1. c \in Live
    BY <1>4 DEF MainDies, procs
  <2>2. c # Main /\ Held(c)
    BY <1>2, <2>1 DEF Main
  <2>3. pc # "record"
    BY <1>4 DEF MainDies
  <2> QED
    BY <1>4, <2>1, <2>2, <2>3 DEF MainDies, KillDown, Held, procs
<1>5. ASSUME NEW e \in Listeners, ListenerDies(e) PROVE Held(c)'
  <2>1. c \in Live /\ c # e /\ Held(c)
    BY <1>2, <1>5 DEF ListenerDies
  <2>2. CASE pred[e] = c
    BY <1>5, <2>1, <2>2 DEF ListenerDies, KillDown, Held
  <2>3. CASE pred[e] # c
    BY <1>5, <2>1, <2>3 DEF ListenerDies, KillDown, Held, count
  <2> QED
    BY <2>2, <2>3
<1>6. ASSUME NEW e \in Listeners, ReceiveFails(e) PROVE Held(c)'
  <2>1. Live' = Live
    BY <1>6 DEF ReceiveFails
  <2> QED
    BY <1>2, <1>6, <2>1 DEF ReceiveFails, Held, count
<1>7. ASSUME NEW e \in Listeners, EmptyDatagram(e) PROVE FALSE
  BY <1>7 DEF EmptyDatagram
<1>8. CASE /\ UNCHANGED <<pc, count, procs>>
           /\ pending \subseteq pending'
  BY <1>2, <1>8 DEF Held, count, procs
<1> QED
  BY <1>3, <1>4, <1>5, <1>6, <1>7, <1>8 DEF Next, Finished, Signal, CtrlC, vars

LEMMA CountedStep == IInv /\ Counted /\ [Next]_vars => Counted'
<1> SUFFICES ASSUME IInv, Counted, [Next]_vars PROVE Counted'
  OBVIOUS
<1> USE DEF IInv, TypeOK, Counted, MainLive, Listeners, Receiving
<1>1. CASE MainStep
  <2>1. CASE Resolve \/ OpenSocket \/ BindSocket \/ ForkFails \/ ListDone \/ Announce
    <3>1. Forked' = Forked
      BY <2>1 DEF Resolve, OpenSocket, BindSocket, ForkFails, ListDone, Announce,
         procs, count, Forked
    <3> QED
      BY <2>1, <3>1 DEF Resolve, OpenSocket, BindSocket, ForkFails, ListDone,
         Announce, Advance, count
  <2>2. CASE Fork
    <3>1. addr \in Listeners /\ addr \notin Forked
      BY <2>2 DEF Fork, Loop
    <3>2. Forked' = Forked \cup {addr}
      BY <2>2, <3>1 DEF Fork, Forked
    <3>3. IsFiniteSet(Forked') /\ Cardinality(Forked') = Cardinality(Forked) + 1
      BY <3>1, <3>2, FS_AddElement
    <3> QED
      BY <2>2, <3>3 DEF Fork, count
  <2>3. CASE Record
    <3>1. Forked' = Forked
      BY <2>3 DEF Record, procs, Forked
    <3> QED
      BY <2>3, <3>1 DEF Record, Advance
  <2> QED
    BY <1>1, <2>1, <2>2, <2>3 DEF MainStep
<1>2. CASE MainDies
  <2>1. Forked' = Forked
    BY <1>2 DEF MainDies, procs, Forked
  <2> QED
    BY <1>2, <2>1 DEF MainDies, count
<1>3. ASSUME NEW c \in Listeners, ListenerDies(c) \/ ReceiveFails(c) \/ EmptyDatagram(c)
      PROVE  Counted'
  <2>1. Forked' = Forked
    BY <1>3 DEF ListenerDies, ReceiveFails, EmptyDatagram, Live, Failed, Forked
  <2> QED
    BY <1>3, <2>1 DEF ListenerDies, ReceiveFails, EmptyDatagram, count
<1>4. CASE UNCHANGED <<pc, count, procs>>
  <2>1. Forked' = Forked
    BY <1>4 DEF procs, Forked
  <2> QED
    BY <1>4, <2>1 DEF count
<1> QED
  BY <1>1, <1>2, <1>3, <1>4 DEF Next, Finished, Signal, CtrlC, vars

LEMMA InitCounted == Init => Counted
<1> SUFFICES ASSUME Init PROVE Counted
  OBVIOUS
<1>1. Forked = {}
  BY DEF Init, Forked
<1> QED
  BY <1>1, FS_EmptySet DEF Init, Counted

(* The last of the live listeners is remembered by no other.               *)
LEMMA LastListener ==
  ASSUME TypeOK, Live # {}
  PROVE  \E c \in Live : \A d \in Live : ~(d > c)
<1> DEFINE T == {N - c : c \in Live}
<1>1. Live \subseteq Listeners
  BY DEF Live
<1>2. T # {}
  <2>1. PICK c : c \in Live
    OBVIOUS
  <2>2. N - c \in T
    BY <2>1
  <2> QED
    BY <2>2
<1>3. T \subseteq Nat
  BY <1>1 DEF Listeners
<1>4. \E x \in T : \A y \in T : ~(<<y, x>> \in OpToRel(<, Nat))
  BY <1>2, <1>3, NatLessThanWellFounded, WFMin
<1>5. PICK c \in Live : \A y \in T : ~(<<y, N - c>> \in OpToRel(<, Nat))
  BY <1>4
<1>6. ASSUME NEW d \in Live, d > c PROVE FALSE
  <2>1. N - d \in T /\ N - d \in Nat /\ N - c \in Nat /\ N - d < N - c
    BY <1>1, <1>6 DEF Listeners
  <2> QED
    BY <1>5, <2>1 DEF OpToRel
<1> QED
  BY <1>5, <1>6

LEMMA Invariance == Spec => []IInv
<1>1. IInv /\ [Next]_vars => IInv'
  BY TypeStep, LoopStep, OvertakenStep, ChainedStep DEF IInv
<1> QED
  BY InitInv, <1>1, PTL DEF Spec

(***************************************************************************)
(* Type correctness of the server and of its listeners.                    *)
(***************************************************************************)
THEOREM ServerTypeCorrect == Spec => []TypeOK
<1>1. IInv => TypeOK
  BY DEF IInv
<1> QED
  BY Invariance, <1>1, PTL

(***************************************************************************)
(* chain_func: every live listener has someone to signal it, for any       *)
(* number of addresses, unless a process went without doing its part.      *)
(***************************************************************************)
THEOREM ChainIntact == Spec => []Chained
<1>1. IInv => Chained
  BY DEF IInv
<1> QED
  BY Invariance, <1>1, PTL

(***************************************************************************)
(* When main is gone and every signal is delivered no listener is left,    *)
(* for any number of addresses: the last live one would have nobody left   *)
(* to signal it.                                                           *)
(***************************************************************************)
THEOREM NoOrphansLeft == Spec => []NoOrphans
<1>1. IInv => NoOrphans
  <2> SUFFICES ASSUME IInv, ~MainLive, pending = {}, ~cut, Live # {} PROVE FALSE
    BY DEF NoOrphans
  <2>1. PICK c \in Live : \A d \in Live : ~(d > c)
    BY LastListener DEF IInv
  <2> QED
    BY <2>1 DEF IInv, Chained, MainLive, Unrecorded
<1> QED
  BY Invariance, <1>1, PTL

(***************************************************************************)
(* "%d listeners spawned" tells the truth for any number of addresses and  *)
(* whichever sockets, binds and forks fail.                                *)
(***************************************************************************)
THEOREM ReadyCountTrue == Spec => []ReadyCount
<1>1. Counted => ReadyCount
  BY DEF Counted, ReadyCount
<1> QED
  BY Invariance, InitCounted, CountedStep, <1>1, PTL DEF Spec
=============================================================================
