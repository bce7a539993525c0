----------------------------- MODULE HostProofs -----------------------------
(***************************************************************************)
(* What holds of the services around the machine for any number of         *)
(* directories, any configuration and any length of queues: a drive that   *)
(* has ended its watch is not called, a machine that is turned off leaves  *)
(* nothing behind, an interrupt of PLIX has a specification, the tester    *)
(* moves the words it is told to, a list is a queue, and a drive keeps its *)
(* disk while its image is exported and replaced.                          *)
(***************************************************************************)
EXTENDS Services, FiniteSetTheorems, NaturalsInduction, WellFoundedInduction, TLAPS

-----------------------------------------------------------------------------
(* Watches.  What speaks of a watch that is to go speaks of one that its   *)
(* drive has ended, wherever it is on its way through the thread.          *)

Ended == {w \in Watches : drive[w] \in {"waiting", "gone"}}

WatchOps == {o \in [dw : Watches, kind : {"add", "del"}] : o.kind = "del" => o.dw \in Ended}
Closings == {c \in [dw : Watches, handle : {"ev", "timer"}, counts : BOOLEAN] : c.counts => c.dw \in Ended}

WatchInv ==
  /\ drive \in [Watches -> {"new", "using", "waiting", "gone", "polls"}]
  /\ cb \subseteq {w \in Watches : drive[w] = "using"}
  /\ ops \in Seq(WatchOps) /\ batch \in Seq(WatchOps) /\ closings \in Seq(Closings)
  /\ freed \subseteq Ended
  /\ \A w \in Watches : drive[w] = "gone" => w \in freed
  /\ calling # Nobody => calling \in Watches \ freed /\ batch = <<>>

LEMMA SeqMonotonic ==
  ASSUME NEW S, NEW T, S \subseteq T
  PROVE  Seq(S) \subseteq Seq(T)
<1> SUFFICES ASSUME NEW s \in Seq(S) PROVE s \in Seq(T)
  OBVIOUS
<1> QED
  OBVIOUS

\* a drive that is not gone back to using its watch keeps what is on its way
LEMMA StaysEnded ==
  ASSUME Ended \subseteq Ended'
  PROVE  Seq(WatchOps) \subseteq Seq(WatchOps)' /\ Seq(Closings) \subseteq Seq(Closings)'
<1>1. WatchOps \subseteq WatchOps' /\ Closings \subseteq Closings'
  BY DEF WatchOps, Closings
<1> QED
  BY <1>1, SeqMonotonic

LEMMA WatchInvInductive ==
  ASSUME WatchInv, [WatchNext]_watchVars
  PROVE  WatchInv'
<1> USE DEF WatchInv
<1>1. ASSUME NEW w \in Watches, WatchCreate(w) PROVE WatchInv'
  <2>1. Ended' = Ended /\ WatchOps' = WatchOps /\ Closings' = Closings
    BY <1>1 DEF WatchCreate, Ended, WatchOps, Closings
  <2>2. [dw |-> w, kind |-> "add"] \in WatchOps
    BY DEF WatchOps
  <2> DEFINE o == [dw |-> w, kind |-> "add"]
  <2>3. ops' = Append(ops, o) \/ ops' = ops
    BY <1>1 DEF WatchCreate
  <2>4. ops' \in Seq(WatchOps)
    <3>1. o \in WatchOps /\ ops \in Seq(WatchOps)
      BY <2>2
    <3> HIDE DEF o
    <3> QED
      BY ONLY <2>3, <3>1
  <2> QED
    BY <1>1, <2>1, <2>4 DEF WatchCreate
<1>2. ASSUME NEW w \in Watches, WatchDestroy(w) PROVE WatchInv'
  <2>1. Ended \subseteq Ended' /\ w \in Ended'
    BY <1>2 DEF WatchDestroy, Ended
  <2>2. [dw |-> w, kind |-> "del"] \in WatchOps'
    BY <2>1 DEF WatchOps
  <2>3. ops \in Seq(WatchOps)' /\ batch \in Seq(WatchOps)' /\ closings \in Seq(Closings)'
    BY <2>1, StaysEnded
  <2>4. ops' \in Seq(WatchOps)'
    BY <1>2, <2>2, <2>3 DEF WatchDestroy
  <2>5. cb' \subseteq {v \in Watches : drive'[v] = "using"}
    BY <1>2 DEF WatchDestroy
  <2>6. \A v \in Watches : drive'[v] = "gone" => v \in freed'
    BY <1>2 DEF WatchDestroy
  <2>7. drive' \in [Watches -> {"new", "using", "waiting", "gone", "polls"}] /\ freed' \subseteq Ended'
    BY <1>2, <2>1 DEF WatchDestroy
  <2>8. batch' \in Seq(WatchOps)' /\ closings' \in Seq(Closings)'
    BY <1>2, <2>3 DEF WatchDestroy
  <2> QED
    BY <1>2, <2>4, <2>5, <2>6, <2>7, <2>8 DEF WatchDestroy
<1>3. ASSUME NEW w \in Watches, WatchDestroyed(w) PROVE WatchInv'
  <2>1. Ended' = Ended /\ WatchOps' = WatchOps /\ Closings' = Closings
    BY <1>3 DEF WatchDestroyed, Ended, WatchOps, Closings
  <2> QED
    BY <1>3, <2>1 DEF WatchDestroyed, Posted, Ended
<1>4. ASSUME drive' = drive PROVE Ended' = Ended /\ WatchOps' = WatchOps /\ Closings' = Closings
  BY <1>4 DEF Ended, WatchOps, Closings
<1>5. CASE TakeQueue
  BY <1>4, <1>5 DEF TakeQueue, Turning
<1>6. CASE AddHandles
  <2> DEFINE w == Head(batch).dw
             c == [dw |-> w, handle |-> "ev", counts |-> FALSE]
             one == <<c>>
  <2>1. Head(batch) \in WatchOps /\ Tail(batch) \in Seq(WatchOps)
    BY <1>6 DEF AddHandles
  <2>2. c \in Closings
    BY <2>1 DEF WatchOps, Closings
  <2>3. closings' = closings \/ closings' = one \o closings
    BY <1>6 DEF AddHandles
  <2>4. closings' \in Seq(Closings)
    <3>1. one \in Seq(Closings)
      <4> HIDE DEF c
      <4> QED
        BY <2>2
    <3>2. closings \in Seq(Closings)
      OBVIOUS
    <3>3. one \o closings \in Seq(Closings)
      <4> HIDE DEF one, WatchInv
      <4> QED
        BY <3>1, <3>2
    <3> QED
      BY <2>3, <3>2, <3>3, Zenon
  <2> QED
    BY <1>4, <1>6, <2>1, <2>4 DEF AddHandles
<1>7. CASE DelHandles
  <2> DEFINE w == Head(batch).dw
             handle(h) == [dw |-> w, handle |-> h, counts |-> TRUE]
             ht == handle("timer")
             he == handle("ev")
             t == IF HandleClosing(timer[w]) THEN <<>> ELSE <<ht>>
             e == IF HandleClosing(ev[w]) THEN <<>> ELSE <<he>>
  <2>1. Head(batch) \in WatchOps /\ Tail(batch) \in Seq(WatchOps) /\ Head(batch).kind = "del"
    BY <1>7 DEF DelHandles
  <2>2. w \in Ended
    BY <2>1 DEF WatchOps
  <2>3. ht \in Closings /\ he \in Closings
    BY <2>2 DEF Closings, Ended
  <2>4. t \in Seq(Closings) /\ e \in Seq(Closings)
    <3> HIDE DEF ht, he
    <3> QED
      BY <2>3
  <2>5. closings' = t \o e \o closings
    BY <1>7 DEF DelHandles
  <2>6. closings' \in Seq(Closings)
    <3> HIDE DEF t, e
    <3> QED
      BY <2>4, <2>5
  <2>7. freed' \subseteq Ended /\ freed \subseteq freed'
    BY <1>7, <2>2 DEF DelHandles
  <2>8. drive' = drive /\ cb' = cb /\ ops' = ops /\ calling' = calling /\ batch' = Tail(batch) /\ batch # <<>>
    BY <1>7 DEF DelHandles
  <2> QED
    BY <1>4, <2>1, <2>6, <2>7, <2>8
<1>8. CASE CloseOne
  <2> DEFINE c == Head(closings)
  <2>1. c \in Closings /\ Tail(closings) \in Seq(Closings)
    BY <1>8 DEF CloseOne
  <2>2. freed' = freed \/ (c.counts /\ freed' = freed \cup {c.dw})
    BY <1>8 DEF CloseOne
  <2>3. freed' \subseteq Ended /\ freed \subseteq freed'
    BY <2>1, <2>2 DEF Closings
  <2>4. drive' = drive /\ cb' = cb /\ ops' = ops /\ calling' = calling /\ batch' = batch
        /\ closings' = Tail(closings) /\ calling = Nobody
    BY <1>8 DEF CloseOne, Turning
  <2> QED
    BY <1>4, <2>1, <2>3, <2>4
<1>9. CASE Notified
  BY <1>4, <1>9 DEF Notified
<1>10. ASSUME NEW w \in Watches, Notify(w) PROVE WatchInv'
  BY <1>4, <1>10 DEF Notify, Turning, Ended
<1>11. CASE UNCHANGED watchVars
  BY <1>4, <1>11 DEF watchVars
<1> QED
  BY <1>1, <1>2, <1>3, <1>5, <1>6, <1>7, <1>8, <1>9, <1>10, <1>11 DEF WatchNext, WatchThread

\* A drive is not called once its dirwatch_destroy() has returned, however many of them
\* begin and end watches while the thread works.
THEOREM NeverCalledLate == WatchSpec => []NoLateCall
<1>1. WatchInit => WatchInv
  BY DEF WatchInit, WatchInv, Ended, Nobody
<1>2. WatchInv => NoLateCall
  BY DEF WatchInv, NoLateCall
<1> QED
  BY <1>1, <1>2, WatchInvInductive, PTL DEF WatchSpec

-----------------------------------------------------------------------------
(* The machine.  Whoever has been made and not freed is due: it has        *)
(* handles to close, or waits for the controller or the channel that owns  *)
(* it.                                                                     *)

Stages == {"off", "init", "building", "on", "down", "channels", "cpu"}
BuiltTypes == {m[c].type : m \in Machines, c \in Chans}

UnitOf(o) == <<"unit", o[2], o[3]>>
DevOf(o) == <<"dev", o[2], o[3]>>

Due(o) ==
  \/ handles[o] > 0
  \/ o[1] = "dev" /\ o \in owned /\ TypeAt(o) # "terminal" /\ UnitOf(o) \in made /\ handles[UnitOf(o)] > 0
  \/ o[1] = "dev" /\ o \in owned /\ io_chan[o[2]] = "mx"

Accounted(o) ==
  /\ released[o] = (IF o \in made /\ ~Due(o) THEN 1 ELSE 0)
  /\ o \in owned \/ handles[o] > 0 => o \in made /\ Due(o)

\* a controller takes along the device that has no handles of its own
UnitSound(u) ==
  u[1] = "unit" /\ u \in made =>
    /\ machine[u[2]].type = "char"
    /\ handles[u] > 0 /\ TypeAt(u) # "terminal" => DevOf(u) \in owned /\ handles[DevOf(u)] = 0

AllClosed == (\A c \in Chans : NoChannel(c)) /\ \A o \in Parts : handles[o] = 0

\* nothing has been made yet at the place in hand, nor after it
Ahead ==
  stage = "building" /\ at # <<>> =>
    /\ at \in Chans \X Devs
    /\ \A o \in made : o[2] < at[1] \/ (o[2] = at[1] /\ o[3] < at[2])

StagesKept ==
  /\ stage \in {"off", "init", "cpu"} => ~ioloop /\ ~loopThread /\ AllClosed
  /\ stage = "down" /\ ~ioloop => AllClosed
  /\ stage \in {"building", "on"} => ioloop
  /\ loopThread => stage \in {"on", "down"}
  /\ stage = "off" => ~cpu
  /\ stage = "init" => at = FirstPlace /\ made = {}

PowerTyped ==
  /\ stage \in Stages /\ machine \in Machines
  /\ io_chan \in [Chans -> {"none"} \cup BuiltTypes]
  /\ \A c \in Chans : io_chan[c] \in {"none", machine[c].type}
  /\ handles \in [Parts -> Nat] /\ released \in [Parts -> Nat]
  /\ made \subseteq Parts /\ owned \subseteq Parts

Books == \A o \in Parts : Accounted(o) /\ UnitSound(o)

PowerInv == PowerTyped /\ StagesKept /\ Ahead /\ Books

LEMMA PartsTogether ==
  /\ \A o \in Parts : /\ UnitOf(o) \in Parts /\ DevOf(o) \in Parts /\ o[2] \in Chans /\ o[3] \in Devs
                      /\ o[1] \in {"dev", "unit"} /\ UnitOf(o) # DevOf(o)
                      /\ o[1] = "dev" => o = DevOf(o) /\ DevOf(UnitOf(o)) = o
                      /\ o[1] = "unit" => o = UnitOf(o) /\ UnitOf(DevOf(o)) = o
  /\ \A o \in Parts : UnitOf(o)[1] = "unit" /\ UnitOf(o)[2] = o[2] /\ UnitOf(o)[3] = o[3]
                      /\ DevOf(o)[1] = "dev" /\ DevOf(o)[2] = o[2] /\ DevOf(o)[3] = o[3]
BY DEF Parts, UnitOf, DevOf

LEMMA PlacesThere ==
  /\ 0 \in Chans /\ 0 \in Devs /\ Chans \subseteq Nat /\ Devs \subseteq Nat
  /\ FirstPlace \in Chans \X Devs
BY PowerAssumption DEF FirstPlace

LEMMA BooksSame ==
  ASSUME Books, UNCHANGED <<machine, io_chan, owned, handles, made, released>>
  PROVE  Books'
BY DEF Books, Accounted, UnitSound, Due, TypeAt, UnitOf, DevOf

\* the steps that change who is where in the building, and nothing of what is made
LEMMA StagesMove ==
  ASSUME PowerInv, InitParts \/ SkipChannel \/ RunIo \/ TurnOff \/ JoinLoop \/ LoopClosed \/ CpuShutdown \/ ReturnFrom
                   \/ (\E c \in Chans : CallChannel(c)) \/ UNCHANGED powerVars
  PROVE  PowerInv'
<1> USE DEF PowerInv
<1>1. UNCHANGED <<machine, io_chan, owned, handles, made, released>>
  BY DEF InitParts, SkipChannel, RunIo, TurnOff, JoinLoop, LoopClosed, CpuShutdown, ReturnFrom, CallChannel, powerVars
<1>2. Books'
  BY <1>1, BooksSame
<1>3. AllClosed' = AllClosed
  BY <1>1 DEF AllClosed, NoChannel
<1>4. stage' \in Stages
  BY DEF PowerTyped, Stages, InitParts, SkipChannel, RunIo, TurnOff, JoinLoop, LoopClosed, CpuShutdown, ReturnFrom, CallChannel, powerVars
<1>5. PowerTyped'
  BY <1>1, <1>4 DEF PowerTyped, BuiltTypes
<1>6. StagesKept'
  <2>1. CASE InitParts
    BY <1>1, <1>3, <2>1 DEF StagesKept, InitParts
  <2>2. CASE SkipChannel
    BY <1>1, <1>3, <2>2 DEF StagesKept, SkipChannel
  <2>3. CASE RunIo
    BY <1>1, <1>3, <2>3 DEF StagesKept, RunIo
  <2>4. CASE TurnOff
    BY <1>1, <1>3, <2>4 DEF StagesKept, TurnOff
  <2>5. CASE JoinLoop
    BY <1>1, <1>3, <2>5 DEF StagesKept, JoinLoop
  <2>6. CASE LoopClosed
    BY <1>1, <1>3, <2>6 DEF StagesKept, LoopClosed, AllClosed
  <2>7. CASE CpuShutdown
    BY <1>1, <1>3, <2>7 DEF StagesKept, CpuShutdown
  <2>8. CASE ReturnFrom \/ (\E c \in Chans : CallChannel(c)) \/ UNCHANGED powerVars
    <3>1. UNCHANGED <<stage, at, ioloop, loopThread, cpu, made>>
      BY <2>8 DEF ReturnFrom, CallChannel, powerVars
    <3> QED
      BY <1>3, <3>1 DEF StagesKept
  <2> QED
    BY <2>1, <2>2, <2>3, <2>4, <2>5, <2>6, <2>7, <2>8
<1>7. Ahead'
  <2>1. CASE InitParts
    BY <1>1, <2>1, PlacesThere DEF StagesKept, InitParts, Ahead
  <2>2. CASE SkipChannel
    <3>1. at \in Chans \X Devs /\ \A o \in made : o[2] < at[1] \/ (o[2] = at[1] /\ o[3] < at[2])
      BY <2>2 DEF SkipChannel, Ahead
    <3>2. at' # <<>> => at' \in Chans \X Devs /\ at'[1] = at[1] + 1
      BY <2>2, <3>1, PlacesThere DEF SkipChannel, NextChannel
    <3>3. \A o \in made : o[2] \in Nat
      BY PartsTogether, PlacesThere DEF PowerTyped
    <3>4. ASSUME NEW o \in made, at' # <<>> PROVE o[2] < at'[1]
      <4>1. o[2] \in Nat /\ at[1] \in Nat /\ o[2] <= at[1]
        <5>1. at[1] \in Chans
          BY <3>1
        <5>2. at[1] \in Nat /\ o[2] \in Nat
          BY <5>1, <3>3, PlacesThere
        <5> QED
          BY <5>2, <3>1
      <4> QED
        BY <4>1, <3>2, <3>4
    <3> QED
      BY <1>1, <3>2, <3>4 DEF Ahead
  <2>3. CASE RunIo \/ TurnOff \/ JoinLoop \/ LoopClosed \/ CpuShutdown
    BY <2>3 DEF RunIo, TurnOff, JoinLoop, LoopClosed, CpuShutdown, Ahead
  <2>4. CASE ReturnFrom \/ (\E c \in Chans : CallChannel(c)) \/ UNCHANGED powerVars
    <3>1. UNCHANGED <<stage, at, made>>
      BY <2>4 DEF ReturnFrom, CallChannel, powerVars
    <3> QED
      BY <3>1 DEF Ahead
  <2> QED
    BY <2>1, <2>2, <2>3, <2>4
<1> QED
  BY <1>2, <1>5, <1>6, <1>7

LEMMA TurnedOn ==
  ASSUME PowerInv, Em400Init
  PROVE  PowerInv'
<1> USE DEF PowerInv
<1>1. made' = {} /\ owned' = owned /\ handles' = handles /\ io_chan' = io_chan /\ machine' \in Machines
      /\ released' = [o \in Parts |-> 0] /\ stage = "off" /\ stage' = "init" /\ at' = FirstPlace
      /\ ioloop' = ioloop /\ loopThread' = loopThread
  BY DEF Em400Init
<1>2. AllClosed
  BY <1>1 DEF StagesKept
<1>3. \A o \in Parts : ~(handles[o] > 0)
  BY <1>2 DEF AllClosed
<1>4. owned = {}
  <2> SUFFICES ASSUME NEW o \in owned PROVE FALSE
    OBVIOUS
  <2>1. o \in Parts /\ Due(o) /\ UnitOf(o) \in Parts /\ o[2] \in Chans
    BY PartsTogether DEF PowerTyped, Books, Accounted
  <2>2. io_chan[o[2]] = "none"
    BY <1>2, <2>1 DEF AllClosed, NoChannel
  <2> QED
    BY <2>1, <2>2, <1>3 DEF Due
<1>5. Books'
  <2> SUFFICES ASSUME NEW o \in Parts PROVE Accounted(o)' /\ UnitSound(o)'
    BY DEF Books
  <2> QED
    BY <1>1, <1>3, <1>4 DEF Accounted, UnitSound
<1>6. PowerTyped'
  <2>1. \A c \in Chans : io_chan[c] = "none"
    BY <1>2 DEF AllClosed, NoChannel
  <2> QED
    BY <1>1, <2>1 DEF PowerTyped, Stages, BuiltTypes
<1>7. AllClosed'
  BY <1>1, <1>2 DEF AllClosed, NoChannel
<1> QED
  BY <1>1, <1>5, <1>6, <1>7 DEF StagesKept, Ahead

LEMMA ChannelBuilt ==
  ASSUME PowerInv, BuildChannel
  PROVE  PowerInv'
<1> USE DEF PowerInv
<1> DEFINE c == at[1]
<1>1. /\ stage = "building" /\ at # <<>> /\ NoChannel(c) /\ c \in Chans
      /\ io_chan' = [io_chan EXCEPT ![c] = machine[c].type] \/ io_chan' = io_chan
      /\ stage' \in {"building", "down"}
      /\ UNCHANGED <<at, machine, ioloop, loopThread, cpu, owned, handles, made, released, busy, powers>>
  BY DEF BuildChannel, Ahead
<1>2. machine[c].type \in BuiltTypes
  BY <1>1 DEF PowerTyped, BuiltTypes
<1>3. PowerTyped'
  <2>1. io_chan' \in [Chans -> {"none"} \cup BuiltTypes]
    BY <1>1, <1>2 DEF PowerTyped
  <2>2. \A d \in Chans : io_chan'[d] \in {"none", machine[d].type}
    BY <1>1 DEF PowerTyped
  <2> QED
    BY <1>1, <2>1, <2>2 DEF PowerTyped, Stages, BuiltTypes
<1>4. Books'
  <2> SUFFICES ASSUME NEW o \in Parts PROVE Accounted(o)' /\ UnitSound(o)'
    BY DEF Books
  <2>1. o \in made => o[2] < c
    <3>1. o[3] \in Nat /\ at[2] = 0
      BY PartsTogether, PlacesThere DEF BuildChannel, FirstPlace
    <3>2. o \in made => o[2] < c \/ (o[2] = c /\ o[3] < at[2])
      BY <1>1 DEF Ahead
    <3> QED
      BY <3>1, <3>2
  <2>2. o \in made => io_chan'[o[2]] = io_chan[o[2]]
    <3>1. o[2] \in Chans /\ o[2] \in Nat /\ c \in Nat
      BY <1>1, PartsTogether, PlacesThere
    <3>2. o \in made => o[2] # c
      BY <2>1, <3>1
    <3> QED
      BY <1>1, <3>1, <3>2 DEF PowerTyped
  <2>3. o \in made => Due(o)' = Due(o)
    BY <1>1, <2>2 DEF Due, TypeAt, UnitOf
  <2>4. Accounted(o) /\ UnitSound(o)
    BY DEF Books
  <2>5. Accounted(o)'
    BY <1>1, <2>3, <2>4 DEF Accounted
  <2> QED
    BY <1>1, <2>4, <2>5 DEF UnitSound, TypeAt, DevOf
<1>5. StagesKept'
  BY <1>1 DEF StagesKept
<1>6. Ahead'
  BY <1>1 DEF Ahead
<1> QED
  BY <1>3, <1>4, <1>5, <1>6

\* what is done to one place leaves the books of the others
LEMMA ElsewhereSame ==
  ASSUME NEW o \in Parts, o[1] = "dev", UNCHANGED <<machine, io_chan>>,
         NEW p \in Parts, p # o, p # UnitOf(o), Accounted(p), UnitSound(p),
         \A q \in Parts \ {o, UnitOf(o)} :
           handles'[q] = handles[q] /\ released'[q] = released[q] /\ (q \in made' <=> q \in made) /\ (q \in owned' <=> q \in owned)
  PROVE  Accounted(p)' /\ UnitSound(p)'
<1>1. p[1] = "dev" => UnitOf(p) \in Parts /\ UnitOf(p) # UnitOf(o) /\ UnitOf(p) # o
  BY PartsTogether
<1>2. p[1] = "unit" => DevOf(p) \in Parts /\ DevOf(p) # UnitOf(o) /\ DevOf(p) # o
  BY PartsTogether
<1>3. Due(p)' <=> Due(p)
  BY <1>1 DEF Due, TypeAt, UnitOf
<1>4. Accounted(p)'
  BY <1>3 DEF Accounted
<1>5. UnitSound(p)'
  BY <1>2 DEF UnitSound, TypeAt, DevOf
<1> QED
  BY <1>4, <1>5

LEMMA DeviceBuilt ==
  ASSUME PowerInv, BuildDevice
  PROVE  PowerInv'
<1> USE DEF PowerInv
<1>1. /\ stage = "building" /\ at # <<>> /\ at \in Chans \X Devs /\ ~NoChannel(at[1])
      /\ UNCHANGED <<machine, ioloop, loopThread, cpu, io_chan>>
  BY DEF BuildDevice, Ahead
<1>0. PICK c, o, u, type : c = at[1] /\ o = <<"dev", at[1], at[2]>> /\ u = <<"unit", at[1], at[2]>> /\ type = TypeAt(o)
  OBVIOUS
<1> DEFINE has == [handles EXCEPT ![o] = HandlesOf(o, type)]
<1>2. /\ o \in Parts /\ u \in Parts /\ u = UnitOf(o) /\ o = DevOf(u) /\ o # u /\ o[1] = "dev" /\ u[1] = "unit"
      /\ o[2] = c /\ u[2] = c /\ o[3] = at[2] /\ u[3] = at[2] /\ c \in Chans /\ TypeAt(u) = type
  BY <1>1, <1>0 DEF Parts, UnitOf, DevOf, TypeAt
<1>3. o \notin made /\ u \notin made
  <2>1. c \in Nat /\ at[2] \in Nat
    BY <1>1, <1>2, PlacesThere
  <2> QED
    BY <2>1, <1>1, <1>2, <1>0 DEF Ahead
<1>4. handles[o] = 0 /\ handles[u] = 0 /\ released[o] = 0 /\ released[u] = 0 /\ o \notin owned /\ u \notin owned
  BY <1>2, <1>3 DEF Books, Accounted, PowerTyped
<1>5. HandlesOf(o, type) = (IF type = "terminal" THEN 3 ELSE 0) /\ HandlesOf(u, type) \in Nat /\ HandlesOf(u, type) > 0
  BY <1>2 DEF HandlesOf, TerminalHandles, UzdatHandles, UzfxHandles, MecloHandles
<1> DEFINE NothingMade == UNCHANGED <<owned, handles, made, released>> /\ stage' \in {"building", "down"}
                      /\ (stage' = "building" => at' = NextPlace(c, at[2]))
           PortTaken == /\ stage' = "down" /\ type = "terminal" /\ handles' = [handles EXCEPT ![o] = 1]
                        /\ made' = made \cup {o} /\ UNCHANGED <<owned, released>>
           Refused == /\ stage' = "down" /\ handles' = has /\ made' = made \cup {o} /\ UNCHANGED owned
                      /\ IF has[o] > 0 THEN UNCHANGED released ELSE Rejected(o)
           OnChar == /\ io_chan[c] = "char" /\ at' = NextPlace(c, at[2]) /\ stage' = stage /\ released' = released
                     /\ owned' = owned \cup {o, u} /\ made' = made \cup {o, u}
                     /\ handles' = [has EXCEPT ![u] = HandlesOf(u, type)]
           OnMx == /\ io_chan[c] = "mx" /\ at' = NextPlace(c, at[2]) /\ stage' = stage /\ released' = released
                   /\ owned' = owned \cup {o} /\ made' = made \cup {o} /\ handles' = has
<1>6. NothingMade \/ PortTaken \/ Refused \/ OnChar \/ OnMx
  <2>1. type \in Compatible(io_chan[c]) => io_chan[c] \in {"char", "mx"}
    BY DEF Compatible
  <2>2. owned \cup {o} \cup {u} = owned \cup {o, u} /\ made \cup {o} \cup {u} = made \cup {o, u}
    OBVIOUS
  <2>3. owned \cup {o} \cup {} = owned \cup {o} /\ made \cup {o} \cup {} = made \cup {o}
    OBVIOUS
  <2> QED
    BY <1>1, <1>0, <2>1, <2>2, <2>3, Zenon DEF BuildDevice
<1>7. /\ has \in [Parts -> Nat] /\ has[o] = (IF type = "terminal" THEN 3 ELSE 0) /\ has[u] = 0
      /\ \A q \in Parts \ {o} : has[q] = handles[q]
  BY <1>2, <1>4, <1>5 DEF PowerTyped
<1>8. Rejected(o) => /\ released' \in [Parts -> Nat] /\ released'[o] = 1
                     /\ \A q \in Parts \ {o} : released'[q] = released[q]
  BY <1>2, <1>4 DEF Rejected, TakenDown, PowerTyped
<1> HIDE DEF has
<1>9. /\ made' \subseteq made \cup {o, u} /\ owned' \subseteq owned \cup {o, u} /\ made \subseteq made' /\ owned \subseteq owned'
      /\ stage' \in {"building", "down"}
      /\ stage' = "building" => at' = NextPlace(c, at[2])
  BY <1>1, <1>6
<1>10. handles' \in [Parts -> Nat] /\ released' \in [Parts -> Nat]
       /\ \A q \in Parts \ {o, u} : handles'[q] = handles[q] /\ released'[q] = released[q]
  BY <1>2, <1>5, <1>6, <1>7, <1>8 DEF PowerTyped
<1>11. PowerTyped'
  <2>1. made' \subseteq Parts /\ owned' \subseteq Parts /\ stage' \in Stages
    BY <1>2, <1>9 DEF PowerTyped, Stages
  <2> QED
    BY <1>1, <1>10, <2>1 DEF PowerTyped, BuiltTypes
<1>12. StagesKept'
  BY <1>1, <1>9 DEF StagesKept
<1>13. Ahead'
  <2> SUFFICES ASSUME stage' = "building", at' # <<>>
               PROVE  at' \in Chans \X Devs /\ \A p \in made' : p[2] < at'[1] \/ (p[2] = at'[1] /\ p[3] < at'[2])
    BY DEF Ahead
  <2>1. c \in Chans /\ c \in Nat /\ at[2] \in Devs /\ at[2] \in Nat
    BY <1>1, <1>0, PlacesThere
  <2>2. at' \in Chans \X Devs /\ ((at'[1] = c /\ at'[2] = at[2] + 1) \/ at'[1] = c + 1)
    BY <1>9, <2>1, PlacesThere DEF NextPlace, NextChannel
  <2>3. ASSUME NEW p \in made' PROVE p[2] < at'[1] \/ (p[2] = at'[1] /\ p[3] < at'[2])
    <3>1. p \in Parts /\ p[2] \in Nat /\ p[3] \in Nat
      BY <1>2, <1>9, PartsTogether, PlacesThere DEF PowerTyped
    <3>2. p \in made => p[2] < c \/ (p[2] = c /\ p[3] < at[2])
      BY <1>1, <1>0 DEF Ahead
    <3>3. p \notin made => p[2] = c /\ p[3] = at[2]
      BY <1>2, <1>9
    <3> QED
      BY <2>1, <2>2, <3>1, <3>2, <3>3
  <2> QED
    BY <2>2, <2>3
<1>14. Accounted(o)' /\ Accounted(u)' /\ UnitSound(o)' /\ UnitSound(u)'
  <2> USE DEF PowerTyped
  <2>1. CASE NothingMade
    <3>1. /\ o \notin made' /\ u \notin made' /\ handles'[o] = 0 /\ handles'[u] = 0
          /\ released'[o] = 0 /\ released'[u] = 0 /\ o \notin owned' /\ u \notin owned'
      BY <1>3, <1>4, <2>1
    <3> QED
      BY <3>1 DEF Accounted, UnitSound
  <2>2. CASE PortTaken
    <3>1. /\ o \in made' /\ u \notin made' /\ handles'[o] = 1 /\ handles'[u] = 0
          /\ released'[o] = 0 /\ released'[u] = 0 /\ u \notin owned'
      BY <1>2, <1>3, <1>4, <2>2
    <3> QED
      BY <1>2, <3>1 DEF Accounted, UnitSound, Due
  <2>3. CASE Refused
    <3>1. /\ o \in made' /\ u \notin made' /\ handles'[u] = 0 /\ released'[u] = 0 /\ u \notin owned' /\ o \notin owned'
      BY <1>2, <1>3, <1>4, <1>7, <1>8, <2>3
    <3>2. \/ handles'[o] = 3 /\ released'[o] = 0
          \/ handles'[o] = 0 /\ released'[o] = 1
      BY <1>2, <1>4, <1>7, <1>8, <2>3
    <3> QED
      BY <1>2, <3>1, <3>2 DEF Accounted, UnitSound, Due
  <2>4. CASE OnChar
    <3>1. /\ o \in made' /\ u \in made' /\ o \in owned' /\ u \in owned'
          /\ released'[o] = 0 /\ released'[u] = 0 /\ handles'[u] > 0
          /\ handles'[o] = IF type = "terminal" THEN 3 ELSE 0
      BY <1>2, <1>4, <1>5, <1>7, <2>4
    <3>2. machine[c].type = "char" /\ machine' = machine
      BY <1>1, <1>2, <2>4
    <3>3. TypeAt(o)' = type /\ TypeAt(u)' = type
      BY <1>0, <1>1, <1>2 DEF TypeAt
    <3>4. Due(o)' /\ Due(u)'
      BY <1>2, <3>1, <3>3 DEF Due
    <3> QED
      BY <1>2, <3>1, <3>2, <3>3, <3>4 DEF Accounted, UnitSound
  <2>5. CASE OnMx
    <3>1. /\ o \in made' /\ u \notin made' /\ o \in owned' /\ u \notin owned' /\ handles'[u] = 0
          /\ released'[o] = 0 /\ released'[u] = 0 /\ io_chan'[c] = "mx"
      BY <1>1, <1>2, <1>3, <1>4, <1>7, <2>5
    <3>2. Due(o)'
      BY <1>2, <3>1 DEF Due
    <3> QED
      BY <1>2, <3>1, <3>2 DEF Accounted, UnitSound
  <2> QED
    BY <1>6, <2>1, <2>2, <2>3, <2>4, <2>5
<1>15. \A q \in Parts \ {o, u} : (q \in made' <=> q \in made) /\ (q \in owned' <=> q \in owned)
  BY <1>9
<1>16. Books'
  <2> SUFFICES ASSUME NEW p \in Parts PROVE Accounted(p)' /\ UnitSound(p)'
    BY DEF Books
  <2>1. CASE p \in {o, u}
    BY <2>1, <1>14
  <2>2. CASE p \notin {o, u}
    <3> QED
      BY <2>2, <1>1, <1>2, <1>10, <1>15, ElsewhereSame DEF Books
  <2> QED
    BY <2>1, <2>2
<1> QED
  BY <1>11, <1>12, <1>13, <1>16

LEMMA ChannelShut ==
  ASSUME PowerInv, NEW c \in Chans, ShutChannel(c)
  PROVE  PowerInv'
<1> USE DEF PowerInv
<1> DEFINE now == {o \in owned : o[2] = c /\ o[1] = "dev" /\ (io_chan[c] = "mx" \/ TypeAt(o) = "terminal")}
<1>1. /\ stage = "channels" /\ ~NoChannel(c) /\ io_chan' = [io_chan EXCEPT ![c] = "none"]
      /\ TakenDown(now) /\ owned' = owned \ now
      /\ UNCHANGED <<stage, at, machine, ioloop, loopThread, cpu, handles, made, busy, powers>>
  <2>1. {o \in {p \in owned : p[2] = c} : o[1] = "dev" /\ (io_chan[c] = "mx" \/ TypeAt(o) = "terminal")} = now
    OBVIOUS
  <2> HIDE DEF now
  <2> QED
    BY <2>1 DEF ShutChannel
<1>2. /\ released' \in [Parts -> Nat]
      /\ \A o \in Parts : released'[o] = IF o \in now /\ handles[o] = 0 THEN released[o] + 1 ELSE released[o]
  <2> HIDE DEF now
  <2> QED
    BY <1>1 DEF TakenDown, PowerTyped
<1>3. PowerTyped'
  BY <1>1, <1>2 DEF PowerTyped, BuiltTypes
<1>4. Books'
  <2> SUFFICES ASSUME NEW o \in Parts PROVE Accounted(o)' /\ UnitSound(o)'
    BY DEF Books
  <2>1. Accounted(o) /\ UnitSound(o) /\ UnitSound(UnitOf(o)) /\ released[o] \in Nat /\ handles[o] \in Nat
        /\ handles[UnitOf(o)] \in Nat
    BY PartsTogether DEF Books, PowerTyped
  <2>2. io_chan'[o[2]] = (IF o[2] = c THEN "none" ELSE io_chan[o[2]]) /\ io_chan[c] = machine[c].type
    BY <1>1, PartsTogether DEF PowerTyped, NoChannel
  <2>3. CASE o \in now
    <3>1. o \in owned /\ o \in made /\ released[o] = 0 /\ Due(o) /\ o[1] = "dev"
      BY <2>1, <2>3 DEF Accounted
    <3>2. o \notin owned' /\ o \in made' /\ released'[o] = (IF handles[o] = 0 THEN 1 ELSE 0) /\ handles'[o] = handles[o]
      BY <1>1, <1>2, <2>3, <3>1
    <3>3. Due(o)' <=> handles[o] > 0
      BY <1>1, <3>2 DEF Due
    <3>4. Accounted(o)'
      BY <2>1, <3>2, <3>3 DEF Accounted
    <3>5. UnitSound(o)'
      BY <3>1 DEF UnitSound
    <3> QED
      BY <3>4, <3>5
  <2>4. CASE o \notin now
    <3>1. released'[o] = released[o] /\ (o \in owned' <=> o \in owned) /\ (o \in made' <=> o \in made) /\ handles' = handles
      BY <1>1, <1>2, <2>4
    <3>2. o \in owned /\ o[1] = "dev" /\ o[2] = c => io_chan[c] # "mx"
      BY <2>4
    <3>3. Due(o)' <=> Due(o)
      BY <1>1, <2>2, <3>1, <3>2 DEF Due, TypeAt, UnitOf
    <3>4. Accounted(o)'
      BY <2>1, <3>1, <3>3 DEF Accounted
    <3>5. ASSUME o[1] = "unit", o \in made, handles[o] > 0, TypeAt(o) # "terminal" PROVE DevOf(o) \notin now
      <4>1. machine[o[2]].type = "char" /\ DevOf(o)[2] = o[2] /\ TypeAt(DevOf(o)) = TypeAt(o)
        BY <2>1, <3>5, PartsTogether DEF UnitSound, TypeAt
      <4> QED
        BY <2>2, <3>5, <4>1
    <3>6. UnitSound(o)'
      BY <1>1, <2>1, <3>1, <3>5 DEF UnitSound, TypeAt, DevOf
    <3> QED
      BY <3>4, <3>6
  <2> QED
    BY <2>3, <2>4
<1>5. StagesKept' /\ Ahead'
  BY <1>1 DEF StagesKept, Ahead
<1> QED
  BY <1>3, <1>4, <1>5

LEMMA HandleClosed ==
  ASSUME PowerInv, NEW o \in Parts, CloseHandle(o)
  PROVE  PowerInv'
<1> USE DEF PowerInv
<1> DEFINE gone == IF handles[o] = 1 THEN FreedWith(o) ELSE {}
<1>1. /\ stage = "channels" /\ (\A c \in Chans : NoChannel(c)) /\ handles[o] > 0
      /\ handles' = [handles EXCEPT ![o] = @ - 1]
      /\ released' = [p \in Parts |-> released[p] + IF p \in gone THEN 1 ELSE 0] /\ owned' = owned \ gone
      /\ UNCHANGED <<stage, at, machine, ioloop, loopThread, cpu, io_chan, made, busy, powers>>
  BY DEF CloseHandle
<1>2. /\ Accounted(o) /\ UnitSound(o) /\ handles[o] \in Nat /\ DevOf(o) \in Parts
      /\ Accounted(DevOf(o))
  BY PartsTogether DEF Books, PowerTyped
<1>3. o \in made /\ released[o] = 0
  BY <1>1, <1>2 DEF Accounted
<1>4. gone = {} \/ gone = {o}
      \/ (gone = {o, DevOf(o)} /\ o[1] = "unit" /\ TypeAt(o) # "terminal" /\ DevOf(o) \in owned /\ handles[DevOf(o)] = 0
           /\ released[DevOf(o)] = 0 /\ DevOf(o) \in made)
  <2>1. CASE handles[o] = 1 /\ o[1] = "unit" /\ TypeAt(DevOf(o)) # "terminal"
    <3>1. TypeAt(DevOf(o)) = TypeAt(o)
      BY DEF TypeAt, DevOf
    <3>2. gone = {o, DevOf(o)}
      BY <2>1 DEF FreedWith, DevOf
    <3> QED
      BY <1>1, <1>2, <1>3, <2>1, <3>1, <3>2 DEF UnitSound, Accounted
  <2>2. CASE ~(handles[o] = 1 /\ o[1] = "unit" /\ TypeAt(DevOf(o)) # "terminal")
    BY <2>2 DEF FreedWith, DevOf
  <2> QED
    BY <2>1, <2>2
<1>5. handles[o] = 1 <=> o \in gone
  BY PartsTogether DEF FreedWith, DevOf
<1>10. handles[o] = 1 /\ o[1] = "unit" /\ TypeAt(o) # "terminal" => DevOf(o) \in gone
  BY DEF FreedWith, DevOf, TypeAt
<1> HIDE DEF gone
<1>6. PowerTyped'
  <2>1. handles' \in [Parts -> Nat] /\ released' \in [Parts -> Nat]
    BY <1>1, <1>2 DEF PowerTyped
  <2> QED
    BY <1>1, <2>1 DEF PowerTyped, BuiltTypes
<1>7. \A p \in Parts : io_chan[p[2]] = "none" /\ p[2] \in Chans
  BY <1>1, PartsTogether DEF NoChannel
<1>8. Books'
  <2> SUFFICES ASSUME NEW p \in Parts PROVE Accounted(p)' /\ UnitSound(p)'
    BY DEF Books
  <2>1. /\ Accounted(p) /\ UnitSound(p) /\ handles[p] \in Nat /\ released[p] \in Nat
        /\ released'[p] = released[p] + (IF p \in gone THEN 1 ELSE 0)
        /\ handles'[p] = IF p = o THEN handles[o] - 1 ELSE handles[p]
    BY <1>1 DEF Books, PowerTyped
  <2>2. CASE p \in gone
    <3>1. p \in made /\ released[p] = 0 /\ handles'[p] = 0 /\ p \notin owned'
      BY <1>1, <1>3, <1>4, <1>5, <2>1, <2>2
    <3>2. ~Due(p)'
      BY <1>1, <1>7, <3>1 DEF Due
    <3>3. Accounted(p)'
      BY <1>1, <2>1, <2>2, <3>1, <3>2 DEF Accounted
    <3> QED
      BY <1>1, <2>1, <3>1, <3>3 DEF UnitSound
  <2>3. CASE p \notin gone
    <3>1. (p \in owned' <=> p \in owned) /\ (handles'[p] > 0 <=> handles[p] > 0) /\ released'[p] = released[p]
      BY <1>1, <1>2, <1>5, <2>1, <2>3
    <3>2. p[1] = "dev" /\ p \in owned /\ TypeAt(p) # "terminal" => (handles'[UnitOf(p)] > 0 <=> handles[UnitOf(p)] > 0)
      <4>1. CASE UnitOf(p) = o
        <5>1. p[1] = "dev" => p = DevOf(o) /\ TypeAt(p) = TypeAt(o) /\ o[1] = "unit"
          BY <4>1, PartsTogether DEF TypeAt
        <5> QED
          BY <1>1, <1>2, <1>10, <2>1, <2>3, <4>1, <5>1 DEF PowerTyped
      <4>2. CASE UnitOf(p) # o
        BY <1>1, <4>2, PartsTogether DEF PowerTyped
      <4> QED
        BY <4>1, <4>2
    <3>3. Due(p)' <=> Due(p)
      BY <1>1, <1>7, <3>1, <3>2 DEF Due, TypeAt, UnitOf
    <3>4. Accounted(p)'
      BY <1>1, <2>1, <3>1, <3>3 DEF Accounted
    <3>5. ASSUME p[1] = "unit", handles[p] > 0, TypeAt(p) # "terminal", p \in made
          PROVE  DevOf(p) \in owned' /\ handles'[DevOf(p)] = 0
      <4>1. DevOf(p) \in owned /\ handles[DevOf(p)] = 0 /\ DevOf(p) \in Parts
        BY <2>1, <3>5, PartsTogether DEF UnitSound
      <4>2. DevOf(p) # o
        BY <1>1, <4>1
      <4>3. DevOf(p) \notin gone
        BY <1>4, <2>3, <3>5, <4>2, PartsTogether
      <4> QED
        BY <1>1, <4>1, <4>2, <4>3 DEF PowerTyped
    <3>6. UnitSound(p)'
      BY <1>1, <2>1, <3>1, <3>5 DEF UnitSound, TypeAt, DevOf
    <3> QED
      BY <3>4, <3>6
  <2> QED
    BY <2>2, <2>3
<1>9. StagesKept' /\ Ahead'
  BY <1>1 DEF StagesKept, Ahead
<1> QED
  BY <1>6, <1>8, <1>9

\* Wherever the building of a machine fails, and whenever it is turned off, for any
\* configuration: all that was made is freed, once each, and the I/O system is empty.
THEOREM OffAlwaysClean == PowerSpec => []OffIsClean
<1>1. PowerInit => PowerInv
  <2> SUFFICES ASSUME PowerInit PROVE PowerInv
    OBVIOUS
  <2>1. PowerTyped
    BY DEF PowerInit, PowerTyped, Stages, BuiltTypes
  <2>2. StagesKept /\ Ahead
    BY DEF PowerInit, StagesKept, Ahead, AllClosed, NoChannel
  <2>3. Books
    BY DEF PowerInit, Books, Accounted, UnitSound
  <2> QED
    BY <2>1, <2>2, <2>3 DEF PowerInv
<1>2. PowerInv /\ [PowerNext]_powerVars => PowerInv'
  BY StagesMove, TurnedOn, ChannelBuilt, DeviceBuilt, ChannelShut, HandleClosed DEF PowerNext
<1>3. PowerInv => OffIsClean
  <2> SUFFICES ASSUME PowerInv PROVE OffIsClean
    OBVIOUS
  <2>1. \A o \in Parts : released[o] <= 1
    BY DEF PowerInv, Books, Accounted
  <2>2. ASSUME stage = "off" PROVE \A o \in Parts : ~Due(o)
    <3>1. AllClosed
      BY <2>2 DEF PowerInv, StagesKept
    <3> QED
      BY <3>1, PartsTogether DEF AllClosed, NoChannel, Due
  <2>3. ASSUME stage = "off" PROVE owned = {} /\ \A o \in made : released[o] = 1
    <3>1. owned \subseteq Parts /\ made \subseteq Parts /\ \A o \in Parts : Accounted(o)
      BY DEF PowerInv, Books, PowerTyped
    <3>2. \A o \in owned : FALSE
      BY <2>2, <2>3, <3>1 DEF Accounted
    <3> QED
      BY <2>2, <2>3, <3>1, <3>2 DEF Accounted
  <2> QED
    BY <2>1, <2>3 DEF OffIsClean, PowerInv, StagesKept, AllClosed
<1> QED
  BY <1>1, <1>2, <1>3, PTL DEF PowerSpec

-----------------------------------------------------------------------------
(* PLIX.  A request stands for at least one specification.                 *)

PlixNumbers == {"IWYTE", "IUKON", "IDOLI", "IODLI", "ISTRE", "IABTR", "IETRA", "IZURZ", "IWYZE"}
Specifications == [number : PlixNumbers, line : PlixLines \cup {0}]
PlixInv ==
  /\ intq \in Seq(Specifications)
  /\ signalled \in BOOLEAN
  /\ signalled => intq # <<>>

LEMMA PushedThere ==
  ASSUME NEW q \in Seq(Specifications), NEW number \in PlixNumbers, NEW line \in PlixLines \cup {0}
  PROVE  Pushed(q, number, line) \in Seq(Specifications) /\ Pushed(q, number, line) # <<>>
<1> DEFINE spec == [number |-> number, line |-> line]
<1>1. spec \in Specifications
  BY DEF Specifications
<1>2. Pushed(q, number, line) = IF Len(q) < PlixCap THEN Append(q, spec) ELSE q
  BY DEF Pushed
<1> HIDE DEF spec
<1>3. Append(q, spec) \in Seq(Specifications) /\ Append(q, spec) # <<>>
  <2>1. Append(q, spec) \in Seq(Specifications)
    BY <1>1
  <2>2. Len(Append(q, spec)) = Len(q) + 1 /\ Len(q) \in Nat
    BY <1>1
  <2> QED
    BY <2>1, <2>2
<1>4. Len(q) >= PlixCap => q # <<>>
  BY PlixAssumption
<1> QED
  BY <1>2, <1>3, <1>4, PlixAssumption

\* An interrupt that is served has a specification, whatever was queued, asked for or
\* reset before it, for a queue of any length.
THEOREM ServedAlwaysGets == PlixSpecification => ServedGets
<1>1. PlixInit => PlixInv
  <2> SUFFICES ASSUME PlixInit PROVE PlixInv
    OBVIOUS
  <2>1. intq = <<>> /\ signalled = FALSE
    BY DEF PlixInit
  <2>2. signalled \in BOOLEAN
    BY <2>1, Zenon
  <2> QED
    BY <2>1, <2>2 DEF PlixInv
<1>2. ASSUME PlixInv, [PlixNext]_plixVars PROVE PlixInv'
  <2>1. ASSUME NEW op \in DOMAIN PlixAnswers, NEW dir \in {"ou", "in"}, NEW line \in PlixLines, PlixCmd(op, dir, line)
        PROVE  PlixInv'
    <3> DEFINE number == PlixAnswers[op][dir]
               place == IF op \in OfLine THEN line ELSE 0
    <3>1. number \in PlixNumbers \cup {"none"}
      BY DEF PlixAnswers, PlixNumbers
    <3>2. place \in PlixLines \cup {0}
      OBVIOUS
    <3>3. IF number = "none" THEN UNCHANGED <<intq, signalled>> ELSE intq' = Pushed(intq, number, place) /\ signalled' = TRUE
      BY <2>1 DEF PlixCmd
    <3> HIDE DEF number, place
    <3>4. CASE number = "none"
      BY <1>2, <3>3, <3>4 DEF PlixInv
    <3>5. CASE number # "none"
      <4>1. intq' = Pushed(intq, number, place) /\ signalled' = TRUE
        BY <3>3, <3>5
      <4>2. signalled' \in BOOLEAN
        BY <4>1, Zenon
      <4> QED
        BY <1>2, <3>1, <3>2, <3>5, <4>1, <4>2, PushedThere DEF PlixInv
    <3> QED
      BY <3>4, <3>5
  <2>2. CASE PlixReset
    <3>1. <<>> \in Seq(Specifications) /\ "IWYZE" \in PlixNumbers
      BY DEF PlixNumbers
    <3>2. intq' = Pushed(<<>>, "IWYZE", 0) /\ signalled' = TRUE
      BY <2>2 DEF PlixReset, AfterReset
    <3>3. signalled' \in BOOLEAN
      BY <3>2, Zenon
    <3> QED
      BY <3>1, <3>2, <3>3, PushedThere DEF PlixInv
  <2>3. CASE PlixServed \/ PlixCleared
    <3>1. signalled' = FALSE /\ (intq' = <<>> \/ (intq # <<>> /\ intq' = Tail(intq)))
      BY <2>3 DEF PlixServed, PlixCleared, AnswerTaken
    <3>2. signalled' \in BOOLEAN /\ ~signalled'
      BY <3>1, Zenon
    <3>3. intq \in Seq(Specifications)
      BY <1>2 DEF PlixInv
    <3>4. <<>> \in Seq(Specifications) /\ (intq # <<>> => Tail(intq) \in Seq(Specifications))
      BY <3>3
    <3>5. intq' \in Seq(Specifications)
      BY <3>1, <3>4, Zenon
    <3> QED
      BY <3>2, <3>5 DEF PlixInv
  <2>4. CASE PlixAsked
    BY <1>2, <2>4 DEF PlixInv, PlixAsked, AnswerTaken
  <2>5. CASE UNCHANGED plixVars
    BY <1>2, <2>5 DEF PlixInv, plixVars
  <2> QED
    BY <1>2, <2>1, <2>2, <2>3, <2>4, <2>5 DEF PlixNext
<1>3. ASSUME PlixInv, PlixServed PROVE got' # NoAnswer
  <2>1. intq \in Seq(Specifications) /\ intq # <<>> /\ got' = Head(intq)
    BY <1>3 DEF PlixInv, PlixServed, AnswerTaken
  <2>2. Head(intq) \in Specifications
    BY <2>1
  <2>3. got'.number \in PlixNumbers
    BY <2>1, <2>2 DEF Specifications
  <2> QED
    BY <2>3 DEF NoAnswer, PlixNumbers
<1>4. PlixInv /\ [PlixNext]_plixVars => [PlixServed => got' # NoAnswer]_plixVars
  BY <1>3
<1> QED
  BY <1>1, <1>2, <1>4, PTL DEF PlixSpecification, ServedGets

-----------------------------------------------------------------------------
(* The tester.  Addresses stay in memory and in the buffer, and a transfer *)
(* goes round at the end of both.                                          *)

TestEvents == [type : {"cmd", "reset", "quit"}, cmd : Sends \cup {"none"}, r : TestAddrs]
TesterInv ==
  /\ testEvq \in Seq(TestEvents)
  /\ am \in TestAddrs /\ ab \in TestAddrs
  /\ store \in [TestAddrs -> TestAddrs] /\ copy \in [TestAddrs -> TestAddrs]

LEMMA AroundInside ==
  ASSUME NEW b \in Nat, NEW i \in Nat
  PROVE  Around(b, i) \in TestAddrs
<1>1. TestWords \in Nat \ {0} /\ b + i \in Nat
  BY TesterAssumption
<1>2. (b + i) % TestWords \in 0..TestWords - 1
  BY <1>1, Z3
<1> QED
  BY <1>2 DEF Around, TestAddrs

\* what changes from "to" is at one of the n places from t on, and was in the source
ChangedFrom(result, from, to, t, n) ==
  /\ result \in [TestAddrs -> TestAddrs]
  /\ \A a \in TestAddrs :
       result[a] # to[a] => \E i \in 0..n - 1 : a = Around(t, i) /\ \E b \in TestAddrs : result[a] = from[b]

LEMMA CopiedFrom ==
  ASSUME NEW from \in [TestAddrs -> TestAddrs], NEW to \in [TestAddrs -> TestAddrs],
         NEW f \in TestAddrs, NEW t \in TestAddrs, NEW n \in Nat
  PROVE  ChangedFrom(Copied(from, to, f, t, n), from, to, t, n)
<1> DEFINE moved == Copied(from, to, f, t, n)
           There(a) == \E i \in 0..n - 1 : Around(t, i) = a
           place(a) == Around(f, CHOOSE i \in 0..n - 1 : Around(t, i) = a)
<1>1. moved = [a \in TestAddrs |-> IF There(a) THEN from[place(a)] ELSE to[a]]
  BY DEF Copied
<1>2. ASSUME NEW a \in TestAddrs, There(a) PROVE place(a) \in TestAddrs
  <2> DEFINE i == CHOOSE i \in 0..n - 1 : Around(t, i) = a
  <2>1. i \in 0..n - 1
    BY <1>2
  <2>2. i \in Nat /\ f \in Nat
    BY <2>1 DEF TestAddrs
  <2> HIDE DEF i
  <2>3. Around(f, i) \in TestAddrs
    BY <2>2, AroundInside
  <2> QED
    BY <2>3 DEF i
<1>3. \A a \in TestAddrs : moved[a] # to[a] => There(a) /\ moved[a] = from[place(a)]
  <2> HIDE DEF There, place, moved
  <2> QED
    BY <1>1
<1>4. moved \in [TestAddrs -> TestAddrs]
  <2> HIDE DEF There, place
  <2> QED
    BY <1>1, <1>2
<1> QED
  <2> HIDE DEF place, moved
  <2>1. \A a \in TestAddrs : moved[a] # to[a] => \E i \in 0..n - 1 : a = Around(t, i) /\ \E b \in TestAddrs : moved[a] = from[b]
    BY <1>2, <1>3
  <2>2. ChangedFrom(moved, from, to, t, n)
    BY <1>4, <2>1 DEF ChangedFrom
  <2> QED
    BY <2>2 DEF moved

Kept == UNCHANGED <<store, copy>>
Moved(n) ==
  \/ store' = Copied(copy, store, ab, am, n) /\ copy' = copy
  \/ copy' = Copied(store, copy, am, ab, n) /\ store' = store

LEMMA TesterSteps ==
  ASSUME TesterInv, [TesterNext]_testerVars
  PROVE  /\ TesterInv'
         /\ Kept \/ \E n \in Nat : counted' = n /\ Moved(n)
<1> USE DEF TesterInv
<1>1. 0 \in TestAddrs
  BY TesterAssumption DEF TestAddrs
<1>2. ASSUME NEW event \in TestEvents
      PROVE  TestQueued(event) \in Seq(TestEvents) /\ Append(testEvq, event) \in Seq(TestEvents)
  BY <1>2 DEF TestQueued
<1>3. ASSUME NEW c \in Sends, NEW r \in TestAddrs, SendCommand(c, r) PROVE TesterInv' /\ Kept
  <2>1. TestEv("cmd", c, r) \in TestEvents
    BY DEF TestEv, TestEvents
  <2>2. testEvq' \in Seq(TestEvents)
    BY <1>2, <1>3, <2>1 DEF SendCommand
  <2> QED
    BY <1>3, <2>2 DEF SendCommand, Kept
<1>4. CASE FetchSpec \/ Deaden \/ UNCHANGED testerVars
  BY <1>4 DEF FetchSpec, Deaden, testerVars, Kept
<1>5. CASE TesterReset \/ TesterShutdown
  <2>1. TestEv("reset", "none", 0) \in TestEvents /\ TestEv("quit", "none", 0) \in TestEvents
    BY <1>1 DEF TestEv, TestEvents
  <2>2. testEvq' \in Seq(TestEvents)
    BY <1>2, <1>5, <2>1 DEF TesterReset, TesterShutdown
  <2> QED
    BY <1>5, <2>2 DEF TesterReset, TesterShutdown, Kept
<1>6. CASE TesterWork
  <2> DEFINE event == Head(testEvq)
  <2>1. event \in TestEvents /\ testEvq' \in Seq(TestEvents)
    BY <1>6 DEF TesterWork
  <2>2. event.r \in TestAddrs
    BY <2>1 DEF TestEvents
  <2> HIDE DEF event
  <2>3. CASE TestTransfer(event)
    <3>1. PICK n \in 0..event.r : counted' = n /\ Moved(n) /\ UNCHANGED <<am, ab>>
      BY <2>3 DEF TestTransfer, Moved
    <3>2. n \in Nat
      BY <2>2 DEF TestAddrs
    <3>3. store' \in [TestAddrs -> TestAddrs] /\ copy' \in [TestAddrs -> TestAddrs]
      <4>1. CASE store' = Copied(copy, store, ab, am, n) /\ copy' = copy
        <5>1. Copied(copy, store, ab, am, n) \in [TestAddrs -> TestAddrs]
          BY <3>2, CopiedFrom DEF ChangedFrom
        <5> QED
          BY <4>1, <5>1
      <4>2. CASE copy' = Copied(store, copy, am, ab, n) /\ store' = store
        <5>1. Copied(store, copy, am, ab, n) \in [TestAddrs -> TestAddrs]
          BY <3>2, CopiedFrom DEF ChangedFrom
        <5> QED
          BY <4>2, <5>1
      <4> QED
        BY <3>1, <4>1, <4>2 DEF Moved
    <3> QED
      BY <2>1, <3>1, <3>2, <3>3 DEF event
  <2>4. CASE ~TestTransfer(event)
    <3>1. Kept /\ (am' = am \/ am' = event.r) /\ (ab' = ab \/ ab' = event.r)
      BY <1>6, <2>4 DEF TesterWork, Kept, event
    <3> QED
      BY <2>1, <2>2, <3>1 DEF Kept
  <2> QED
    BY <2>3, <2>4
<1> QED
  BY <1>3, <1>4, <1>5, <1>6 DEF TesterNext

\* A transfer moves words that were there to places it was told, and no other word, for
\* a memory of any size and at its end too.
THEOREM TransfersAlwaysKeep == TesterSpec => TransfersKeep
<1>1. TesterInit => TesterInv
  BY TesterAssumption DEF TesterInit, TesterInv, TestAddrs
<1> DEFINE Keeps(a) ==
             (store'[a] # store[a] => \E i \in 0..counted' - 1 : a = Around(am, i) /\ \E b \in TestAddrs : store'[a] = copy[b])
             /\ (copy'[a] # copy[a] => \E i \in 0..counted' - 1 : a = Around(ab, i) /\ \E b \in TestAddrs : copy'[a] = store[b])
<1>2. ASSUME TesterInv, [TesterNext]_testerVars, NEW a \in TestAddrs
      PROVE  Keeps(a)
  <2>1. CASE Kept
    BY <2>1 DEF Kept
  <2>2. ASSUME NEW n \in Nat, counted' = n, Moved(n) PROVE Keeps(a)
    <3> USE DEF TesterInv
    <3>1. CASE store' = Copied(copy, store, ab, am, n) /\ copy' = copy
      <4>1. ChangedFrom(store', copy, store, am, n)
        BY <1>2, <2>2, <3>1, CopiedFrom
      <4> QED
        BY <2>2, <3>1, <4>1 DEF ChangedFrom
    <3>2. CASE copy' = Copied(store, copy, am, ab, n) /\ store' = store
      <4>1. ChangedFrom(copy', store, copy, ab, n)
        BY <1>2, <2>2, <3>2, CopiedFrom
      <4> QED
        BY <2>2, <3>2, <4>1 DEF ChangedFrom
    <3> QED
      BY <2>2, <3>1, <3>2 DEF Moved
  <2> QED
    BY <1>2, <2>1, <2>2, TesterSteps
<1>3. TesterInv /\ [TesterNext]_testerVars => [\A a \in TestAddrs : Keeps(a)]_testerVars
  BY <1>2
<1>4. TesterInv /\ [TesterNext]_testerVars => TesterInv'
  BY TesterSteps
<1>5. TesterSpec => [][\A a \in TestAddrs : Keeps(a)]_testerVars
  BY <1>1, <1>3, <1>4, PTL DEF TesterSpec
<1> QED
  BY <1>5, PTL DEF TransfersKeep


-----------------------------------------------------------------------------
(* Numbers. *)

LEMMA LeastNumber ==
  ASSUME NEW T \in SUBSET Nat, T # {}
  PROVE  \E m \in T : \A k \in T : m <= k
<1>1. IsWellFoundedOn(OpToRel(<, Nat), Nat)
  BY NatLessThanWellFounded, Zenon
<1>2. PICK m \in T : \A k \in T : <<k, m>> \notin OpToRel(<, Nat)
  BY <1>1, WFMin
<1>3. \A k \in T : ~(k < m)
  BY <1>2 DEF OpToRel
<1> QED
  BY <1>3

LEMMA UpTo ==
  ASSUME NEW S, NEW n \in Nat, 0 \in S, \A k \in 0..n - 1 : k \in S => k + 1 \in S
  PROVE  0..n \subseteq S
<1> SUFFICES ASSUME NEW j \in 0..n, j \notin S PROVE FALSE
  OBVIOUS
<1> DEFINE T == {k \in 0..n : k \notin S}
<1>1. PICK m \in T : \A k \in T : m <= k
  <2>1. T \in SUBSET Nat /\ T # {}
    OBVIOUS
  <2> HIDE DEF T
  <2> QED
    BY <2>1, LeastNumber
<1>2. m # 0 /\ m \in 0..n /\ m - 1 \in 0..n - 1 /\ m - 1 \notin T
  BY <1>1
<1>3. m - 1 \in S
  BY <1>2
<1> QED
  BY <1>1, <1>2, <1>3

\* what is defined step by step has a value at each of them
Iterates(g, x, F, n) == g = [k \in 0..n |-> IF k = 0 THEN x ELSE F[g[k - 1]]]

LEMMA Iterated ==
  ASSUME NEW S, NEW x \in S, NEW F \in [S -> S], NEW n \in Nat
  PROVE  \E g \in [0..n -> S] : Iterates(g, x, F, n)
<1> DEFINE Good(j) == \E g \in [0..j -> S] : g = [k \in 0..j |-> IF k = 0 THEN x ELSE F[g[k - 1]]]
           T == {j \in Nat : Good(j)}
<1>1. 0 \in T
  <2> DEFINE g == [k \in 0..0 |-> x]
  <2>1. g \in [0..0 -> S] /\ g = [k \in 0..0 |-> IF k = 0 THEN x ELSE F[g[k - 1]]]
    OBVIOUS
  <2> HIDE DEF g
  <2>2. Good(0)
    BY <2>1
  <2> QED
    BY <2>2
<1>2. ASSUME NEW j \in Nat, j \in T PROVE j + 1 \in T
  <2>1. PICK g \in [0..j -> S] : g = [k \in 0..j |-> IF k = 0 THEN x ELSE F[g[k - 1]]]
    BY <1>2
  <2> DEFINE h == [k \in 0..j + 1 |-> IF k <= j THEN g[k] ELSE F[g[j]]]
  <2>2. h \in [0..j + 1 -> S]
    OBVIOUS
  <2>3. ASSUME NEW k \in 0..j + 1 PROVE h[k] = IF k = 0 THEN x ELSE F[h[k - 1]]
    <3>1. CASE k = 0
      BY <3>1, <2>1
    <3>2. CASE k \in 1..j
      BY <3>2, <2>1
    <3>3. CASE k = j + 1
      BY <3>3
    <3> QED
      BY <3>1, <3>2, <3>3
  <2>4. h = [k \in 0..j + 1 |-> IF k = 0 THEN x ELSE F[h[k - 1]]]
    BY <2>3
  <2> HIDE DEF h
  <2>5. Good(j + 1)
    BY <2>2, <2>4
  <2> HIDE DEF Good
  <2> QED
    BY <2>5
<1> HIDE DEF T
<1>3. 0..n \subseteq T
  BY <1>1, <1>2, UpTo
<1> QED
  BY <1>3 DEF T, Iterates

-----------------------------------------------------------------------------
(* Rings.  The head of a ring stands before its first cell and behind its  *)
(* last one.                                                               *)

Cell(h, s, k) == IF k \in 1..Len(s) THEN s[k] ELSE h
IsRing(d, h, s) ==
  \A k \in 0..Len(s) : d.n[Cell(h, s, k)] = Cell(h, s, k + 1) /\ d.p[Cell(h, s, k + 1)] = Cell(h, s, k)
Distinct(s) == \A i, j \in 1..Len(s) : s[i] = s[j] => i = j
InRing(h, s) == {Cell(h, s, k) : k \in 0..Len(s)}
Pairs == [n : [Cells -> Cells], p : [Cells -> Cells]]

\* t is s with e behind its first k elements
HasMore(s, k, e, t) ==
  /\ Len(t) = Len(s) + 1 /\ t[k + 1] = e
  /\ \A j \in 1..k : t[j] = s[j]
  /\ \A j \in k + 2..Len(s) + 1 : t[j] = s[j - 1]

LEMMA InsertProperties ==
  ASSUME NEW S, NEW s \in Seq(S), NEW e \in S, NEW k \in Nat, k <= Len(s)
  PROVE  InsertAt(s, k + 1, e) \in Seq(S) /\ HasMore(s, k, e, InsertAt(s, k + 1, e))
<1> PICK n \in Nat : n = Len(s) /\ k <= n
  OBVIOUS
<1> DEFINE a == SubSeq(s, 1, k)
           b == SubSeq(s, k + 1, n)
           c == a \o <<e>>
<1>1. k \in 0..Len(s)
  OBVIOUS
<1>2. /\ a \in Seq(S) /\ Len(a) = k /\ \A j \in 1..k : a[j] = s[j]
      /\ b \in Seq(S) /\ Len(b) = n - k /\ \A j \in 1..n - k : b[j] = s[j + k]
  <2>1. a \in Seq(S) /\ Len(a) = k /\ \A j \in 1..k : a[j] = s[j]
    BY <1>1
  <2>2. b \in Seq(S) /\ Len(b) = n - k /\ \A j \in 1..n - k : b[j] = s[j + k]
    OBVIOUS
  <2> QED
    BY <2>1, <2>2
<1>3. InsertAt(s, k + 1, e) = c \o b
  <2>1. (k + 1) - 1 = k
    OBVIOUS
  <2> QED
    BY <2>1, Zenon DEF InsertAt
<1> HIDE DEF a, b
<1>4. c \in Seq(S) /\ Len(c) = k + 1 /\ (\A j \in 1..k : c[j] = s[j]) /\ c[k + 1] = e
  <2>1. c \in Seq(S) /\ Len(c) = k + 1 /\ \A j \in 1..k + 1 : c[j] = IF j <= k THEN s[j] ELSE e
    <3>1. c \in Seq(S) /\ Len(c) = k + 1 /\ (\A j \in 1..k : c[j] = a[j]) /\ c[k + 1] = e
      <4>1. a \in Seq(S) /\ Len(a) = k
        BY <1>2
      <4>2. <<e>> \in Seq(S) /\ Len(<<e>>) = 1 /\ <<e>>[1] = e
        OBVIOUS
      <4>3. c \in Seq(S) /\ Len(c) = k + 1
        BY <4>1, <4>2
      <4>4. \A j \in 1..k : c[j] = a[j]
        BY <4>1, <4>2
      <4>5. c[k + 1] = e
        BY <4>1, <4>2
      <4> QED
        BY <4>3, <4>4, <4>5
    <3> HIDE DEF c
    <3> QED
      BY <1>2, <3>1
  <2>2. k + 1 \in 1..k + 1 /\ ~(k + 1 <= k) /\ \A j \in 1..k : j \in 1..k + 1 /\ j <= k
    OBVIOUS
  <2> HIDE DEF c
  <2> QED
    BY <2>1, <2>2
<1> HIDE DEF c
<1> DEFINE t == c \o b
<1>5. /\ t \in Seq(S) /\ Len(t) = n + 1
      /\ \A j \in 1..k + 1 : t[j] = c[j]
      /\ \A j \in k + 2..n + 1 : t[j] = b[j - (k + 1)]
  BY <1>2, <1>4
<1> HIDE DEF t
<1>6. \A j \in 1..k : t[j] = s[j]
  <2> SUFFICES ASSUME NEW j \in 1..k PROVE t[j] = s[j]
    OBVIOUS
  <2>1. j \in 1..k + 1
    OBVIOUS
  <2> QED
    BY <2>1, <1>4, <1>5
<1>7. t[k + 1] = e
  BY <1>4, <1>5
<1>8. \A j \in k + 2..n + 1 : t[j] = s[j - 1]
  <2> SUFFICES ASSUME NEW j \in k + 2..n + 1 PROVE t[j] = s[j - 1]
    OBVIOUS
  <2>1. j - (k + 1) \in 1..n - k /\ (j - (k + 1)) + k = j - 1
    OBVIOUS
  <2> QED
    BY <2>1, <1>2, <1>5
<1>9. HasMore(s, k, e, t)
  BY <1>5, <1>6, <1>7, <1>8 DEF HasMore
<1> QED
  BY <1>3, <1>5, <1>9 DEF t

LEMMA RingFrame ==
  ASSUME NEW d, NEW e, NEW h, NEW s \in Seq(Cells), IsRing(d, h, s),
         \A c \in InRing(h, s) : e.n[c] = d.n[c] /\ e.p[c] = d.p[c]
  PROVE  IsRing(e, h, s)
<1> SUFFICES ASSUME NEW k \in 0..Len(s)
             PROVE  e.n[Cell(h, s, k)] = Cell(h, s, k + 1) /\ e.p[Cell(h, s, k + 1)] = Cell(h, s, k)
  BY DEF IsRing
<1>1. Cell(h, s, k) \in InRing(h, s)
  BY DEF InRing
<1>2. Cell(h, s, k + 1) \in InRing(h, s)
  <2>1. CASE k = Len(s)
    <3>1. Cell(h, s, k + 1) = Cell(h, s, 0) /\ 0 \in 0..Len(s)
      BY <2>1 DEF Cell
    <3> QED
      BY <3>1 DEF InRing
  <2>2. CASE k < Len(s)
    BY <2>2 DEF InRing
  <2> QED
    BY <2>1, <2>2
<1> QED
  BY <1>1, <1>2 DEF IsRing

\* a ring without its first cell; nothing outside it changes
LEMMA Unlinks ==
  ASSUME NEW d \in Pairs, NEW h \in Cells, NEW s \in Seq(Cells), s # <<>>, Distinct(s),
         \A j \in 1..Len(s) : s[j] # h, IsRing(d, h, s)
  PROVE  /\ d.n[h] = s[1]
         /\ Unlinked(d, s[1]) \in Pairs
         /\ IsRing(Unlinked(d, s[1]), h, Tail(s))
         /\ \A c \in Cells \ InRing(h, s) : Unlinked(d, s[1]).n[c] = d.n[c] /\ Unlinked(d, s[1]).p[c] = d.p[c]
<1> DEFINE e == Unlinked(d, s[1])
           t == Tail(s)
           b == Cell(h, s, 2)
<1>1. Len(s) \in Nat /\ Len(s) > 0 /\ \A j \in 1..Len(s) : s[j] \in Cells
  OBVIOUS
<1>2. t \in Seq(Cells) /\ Len(t) = Len(s) - 1 /\ \A j \in 1..Len(t) : t[j] = s[j + 1]
  OBVIOUS
<1>3. d.n[h] = s[1] /\ d.p[s[1]] = h /\ d.n[s[1]] = b
  <2>1. d.n[Cell(h, s, 0)] = Cell(h, s, 1) /\ d.p[Cell(h, s, 1)] = Cell(h, s, 0) /\ d.n[Cell(h, s, 1)] = Cell(h, s, 2)
    BY <1>1 DEF IsRing
  <2> QED
    BY <2>1, <1>1 DEF Cell
<1>4. b \in Cells /\ b \in InRing(h, s) /\ h \in InRing(h, s)
  <2>1. h = Cell(h, s, 0) /\ 0 \in 0..Len(s)
    BY <1>1 DEF Cell
  <2>2. CASE Len(s) = 1
    BY <2>1, <2>2 DEF Cell, InRing
  <2>3. CASE Len(s) > 1
    BY <2>1, <2>3, <1>1 DEF Cell, InRing
  <2>4. Len(s) = 1 \/ Len(s) > 1
    <3>1. PICK n \in Nat : n = Len(s) /\ n > 0
      BY <1>1
    <3> QED
      BY <3>1
  <2> QED
    BY <2>2, <2>3, <2>4
<1>5. e.n = [d.n EXCEPT ![h] = b] /\ e.p = [d.p EXCEPT ![b] = h] /\ e = [n |-> e.n, p |-> e.p]
  BY <1>3 DEF Unlinked
<1>6. e \in Pairs
  BY <1>4, <1>5 DEF Pairs
<1>7. \A k \in 1..Len(t) : Cell(h, t, k) = s[k + 1] /\ Cell(h, t, k) = Cell(h, s, k + 1)
  BY <1>1, <1>2 DEF Cell
<1>8. Cell(h, t, 0) = h /\ Cell(h, t, Len(t) + 1) = h /\ Cell(h, s, Len(s) + 1) = h
  BY <1>1, <1>2 DEF Cell
<1>9. Cell(h, t, 1) = b
  <2>1. CASE Len(s) = 1
    <3>1. Len(t) = 0
      BY <2>1, <1>2
    <3>2. \A x : (x = 0 => 1 \notin 1..x) /\ (x = 1 => 2 \notin 1..x)
      OBVIOUS
    <3>3. 1 \notin 1..Len(t) /\ 2 \notin 1..Len(s)
      BY ONLY <2>1, <3>1, <3>2, Zenon
    <3> QED
      BY ONLY <3>3 DEF Cell, b
  <2>2. CASE Len(s) > 1
    BY <2>2, <1>1, <1>7, <1>2
  <2>4. Len(s) = 1 \/ Len(s) > 1
    <3>1. PICK n \in Nat : n = Len(s) /\ n > 0
      BY <1>1
    <3> QED
      BY <3>1
  <2> QED
    BY <2>1, <2>2, <2>4
<1> HIDE DEF e, t, b
<1>10. ASSUME NEW k \in 0..Len(t) PROVE e.n[Cell(h, t, k)] = Cell(h, t, k + 1) /\ e.p[Cell(h, t, k + 1)] = Cell(h, t, k)
  <2>1. CASE k = 0
    BY <2>1, <1>4, <1>5, <1>8, <1>9 DEF Pairs
  <2>2. CASE k \in 1..Len(t)
    <3>1. k + 1 \in 1..Len(s) /\ k + 1 \in 0..Len(s) /\ Cell(h, t, k) = s[k + 1] /\ Cell(h, s, k + 1) = s[k + 1]
      BY <2>2, <1>1, <1>2, <1>7
    <3>2. d.n[s[k + 1]] = Cell(h, s, k + 2) /\ d.p[Cell(h, s, k + 2)] = s[k + 1]
      BY <3>1 DEF IsRing
    <3>3. Cell(h, t, k + 1) = Cell(h, s, k + 2)
      <4>1. CASE k = Len(t)
        <5>1. k + 1 = Len(t) + 1 /\ k + 2 = Len(s) + 1
          BY <4>1, <1>1, <1>2
        <5> QED
          BY <1>8, <5>1
      <4>2. CASE k < Len(t)
        <5>1. k + 1 \in 1..Len(t) /\ (k + 1) + 1 = k + 2
          BY <4>2, <2>2
        <5> QED
          BY <5>1, <1>7
      <4> QED
        BY <4>1, <4>2, <2>2, <1>1, <1>2
    <3>4. s[k + 1] # h /\ s[k + 1] \in Cells
      BY <3>1, <1>1
    <3>5. Cell(h, s, k + 2) # b /\ Cell(h, s, k + 2) \in Cells
      <4>1. b = s[2] /\ 2 \in 1..Len(s)
        BY <2>2, <1>1, <1>2 DEF b, Cell
      <4>2. CASE k = Len(t)
        BY <4>1, <4>2, <1>1, <1>2 DEF Cell
      <4>3. CASE k < Len(t)
        <5>1. k + 2 \in 1..Len(s) /\ Cell(h, s, k + 2) = s[k + 2]
          BY <4>3, <2>2, <1>1, <1>2 DEF Cell
        <5> QED
          BY <4>1, <5>1, <2>2, <1>1 DEF Distinct
      <4> QED
        BY <4>2, <4>3, <2>2, <1>1, <1>2
    <3> QED
      BY <3>1, <3>2, <3>3, <3>4, <3>5, <1>5 DEF Pairs
  <2> QED
    BY <2>1, <2>2, <1>1, <1>2
<1>11. IsRing(e, h, t)
  BY <1>10 DEF IsRing
<1>12. \A c \in Cells \ InRing(h, s) : e.n[c] = d.n[c] /\ e.p[c] = d.p[c]
  BY <1>4, <1>5 DEF Pairs
<1> QED
  BY <1>3, <1>6, <1>11, <1>12 DEF e, t

\* a ring with one more cell behind its first k; only that cell changes besides it
LEMMA LinksIn ==
  ASSUME NEW d \in Pairs, NEW h \in Cells, NEW s \in Seq(Cells), NEW k \in Nat, k <= Len(s), NEW i \in Cells,
         i # h, \A j \in 1..Len(s) : s[j] # i /\ s[j] # h, Distinct(s), IsRing(d, h, s),
         NEW t \in Seq(Cells), HasMore(s, k, i, t),
         NEW a, NEW b, NEW e, a = Cell(h, s, k), b = Cell(h, s, k + 1), e = LinkedIn(d, i, a, b)
  PROVE  /\ e \in Pairs /\ IsRing(e, h, t)
         /\ \A c \in Cells \ InRing(h, s) : c # i => e.n[c] = d.n[c] /\ e.p[c] = d.p[c]
<1> PICK n \in Nat : n = Len(s) /\ k <= n
  OBVIOUS
<1>1. \A j \in 1..n : s[j] \in Cells /\ s[j] # i /\ s[j] # h
  OBVIOUS
<1>2. Len(t) = n + 1 /\ t[k + 1] = i /\ (\A j \in 1..k : t[j] = s[j]) /\ \A j \in k + 2..n + 1 : t[j] = s[j - 1]
  BY DEF HasMore
<1>3. \A j \in 0..n + 1 : Cell(h, s, j) \in Cells /\ Cell(h, s, j) # i
  BY <1>1 DEF Cell
<1>4. a \in Cells /\ b \in Cells /\ a # i /\ b # i
  BY <1>3
<1>5. a \in InRing(h, s) /\ b \in InRing(h, s)
  <2>1. b \in InRing(h, s)
    <3>1. CASE k = n
      <4>1. b = Cell(h, s, 0) /\ 0 \in 0..Len(s)
        BY <3>1 DEF Cell
      <4> QED
        BY <4>1 DEF InRing
    <3>2. CASE k < n
      BY <3>2 DEF InRing
    <3> QED
      BY <3>1, <3>2
  <2> QED
    BY <2>1 DEF InRing
<1>6. /\ e.n = [d.n EXCEPT ![i] = b, ![a] = i] /\ e.p = [d.p EXCEPT ![i] = a, ![b] = i]
      /\ e = [n |-> e.n, p |-> e.p]
  BY DEF LinkedIn
<1>7. e \in Pairs
  <2>1. d.n \in [Cells -> Cells] /\ d.p \in [Cells -> Cells]
    BY DEF Pairs
  <2>2. [d.n EXCEPT ![i] = b, ![a] = i] \in [Cells -> Cells] /\ [d.p EXCEPT ![i] = a, ![b] = i] \in [Cells -> Cells]
    BY <2>1, <1>4
  <2>3. e.n \in [Cells -> Cells] /\ e.p \in [Cells -> Cells]
    BY <2>2, <1>6
  <2> QED
    BY <2>3, <1>6 DEF Pairs
<1>8. \A c \in Cells \ InRing(h, s) : c # i => e.n[c] = d.n[c] /\ e.p[c] = d.p[c]
  BY <1>5, <1>6 DEF Pairs
\* where the cells are now
<1>9. \A j \in 0..k : Cell(h, t, j) = Cell(h, s, j)
  BY <1>2 DEF Cell
<1>10. Cell(h, t, k + 1) = i
  <2>1. k + 1 \in 1..n + 1 /\ ~(k + 1 <= k)
    OBVIOUS
  <2> QED
    BY <1>2, <2>1 DEF Cell
<1>11. \A j \in k + 2..n + 2 : Cell(h, t, j) = Cell(h, s, j - 1)
  <2> SUFFICES ASSUME NEW j \in k + 2..n + 2 PROVE Cell(h, t, j) = Cell(h, s, j - 1)
    OBVIOUS
  <2>1. CASE j = n + 2
    BY <2>1, <1>2 DEF Cell
  <2>2. CASE j \in k + 2..n + 1
    <3>1. j \in 1..n + 1 /\ ~(j <= k) /\ j # k + 1 /\ j - 1 \in 1..n
      BY <2>2
    <3> QED
      BY <3>1, <1>2 DEF Cell
  <2> QED
    BY <2>1, <2>2
\* cells of the ring are different ones
<1>12. \A j, m \in 0..n : Cell(h, s, j) = Cell(h, s, m) => j = m
  BY <1>1 DEF Cell, Distinct
<1>13. \A j \in 0..n : d.n[Cell(h, s, j)] = Cell(h, s, j + 1) /\ d.p[Cell(h, s, j + 1)] = Cell(h, s, j)
  BY DEF IsRing
<1>14. \A j \in 0..n : j # k => Cell(h, s, j) # a /\ Cell(h, s, j + 1) # b
  <2> SUFFICES ASSUME NEW j \in 0..n, j # k PROVE Cell(h, s, j) # a /\ Cell(h, s, j + 1) # b
    OBVIOUS
  <2>1. Cell(h, s, j) # a
    BY <1>12
  <2>2. Cell(h, s, j + 1) # b
    BY <2>1, <1>13
  <2> QED
    BY <2>1, <2>2
<1>15. ASSUME NEW j \in 0..n + 1
       PROVE  e.n[Cell(h, t, j)] = Cell(h, t, j + 1) /\ e.p[Cell(h, t, j + 1)] = Cell(h, t, j)
  <2>1. CASE j < k
    <3>1. j \in 0..n /\ j # k /\ j \in 0..k /\ j + 1 \in 0..k /\ j + 1 \in 0..n + 1 /\ j \in 0..n + 1
      BY <2>1
    <3>2. Cell(h, t, j) = Cell(h, s, j) /\ Cell(h, t, j + 1) = Cell(h, s, j + 1)
      BY <3>1, <1>9
    <3> QED
      BY <3>1, <3>2, <1>3, <1>6, <1>13, <1>14 DEF Pairs
  <2>2. CASE j = k
    <3>1. Cell(h, t, j) = a /\ Cell(h, t, j + 1) = i
      BY <2>2, <1>9, <1>10
    <3> QED
      BY <3>1, <1>4, <1>6 DEF Pairs
  <2>3. CASE j = k + 1
    <3>1. Cell(h, t, j) = i
      BY <2>3, <1>10
    <3>2. Cell(h, t, j + 1) = b
      <4>1. j + 1 \in k + 2..n + 2 /\ (j + 1) - 1 = k + 1
        BY <2>3
      <4> QED
        BY <4>1, <1>11
    <3> QED
      BY <3>1, <3>2, <1>4, <1>6 DEF Pairs
  <2>4. CASE j > k + 1
    <3>1. /\ j - 1 \in 0..n /\ j - 1 # k /\ j \in k + 2..n + 2 /\ j + 1 \in k + 2..n + 2
          /\ (j + 1) - 1 = j /\ (j - 1) + 1 = j /\ j \in 0..n + 1 /\ j - 1 \in 0..n + 1
      BY <2>4
    <3>2. Cell(h, t, j) = Cell(h, s, j - 1) /\ Cell(h, t, j + 1) = Cell(h, s, j)
      BY <3>1, <1>11
    <3>3. /\ d.n[Cell(h, s, j - 1)] = Cell(h, s, j) /\ d.p[Cell(h, s, j)] = Cell(h, s, j - 1)
          /\ Cell(h, s, j - 1) # a /\ Cell(h, s, j) # b
      BY <3>1, <1>13, <1>14
    <3>4. /\ Cell(h, s, j - 1) \in Cells /\ Cell(h, s, j) \in Cells
          /\ Cell(h, s, j - 1) # i /\ Cell(h, s, j) # i
      BY <3>1, <1>3
    <3>5. d.n \in [Cells -> Cells] /\ d.p \in [Cells -> Cells]
      BY DEF Pairs
    <3> QED
      BY ONLY <3>2, <3>3, <3>4, <3>5, <1>6
  <2>5. j \in Int /\ k \in Int
    OBVIOUS
  <2> QED
    BY <2>1, <2>2, <2>3, <2>4, <2>5
<1>16. IsRing(e, h, t)
  BY <1>2, <1>15 DEF IsRing
<1> QED
  BY <1>7, <1>8, <1>16

-----------------------------------------------------------------------------
(* The rings of a list: u in use, f free, cells from w on never used.      *)

TwoRings(d, u, f, w) ==
  /\ d \in Pairs /\ w \in 2..Capacity + 2
  /\ u \in Seq(2..w - 1) /\ f \in Seq(2..w - 1)
  /\ Distinct(u) /\ Distinct(f)
  /\ \A i \in 1..Len(u), j \in 1..Len(f) : u[i] # f[j]
  /\ \A c \in 2..w - 1 : (\E i \in 1..Len(u) : u[i] = c) \/ \E j \in 1..Len(f) : f[j] = c
  /\ IsRing(d, USED, u) /\ IsRing(d, FREE, f)
  /\ \A c \in w..Capacity + 1 : d.n[c] = c /\ d.p[c] = c

LEMMA ElementsOf ==
  ASSUME NEW S, NEW s \in Seq(S)
  PROVE  \A i \in 1..Len(s) : s[i] \in S
  OBVIOUS

LEMMA RingsTyped ==
  ASSUME NEW d, NEW u, NEW f, NEW w, TwoRings(d, u, f, w)
  PROVE  /\ USED \in Cells /\ FREE \in Cells /\ USED # FREE
         /\ w \in Nat /\ w >= 2 /\ w <= Capacity + 2
         /\ u \in Seq(Cells) /\ f \in Seq(Cells) /\ Len(u) \in Nat /\ Len(f) \in Nat
         /\ \A i \in 1..Len(u) : u[i] \in Cells /\ u[i] \in 2..w - 1 /\ u[i] # USED /\ u[i] # FREE
         /\ \A j \in 1..Len(f) : f[j] \in Cells /\ f[j] \in 2..w - 1 /\ f[j] # USED /\ f[j] # FREE
         /\ InRing(USED, u) \cap InRing(FREE, f) = {}
<1>1. USED \in Cells /\ FREE \in Cells /\ USED # FREE /\ w \in Nat /\ w >= 2 /\ w <= Capacity + 2 /\ 2..w - 1 \subseteq Cells
  BY ElstAssumption DEF USED, FREE, Cells, TwoRings
<1>2. u \in Seq(2..w - 1) /\ f \in Seq(2..w - 1)
  BY DEF TwoRings
<1>3. u \in Seq(Cells) /\ f \in Seq(Cells) /\ Len(u) \in Nat /\ Len(f) \in Nat
  BY <1>1, <1>2
<1>4. \A i \in 1..Len(u) : u[i] \in 2..w - 1
  BY <1>2, ElementsOf
<1>5. \A j \in 1..Len(f) : f[j] \in 2..w - 1
  BY <1>2, ElementsOf
<1>6. \A c \in 2..w - 1 : c \in Cells /\ c # USED /\ c # FREE
  BY <1>1 DEF USED, FREE
<1>7. ASSUME NEW i \in 0..Len(u), NEW j \in 0..Len(f) PROVE Cell(USED, u, i) # Cell(FREE, f, j)
  BY <1>1, <1>4, <1>5, <1>6 DEF Cell, TwoRings
<1> QED
  BY <1>1, <1>3, <1>4, <1>5, <1>6, <1>7 DEF InRing

LEMMA TailOf ==
  ASSUME NEW S, NEW s \in Seq(S), s # <<>>
  PROVE  /\ Tail(s) \in Seq(S) /\ Len(Tail(s)) = Len(s) - 1 /\ Len(s) > 0 /\ s[1] \in S
         /\ \A j \in 1..Len(Tail(s)) : Tail(s)[j] = s[j + 1] /\ j + 1 \in 1..Len(s)
  OBVIOUS

\* Taking a cell from the free ring leaves a ring without it.
LEMMA Takes ==
  ASSUME NEW d, NEW u, NEW f, NEW w, TwoRings(d, u, f, w), f # <<>>
  PROVE  /\ d.n[FREE] = f[1]
         /\ Unlinked(d, f[1]) \in Pairs
         /\ IsRing(Unlinked(d, f[1]), USED, u) /\ IsRing(Unlinked(d, f[1]), FREE, Tail(f))
         /\ \A c \in w..Capacity + 1 : Unlinked(d, f[1]).n[c] = c /\ Unlinked(d, f[1]).p[c] = c
<1>1. /\ USED \in Cells /\ FREE \in Cells /\ USED # FREE /\ w \in Nat /\ w >= 2
      /\ u \in Seq(Cells) /\ f \in Seq(Cells)
      /\ \A j \in 1..Len(f) : f[j] \in 2..w - 1 /\ f[j] # FREE
      /\ \A i \in 1..Len(u) : u[i] \in Cells
      /\ InRing(USED, u) \cap InRing(FREE, f) = {}
  BY RingsTyped
<1>2. d \in Pairs /\ Distinct(f) /\ IsRing(d, USED, u) /\ IsRing(d, FREE, f)
      /\ \A c \in w..Capacity + 1 : d.n[c] = c /\ d.p[c] = c
  BY DEF TwoRings
<1>3. /\ d.n[FREE] = f[1]
      /\ Unlinked(d, f[1]) \in Pairs /\ IsRing(Unlinked(d, f[1]), FREE, Tail(f))
      /\ \A c \in Cells \ InRing(FREE, f) : Unlinked(d, f[1]).n[c] = d.n[c] /\ Unlinked(d, f[1]).p[c] = d.p[c]
  BY <1>1, <1>2, Unlinks
<1>4. InRing(USED, u) \subseteq Cells \ InRing(FREE, f)
  BY <1>1 DEF InRing, Cell
<1>5. IsRing(Unlinked(d, f[1]), USED, u)
  <2> DEFINE e == Unlinked(d, f[1])
  <2>1. \A c \in InRing(USED, u) : e.n[c] = d.n[c] /\ e.p[c] = d.p[c]
    BY <1>3, <1>4
  <2> HIDE DEF e
  <2>2. IsRing(e, USED, u)
    BY <2>1, <1>1, <1>2, RingFrame
  <2> QED
    BY <2>2 DEF e
<1>6. ASSUME NEW c \in w..Capacity + 1 PROVE c \in Cells \ InRing(FREE, f)
  <2>1. c \in Cells /\ c \in Nat /\ c >= w /\ c # FREE
    BY <1>1, ElstAssumption DEF Cells, FREE
  <2>2. \A j \in 1..Len(f) : f[j] # c
    BY <2>1, <1>1
  <2> QED
    BY <2>1, <2>2 DEF InRing, Cell
<1> QED
  BY <1>2, <1>3, <1>5, <1>6

\* every cell handed out so far is in one ring or the other
LEMMA Counted ==
  ASSUME NEW d, NEW u, NEW f, NEW w, TwoRings(d, u, f, w)
  PROVE  Len(u) + Len(f) = w - 2
<1> PICK m \in Nat, n \in Nat : m = Len(u) /\ n = Len(f)
  BY RingsTyped
<1>1. /\ \A i \in 1..m : u[i] \in 2..w - 1
      /\ \A j \in 1..n : f[j] \in 2..w - 1
      /\ w \in Nat /\ w >= 2
  BY RingsTyped
<1>2. /\ \A i, j \in 1..m : u[i] = u[j] => i = j
      /\ \A i, j \in 1..n : f[i] = f[j] => i = j
      /\ \A i \in 1..m, j \in 1..n : u[i] # f[j]
      /\ \A c \in 2..w - 1 : (\E i \in 1..m : u[i] = c) \/ \E j \in 1..n : f[j] = c
  BY DEF TwoRings, Distinct
<1> DEFINE g == [k \in 1..m + n |-> IF k <= m THEN u[k] ELSE f[k - m]]
<1>3. \A k \in 1..m + n : k <= m \/ k - m \in 1..n
  OBVIOUS
<1>4. g \in [1..m + n -> 2..w - 1]
  BY <1>1, <1>3
<1>5. ASSUME NEW k \in 1..m + n, NEW l \in 1..m + n, g[k] = g[l] PROVE k = l
  <2>1. CASE k <= m /\ l <= m
    BY <2>1, <1>5, <1>2
  <2>2. CASE k <= m /\ ~(l <= m)
    BY <2>2, <1>5, <1>2, <1>3
  <2>3. CASE ~(k <= m) /\ l <= m
    BY <2>3, <1>5, <1>2, <1>3
  <2>4. CASE ~(k <= m) /\ ~(l <= m)
    <3>1. k - m \in 1..n /\ l - m \in 1..n /\ f[k - m] = f[l - m]
      BY <2>4, <1>5, <1>3
    <3>2. k - m = l - m
      BY <3>1, <1>2
    <3> QED
      BY <3>2
  <2> QED
    BY <2>1, <2>2, <2>3, <2>4
<1>6. ASSUME NEW c \in 2..w - 1 PROVE \E k \in 1..m + n : g[k] = c
  <2>1. CASE \E i \in 1..m : u[i] = c
    <3>1. PICK i \in 1..m : u[i] = c
      BY <2>1
    <3>2. i \in 1..m + n /\ g[i] = c
      BY <3>1
    <3> QED
      BY <3>2
  <2>2. CASE \E j \in 1..n : f[j] = c
    <3>1. PICK j \in 1..n : f[j] = c
      BY <2>2
    <3>2. j + m \in 1..m + n /\ ~(j + m <= m) /\ (j + m) - m = j
      OBVIOUS
    <3>3. g[j + m] = c
      BY <3>1, <3>2
    <3> QED
      BY <3>2, <3>3
  <2> QED
    BY <2>1, <2>2, <1>2
<1> HIDE DEF g
<1>7. g \in Injection(1..m + n, 2..w - 1) /\ g \in Surjection(1..m + n, 2..w - 1)
  BY <1>4, <1>5, <1>6 DEF Injection, Surjection, IsInjective
<1>8. IsFiniteSet(2..w - 1) /\ Cardinality(2..w - 1) = w - 2
  <2>1. 2 \in Int /\ w - 1 \in Int /\ ((w - 1) - 2) + 1 = w - 2 /\ (2 > w - 1 => w - 2 = 0)
    BY <1>1
  <2>2. IsFiniteSet(2..w - 1) /\ Cardinality(2..w - 1) = IF 2 > w - 1 THEN 0 ELSE ((w - 1) - 2) + 1
    BY <2>1, FS_Interval
  <2> QED
    BY <2>1, <2>2
<1>9. Cardinality(1..m + n) = m + n
  BY FS_Interval
<1>10. Cardinality(1..m + n) = Cardinality(2..w - 1)
  BY <1>7, <1>8, FS_Injection
<1> QED
  BY <1>8, <1>9, <1>10

\* one more cell in the ring in use, behind its first k
LEMMA PutsOne ==
  ASSUME NEW d \in Pairs, NEW u, NEW r, NEW w, NEW v, NEW i, NEW k \in Nat, k <= Len(u),
         v \in 2..Capacity + 2, v >= w, w \in Nat,
         u \in Seq(2..w - 1), r \in Seq(2..w - 1), Distinct(u), Distinct(r), i \in 2..v - 1,
         IsRing(d, USED, u), IsRing(d, FREE, r), NEW t \in Seq(2..v - 1), HasMore(u, k, i, t),
         \A j \in 1..Len(u) : u[j] # i, \A j \in 1..Len(r) : r[j] # i,
         \A j \in 1..Len(u), l \in 1..Len(r) : u[j] # r[l],
         \A c \in 2..v - 1 : c = i \/ (\E j \in 1..Len(u) : u[j] = c) \/ \E l \in 1..Len(r) : r[l] = c,
         \A c \in v..Capacity + 1 : d.n[c] = c /\ d.p[c] = c
  PROVE  TwoRings(LinkedIn(d, i, Cell(USED, u, k), Cell(USED, u, k + 1)), t, r, v)
<1> DEFINE e == LinkedIn(d, i, Cell(USED, u, k), Cell(USED, u, k + 1))
<1> PICK n \in Nat, m \in Nat : n = Len(u) /\ m = Len(r)
  OBVIOUS
<1>1. /\ USED \in Cells /\ FREE \in Cells /\ USED # FREE
      /\ v \in Nat /\ i \in Cells /\ i # USED /\ i # FREE
      /\ \A c \in 2..w - 1 : c \in Cells /\ c \in 2..v - 1 /\ c # USED /\ c # FREE
      /\ 2..v - 1 \subseteq Cells
  <2>1. v \in 2..Capacity + 2 /\ v >= w /\ w \in Nat /\ i \in 2..v - 1
    OBVIOUS
  <2> QED
    BY ONLY <2>1, ElstAssumption DEF USED, FREE, Cells
<1>2. (\A j \in 1..n : u[j] \in 2..w - 1) /\ (\A l \in 1..m : r[l] \in 2..w - 1)
  BY ElementsOf
<1>3. u \in Seq(2..v - 1) /\ r \in Seq(2..v - 1) /\ u \in Seq(Cells) /\ r \in Seq(Cells) /\ t \in Seq(Cells)
  <2>1. 2..w - 1 \subseteq 2..v - 1 /\ 2..v - 1 \subseteq Cells
    BY <1>1
  <2>2. Seq(2..w - 1) \subseteq Seq(2..v - 1) /\ Seq(2..v - 1) \subseteq Seq(Cells)
    BY <2>1, SeqMonotonic
  <2> QED
    BY <2>2
<1>4. /\ \A j \in 1..n : u[j] \in Cells /\ u[j] # USED /\ u[j] # FREE /\ u[j] # i
      /\ \A l \in 1..m : r[l] \in Cells /\ r[l] # USED /\ r[l] # FREE /\ r[l] # i
  BY <1>1, <1>2
<1>5. /\ e \in Pairs /\ IsRing(e, USED, t)
      /\ \A c \in Cells \ InRing(USED, u) : c # i => e.n[c] = d.n[c] /\ e.p[c] = d.p[c]
  <2>1. e = LinkedIn(d, i, Cell(USED, u, k), Cell(USED, u, k + 1))
    OBVIOUS
  <2> HIDE DEF e
  <2>2. \A j \in 1..Len(u) : u[j] # i /\ u[j] # USED
    BY <1>4
  <2> DEFINE a == Cell(USED, u, k)
             b == Cell(USED, u, k + 1)
  <2>3. a = Cell(USED, u, k) /\ b = Cell(USED, u, k + 1) /\ e = LinkedIn(d, i, a, b)
    BY <2>1
  <2> HIDE DEF a, b
  <2>4. /\ d \in Pairs /\ USED \in Cells /\ u \in Seq(Cells) /\ k \in Nat /\ k <= Len(u) /\ i \in Cells /\ i # USED
        /\ Distinct(u) /\ IsRing(d, USED, u) /\ t \in Seq(Cells) /\ HasMore(u, k, i, t)
    BY <1>1, <1>3
  <2> QED
    BY ONLY <2>2, <2>3, <2>4, LinksIn, SMTT(30)
<1>6. Len(t) = n + 1
  BY DEF HasMore
<1>7. (\A j \in 1..k : t[j] = u[j]) /\ t[k + 1] = i /\ (\A j \in k + 2..n + 1 : t[j] = u[j - 1])
  BY DEF HasMore
<1> HIDE DEF e
\* the free ring
<1>8. IsRing(e, FREE, r)
  <2>1. InRing(FREE, r) \subseteq Cells \ InRing(USED, u) /\ i \notin InRing(FREE, r)
    BY <1>1, <1>4 DEF InRing, Cell
  <2>2. \A c \in InRing(FREE, r) : e.n[c] = d.n[c] /\ e.p[c] = d.p[c]
    BY <2>1, <1>5
  <2> QED
    BY <2>2, <1>3, RingFrame
<1>9. \A c \in v..Capacity + 1 : e.n[c] = c /\ e.p[c] = c
  <2> SUFFICES ASSUME NEW c \in v..Capacity + 1 PROVE e.n[c] = c /\ e.p[c] = c
    OBVIOUS
  <2>1. c \in Cells /\ c # USED /\ c # i /\ c \notin 2..v - 1
    BY <1>1, ElstAssumption DEF Cells, USED
  <2>2. \A j \in 1..n : u[j] # c
    BY <2>1, <1>1, <1>2
  <2>3. c \notin InRing(USED, u)
    BY <2>1, <2>2 DEF InRing, Cell
  <2> QED
    BY <2>1, <2>3, <1>5
\* where its cells come from
<1>10. \A j \in 1..n + 1 : (j \in 1..k /\ t[j] = u[j]) \/ (j = k + 1 /\ t[j] = i) \/ (j - 1 \in k + 1..n /\ t[j] = u[j - 1])
  <2> SUFFICES ASSUME NEW j \in 1..n + 1
               PROVE  (j \in 1..k /\ t[j] = u[j]) \/ (j = k + 1 /\ t[j] = i) \/ (j - 1 \in k + 1..n /\ t[j] = u[j - 1])
    OBVIOUS
  <2>1. k \in Int /\ (j \in 1..k \/ j = k + 1 \/ (j \in k + 2..n + 1 /\ j - 1 \in k + 1..n))
    <3>1. k \in Nat /\ n \in Nat /\ j \in 1..n + 1
      OBVIOUS
    <3> QED
      BY ONLY <3>1
  <2> QED
    BY <2>1, <1>7
<1>10a. k \in 0..n /\ 1..k \subseteq 1..n /\ k + 1..n \subseteq 1..n
  <2>1. k \in Nat /\ n \in Nat /\ k <= n
    OBVIOUS
  <2> QED
    BY ONLY <2>1
<1>11. \A j, l \in 1..n + 1 : t[j] = t[l] => j = l
  <2> SUFFICES ASSUME NEW j \in 1..n + 1, NEW l \in 1..n + 1, t[j] = t[l] PROVE j = l
    OBVIOUS
  <2>1. \A a, b \in 1..n : u[a] = u[b] => a = b
    BY DEF Distinct
  <2>2. \A a \in 1..n : u[a] # i
    OBVIOUS
  <2>3. k \in 0..n /\ 1..k \subseteq 1..n /\ k + 1..n \subseteq 1..n
    BY <1>10a
  <2>4. (l \in 1..k /\ t[l] = u[l]) \/ (l = k + 1 /\ t[l] = i) \/ (l - 1 \in k + 1..n /\ t[l] = u[l - 1])
    BY <1>10
  <2>5. CASE j \in 1..k /\ t[j] = u[j]
    <3>1. ~(l = k + 1 /\ t[l] = i)
      BY <2>2, <2>3, <2>5
    <3>2. ~(l - 1 \in k + 1..n /\ t[l] = u[l - 1])
      <4>1. l - 1 \in k + 1..n => l - 1 # j /\ l - 1 \in 1..n
        BY <2>3, <2>5
      <4> QED
        BY <2>1, <2>3, <2>5, <4>1
    <3> QED
      BY <2>1, <2>3, <2>4, <2>5, <3>1, <3>2
  <2>6. CASE j = k + 1 /\ t[j] = i
    BY <2>2, <2>3, <2>4, <2>6
  <2>7. CASE j - 1 \in k + 1..n /\ t[j] = u[j - 1]
    <3>1. ~(l = k + 1 /\ t[l] = i)
      BY <2>2, <2>3, <2>7
    <3>2. ~(l \in 1..k /\ t[l] = u[l])
      <4>1. l \in 1..k => j - 1 # l /\ j - 1 \in 1..n /\ l \in 1..n
        BY <2>3, <2>7
      <4> QED
        BY <2>1, <2>7, <4>1
    <3>3. u[j - 1] = u[l - 1] /\ j - 1 \in 1..n /\ l - 1 \in 1..n
      BY <2>3, <2>4, <2>7, <3>1, <3>2
    <3>4. j - 1 = l - 1
      BY <2>1, <3>3
    <3> QED
      BY <3>4
  <2> QED
    BY <2>5, <2>6, <2>7, <1>10
<1>12. \A j \in 1..n + 1, l \in 1..m : t[j] # r[l]
  <2>1. k \in 0..n /\ 1..k \subseteq 1..n /\ k + 1..n \subseteq 1..n
    BY <1>10a
  <2> SUFFICES ASSUME NEW j \in 1..n + 1, NEW l \in 1..m PROVE t[j] # r[l]
    OBVIOUS
  <2>2. \A a \in 1..n : u[a] # r[l]
    OBVIOUS
  <2>3. CASE j \in 1..k /\ t[j] = u[j]
    BY <2>1, <2>2, <2>3
  <2>4. CASE j = k + 1 /\ t[j] = i
    BY <2>4, <1>4
  <2>5. CASE j - 1 \in k + 1..n /\ t[j] = u[j - 1]
    BY <2>1, <2>2, <2>5
  <2> QED
    BY <2>3, <2>4, <2>5, <1>10
<1>13. \A c \in 2..v - 1 : (\E j \in 1..n + 1 : t[j] = c) \/ \E l \in 1..m : r[l] = c
  <2> SUFFICES ASSUME NEW c \in 2..v - 1, ~\E l \in 1..m : r[l] = c PROVE \E j \in 1..n + 1 : t[j] = c
    OBVIOUS
  <2>1. CASE c = i
    <3>1. k + 1 \in 1..n + 1
      OBVIOUS
    <3> QED
      BY <2>1, <3>1, <1>7
  <2>2. CASE \E j \in 1..n : u[j] = c
    <3>1. PICK j \in 1..n : u[j] = c
      BY <2>2
    <3>2. CASE j <= k
      <4>1. j \in 1..k /\ j \in 1..n + 1
        BY <3>2
      <4>2. t[j] = c
        BY ONLY <3>1, <4>1, <1>7
      <4> QED
        BY ONLY <4>1, <4>2
    <3>3. CASE j > k
      <4>1. j + 1 \in k + 2..n + 1 /\ j + 1 \in 1..n + 1 /\ (j + 1) - 1 = j
        <5>1. k \in Nat /\ n \in Nat /\ j \in 1..n
          OBVIOUS
        <5> QED
          BY ONLY <5>1, <3>3
      <4> QED
        BY ONLY <3>1, <4>1, <1>7
    <3>4. j \in Int /\ k \in Int
      OBVIOUS
    <3> QED
      BY <3>2, <3>3, <3>4
  <2> QED
    BY <2>1, <2>2
<1>14. Distinct(t)
  BY <1>6, <1>11 DEF Distinct
<1>15. TwoRings(e, t, r, v)
  BY <1>3, <1>5, <1>6, <1>8, <1>9, <1>12, <1>13, <1>14 DEF TwoRings
<1> QED
  BY <1>15 DEF e

LEMMA EmptyRing ==
  ASSUME NEW d, NEW h \in Cells, NEW s \in Seq(Cells), IsRing(d, h, s), \A j \in 1..Len(s) : s[j] # h
  PROVE  d.n[h] = h <=> s = <<>>
<1>1. d.n[h] = Cell(h, s, 1)
  <2>1. 0 \in 0..Len(s) /\ Cell(h, s, 0) = h
    BY DEF Cell
  <2> QED
    BY <2>1 DEF IsRing
<1>2. CASE s = <<>>
  BY <1>1, <1>2 DEF Cell
<1>3. CASE s # <<>>
  <2>1. 1 \in 1..Len(s)
    BY <1>3, TailOf
  <2> QED
    BY <1>1, <1>3, <2>1 DEF Cell
<1> QED
  BY <1>2, <1>3

\* __put(): a cell that was freed, or the first never used, goes where it is told to
LEMMA Puts ==
  ASSUME NEW d, NEW u, NEW f, NEW w, TwoRings(d, u, f, w), Len(u) < Capacity, NEW k \in Nat, k <= Len(u),
         NEW i, i = IF d.n[FREE] # FREE THEN d.n[FREE] ELSE w,
         NEW e, e = IF d.n[FREE] # FREE THEN Unlinked(d, i) ELSE d,
         NEW v, v = IF d.n[FREE] # FREE THEN w ELSE w + 1
  PROVE  /\ i \in Cells /\ \A j \in 1..Len(u) : u[j] # i
         /\ InsertAt(u, k + 1, i) \in Seq(2..v - 1)
         /\ \E r : TwoRings(LinkedIn(e, i, Cell(USED, u, k), Cell(USED, u, k + 1)), InsertAt(u, k + 1, i), r, v)
<1>1. /\ USED \in Cells /\ FREE \in Cells /\ w \in Nat /\ w >= 2 /\ w <= Capacity + 2
      /\ u \in Seq(Cells) /\ f \in Seq(Cells) /\ Len(u) \in Nat
      /\ \A j \in 1..Len(u) : u[j] \in 2..w - 1
      /\ \A j \in 1..Len(f) : f[j] \in Cells /\ f[j] \in 2..w - 1 /\ f[j] # FREE
  BY RingsTyped
<1>2. /\ d \in Pairs /\ w \in 2..Capacity + 2 /\ u \in Seq(2..w - 1) /\ f \in Seq(2..w - 1)
      /\ Distinct(u) /\ Distinct(f) /\ IsRing(d, USED, u) /\ IsRing(d, FREE, f)
      /\ \A j \in 1..Len(u), l \in 1..Len(f) : u[j] # f[l]
      /\ \A c \in 2..w - 1 : (\E j \in 1..Len(u) : u[j] = c) \/ \E l \in 1..Len(f) : f[l] = c
      /\ \A c \in w..Capacity + 1 : d.n[c] = c /\ d.p[c] = c
  BY DEF TwoRings
<1>3. d.n[FREE] = FREE <=> f = <<>>
  <2>1. FREE \in Cells /\ f \in Seq(Cells) /\ IsRing(d, FREE, f) /\ \A j \in 1..Len(f) : f[j] # FREE
    BY <1>1, <1>2
  <2> QED
    BY ONLY <2>1, EmptyRing
<1> DEFINE t == InsertAt(u, k + 1, i)
<1>4. CASE f # <<>>
  <2>1. /\ i = f[1] /\ v = w /\ e = Unlinked(d, f[1]) /\ e \in Pairs
        /\ IsRing(e, USED, u) /\ IsRing(e, FREE, Tail(f))
        /\ \A c \in w..Capacity + 1 : e.n[c] = c /\ e.p[c] = c
    BY <1>3, <1>4, Takes
  <2>2. /\ Tail(f) \in Seq(2..w - 1) /\ Len(Tail(f)) = Len(f) - 1 /\ Len(f) > 0 /\ 1 \in 1..Len(f)
        /\ \A j \in 1..Len(Tail(f)) : Tail(f)[j] = f[j + 1] /\ j + 1 \in 1..Len(f)
    BY <1>2, <1>4, TailOf
  <2> DEFINE r == Tail(f)
  <2>3. i \in 2..w - 1 /\ i \in Cells /\ \A j \in 1..Len(u) : u[j] # i
    BY <2>1, <2>2, <1>1, <1>2
  <2>4. Distinct(r) /\ \A j \in 1..Len(r) : r[j] # i
    BY <2>1, <2>2, <1>2 DEF Distinct
  <2>5. ASSUME NEW j \in 1..Len(u), NEW l \in 1..Len(r) PROVE u[j] # r[l]
    <3>1. r[l] = f[l + 1] /\ l + 1 \in 1..Len(f)
      BY <2>2
    <3> QED
      BY <3>1, <1>2
  <2>6. ASSUME NEW c \in 2..w - 1 PROVE c = i \/ (\E j \in 1..Len(u) : u[j] = c) \/ \E l \in 1..Len(r) : r[l] = c
    <3>1. CASE \E l \in 1..Len(f) : f[l] = c
      <4>1. PICK l \in 1..Len(f) : f[l] = c
        BY <3>1
      <4>2. CASE l = 1
        BY <4>1, <4>2, <2>1
      <4>3. CASE l # 1
        <5>1. l - 1 \in 1..Len(r) /\ (l - 1) + 1 = l
          BY <4>3, <2>2
        <5> QED
          BY <4>1, <5>1, <2>2
      <4> QED
        BY <4>2, <4>3
    <3> QED
      BY <3>1, <1>2
  <2>7. t \in Seq(2..w - 1) /\ HasMore(u, k, i, t)
    BY <1>2, <2>3, InsertProperties
  <2> HIDE DEF t, r
  <2>8. TwoRings(LinkedIn(e, i, Cell(USED, u, k), Cell(USED, u, k + 1)), t, r, w)
    <3>1. /\ w \in 2..Capacity + 2 /\ w >= w /\ w \in Nat /\ u \in Seq(2..w - 1) /\ r \in Seq(2..w - 1)
          /\ Distinct(u) /\ Distinct(r) /\ i \in 2..w - 1 /\ k \in Nat /\ k <= Len(u) /\ e \in Pairs
      BY <1>1, <1>2, <2>1, <2>2, <2>3, <2>4 DEF r
    <3>2. IsRing(e, USED, u) /\ IsRing(e, FREE, r) /\ t \in Seq(2..w - 1) /\ HasMore(u, k, i, t)
      BY <2>1, <2>7 DEF r
    <3>3. (\A j \in 1..Len(u) : u[j] # i) /\ (\A j \in 1..Len(r) : r[j] # i)
      BY <2>3, <2>4
    <3>4. \A c \in w..Capacity + 1 : e.n[c] = c /\ e.p[c] = c
      BY <2>1
    <3> QED
      BY ONLY <3>1, <3>2, <3>3, <3>4, <2>5, <2>6, PutsOne
  <2> QED
    BY <2>1, <2>3, <2>7, <2>8 DEF t
<1>5. CASE f = <<>>
  <2>1. i = w /\ v = w + 1 /\ e = d
    BY <1>3, <1>5
  <2>2. w <= Capacity + 1
    <3>1. Len(u) + Len(f) = w - 2 /\ Len(f) = 0
      BY <1>5, Counted
    <3> QED
      BY <3>1, <1>1, ElstAssumption
  <2>3. /\ v \in 2..Capacity + 2 /\ v >= w /\ i \in 2..v - 1 /\ i \in Cells
        /\ \A c \in 2..v - 1 : c = i \/ c \in 2..w - 1
        /\ \A c \in v..Capacity + 1 : c \in w..Capacity + 1
    BY <2>1, <2>2, <1>1, ElstAssumption DEF Cells
  <2>4. (\A j \in 1..Len(u) : u[j] # i) /\ (\A j \in 1..Len(f) : f[j] # i)
    <3>1. w \notin 2..w - 1
      BY <1>1
    <3> QED
      BY <3>1, <2>1, <1>1
  <2>5. t \in Seq(2..v - 1) /\ HasMore(u, k, i, t)
    <3>1. 2..w - 1 \subseteq 2..v - 1
      BY <2>1, <1>1
    <3>2. u \in Seq(2..v - 1)
      BY <3>1, <1>2, SeqMonotonic
    <3> QED
      BY <3>2, <2>3, InsertProperties
  <2> HIDE DEF t
  <2>6. \A c \in 2..v - 1 : c = i \/ (\E j \in 1..Len(u) : u[j] = c) \/ \E l \in 1..Len(f) : f[l] = c
    BY <2>3, <1>2
  <2>7. \A c \in v..Capacity + 1 : d.n[c] = c /\ d.p[c] = c
    BY <2>3, <1>2
  <2>8. TwoRings(LinkedIn(e, i, Cell(USED, u, k), Cell(USED, u, k + 1)), t, f, v)
    BY <2>1, <2>3, <2>4, <2>5, <2>6, <2>7, <1>1, <1>2, PutsOne
  <2> QED
    BY <2>3, <2>4, <2>5, <2>8 DEF t
<1> QED
  BY <1>4, <1>5

LEMMA AppendIsMore ==
  ASSUME NEW S, NEW s \in Seq(S), NEW e \in S
  PROVE  Append(s, e) \in Seq(S) /\ HasMore(s, Len(s), e, Append(s, e))
<1> PICK n \in Nat : n = Len(s)
  OBVIOUS
<1> DEFINE t == Append(s, e)
<1>1. t \in Seq(S) /\ Len(t) = n + 1 /\ t[n + 1] = e /\ \A j \in 1..n : t[j] = s[j]
  OBVIOUS
<1>2. n + 2..n + 1 = {}
  OBVIOUS
<1> HIDE DEF t
<1>3. HasMore(s, Len(s), e, t)
  BY <1>1, <1>2 DEF HasMore
<1> QED
  BY <1>1, <1>3 DEF t

\* elst_nlock_pop(): the first cell in use goes behind the free ones
LEMMA Frees ==
  ASSUME NEW d, NEW u, NEW f, NEW w, TwoRings(d, u, f, w), u # <<>>
  PROVE  /\ d.n[USED] = u[1] /\ u[1] # USED
         /\ TwoRings(FirstFreed(d), Tail(u), Append(f, u[1]), w)
<1> DEFINE i == u[1]
           x == Unlinked(d, i)
           a == Cell(FREE, f, Len(f))
           e == LinkedIn(x, i, a, FREE)
           t == Tail(u)
           r == Append(f, i)
<1>1. /\ USED \in Cells /\ FREE \in Cells /\ USED # FREE /\ w \in Nat /\ w >= 2 /\ w <= Capacity + 2
      /\ u \in Seq(Cells) /\ f \in Seq(Cells) /\ Len(u) \in Nat /\ Len(f) \in Nat
      /\ \A j \in 1..Len(u) : u[j] \in Cells /\ u[j] \in 2..w - 1 /\ u[j] # USED /\ u[j] # FREE
      /\ \A j \in 1..Len(f) : f[j] \in Cells /\ f[j] \in 2..w - 1 /\ f[j] # USED /\ f[j] # FREE
      /\ InRing(USED, u) \cap InRing(FREE, f) = {}
  BY RingsTyped
<1>2. /\ d \in Pairs /\ w \in 2..Capacity + 2 /\ u \in Seq(2..w - 1) /\ f \in Seq(2..w - 1)
      /\ Distinct(u) /\ Distinct(f) /\ IsRing(d, USED, u) /\ IsRing(d, FREE, f)
      /\ \A j \in 1..Len(u), l \in 1..Len(f) : u[j] # f[l]
      /\ \A c \in 2..w - 1 : (\E j \in 1..Len(u) : u[j] = c) \/ \E l \in 1..Len(f) : f[l] = c
      /\ \A c \in w..Capacity + 1 : d.n[c] = c /\ d.p[c] = c
  BY DEF TwoRings
<1>3. /\ t \in Seq(2..w - 1) /\ Len(t) = Len(u) - 1 /\ Len(u) > 0 /\ 1 \in 1..Len(u)
      /\ \A j \in 1..Len(t) : t[j] = u[j + 1] /\ j + 1 \in 1..Len(u)
  BY <1>2, TailOf
<1>4. i \in Cells /\ i \in 2..w - 1 /\ i # USED /\ i # FREE /\ i \in InRing(USED, u)
  <2>1. i = Cell(USED, u, 1) /\ 1 \in 0..Len(u)
    BY <1>3 DEF Cell
  <2> QED
    BY <2>1, <1>1, <1>3 DEF InRing
<1>5. /\ d.n[USED] = i /\ x \in Pairs /\ IsRing(x, USED, t)
      /\ \A c \in Cells \ InRing(USED, u) : x.n[c] = d.n[c] /\ x.p[c] = d.p[c]
  <2>1. \A j \in 1..Len(u) : u[j] # USED
    BY <1>1
  <2> QED
    BY <2>1, <1>1, <1>2, Unlinks
<1> HIDE DEF t, x
<1>6. IsRing(x, FREE, f)
  <2>1. InRing(FREE, f) \subseteq Cells \ InRing(USED, u)
    BY <1>1 DEF InRing, Cell
  <2>2. \A c \in InRing(FREE, f) : x.n[c] = d.n[c] /\ x.p[c] = d.p[c]
    BY <2>1, <1>5
  <2> QED
    BY <2>2, <1>1, <1>2, RingFrame
<1>7. x.p[FREE] = a /\ Cell(FREE, f, Len(f) + 1) = FREE
  <2>1. Len(f) \in 0..Len(f) /\ Cell(FREE, f, Len(f) + 1) = FREE
    BY <1>1 DEF Cell
  <2> QED
    BY <2>1, <1>6 DEF IsRing
<1>8. FirstFreed(d) = e
  BY <1>5, <1>7 DEF FirstFreed, x
<1>9. r \in Seq(2..w - 1) /\ r \in Seq(Cells) /\ HasMore(f, Len(f), i, r)
  BY <1>1, <1>2, <1>4, AppendIsMore
<1>10. \A j \in 1..Len(f) : f[j] # i /\ f[j] # FREE
  BY <1>1, <1>2, <1>3
<1> HIDE DEF i, e, r, a
<1>11. /\ e \in Pairs /\ IsRing(e, FREE, r)
       /\ \A c \in Cells \ InRing(FREE, f) : c # i => e.n[c] = x.n[c] /\ e.p[c] = x.p[c]
  <2> PICK m \in Nat : m = Len(f)
    BY <1>1
  <2>1. a = Cell(FREE, f, m) /\ FREE = Cell(FREE, f, m + 1) /\ e = LinkedIn(x, i, a, FREE)
    BY <1>7 DEF a, e
  <2>2. /\ x \in Pairs /\ FREE \in Cells /\ f \in Seq(Cells) /\ m \in Nat /\ m <= Len(f) /\ i \in Cells
        /\ i # FREE /\ Distinct(f) /\ IsRing(x, FREE, f) /\ r \in Seq(Cells) /\ HasMore(f, m, i, r)
    BY <1>1, <1>2, <1>4, <1>5, <1>6, <1>9
  <2> QED
    BY ONLY <2>1, <2>2, <1>10, LinksIn, SMTT(30)
<1>12. \A j \in 1..Len(t) : t[j] # i /\ t[j] \in Cells /\ t[j] # USED /\ t[j] \in InRing(USED, u)
  <2> SUFFICES ASSUME NEW j \in 1..Len(t) PROVE t[j] # i /\ t[j] \in Cells /\ t[j] # USED /\ t[j] \in InRing(USED, u)
    OBVIOUS
  <2>1. t[j] = u[j + 1] /\ j + 1 \in 1..Len(u) /\ j + 1 # 1 /\ j + 1 \in 0..Len(u)
    BY <1>3
  <2>2. t[j] = Cell(USED, u, j + 1)
    BY <2>1 DEF Cell
  <2>3. t[j] \in InRing(USED, u)
    BY <2>1, <2>2 DEF InRing
  <2>4. u[j + 1] # u[1]
    BY <2>1, <1>2, <1>3 DEF Distinct
  <2> QED
    BY <2>1, <2>3, <2>4, <1>1 DEF i
<1>13. IsRing(e, USED, t)
  <2>1. ASSUME NEW c \in InRing(USED, t) PROVE c \in Cells \ InRing(FREE, f) /\ c # i
    <3>1. USED \in InRing(USED, u)
      <4>1. USED = Cell(USED, u, 0) /\ 0 \in 0..Len(u)
        BY <1>1 DEF Cell
      <4> QED
        BY <4>1 DEF InRing
    <3>2. PICK j \in 0..Len(t) : c = Cell(USED, t, j)
      BY <2>1 DEF InRing
    <3> QED
      BY <3>1, <3>2, <1>1, <1>4, <1>12 DEF Cell
  <2>2. \A c \in InRing(USED, t) : e.n[c] = x.n[c] /\ e.p[c] = x.p[c]
    BY <2>1, <1>11
  <2>3. t \in Seq(Cells)
    <3>1. 2..w - 1 \subseteq Cells
      BY <1>1, ElstAssumption DEF Cells
    <3> QED
      BY <3>1, <1>3, SeqMonotonic
  <2> QED
    BY <2>2, <2>3, <1>5, RingFrame
<1>14. \A c \in w..Capacity + 1 : e.n[c] = c /\ e.p[c] = c
  <2> SUFFICES ASSUME NEW c \in w..Capacity + 1 PROVE e.n[c] = c /\ e.p[c] = c
    OBVIOUS
  <2>1. c \in Cells /\ c \notin 2..w - 1 /\ c # USED /\ c # FREE
    BY <1>1, ElstAssumption DEF Cells, USED, FREE
  <2>2. c \notin InRing(USED, u) /\ c \notin InRing(FREE, f) /\ c # i
    BY <2>1, <1>1, <1>4 DEF InRing, Cell
  <2> QED
    BY <2>1, <2>2, <1>2, <1>5, <1>11
<1>15. Len(r) = Len(f) + 1 /\ r[Len(f) + 1] = i /\ \A j \in 1..Len(f) : r[j] = f[j]
  BY <1>9 DEF HasMore
<1>16. \A j \in 1..Len(r) : j \in 1..Len(f) \/ j = Len(f) + 1
  BY <1>1, <1>15
<1>17. Distinct(r)
  <2> SUFFICES ASSUME NEW j \in 1..Len(r), NEW l \in 1..Len(r), r[j] = r[l] PROVE j = l
    BY DEF Distinct
  <2>1. \A a1, b1 \in 1..Len(f) : f[a1] = f[b1] => a1 = b1
    BY <1>2 DEF Distinct
  <2> QED
    BY ONLY <2>1, <1>10, <1>15, <1>16, r[j] = r[l], j \in 1..Len(r), l \in 1..Len(r)
<1>18. Distinct(t)
  <2> SUFFICES ASSUME NEW j \in 1..Len(t), NEW l \in 1..Len(t), t[j] = t[l] PROVE j = l
    BY DEF Distinct
  <2>1. u[j + 1] = u[l + 1] /\ j + 1 \in 1..Len(u) /\ l + 1 \in 1..Len(u)
    BY <1>3
  <2>2. j + 1 = l + 1
    BY <2>1, <1>2 DEF Distinct
  <2> QED
    BY <2>2
<1>19. \A j \in 1..Len(t), l \in 1..Len(r) : t[j] # r[l]
  <2> SUFFICES ASSUME NEW j \in 1..Len(t), NEW l \in 1..Len(r) PROVE t[j] # r[l]
    OBVIOUS
  <2>1. t[j] = u[j + 1] /\ j + 1 \in 1..Len(u) /\ t[j] # i
    BY <1>3, <1>12
  <2>2. CASE l \in 1..Len(f)
    <3>1. u[j + 1] # f[l] /\ r[l] = f[l]
      BY <2>1, <2>2, <1>2, <1>15
    <3> QED
      BY <2>1, <3>1
  <2>3. CASE l = Len(f) + 1
    BY <2>1, <2>3, <1>15
  <2> QED
    BY <2>2, <2>3, <1>16
<1>20. ASSUME NEW c \in 2..w - 1 PROVE (\E j \in 1..Len(t) : t[j] = c) \/ \E l \in 1..Len(r) : r[l] = c
  <2>1. CASE c = i
    <3>1. Len(f) + 1 \in 1..Len(r)
      BY <1>1, <1>15
    <3> QED
      BY <2>1, <3>1, <1>15
  <2>2. CASE \E l \in 1..Len(f) : f[l] = c
    <3>1. PICK l \in 1..Len(f) : f[l] = c
      BY <2>2
    <3>2. l \in 1..Len(r)
      BY <1>1, <1>15
    <3> QED
      BY <3>1, <3>2, <1>15
  <2>3. CASE c # i /\ \E j \in 1..Len(u) : u[j] = c
    <3>1. PICK j \in 1..Len(u) : u[j] = c
      BY <2>3
    <3>2. j # 1
      BY <2>3, <3>1 DEF i
    <3>3. j - 1 \in 1..Len(t) /\ (j - 1) + 1 = j
      BY <3>2, <1>1, <1>3
    <3> QED
      BY <3>1, <3>3, <1>3
  <2> QED
    BY <2>1, <2>2, <2>3, <1>2
<1>21. TwoRings(e, t, r, w)
  BY <1>2, <1>3, <1>9, <1>11, <1>13, <1>14, <1>17, <1>18, <1>19, <1>20 DEF TwoRings
<1> QED
  BY <1>4, <1>5, <1>8, <1>21 DEF i, t, r

-----------------------------------------------------------------------------
(* What walks over the rings finds. *)

LEMMA Walks ==
  ASSUME nxt \in [Cells -> Cells], NEW h \in Cells
  PROVE  Walk(h) = [k \in 0..Capacity + 1 |-> IF k = 0 THEN h ELSE nxt[Walk(h)[k - 1]]]
<1> DEFINE N == Capacity + 1
<1>1. N \in Nat
  BY ElstAssumption
<1> HIDE DEF N
<1>2. \E g : Iterates(g, h, nxt, N)
  BY <1>1, Iterated
<1> QED
  BY <1>2 DEF Walk, Iterates, N

LEMMA RingIs ==
  ASSUME nxt \in [Cells -> Cells], NEW h \in Cells, NEW s \in Seq(Cells), Len(s) <= Capacity,
         \A j \in 1..Len(s) : s[j] # h, IsRing(Rings, h, s)
  PROVE  Ring(h) = s
<1> DEFINE step == Walk(h)
           ComesBack(k) == /\ k > Capacity \/ nxt[step[k]] = h
                      /\ \A j \in 0..k - 1 : nxt[step[j]] # h
<1> PICK n \in Nat : n = Len(s) /\ n <= Capacity
  OBVIOUS
<1>1. Capacity \in Nat
  BY ElstAssumption
<1>2. step[0] = h /\ \A k \in 1..Capacity + 1 : step[k] = nxt[step[k - 1]]
  <2>1. 0 \in 0..Capacity + 1
    BY <1>1
  <2> QED
    BY <2>1, <1>1, Walks
<1> HIDE DEF step
<1>3. \A k \in 0..n : nxt[Cell(h, s, k)] = Cell(h, s, k + 1)
  BY DEF IsRing, Rings
<1>4. \A k \in 0..n : step[k] = Cell(h, s, k)
  <2> DEFINE T == {k \in 0..n : step[k] = Cell(h, s, k)}
  <2>1. 0 \in T
    BY <1>2 DEF Cell
  <2>2. ASSUME NEW k \in 0..n - 1, k \in T PROVE k + 1 \in T
    <3>1. k + 1 \in 1..Capacity + 1 /\ k + 1 \in 0..n /\ (k + 1) - 1 = k /\ k \in 0..n
      BY <1>1
    <3>2. step[k] = Cell(h, s, k)
      BY <2>2
    <3>3. step[k + 1] = nxt[step[k]]
      BY <3>1, <1>2
    <3>4. step[k + 1] = Cell(h, s, k + 1)
      BY <3>1, <3>2, <3>3, <1>3
    <3> QED
      BY <3>1, <3>4
  <2> HIDE DEF T
  <2>3. 0..n \subseteq T
    BY <2>1, <2>2, UpTo
  <2> QED
    BY <2>3 DEF T
<1>5. \A k \in 0..n - 1 : nxt[step[k]] # h
  <2> SUFFICES ASSUME NEW k \in 0..n - 1 PROVE nxt[step[k]] # h
    OBVIOUS
  <2>1. k \in 0..n /\ k + 1 \in 1..n
    OBVIOUS
  <2> QED
    BY <2>1, <1>3, <1>4 DEF Cell
<1>6. nxt[step[n]] = h
  BY <1>3, <1>4 DEF Cell
<1>7. n \in 0..Capacity + 1 /\ ComesBack(n)
  BY <1>1, <1>5, <1>6
<1>8. ASSUME NEW k \in 0..Capacity + 1, ComesBack(k) PROVE k = n
  <2>1. ~(k > n)
    <3> SUFFICES ASSUME k > n PROVE FALSE
      OBVIOUS
    <3>1. n \in 0..k - 1
      OBVIOUS
    <3> QED
      BY <3>1, <1>6, <1>8
  <2>2. ~(k < n)
    <3> SUFFICES ASSUME k < n PROVE FALSE
      OBVIOUS
    <3>1. k \in 0..n - 1 /\ ~(k > Capacity)
      BY <1>1
    <3> QED
      BY <3>1, <1>5, <1>8
  <2> QED
    BY <2>1, <2>2
<1> HIDE DEF ComesBack
<1>9. (CHOOSE k \in 0..Capacity + 1 : ComesBack(k)) = n
  BY <1>7, <1>8
<1>10. Ring(h) = [k \in 1..n |-> step[k]]
  BY <1>9 DEF Ring, ComesBack, step
<1>11. \A k \in 1..n : step[k] = s[k]
  BY <1>4 DEF Cell
<1> QED
  BY <1>10, <1>11

-----------------------------------------------------------------------------
(* The list and the queue behind it. *)

\* Both rings are whole, and count tells the length of the one in use.
Shape ==
  /\ count \in 0..Capacity
  /\ ptr \in [Cells -> Payloads \cup {NoPtr}] /\ prio \in [Cells -> Int]
  /\ \E u, f : TwoRings(Rings, u, f, hwm) /\ Len(u) = count

\* As long as a consumer sleeps there is one awake for everything in the list.
Attended ==
  /\ consumer \in [Consumers -> {"out", "waiting", "awake"}]
  /\ \A c \in Consumers : consumer[c] = "waiting" =>
       Cardinality({d \in Consumers : consumer[d] = "awake"}) >= count

ListInv == Shape /\ Attended

\* what the rings of a list say of the queue
QueueRead ==
  \A u, f : TwoRings(Rings, u, f, hwm) /\ Len(u) <= Capacity =>
    /\ Ring(USED) = u
    /\ Queue = [k \in 1..Len(u) |-> <<ptr[u[k]], prio[u[k]]>>]
    /\ Len(f) <= Capacity => Ring(FREE) = f

LEMMA Reading == QueueRead
<1> SUFFICES ASSUME NEW u, NEW f, TwoRings(Rings, u, f, hwm), Len(u) <= Capacity
             PROVE  /\ Ring(USED) = u
                    /\ Queue = [k \in 1..Len(u) |-> <<ptr[u[k]], prio[u[k]]>>]
                    /\ Len(f) <= Capacity => Ring(FREE) = f
  BY DEF QueueRead
<1>1. /\ USED \in Cells /\ FREE \in Cells /\ u \in Seq(Cells) /\ f \in Seq(Cells) /\ Len(u) \in Nat
      /\ \A j \in 1..Len(u) : u[j] # USED
      /\ \A j \in 1..Len(f) : f[j] # FREE
  BY RingsTyped
<1>2. nxt \in [Cells -> Cells] /\ IsRing(Rings, USED, u) /\ IsRing(Rings, FREE, f)
  BY DEF TwoRings, Pairs, Rings
<1>3. Ring(USED) = u
  BY <1>1, <1>2, RingIs
<1>4. Len(f) <= Capacity => Ring(FREE) = f
  BY <1>1, <1>2, RingIs
<1>5. DOMAIN u = 1..Len(u)
  BY <1>1
<1> QED
  BY <1>3, <1>4, <1>5 DEF Queue

LEMMA ReadingNext == QueueRead'
  BY Reading, PTL

LEMMA SameMore ==
  ASSUME NEW S, NEW s \in Seq(S), NEW e, NEW k \in Nat, k <= Len(s), NEW t \in Seq(S), NEW r \in Seq(S),
         HasMore(s, k, e, t), HasMore(s, k, e, r)
  PROVE  t = r
<1> PICK n \in Nat : n = Len(s) /\ k <= n
  OBVIOUS
<1>1. Len(t) = n + 1 /\ Len(r) = n + 1 /\ t[k + 1] = r[k + 1]
  BY DEF HasMore
<1>2. (\A j \in 1..k : t[j] = r[j]) /\ (\A j \in k + 2..n + 1 : t[j] = r[j])
  BY DEF HasMore
<1>3. ASSUME NEW j \in 1..n + 1 PROVE t[j] = r[j]
  <2>1. j \in 1..k \/ j = k + 1 \/ j \in k + 2..n + 1
    OBVIOUS
  <2> QED
    BY <2>1, <1>1, <1>2
<1>4. t = [j \in 1..n + 1 |-> t[j]] /\ r = [j \in 1..n + 1 |-> r[j]]
  BY <1>1
<1> QED
  BY <1>3, <1>4

Entries == (Payloads \cup {NoPtr}) \X Int

LEMMA QueueTyped ==
  ASSUME Shape, NEW u, NEW f, TwoRings(Rings, u, f, hwm), Len(u) = count
  PROVE  /\ Queue \in Seq(Entries) /\ Len(Queue) = count
         /\ \A j \in 1..count : Queue[j] = <<ptr[u[j]], prio[u[j]]>> /\ u[j] \in Cells /\ Queue[j][2] = prio[u[j]]
<1>1. count \in Nat /\ count <= Capacity
  BY ElstAssumption DEF Shape
<1>2. Queue = [k \in 1..count |-> <<ptr[u[k]], prio[u[k]]>>]
  BY <1>1, Reading DEF QueueRead
<1>3. \A j \in 1..count : u[j] \in Cells
  BY RingsTyped
<1>4. \A j \in 1..count : <<ptr[u[j]], prio[u[j]]>> \in Entries
  BY <1>3 DEF Shape, Entries
<1> QED
  BY <1>1, <1>2, <1>3, <1>4

\* __put() behind the first k cells is an insertion behind the first k of the queue
LEMMA PutStep ==
  ASSUME Shape, NEW u, NEW f, TwoRings(Rings, u, f, hwm), Len(u) = count, count < Capacity,
         NEW x \in Payloads, NEW pr \in Int, NEW k \in Nat, k <= count,
         PutBetween(x, pr, Cell(USED, u, k), Cell(USED, u, k + 1))
  PROVE  Shape' /\ count' = count + 1 /\ Queue' = InsertAt(Queue, k + 1, <<x, pr>>)
<1> DEFINE i == GetFree
           t == InsertAt(u, k + 1, i)
           v == IF FromFree THEN hwm ELSE hwm + 1
           e == <<x, pr>>
<1>1. count \in Nat /\ count + 1 <= Capacity /\ count + 1 \in 0..Capacity /\ k <= Len(u) /\ Len(u) < Capacity
  BY ElstAssumption DEF Shape
<1>2. /\ i = IF Rings.n[FREE] # FREE THEN Rings.n[FREE] ELSE hwm
      /\ Taken = IF Rings.n[FREE] # FREE THEN Unlinked(Rings, i) ELSE Rings
      /\ v = IF Rings.n[FREE] # FREE THEN hwm ELSE hwm + 1
  BY DEF GetFree, FromFree, Taken, Rings
<1>3. /\ Rings' = LinkedIn(Taken, i, Cell(USED, u, k), Cell(USED, u, k + 1))
      /\ ptr' = [ptr EXCEPT ![i] = x] /\ prio' = [prio EXCEPT ![i] = pr]
      /\ hwm' = v /\ count' = count + 1
  <2> DEFINE a == Cell(USED, u, k)
             b == Cell(USED, u, k + 1)
             g == LinkedIn(Taken, GetFree, a, b)
  <2>1. ~(count >= Capacity)
    BY <1>1, ElstAssumption
  <2>2. g = [n |-> g.n, p |-> g.p]
    BY DEF LinkedIn
  <2> HIDE DEF g, a, b
  <2>3. PutBetween(x, pr, a, b)
    BY DEF a, b
  <2>4. /\ nxt' = g.n /\ prv' = g.p
        /\ ptr' = [ptr EXCEPT ![GetFree] = x] /\ prio' = [prio EXCEPT ![GetFree] = pr]
        /\ hwm' = IF FromFree THEN hwm ELSE hwm + 1
        /\ count' = count + 1
    BY <2>1, <2>3 DEF PutBetween, g
  <2>5. Rings' = [n |-> nxt', p |-> prv']
    BY DEF Rings
  <2>6. Rings' = g
    BY <2>2, <2>4, <2>5
  <2> QED
    BY <2>4, <2>6 DEF g, a, b
<1> HIDE DEF i, v
<1>4. /\ i \in Cells /\ \A j \in 1..Len(u) : u[j] # i
      /\ InsertAt(u, k + 1, i) \in Seq(2..v - 1)
      /\ \E r : TwoRings(LinkedIn(Taken, i, Cell(USED, u, k), Cell(USED, u, k + 1)), InsertAt(u, k + 1, i), r, v)
  <2> DEFINE g == Taken
             d == Rings
             w == hwm
  <2>1. /\ i = IF d.n[FREE] # FREE THEN d.n[FREE] ELSE w
        /\ g = IF d.n[FREE] # FREE THEN Unlinked(d, i) ELSE d
        /\ v = IF d.n[FREE] # FREE THEN w ELSE w + 1
        /\ TwoRings(d, u, f, w) /\ Len(u) < Capacity /\ k \in Nat /\ k <= Len(u)
    BY <1>1, <1>2
  <2> HIDE DEF g, d, w
  <2>2. /\ i \in Cells /\ \A j \in 1..Len(u) : u[j] # i
        /\ InsertAt(u, k + 1, i) \in Seq(2..v - 1)
        /\ \E r : TwoRings(LinkedIn(g, i, Cell(USED, u, k), Cell(USED, u, k + 1)), InsertAt(u, k + 1, i), r, v)
    BY ONLY <2>1, Puts
  <2> QED
    BY <2>2 DEF g
<1>5. t \in Seq(2..v - 1) /\ \E r : TwoRings(Rings', t, r, hwm')
  BY <1>3, <1>4
<1>6. u \in Seq(Cells) /\ (\A j \in 1..count : u[j] \in Cells)
  BY RingsTyped
<1>7. HasMore(u, k, i, t)
  BY <1>1, <1>4, <1>6, InsertProperties
<1> HIDE DEF t
<1>8. Len(t) = count + 1 /\ t[k + 1] = i /\ (\A j \in 1..k : t[j] = u[j]) /\ \A j \in k + 2..count + 1 : t[j] = u[j - 1]
  BY <1>7 DEF HasMore
<1>9. ptr' \in [Cells -> Payloads \cup {NoPtr}] /\ prio' \in [Cells -> Int]
  BY <1>3, <1>4 DEF Shape
<1>10. Shape'
  <2>1. count' \in 0..Capacity
    BY <1>1, <1>3
  <2>2. \E a, b : TwoRings(Rings', a, b, hwm') /\ Len(a) = count'
    BY <1>3, <1>5, <1>8
  <2> QED
    BY <1>9, <2>1, <2>2 DEF Shape
\* the new queue, entry by entry
<1> PICK r : TwoRings(Rings', t, r, hwm')
  BY <1>5
<1>11. Queue' = [j \in 1..count + 1 |-> <<ptr'[t[j]], prio'[t[j]]>>]
  BY <1>1, <1>8, ReadingNext DEF QueueRead
<1>12. Queue \in Seq(Entries) /\ Len(Queue) = count /\ \A j \in 1..count : Queue[j] = <<ptr[u[j]], prio[u[j]]>>
  BY QueueTyped
<1>13. e \in Entries
  BY DEF Entries
<1> HIDE DEF e
<1>14. ASSUME NEW j \in 1..count, NEW l \in 1..count + 1, t[l] = u[j] PROVE Queue'[l] = Queue[j]
  <2>1. u[j] # i /\ u[j] \in Cells
    BY <1>4, <1>6
  <2> QED
    BY <2>1, <1>3, <1>4, <1>11, <1>12, <1>14 DEF Shape
<1>15. HasMore(Queue, k, e, Queue')
  <2>1. Len(Queue') = count + 1
    BY <1>1, <1>11
  <2>2. Queue'[k + 1] = e
    <3>1. k + 1 \in 1..count + 1
      BY <1>1
    <3> QED
      BY <3>1, <1>3, <1>4, <1>8, <1>11 DEF Shape, e
  <2>3. ASSUME NEW j \in 1..k PROVE Queue'[j] = Queue[j]
    <3>1. j \in 1..count /\ j \in 1..count + 1
      BY <1>1
    <3> QED
      BY <3>1, <1>8, <1>14
  <2>4. ASSUME NEW j \in k + 2..count + 1 PROVE Queue'[j] = Queue[j - 1]
    <3>1. j - 1 \in 1..count /\ j \in 1..count + 1
      BY <1>1
    <3> QED
      BY <3>1, <1>8, <1>14
  <2> QED
    BY <1>12, <2>1, <2>2, <2>3, <2>4 DEF HasMore
<1>16. Queue' \in Seq(Entries)
  <2>1. \A j \in 1..count + 1 : t[j] \in Cells
    <3> SUFFICES ASSUME NEW j \in 1..count + 1 PROVE t[j] \in Cells
      OBVIOUS
    <3>1. j \in 1..k \/ j = k + 1 \/ j \in k + 2..count + 1
      BY <1>1
    <3>2. CASE j \in 1..k
      <4>1. j \in 1..count
        BY <3>2, <1>1
      <4> QED
        BY <3>2, <4>1, <1>6, <1>8
    <3>3. CASE j = k + 1
      BY <3>3, <1>4, <1>8
    <3>4. CASE j \in k + 2..count + 1
      <4>1. j - 1 \in 1..count
        BY <3>4, <1>1
      <4> QED
        BY <3>4, <4>1, <1>6, <1>8
    <3> QED
      BY <3>1, <3>2, <3>3, <3>4
  <2>2. \A j \in 1..count + 1 : <<ptr'[t[j]], prio'[t[j]]>> \in Entries
    BY <2>1, <1>9 DEF Entries
  <2> QED
    BY <1>1, <1>11, <2>2
<1>17. InsertAt(Queue, k + 1, e) \in Seq(Entries) /\ HasMore(Queue, k, e, InsertAt(Queue, k + 1, e))
  BY <1>12, <1>13, InsertProperties
<1>18. Queue' = InsertAt(Queue, k + 1, e)
  BY <1>12, <1>15, <1>16, <1>17, SameMore
<1> QED
  BY <1>3, <1>10, <1>18 DEF e

\* where a walk over what is passed ends
LEMMA FirstNotPassed ==
  ASSUME NEW n \in Nat, NEW passed \in [1..n -> BOOLEAN]
  PROVE  \E k \in 0..n : (k < n => ~passed[k + 1]) /\ \A j \in 1..k : passed[j]
<1> DEFINE T == {k \in 0..n : k < n => ~passed[k + 1]}
<1>1. T \in SUBSET Nat /\ n \in T
  OBVIOUS
<1> HIDE DEF T
<1>2. PICK k \in T : \A j \in T : k <= j
  BY <1>1, LeastNumber
<1>3. k \in 0..n /\ (k < n => ~passed[k + 1])
  BY <1>2 DEF T
<1>4. ASSUME NEW j \in 1..k PROVE passed[j]
  <2>1. j - 1 \in 0..n /\ j - 1 < n /\ (j - 1) + 1 = j /\ ~(k <= j - 1) /\ j \in 1..n
    BY <1>3
  <2>2. j - 1 \notin T
    BY <2>1, <1>2
  <2> QED
    BY <2>1, <2>2 DEF T
<1> QED
  BY <1>3, <1>4

LEMMA PlaceIs ==
  ASSUME NEW n \in Nat, NEW passed \in [1..n -> BOOLEAN], NEW k \in 0..n, k < n => ~passed[k + 1],
         \A j \in 1..k : passed[j],
         NEW m \in 1..n + 1, m > n \/ ~passed[m], \A j \in 1..m - 1 : passed[j]
  PROVE  m = k + 1
<1>1. ~(m < k + 1)
  <2> SUFFICES ASSUME m < k + 1 PROVE FALSE
    OBVIOUS
  <2>1. m \in 1..k /\ ~(m > n)
    OBVIOUS
  <2> QED
    BY <2>1
<1>2. ~(m > k + 1)
  <2> SUFFICES ASSUME m > k + 1 PROVE FALSE
    OBVIOUS
  <2>1. k + 1 \in 1..m - 1 /\ k < n
    OBVIOUS
  <2> QED
    BY <2>1
<1> QED
  BY <1>1, <1>2

\* elst_insert() and the queue find the same place
LEMMA InsertPlace ==
  ASSUME Shape, NEW u, NEW f, TwoRings(Rings, u, f, hwm), Len(u) = count, NEW pr \in Int, NEW x, ElstInsert(x, pr)
  PROVE  \E k \in Nat : /\ k <= count /\ Behaves!Behind(Queue, pr) = k + 1
                        /\ PutBetween(x, pr, Cell(USED, u, k), Cell(USED, u, k + 1)) /\ Signal
<1> DEFINE cells == Ring(USED) \o <<USED>>
           passed == [j \in 1..count |-> prio[u[j]] >= pr]
           Here(m) == /\ cells[m] = USED \/ ~PassesOver(cells[m], pr)
                      /\ \A j \in 1..m - 1 : PassesOver(cells[j], pr)
           There(m) == /\ m > Len(Queue) \/ Queue[m][2] < pr
                       /\ \A j \in 1..m - 1 : Queue[j][2] >= pr
           place == CHOOSE m \in DOMAIN cells : Here(m)
<1>1. count \in Nat /\ count <= Capacity
  BY ElstAssumption DEF Shape
<1>2. u \in Seq(Cells) /\ USED \in Cells /\ \A j \in 1..count : u[j] \in Cells /\ u[j] # USED
  BY RingsTyped
<1>3. Ring(USED) = u
  BY <1>1, Reading DEF QueueRead
<1>4. Len(Queue) = count /\ \A j \in 1..count : Queue[j][2] = prio[u[j]] /\ prio[u[j]] \in Int
  BY <1>2, QueueTyped DEF Shape
<1>5. /\ DOMAIN cells = 1..count + 1 /\ cells[count + 1] = USED /\ \A j \in 1..count : cells[j] = u[j]
  BY <1>1, <1>2, <1>3
<1>6. passed \in [1..count -> BOOLEAN] /\ \A j \in 1..count : passed[j] <=> prio[u[j]] >= pr
  <2>1. \A j \in 1..count : (prio[u[j]] >= pr) \in BOOLEAN
    BY <1>4
  <2> QED
    BY <2>1
<1> HIDE DEF cells, passed
<1>7. PICK k \in 0..count : (k < count => ~passed[k + 1]) /\ \A j \in 1..k : passed[j]
  BY <1>1, <1>6, FirstNotPassed
<1>8. k \in Nat /\ k <= count /\ k + 1 \in 1..count + 1 /\ (k + 1) - 1 = k /\ 1..k \subseteq 1..count
  BY <1>1, <1>7
<1>9. ASSUME NEW m \in 1..count + 1
      PROVE  /\ Here(m) <=> (m > count \/ ~passed[m]) /\ \A j \in 1..m - 1 : passed[j]
             /\ There(m) <=> (m > count \/ ~passed[m]) /\ \A j \in 1..m - 1 : passed[j]
  <2>1. \A j \in 1..m - 1 : j \in 1..count
    BY <1>1
  <2>2. \A j \in 1..count : /\ PassesOver(cells[j], pr) <=> passed[j]
                            /\ Queue[j][2] >= pr <=> passed[j]
                            /\ Queue[j][2] < pr <=> ~passed[j]
                            /\ cells[j] # USED
    BY <1>2, <1>4, <1>5, <1>6 DEF PassesOver
  <2>3. m \in 1..count \/ (m = count + 1 /\ m > count)
    BY <1>1
  <2>4. (m > count \/ Queue[m][2] < pr) <=> (m > count \/ ~passed[m])
    BY <2>2, <2>3
  <2>5. (cells[m] = USED \/ ~PassesOver(cells[m], pr)) <=> (m > count \/ ~passed[m])
    BY <2>2, <2>3, <1>1, <1>5
  <2> QED
    BY <2>1, <2>2, <2>4, <2>5, <1>4
<1>10. Here(k + 1) /\ There(k + 1)
  <2>1. k + 1 > count \/ ~passed[k + 1]
    BY <1>1, <1>7
  <2> QED
    BY <2>1, <1>7, <1>8, <1>9
<1>11. \A m \in 1..count + 1 : (Here(m) => m = k + 1) /\ (There(m) => m = k + 1)
  <2> SUFFICES ASSUME NEW m \in 1..count + 1, Here(m) \/ There(m) PROVE m = k + 1
    OBVIOUS
  <2>1. (m > count \/ ~passed[m]) /\ \A j \in 1..m - 1 : passed[j]
    BY <1>9
  <2> HIDE DEF Here, There
  <2> QED
    BY <2>1, <1>1, <1>6, <1>7, PlaceIs
<1>12. place = k + 1
  <2> HIDE DEF Here
  <2> QED
    BY <1>5, <1>8, <1>10, <1>11
<1>13. Behaves!Behind(Queue, pr) = k + 1
  <2>1. Behaves!Behind(Queue, pr) = CHOOSE m \in 1..count + 1 : There(m)
    BY <1>4 DEF Behaves!Behind
  <2> HIDE DEF There
  <2> QED
    BY <2>1, <1>8, <1>10, <1>11
<1>14. cells[k + 1] = Cell(USED, u, k + 1)
  BY <1>1, <1>5, <1>8 DEF Cell
<1>15. prv[Cell(USED, u, k + 1)] = Cell(USED, u, k)
  <2>1. IsRing(Rings, USED, u) /\ k \in 0..Len(u)
    BY <1>8 DEF TwoRings
  <2> QED
    BY <2>1 DEF IsRing, Rings
<1>16. PutBetween(x, pr, prv[cells[place]], cells[place]) /\ Signal
  BY DEF ElstInsert, cells
<1> QED
  BY <1>8, <1>12, <1>13, <1>14, <1>15, <1>16

\* what the queue may be when something was put into it
WithOneMore == Behaves!Appended(Queue) \cup Behaves!Prepended(Queue) \cup Behaves!Inserted(Queue)

LEMMA SameInsertion == \A q, i, e : Behaves!InsertAt(q, i, e) = InsertAt(q, i, e)
BY DEF InsertAt, Behaves!InsertAt

\* elst_append(), elst_prepend(), elst_insert(): one more where they put it, or nothing
\* when the list is full
LEMMA PutsPromised ==
  ASSUME Shape, NEW x \in Payloads, NEW pr \in Int, NEW k \in Nat, NEW u, NEW f,
         TwoRings(Rings, u, f, hwm), Len(u) = count, k <= count,
         PutBetween(x, pr, Cell(USED, u, k), Cell(USED, u, k + 1)),
         InsertAt(Queue, k + 1, <<x, pr>>) \in WithOneMore
  PROVE  /\ Shape' /\ [Behaves!QueueNext]_Queue
         /\ count' = count + 1 \/ (count >= Capacity /\ count' = count)
<1>1. count \in Nat /\ count <= Capacity /\ Capacity \in Nat
  BY ElstAssumption DEF Shape
<1>2. CASE count >= Capacity
  <2>1. UNCHANGED <<nxt, prv, ptr, prio, count, hwm>>
    BY <1>2 DEF PutBetween
  <2>2. Rings' = Rings
    BY <2>1 DEF Rings
  <2>3. Shape'
    BY <2>1, <2>2 DEF Shape
  <2>4. Queue' = Queue
    <3>1. Len(u) <= Capacity /\ TwoRings(Rings', u, f, hwm')
      BY <1>1, <2>1, <2>2
    <3>2. Queue = [j \in 1..Len(u) |-> <<ptr[u[j]], prio[u[j]]>>]
      BY <3>1, Reading DEF QueueRead
    <3>3. Queue' = [j \in 1..Len(u) |-> <<ptr'[u[j]], prio'[u[j]]>>]
      BY <3>1, ReadingNext DEF QueueRead
    <3> QED
      BY <2>1, <3>2, <3>3
  <2> QED
    BY <1>2, <2>1, <2>3, <2>4
<1>3. CASE count < Capacity
  <2>1. Shape' /\ count' = count + 1 /\ Queue' = InsertAt(Queue, k + 1, <<x, pr>>)
    BY <1>3, PutStep
  <2>2. Len(Queue') <= Capacity
    <3>1. PICK t, g : TwoRings(Rings', t, g, hwm') /\ Len(t) = count'
      BY <2>1 DEF Shape
    <3>2. count + 1 <= Capacity /\ Len(t) = count + 1 /\ count + 1 \in Nat
      BY <1>1, <1>3, <2>1, <3>1
    <3>3. Queue' = [j \in 1..Len(t) |-> <<ptr'[t[j]], prio'[t[j]]>>]
      BY <3>1, <3>2, ReadingNext DEF QueueRead
    <3>4. Queue' = [j \in 1..count + 1 |-> <<ptr'[t[j]], prio'[t[j]]>>]
      BY <3>2, <3>3
    <3>5. Len(Queue') = count + 1
      BY <3>2, <3>4
    <3> QED
      BY <3>2, <3>5
  <2>3. Queue' \in Behaves!After(Queue)
    <3>1. Queue' \in WithOneMore
      BY <2>1
    <3>2. {r \in WithOneMore : Len(r) <= Capacity} \subseteq Behaves!After(Queue)
      BY DEF Behaves!After, WithOneMore
    <3> QED
      BY <2>2, <3>1, <3>2
  <2> QED
    BY <2>1, <2>3 DEF Behaves!QueueNext
<1> QED
  BY <1>1, <1>2, <1>3

LEMMA AppendStep ==
  ASSUME Shape, NEW x \in Payloads, ElstAppend(x)
  PROVE  /\ Shape' /\ [Behaves!QueueNext]_Queue /\ Signal
         /\ count' = count + 1 \/ (count >= Capacity /\ count' = count)
<1> PICK u, f : TwoRings(Rings, u, f, hwm) /\ Len(u) = count
  BY DEF Shape
<1>1. count \in Nat
  BY DEF Shape
<1>2. prv[USED] = Cell(USED, u, count) /\ USED = Cell(USED, u, count + 1)
  <2>1. IsRing(Rings, USED, u) /\ count \in 0..Len(u)
    BY <1>1 DEF TwoRings
  <2>2. Rings.p[Cell(USED, u, count + 1)] = Cell(USED, u, count)
    BY <2>1 DEF IsRing
  <2>3. USED = Cell(USED, u, count + 1)
    BY <1>1 DEF Cell
  <2> QED
    BY <2>2, <2>3 DEF Rings
<1>3. PutBetween(x, 0, Cell(USED, u, count), Cell(USED, u, count + 1)) /\ Signal
  BY <1>2 DEF ElstAppend
<1>4. Queue \in Seq(Entries) /\ Len(Queue) = count
  BY QueueTyped
<1>5. InsertAt(Queue, count + 1, <<x, 0>>) = Append(Queue, <<x, 0>>)
  <2>1. <<x, 0>> \in Entries
    BY DEF Entries
  <2> DEFINE e == <<x, 0>>
  <2> HIDE DEF e
  <2>2. e \in Entries
    BY <2>1 DEF e
  <2>3. Append(Queue, e) \in Seq(Entries) /\ HasMore(Queue, count, e, Append(Queue, e))
    BY <1>4, <2>2, AppendIsMore
  <2>4. InsertAt(Queue, count + 1, e) \in Seq(Entries) /\ HasMore(Queue, count, e, InsertAt(Queue, count + 1, e))
    BY <1>1, <1>4, <2>2, InsertProperties
  <2>5. InsertAt(Queue, count + 1, e) = Append(Queue, e)
    <3> DEFINE q == Queue
               t == Append(q, e)
               r == InsertAt(q, count + 1, e)
    <3>1. /\ q \in Seq(Entries) /\ Len(q) = count /\ count \in Nat /\ count <= Len(q)
          /\ t \in Seq(Entries) /\ r \in Seq(Entries) /\ HasMore(q, count, e, t) /\ HasMore(q, count, e, r)
      BY <1>1, <1>4, <2>3, <2>4
    <3> HIDE DEF q, t, r
    <3>2. r = t
      BY ONLY <3>1, SameMore
    <3> QED
      BY <3>2 DEF q, t, r
  <2> QED
    BY <2>5 DEF e
<1>6. InsertAt(Queue, count + 1, <<x, 0>>) \in WithOneMore
  <2>1. Append(Queue, <<x, 0>>) \in Behaves!Appended(Queue)
    BY Zenon DEF Behaves!Appended
  <2> QED
    BY <2>1, <1>5 DEF WithOneMore
<1> QED
  BY <1>1, <1>3, <1>6, PutsPromised

LEMMA PrependStep ==
  ASSUME Shape, NEW x \in Payloads, ElstPrepend(x)
  PROVE  /\ Shape' /\ [Behaves!QueueNext]_Queue /\ Signal
         /\ count' = count + 1 \/ (count >= Capacity /\ count' = count)
<1> PICK u, f : TwoRings(Rings, u, f, hwm) /\ Len(u) = count
  BY DEF Shape
<1>1. count \in Nat
  BY DEF Shape
<1>2. USED = Cell(USED, u, 0) /\ nxt[USED] = Cell(USED, u, 0 + 1)
  <2>1. IsRing(Rings, USED, u) /\ 0 \in 0..Len(u)
    BY <1>1 DEF TwoRings
  <2>2. Rings.n[Cell(USED, u, 0)] = Cell(USED, u, 0 + 1)
    BY <2>1 DEF IsRing
  <2>3. USED = Cell(USED, u, 0)
    BY DEF Cell
  <2> QED
    BY <2>2, <2>3 DEF Rings
<1>3. PutBetween(x, 0, Cell(USED, u, 0), Cell(USED, u, 0 + 1)) /\ Signal
  BY <1>2 DEF ElstPrepend
<1>4. Queue \in Seq(Entries) /\ Len(Queue) = count
  BY QueueTyped
<1>5. InsertAt(Queue, 0 + 1, <<x, 0>>) = <<<<x, 0>>>> \o Queue
  <2>1. <<x, 0>> \in Entries
    BY DEF Entries
  <2> DEFINE e == <<x, 0>>
             q == Queue
             r == <<e>> \o q
  <2> HIDE DEF e, q
  <2>2. e \in Entries /\ q \in Seq(Entries) /\ Len(q) = count
    BY <1>4, <2>1 DEF e, q
  <2>3. r \in Seq(Entries) /\ Len(r) = count + 1 /\ r[1] = e /\ \A j \in 2..count + 1 : r[j] = q[j - 1]
    BY <1>1, <2>2
  <2> HIDE DEF r
  <2>4. HasMore(q, 0, e, r)
    BY <2>2, <2>3 DEF HasMore
  <2>5. InsertAt(q, 0 + 1, e) \in Seq(Entries) /\ HasMore(q, 0, e, InsertAt(q, 0 + 1, e))
    BY <1>1, <2>2, InsertProperties
  <2>6. InsertAt(q, 0 + 1, e) = r
    BY <1>1, <2>2, <2>3, <2>4, <2>5, SameMore
  <2> QED
    BY <2>6 DEF e, q, r
<1>6. InsertAt(Queue, 0 + 1, <<x, 0>>) \in WithOneMore
  <2>1. <<<<x, 0>>>> \o Queue \in Behaves!Prepended(Queue)
    BY Zenon DEF Behaves!Prepended
  <2> QED
    BY <2>1, <1>5 DEF WithOneMore
<1> QED
  BY <1>1, <1>3, <1>6, PutsPromised

LEMMA InsertStep ==
  ASSUME Shape, NEW x \in Payloads, NEW pr \in Priorities, ElstInsert(x, pr)
  PROVE  /\ Shape' /\ [Behaves!QueueNext]_Queue /\ Signal
         /\ count' = count + 1 \/ (count >= Capacity /\ count' = count)
<1> PICK u, f : TwoRings(Rings, u, f, hwm) /\ Len(u) = count
  BY DEF Shape
<1>1. pr \in Int
  BY ElstAssumption
<1>2. PICK k \in Nat : /\ k <= count /\ Behaves!Behind(Queue, pr) = k + 1
                       /\ PutBetween(x, pr, Cell(USED, u, k), Cell(USED, u, k + 1)) /\ Signal
  BY <1>1, InsertPlace
<1>3. InsertAt(Queue, k + 1, <<x, pr>>) \in WithOneMore
  <2>1. InsertAt(Queue, k + 1, <<x, pr>>) = Behaves!InsertAt(Queue, Behaves!Behind(Queue, pr), <<x, pr>>)
    BY <1>2, SameInsertion
  <2>2. Behaves!InsertAt(Queue, Behaves!Behind(Queue, pr), <<x, pr>>) \in Behaves!Inserted(Queue)
    BY SMT DEF Behaves!Inserted
  <2> QED
    BY <2>1, <2>2 DEF WithOneMore
<1> QED
  BY <1>1, <1>2, <1>3, PutsPromised

LEMMA PopStep ==
  ASSUME Shape, nxt[USED] # USED, Pop
  PROVE  Shape' /\ [Behaves!QueueNext]_Queue /\ count' = count - 1
<1> PICK u, f : TwoRings(Rings, u, f, hwm) /\ Len(u) = count
  BY DEF Shape
<1>1. count \in Nat /\ count <= Capacity /\ Capacity \in Nat
  BY ElstAssumption DEF Shape
<1>2. /\ USED \in Cells /\ u \in Seq(Cells) /\ IsRing(Rings, USED, u) /\ \A j \in 1..Len(u) : u[j] # USED
  <2>1. IsRing(Rings, USED, u)
    BY DEF TwoRings
  <2> QED
    BY <2>1, RingsTyped
<1>3. u # <<>>
  <2>1. Rings.n[USED] # USED
    BY DEF Rings
  <2> QED
    BY ONLY <1>2, <2>1, EmptyRing
<1>4. TwoRings(FirstFreed(Rings), Tail(u), Append(f, u[1]), hwm)
  BY <1>3, Frees
<1>5. nxt' = Popped.n /\ prv' = Popped.p /\ count' = count - 1 /\ UNCHANGED <<ptr, prio, hwm>>
  BY DEF Pop
<1>6. Rings' = FirstFreed(Rings)
  <2>1. FirstFreed(Rings) = [n |-> FirstFreed(Rings).n, p |-> FirstFreed(Rings).p]
    BY DEF FirstFreed, LinkedIn
  <2>2. Rings' = [n |-> nxt', p |-> prv']
    BY DEF Rings
  <2> QED
    BY <1>5, <2>1, <2>2 DEF Popped
<1>7. /\ Tail(u) \in Seq(Cells) /\ Len(Tail(u)) = count - 1 /\ count > 0
      /\ \A j \in 1..Len(Tail(u)) : Tail(u)[j] = u[j + 1] /\ j + 1 \in 1..Len(u)
  BY <1>2, <1>3, TailOf
<1>8. Shape'
  <2>1. TwoRings(Rings', Tail(u), Append(f, u[1]), hwm') /\ Len(Tail(u)) = count'
    BY <1>4, <1>5, <1>6, <1>7
  <2>2. count' \in 0..Capacity
    BY <1>1, <1>5, <1>7
  <2> QED
    BY <2>1, <2>2, <1>5 DEF Shape
<1>9. Queue' = [j \in 1..count - 1 |-> <<ptr[u[j + 1]], prio[u[j + 1]]>>]
  <2>1. Len(Tail(u)) <= Capacity
    BY <1>1, <1>7
  <2>2. Queue' = [j \in 1..Len(Tail(u)) |-> <<ptr'[Tail(u)[j]], prio'[Tail(u)[j]]>>]
    BY <1>4, <1>5, <1>6, <2>1, ReadingNext DEF QueueRead
  <2>3. Queue' = [j \in 1..count - 1 |-> <<ptr[Tail(u)[j]], prio[Tail(u)[j]]>>]
    BY <1>5, <1>7, <2>2
  <2> QED
    BY <1>7, <2>3
<1>10. Queue \in Seq(Entries) /\ Len(Queue) = count /\ \A j \in 1..count : Queue[j] = <<ptr[u[j]], prio[u[j]]>>
  BY QueueTyped
<1>11. Queue # <<>>
  <2>1. Len(Queue) > 0
    BY <1>7, <1>10
  <2> QED
    BY <2>1
<1>12. Tail(Queue) = [j \in 1..count - 1 |-> Queue[j + 1]]
  <2>1. /\ Tail(Queue) \in Seq(Entries) /\ Len(Tail(Queue)) = count - 1
        /\ \A j \in 1..count - 1 : Tail(Queue)[j] = Queue[j + 1]
    BY <1>10, <1>11, TailOf
  <2> DEFINE t == Tail(Queue)
  <2> HIDE DEF t
  <2>2. t \in Seq(Entries) /\ Len(t) = count - 1 /\ \A j \in 1..count - 1 : t[j] = Queue[j + 1]
    BY <2>1 DEF t
  <2>3. t = [j \in 1..count - 1 |-> t[j]]
    BY <2>2
  <2>4. t = [j \in 1..count - 1 |-> Queue[j + 1]]
    BY <2>2, <2>3
  <2> QED
    BY <2>4 DEF t
<1>13. Queue' = Tail(Queue)
  <2>1. \A j \in 1..count - 1 : j + 1 \in 1..count
    BY <1>1
  <2> QED
    BY <1>9, <1>10, <1>12, <2>1
<1>14. Queue' \in Behaves!After(Queue)
  BY <1>11, <1>13 DEF Behaves!After, Behaves!Taken
<1> QED
  BY <1>5, <1>8, <1>14 DEF Behaves!QueueNext

FreedUnlessNone(d) == IF d.n[USED] = USED THEN d ELSE FirstFreed(d)

LEMMA OneLess ==
  ASSUME NEW d, NEW u, NEW f, NEW w, TwoRings(d, u, f, w)
  PROVE  \E a, b : TwoRings(FreedUnlessNone(d), a, b, w) /\ (a = <<>> \/ Len(a) = Len(u) - 1)
<1>1. /\ USED \in Cells /\ u \in Seq(Cells) /\ IsRing(d, USED, u) /\ \A j \in 1..Len(u) : u[j] # USED
  <2>1. IsRing(d, USED, u)
    BY DEF TwoRings
  <2> QED
    BY <2>1, RingsTyped
<1>2. CASE d.n[USED] = USED
  <2>1. u = <<>>
    BY ONLY <1>1, <1>2, EmptyRing
  <2> QED
    BY <1>2, <2>1 DEF FreedUnlessNone
<1>3. CASE d.n[USED] # USED
  <2>1. u # <<>>
    BY ONLY <1>1, <1>3, EmptyRing
  <2>2. TwoRings(FirstFreed(d), Tail(u), Append(f, u[1]), w)
    BY <2>1, Frees
  <2>3. Len(Tail(u)) = Len(u) - 1
    BY <1>1, <2>1, TailOf
  <2> QED
    BY <1>3, <2>2, <2>3 DEF FreedUnlessNone
<1> QED
  BY <1>2, <1>3

\* elst_clear() has emptied a list after as many steps as there are cells
LEMMA Clears ==
  ASSUME NEW u, NEW f, TwoRings(Rings, u, f, hwm), Len(u) <= Capacity
  PROVE  \E r : TwoRings(AllFreed, <<>>, r, hwm)
<1> DEFINE S == {d \in Pairs : \E a, b : TwoRings(d, a, b, hwm)}
           F == [d \in S |-> FreedUnlessNone(d)]
<1>1. Capacity \in Nat /\ Len(u) \in Nat
  BY ElstAssumption, RingsTyped
<1>2. Rings \in S
  BY DEF TwoRings
<1>3. F \in [S -> S]
  <2> SUFFICES ASSUME NEW d \in S PROVE FreedUnlessNone(d) \in S
    OBVIOUS
  <2>1. PICK a, b : TwoRings(d, a, b, hwm)
    OBVIOUS
  <2>2. PICK c, e : TwoRings(FreedUnlessNone(d), c, e, hwm)
    BY <2>1, OneLess
  <2> QED
    BY <2>2 DEF TwoRings
<1>4. PICK g \in [0..Capacity -> S] : Iterates(g, Rings, F, Capacity)
  <2> HIDE DEF S, F
  <2> QED
    BY <1>1, <1>2, <1>3, Iterated
<1>5. g = [k \in 0..Capacity |-> IF k = 0 THEN Rings
                                 ELSE IF g[k - 1].n[USED] = USED THEN g[k - 1] ELSE FirstFreed(g[k - 1])]
  <2>1. ASSUME NEW k \in 0..Capacity
        PROVE  g[k] = IF k = 0 THEN Rings
                      ELSE IF g[k - 1].n[USED] = USED THEN g[k - 1] ELSE FirstFreed(g[k - 1])
    <3>1. g[k] = IF k = 0 THEN Rings ELSE F[g[k - 1]]
      BY <1>4 DEF Iterates
    <3>2. CASE k = 0
      BY <3>1, <3>2
    <3>3. CASE k # 0
      <4>1. k - 1 \in 0..Capacity
        BY <1>1, <3>3
      <4>2. g[k - 1] \in S
        BY <4>1
      <4>3. F[g[k - 1]] = FreedUnlessNone(g[k - 1])
        BY <4>2
      <4> QED
        BY <3>1, <3>3, <4>3 DEF FreedUnlessNone
    <3> QED
      BY <3>2, <3>3
  <2> QED
    BY <2>1
<1> HIDE DEF S, F
<1>6. PICK C : /\ C = [k \in 0..Capacity |-> IF k = 0 THEN Rings
                         ELSE IF C[k - 1].n[USED] = USED THEN C[k - 1] ELSE FirstFreed(C[k - 1])]
               /\ AllFreed = C[Capacity]
  BY <1>5 DEF AllFreed
<1>7. C[0] = Rings /\ \A k \in 0..Capacity - 1 : C[k + 1] = FreedUnlessNone(C[k])
  <2>1. 0 \in 0..Capacity /\ \A k \in 0..Capacity - 1 : k + 1 \in 0..Capacity /\ k + 1 # 0 /\ (k + 1) - 1 = k
    BY <1>1
  <2> QED
    BY <1>6, <2>1 DEF FreedUnlessNone
<1> DEFINE T == {k \in 0..Capacity : \E a, b : TwoRings(C[k], a, b, hwm) /\ (a = <<>> \/ Len(a) = Len(u) - k)}
<1>8. 0 \in T
  BY <1>1, <1>7
<1>9. ASSUME NEW k \in 0..Capacity - 1, k \in T PROVE k + 1 \in T
  <2>1. PICK a, b : TwoRings(C[k], a, b, hwm) /\ (a = <<>> \/ Len(a) = Len(u) - k)
    BY <1>9
  <2>2. PICK c, e : TwoRings(C[k + 1], c, e, hwm) /\ (c = <<>> \/ Len(c) = Len(a) - 1)
    BY <1>7, <2>1, OneLess
  <2>3. c = <<>> \/ Len(c) = Len(u) - (k + 1)
    <3>1. CASE a = <<>>
      <4>1. Len(c) \in Nat /\ Len(a) = 0
        BY <2>2, <3>1, RingsTyped
      <4> QED
        BY <2>2, <4>1
    <3>2. CASE Len(a) = Len(u) - k
      BY <1>1, <2>2, <3>2
    <3> QED
      BY <2>1, <3>1, <3>2
  <2>4. k + 1 \in 0..Capacity
    BY <1>1
  <2> QED
    BY <2>2, <2>3, <2>4
<1> HIDE DEF T
<1>10. Capacity \in T
  <2>1. 0..Capacity \subseteq T
    BY <1>1, <1>8, <1>9, UpTo
  <2> QED
    BY <1>1, <2>1
<1>11. PICK a, r : TwoRings(C[Capacity], a, r, hwm) /\ (a = <<>> \/ Len(a) = Len(u) - Capacity)
  BY <1>10 DEF T
<1>12. a = <<>>
  <2>1. Len(a) \in Nat /\ a \in Seq(Cells)
    BY <1>11, RingsTyped
  <2> QED
    BY <1>1, <1>11, <2>1
<1> QED
  BY <1>6, <1>11, <1>12

LEMMA ClearStep ==
  ASSUME Shape, ElstClear
  PROVE  Shape' /\ [Behaves!QueueNext]_Queue /\ count' = 0
<1>1. PICK u, f : TwoRings(Rings, u, f, hwm) /\ Len(u) = count
  BY DEF Shape
<1>2. Capacity \in Nat /\ count <= Capacity
  BY ElstAssumption DEF Shape
<1>3. PICK r : TwoRings(AllFreed, <<>>, r, hwm)
  BY <1>1, <1>2, Clears
<1>4. nxt' = AllFreed.n /\ prv' = AllFreed.p /\ count' = 0 /\ UNCHANGED <<ptr, prio, hwm>>
  BY DEF ElstClear
<1>5. Rings' = AllFreed
  <2>1. AllFreed \in Pairs
    BY <1>3 DEF TwoRings
  <2>2. AllFreed = [n |-> AllFreed.n, p |-> AllFreed.p]
    BY <2>1 DEF Pairs
  <2>3. Rings' = [n |-> nxt', p |-> prv']
    BY DEF Rings
  <2> QED
    BY <1>4, <2>2, <2>3
<1>6. TwoRings(Rings', <<>>, r, hwm') /\ Len(<<>>) = 0
  BY <1>3, <1>4, <1>5
<1>7. Shape'
  BY <1>2, <1>4, <1>6 DEF Shape
<1>8. Queue' = <<>>
  <2>1. Queue' = [j \in 1..Len(<<>>) |-> <<ptr'[<<>>[j]], prio'[<<>>[j]]>>]
    BY <1>2, <1>6, ReadingNext DEF QueueRead
  <2> QED
    BY <2>1
<1>9. Queue' \in Behaves!After(Queue)
  BY <1>8 DEF Behaves!After
<1> QED
  BY <1>4, <1>7, <1>9 DEF Behaves!QueueNext

-----------------------------------------------------------------------------
(* Consumers. *)

Awake == {c \in Consumers : consumer[c] = "awake"}

LEMMA AwakeFinite ==
  IsFiniteSet(Awake) /\ Cardinality(Awake) \in Nat
<1>1. IsFiniteSet(Awake)
  BY ElstAssumption, FS_Subset DEF Awake
<1> QED
  BY <1>1, FS_CardinalityType

\* a put wakes one of those who wait
LEMMA SignalKeeps ==
  ASSUME Attended, Signal, count \in Nat, count' = count + 1 \/ count' = count
  PROVE  Attended'
<1>1. consumer \in [Consumers -> {"out", "waiting", "awake"}]
  BY DEF Attended
<1>2. CASE \E c \in Consumers : consumer[c] = "waiting"
  <2>1. PICK c \in Consumers : consumer[c] = "waiting" /\ consumer' = [consumer EXCEPT ![c] = "awake"]
    BY <1>2 DEF Signal, Wakes
  <2>2. Awake' = Awake \cup {c} /\ c \notin Awake
    BY <1>1, <2>1 DEF Awake
  <2>3. Cardinality(Awake') = Cardinality(Awake) + 1
    BY <2>2, AwakeFinite, FS_AddElement
  <2>4. Cardinality(Awake) >= count
    BY <2>1 DEF Attended, Awake
  <2>5. Cardinality(Awake') >= count'
    BY <2>3, <2>4, AwakeFinite
  <2>6. consumer' \in [Consumers -> {"out", "waiting", "awake"}]
    BY <1>1, <2>1
  <2> QED
    BY <2>5, <2>6 DEF Attended, Awake
<1>3. CASE ~\E c \in Consumers : consumer[c] = "waiting"
  BY <1>1, <1>3 DEF Signal, Attended
<1> QED
  BY <1>2, <1>3

LEMMA NothingThere ==
  ASSUME Shape
  PROVE  nxt[USED] = USED <=> count = 0
<1>1. PICK u, f : TwoRings(Rings, u, f, hwm) /\ Len(u) = count
  BY DEF Shape
<1>2. /\ USED \in Cells /\ u \in Seq(Cells) /\ IsRing(Rings, USED, u) /\ \A j \in 1..Len(u) : u[j] # USED
  <2>1. IsRing(Rings, USED, u)
    BY <1>1 DEF TwoRings
  <2> QED
    BY <1>1, <2>1, RingsTyped
<1>3. Rings.n[USED] = USED <=> u = <<>>
  BY ONLY <1>2, EmptyRing
<1>4. u = <<>> <=> Len(u) = 0
  BY <1>2
<1> QED
  BY <1>1, <1>3, <1>4 DEF Rings

-----------------------------------------------------------------------------
(* What the steps do. *)

LEMMA ListStart == ElstInit => ListInv /\ Behaves!QueueInit
<1> SUFFICES ASSUME ElstInit PROVE ListInv /\ Behaves!QueueInit
  OBVIOUS
<1>1. /\ nxt = [i \in Cells |-> i] /\ prv = [i \in Cells |-> i] /\ ptr = [i \in Cells |-> NoPtr]
      /\ prio = [i \in Cells |-> 0] /\ count = 0 /\ hwm = 2 /\ consumer = [c \in Consumers |-> "out"]
  BY DEF ElstInit
<1>2. Capacity \in Nat /\ USED \in Cells /\ FREE \in Cells
  BY ElstAssumption DEF Cells, USED, FREE
<1>3. TwoRings(Rings, <<>>, <<>>, hwm)
  <2>1. Rings \in Pairs /\ hwm \in 2..Capacity + 2 /\ hwm - 1 = 1
    BY <1>1, <1>2 DEF Rings, Pairs
  <2>2. \A h \in Cells : IsRing(Rings, h, <<>>)
    BY <1>1 DEF IsRing, Cell, Rings
  <2>3. \A c \in 2..Capacity + 1 : Rings.n[c] = c /\ Rings.p[c] = c
    BY <1>1, <1>2 DEF Rings, Cells
  <2> QED
    BY <2>1, <2>2, <2>3, <1>1, <1>2 DEF TwoRings, Distinct
<1>4. Shape
  BY <1>1, <1>2, <1>3 DEF Shape
<1>5. Attended
  BY <1>1 DEF Attended
<1>6. Queue = <<>>
  <2>1. Queue = [j \in 1..Len(<<>>) |-> <<ptr[<<>>[j]], prio[<<>>[j]]>>]
    BY <1>2, <1>3, Reading DEF QueueRead
  <2> QED
    BY <2>1
<1> QED
  BY <1>4, <1>5, <1>6 DEF ListInv, Behaves!QueueInit

LEMMA QueueStays ==
  ASSUME Shape, UNCHANGED <<nxt, prv, ptr, prio, count, hwm>>
  PROVE  Shape' /\ Queue' = Queue
<1>1. PICK u, f : TwoRings(Rings, u, f, hwm) /\ Len(u) = count
  BY DEF Shape
<1>2. Rings' = Rings
  BY DEF Rings
<1>3. Len(u) <= Capacity /\ TwoRings(Rings', u, f, hwm')
  BY <1>1, <1>2 DEF Shape
<1>4. Queue = [j \in 1..Len(u) |-> <<ptr[u[j]], prio[u[j]]>>]
  BY <1>1, <1>3, Reading DEF QueueRead
<1>5. Queue' = [j \in 1..Len(u) |-> <<ptr'[u[j]], prio'[u[j]]>>]
  BY <1>3, ReadingNext DEF QueueRead
<1> QED
  BY <1>2, <1>4, <1>5 DEF Shape

LEMMA ListSteps ==
  ASSUME ListInv, [ElstNext]_elstVars
  PROVE  ListInv' /\ [Behaves!QueueNext]_Queue
<1>1. Shape /\ Attended /\ count \in Nat /\ consumer \in [Consumers -> {"out", "waiting", "awake"}]
  BY ElstAssumption DEF ListInv, Shape, Attended
<1>2. ASSUME NEW x \in Payloads, ElstAppend(x) PROVE ListInv' /\ [Behaves!QueueNext]_Queue
  BY <1>1, <1>2, AppendStep, SignalKeeps DEF ListInv
<1>3. ASSUME NEW x \in Payloads, ElstPrepend(x) PROVE ListInv' /\ [Behaves!QueueNext]_Queue
  BY <1>1, <1>3, PrependStep, SignalKeeps DEF ListInv
<1>4. ASSUME NEW x \in Payloads, NEW pr \in Priorities, ElstInsert(x, pr)
      PROVE  ListInv' /\ [Behaves!QueueNext]_Queue
  BY <1>1, <1>4, InsertStep, SignalKeeps DEF ListInv
<1>5. ASSUME ElstPop PROVE ListInv' /\ [Behaves!QueueNext]_Queue
  <2>1. Shape' /\ [Behaves!QueueNext]_Queue /\ count' = count - 1 /\ UNCHANGED consumer
    BY <1>1, <1>5, PopStep DEF ElstPop
  <2>2. Awake' = Awake
    BY <2>1 DEF Awake
  <2>3. Attended'
    BY <1>1, <2>1, <2>2, AwakeFinite DEF Attended, Awake
  <2> QED
    BY <2>1, <2>3 DEF ListInv
<1>6. ASSUME ElstClear PROVE ListInv' /\ [Behaves!QueueNext]_Queue
  <2>1. Shape' /\ [Behaves!QueueNext]_Queue /\ count' = 0 /\ UNCHANGED consumer
    BY <1>1, <1>6, ClearStep DEF ElstClear
  <2>2. Awake' = Awake
    BY <2>1 DEF Awake
  <2>3. Attended'
    BY <1>1, <2>1, <2>2, AwakeFinite DEF Attended, Awake
  <2> QED
    BY <2>1, <2>3 DEF ListInv
<1>7. ASSUME NEW c \in Consumers, WaitPop(c) PROVE ListInv' /\ [Behaves!QueueNext]_Queue
  <2>1. CASE nxt[USED] = USED
    <3>1. consumer' = [consumer EXCEPT ![c] = "waiting"] /\ UNCHANGED <<nxt, prv, ptr, prio, count, hwm>>
      BY <1>7, <2>1 DEF WaitPop
    <3>2. Shape' /\ Queue' = Queue
      BY <1>1, <3>1, QueueStays
    <3>3. count' = 0
      BY <1>1, <2>1, <3>1, NothingThere
    <3>4. Cardinality(Awake') >= 0
      <4>1. Awake' \subseteq Consumers
        BY DEF Awake
      <4>2. Cardinality(Awake') \in Nat
        BY <4>1, ElstAssumption, FS_Subset, FS_CardinalityType
      <4> QED
        BY <4>2
    <3>5. Attended'
      BY <1>1, <3>1, <3>3, <3>4 DEF Attended, Awake
    <3> QED
      BY <3>2, <3>5 DEF ListInv
  <2>2. CASE nxt[USED] # USED
    <3>1. consumer' = [consumer EXCEPT ![c] = "out"] /\ Pop /\ consumer[c] # "waiting"
      BY <1>7, <2>2 DEF WaitPop
    <3>2. Shape' /\ [Behaves!QueueNext]_Queue /\ count' = count - 1
      BY <1>1, <2>2, <3>1, PopStep
    <3>3. Awake' = Awake \ {c}
      BY <1>1, <3>1 DEF Awake
    <3>4. Cardinality(Awake') >= Cardinality(Awake) - 1 /\ Cardinality(Awake') \in Nat
      <4>1. CASE c \in Awake
        <5>1. Cardinality(Awake \ {c}) = Cardinality(Awake) - 1 /\ IsFiniteSet(Awake \ {c})
          BY <4>1, AwakeFinite, FS_RemoveElement
        <5>2. Cardinality(Awake \ {c}) \in Nat
          BY <5>1, FS_CardinalityType
        <5> QED
          BY <3>3, <5>1, <5>2, AwakeFinite
      <4>2. CASE c \notin Awake
        <5>1. Awake' = Awake
          BY <3>3, <4>2
        <5> QED
          BY <5>1, AwakeFinite
      <4> QED
        BY <4>1, <4>2
    <3>5. ASSUME NEW d \in Consumers, consumer'[d] = "waiting" PROVE Cardinality(Awake') >= count'
      <4>1. consumer[d] = "waiting"
        BY <1>1, <3>1, <3>5
      <4>2. Cardinality(Awake) >= count
        BY <1>1, <4>1 DEF Attended, Awake
      <4> QED
        BY <1>1, <3>2, <3>4, <4>2, AwakeFinite
    <3>6. Attended'
      BY <1>1, <3>1, <3>5 DEF Attended, Awake
    <3> QED
      BY <3>2, <3>6 DEF ListInv
  <2> QED
    BY <2>1, <2>2
<1>8. ASSUME NEW c \in Consumers, TimedOut(c) PROVE ListInv' /\ [Behaves!QueueNext]_Queue
  <2>1. /\ consumer[c] = "waiting" /\ consumer' = [consumer EXCEPT ![c] = "out"]
        /\ UNCHANGED <<nxt, prv, ptr, prio, count, hwm>>
    BY <1>8 DEF TimedOut
  <2>2. Shape' /\ Queue' = Queue
    BY <1>1, <2>1, QueueStays
  <2>3. Awake' = Awake
    BY <1>1, <2>1 DEF Awake
  <2>4. ASSUME NEW d \in Consumers, consumer'[d] = "waiting" PROVE consumer[d] = "waiting"
    BY <1>1, <2>1, <2>4
  <2>5. Attended'
    BY <1>1, <2>1, <2>3, <2>4 DEF Attended, Awake
  <2> QED
    BY <2>2, <2>5 DEF ListInv
<1>9. ASSUME UNCHANGED elstVars PROVE ListInv' /\ [Behaves!QueueNext]_Queue
  <2>1. UNCHANGED <<nxt, prv, ptr, prio, count, hwm>> /\ UNCHANGED consumer
    BY <1>9 DEF elstVars
  <2>2. Shape' /\ Queue' = Queue
    BY <1>1, <2>1, QueueStays
  <2>3. Attended'
    BY <1>1, <2>1 DEF Attended
  <2> QED
    BY <2>2, <2>3 DEF ListInv
<1> QED
  BY <1>2, <1>3, <1>4, <1>5, <1>6, <1>7, <1>8, <1>9 DEF ElstNext

LEMMA ListInvInductive == ElstSpec => []ListInv
<1>1. ListInv /\ [ElstNext]_elstVars => ListInv'
  BY ListSteps
<1> QED
  BY <1>1, ListStart, PTL DEF ElstSpec

\* However many cells a list has and whatever is put into it: each operation does to
\* what is linked what the queue promises (elst_append(), elst_prepend(), elst_insert(),
\* elst_pop(), elst_wait_pop(), elst_clear()).
THEOREM ListIsQueue == ElstSpec => ImplementsQueue
<1>1. ListInv /\ [ElstNext]_elstVars => [Behaves!QueueNext]_Queue
  BY ListSteps
<1> QED
  BY <1>1, ListStart, ListInvInductive, PTL DEF ElstSpec, ImplementsQueue, Behaves!QueueSpec

LEMMA Agrees ==
  ASSUME NEW d, NEW h, NEW s \in Seq(Cells), IsRing(d, h, s)
  PROVE  \A i \in InRing(h, s) : d.n[d.p[i]] = i /\ d.p[d.n[i]] = i
<1> SUFFICES ASSUME NEW k \in 0..Len(s), NEW i, i = Cell(h, s, k) PROVE d.n[d.p[i]] = i /\ d.p[d.n[i]] = i
  BY DEF InRing
<1>1. \A j \in 0..Len(s) : d.n[Cell(h, s, j)] = Cell(h, s, j + 1) /\ d.p[Cell(h, s, j + 1)] = Cell(h, s, j)
  BY DEF IsRing
<1>2. d.p[d.n[i]] = i
  BY <1>1
<1>3. d.n[d.p[i]] = i
  <2>1. CASE k = 0
    <3>1. Len(s) \in 0..Len(s) /\ i = Cell(h, s, Len(s) + 1)
      BY <2>1 DEF Cell
    <3> QED
      BY <3>1, <1>1
  <2>2. CASE k # 0
    <3>1. k - 1 \in 0..Len(s) /\ (k - 1) + 1 = k
      BY <2>2
    <3>2. i = Cell(h, s, (k - 1) + 1)
      BY <3>1
    <3> QED
      BY <3>1, <3>2, <1>1
  <2> QED
    BY <2>1, <2>2
<1> QED
  BY <1>2, <1>3

LEMMA CellsAreSound == ListInv => CellsSound
<1> SUFFICES ASSUME ListInv PROVE CellsSound
  OBVIOUS
<1>1. PICK u, f : TwoRings(Rings, u, f, hwm) /\ Len(u) = count
  BY DEF ListInv, Shape
<1>2. /\ u \in Seq(Cells) /\ f \in Seq(Cells) /\ hwm \in Nat /\ hwm >= 2
      /\ \A i \in 1..Len(u) : u[i] \in 2..hwm - 1
      /\ \A j \in 1..Len(f) : f[j] \in 2..hwm - 1
  BY <1>1, RingsTyped
<1>3. /\ Distinct(u) /\ Distinct(f) /\ IsRing(Rings, USED, u) /\ IsRing(Rings, FREE, f)
      /\ \A i \in 1..Len(u), j \in 1..Len(f) : u[i] # f[j]
      /\ \A c \in 2..hwm - 1 : (\E i \in 1..Len(u) : u[i] = c) \/ \E j \in 1..Len(f) : f[j] = c
      /\ \A c \in hwm..Capacity + 1 : Rings.n[c] = c /\ Rings.p[c] = c
      /\ hwm \in 2..Capacity + 2
  BY <1>1 DEF TwoRings
<1> PICK m \in Nat, n \in Nat : m = Len(u) /\ n = Len(f)
  BY <1>2
<1>4. m <= Capacity /\ n <= Capacity
  <2>1. m + n = hwm - 2
    BY <1>1, Counted
  <2> QED
    BY <1>3, <2>1, ElstAssumption
<1>5. Ring(USED) = u /\ Ring(FREE) = f
  BY <1>1, <1>4, Reading DEF QueueRead
<1>6. ASSUME NEW i \in Cells PROVE nxt[prv[i]] = i /\ prv[nxt[i]] = i
  <2>1. CASE i \in hwm..Capacity + 1
    BY <1>3, <2>1 DEF Rings
  <2>2. CASE i \in InRing(USED, u)
    BY <1>2, <1>3, <2>2, Agrees DEF Rings
  <2>3. CASE i \in InRing(FREE, f)
    BY <1>2, <1>3, <2>3, Agrees DEF Rings
  <2>4. CASE i \in 2..hwm - 1
    <3>1. CASE \E j \in 1..m : u[j] = i
      <4>1. PICK j \in 1..m : u[j] = i
        BY <3>1
      <4>2. j \in 0..Len(u) /\ i = Cell(USED, u, j)
        BY <4>1 DEF Cell
      <4> QED
        BY <4>2, <2>2 DEF InRing
    <3>2. CASE \E j \in 1..n : f[j] = i
      <4>1. PICK j \in 1..n : f[j] = i
        BY <3>2
      <4>2. j \in 0..Len(f) /\ i = Cell(FREE, f, j)
        BY <4>1 DEF Cell
      <4> QED
        BY <4>2, <2>3 DEF InRing
    <3> QED
      BY <1>3, <2>4, <3>1, <3>2
  <2>5. CASE i = USED
    <3>1. 0 \in 0..Len(u) /\ i = Cell(USED, u, 0)
      BY <2>5 DEF Cell
    <3> QED
      BY <3>1, <2>2 DEF InRing
  <2>6. CASE i = FREE
    <3>1. 0 \in 0..Len(f) /\ i = Cell(FREE, f, 0)
      BY <2>6 DEF Cell
    <3> QED
      BY <3>1, <2>3 DEF InRing
  <2>7. i = USED \/ i = FREE \/ i \in 2..hwm - 1 \/ i \in hwm..Capacity + 1
    BY <1>3, ElstAssumption DEF Cells, USED, FREE
  <2> QED
    BY <2>1, <2>4, <2>5, <2>6, <2>7
\* both rings in one sequence
<1> DEFINE g == u \o f
<1>7. /\ g \in Seq(Cells) /\ Len(g) = m + n /\ DOMAIN g = 1..m + n
      /\ \A k \in 1..m : g[k] = u[k]
      /\ \A k \in 1..m + n : ~(k <= m) => g[k] = f[k - m] /\ k - m \in 1..n
  BY <1>2
<1> HIDE DEF g
<1>8. ASSUME NEW k \in 1..m + n, NEW l \in 1..m + n, g[k] = g[l] PROVE k = l
  <2>1. CASE k <= m /\ l <= m
    <3>1. k \in 1..m /\ l \in 1..m
      BY <2>1
    <3> QED
      BY <3>1, <1>3, <1>7, <1>8 DEF Distinct
  <2>2. CASE k <= m /\ ~(l <= m)
    <3>1. k \in 1..m /\ l - m \in 1..n /\ g[l] = f[l - m] /\ g[k] = u[k]
      BY <2>2, <1>7
    <3>2. u[k] # f[l - m]
      BY <3>1, <1>3
    <3> QED
      BY <3>1, <3>2, <1>8
  <2>3. CASE ~(k <= m) /\ l <= m
    <3>1. l \in 1..m /\ k - m \in 1..n /\ g[k] = f[k - m] /\ g[l] = u[l]
      BY <2>3, <1>7
    <3>2. u[l] # f[k - m]
      BY <3>1, <1>3
    <3> QED
      BY <3>1, <3>2, <1>8
  <2>4. CASE ~(k <= m) /\ ~(l <= m)
    <3>1. k - m \in 1..n /\ l - m \in 1..n /\ f[k - m] = f[l - m]
      BY <2>4, <1>7, <1>8
    <3>2. k - m = l - m
      BY <3>1, <1>3 DEF Distinct
    <3> QED
      BY <3>2
  <2> QED
    BY <2>1, <2>2, <2>3, <2>4
<1>9. IsInjective(g)
  BY <1>7, <1>8 DEF IsInjective
<1>10. ToSet(g) = 2..hwm - 1
  <2>1. ASSUME NEW k \in 1..m + n PROVE g[k] \in 2..hwm - 1
    <3>1. CASE k <= m
      <4>1. k \in 1..m
        BY <3>1
      <4> QED
        BY <4>1, <1>2, <1>7
    <3>2. CASE ~(k <= m)
      BY <3>2, <1>2, <1>7
    <3> QED
      BY <3>1, <3>2
  <2>2. ASSUME NEW c \in 2..hwm - 1 PROVE \E k \in 1..m + n : g[k] = c
    <3>1. CASE \E j \in 1..m : u[j] = c
      <4>1. PICK j \in 1..m : u[j] = c
        BY <3>1
      <4>2. j \in 1..m + n /\ g[j] = c
        BY <4>1, <1>7
      <4> QED
        BY <4>2
    <3>2. CASE \E j \in 1..n : f[j] = c
      <4>1. PICK j \in 1..n : f[j] = c
        BY <3>2
      <4>2. j + m \in 1..m + n /\ ~(j + m <= m) /\ (j + m) - m = j
        OBVIOUS
      <4>3. g[j + m] = c
        BY <4>1, <4>2, <1>7
      <4> QED
        BY <4>2, <4>3
    <3> QED
      BY <1>3, <3>1, <3>2
  <2> QED
    <3>1. ToSet(g) = {g[k] : k \in 1..m + n}
      BY <1>7, Zenon DEF ToSet
    <3>2. \A c : c \in {g[k] : k \in 1..m + n} <=> c \in 2..hwm - 1
      BY <2>1, <2>2
    <3> QED
      BY <3>1, <3>2, Zenon
<1>11. \A c \in Consumers : consumer[c] = "waiting" =>
         Cardinality({d \in Consumers : consumer[d] = "awake"}) >= count
  BY DEF ListInv, Attended
<1> QED
  BY <1>1, <1>3, <1>5, <1>6, <1>9, <1>10, <1>11 DEF CellsSound, g

\* No cell of a list is lost or handed out twice, and none who waits is forgotten,
\* however many cells, threads and operations there are (elst.c).
THEOREM CellsAlwaysSound == ElstSpec => []CellsSound
BY ListInvInductive, CellsAreSound, PTL
-----------------------------------------------------------------------------
(* Images with a header.                                                   *)

Given == UNION {{s[k] : k \in DOMAIN s} : s \in Sources}
Contents == Given \cup Int \cup Seq(Int)
Flags == {"chs", "lba", "append", "formatted"} \cup Settable
Images4 == [kind : {"e4i"}, id : {0, 1}, data : Seq(Contents), blocks : Nat, flags : SUBSET Flags]
Files == {None} \cup [kind : {"raw"}, data : Seq(Contents)] \cup Images4

\* every block of an image of a fixed size that is filled is there
Whole(e) == e.kind = "e4i" /\ "formatted" \in e.flags /\ "append" \notin e.flags => Len(e.data) = e.blocks * Units(e)

\* What the drive's disk holds is in the image of the configuration, unless that is one with
\* a header whose export is there; while it is exported, the part that is there is its own.
DriveInv ==
  /\ e4file \in [Names -> Files] /\ conf \in Names /\ image \in Names
  /\ e4pc \in {"off", "export", "save", "up"} /\ driveReady \in BOOLEAN
  /\ \A n \in Names : Whole(e4file[n])
  /\ e4file[conf].kind = "raw" => e4file[conf].data = truth
  /\ e4file[conf].kind = "e4i" /\ e4file[RawName[conf]].kind = "none" => e4file[conf].data = truth
  /\ e4pc \in {"export", "save"} =>
       /\ image = conf \/ (e4pc = "save" /\ image = RawName[conf])
       /\ e4file[conf].kind = "e4i" /\ e4file[conf].data = truth /\ e4file[RawName[conf]].kind = "raw"
  /\ e4pc = "export" =>
       /\ Len(e4file[RawName[conf]].data) <= Len(truth)
       /\ \A k \in 1..Len(e4file[RawName[conf]].data) : e4file[RawName[conf]].data[k] = truth[k]
  /\ e4pc = "save" => image = RawName[conf] /\ e4file[RawName[conf]].data = truth
  /\ e4pc = "up" /\ image # conf => e4file[conf].kind = "e4i" /\ e4file[RawName[conf]].kind # "none"
  /\ driveReady => e4pc = "up" /\ e4file[image].kind = "raw" /\ e4file[image].data = truth

LEMMA SourcesAreContents ==
  ASSUME NEW s \in Sources
  PROVE  s \in Seq(Contents)
<1> DEFINE S == {s[k] : k \in DOMAIN s}
<1>1. s \in Seq(S)
  BY E4ImageAssumption
<1>2. S \subseteq Contents
  BY DEF Contents, Given
<1> HIDE DEF S
<1> QED
  BY <1>1, <1>2

\* a new image is one, and filled it is one with all its blocks
LEMMA FilledWhole ==
  ASSUME NEW mode \in Modes, NEW id \in {0, 1}, NEW append \in BOOLEAN, NEW flags \in SUBSET Settable
  PROVE  LET e == Created(mode, id, append) IN
         /\ e \in Images4 /\ Whole(e)
         /\ [Initialised(e) EXCEPT !.flags = @ \cup flags] \in Images4
         /\ Whole([Initialised(e) EXCEPT !.flags = @ \cup flags])
         /\ \A src \in Seq(Contents) : ImportFits(e, src) =>
              /\ [E4Imported(e, src) EXCEPT !.flags = @ \cup flags] \in Images4
              /\ Whole([E4Imported(e, src) EXCEPT !.flags = @ \cup flags])
<1> DEFINE e == Created(mode, id, append)
<1>1. Total \in Nat
  BY E4ImageAssumption DEF Total
<1>2. /\ e \in Images4 /\ e.id = id /\ e.data = <<>> /\ "formatted" \notin e.flags
  <2>1. CASE mode = "lba"
    BY <1>1, <2>1 DEF Created, Images4, Flags
  <2>2. CASE mode = "chs"
    BY <1>1, <2>2 DEF Created, Images4, Flags
  <2>3. CASE mode = "seq"
    BY <1>1, <2>3 DEF Created, Images4, Flags
  <2> QED
    BY <2>1, <2>2, <2>3 DEF Modes
<1>3. Units(e) \in {1, 2} /\ e.blocks * Units(e) \in Nat
  BY <1>2 DEF Units, Images4
<1> DEFINE u == Units(e)  size == e.blocks * u
<1>4. Whole(e)
  BY <1>2 DEF Whole
<1>5. flags \subseteq Flags /\ "append" \notin flags
  BY DEF Flags, Settable
<1> HIDE DEF e, u, size
<1>6. \A k \in Nat : Identifier(e, k) \in Contents
  <2> SUFFICES ASSUME NEW k \in Nat PROVE Identifier(e, k) \in Seq(Int)
    BY DEF Contents
  <2> DEFINE track == E4_HEADS * E4_SPT
  <2>1. track \in Nat \ {0}
    BY E4ImageAssumption
  <2> HIDE DEF track
  <2>2. k \div track \in Int /\ k % track \in Int
    BY <2>1
  <2>3. (k % track) \div E4_SPT \in Int
    BY <2>2, E4ImageAssumption
  <2> QED
    BY <2>2, <2>3 DEF Identifier, track
<1>7. ASSUME NEW data \in Seq(Contents), "append" \in e.flags \/ Len(data) = size,
             NEW more \in SUBSET {"formatted", "master", "ro", "removable"}
      PROVE  LET f == [[e EXCEPT !.data = data, !.flags = @ \cup more] EXCEPT !.flags = @ \cup flags]
             IN f \in Images4 /\ Whole(f)
  <2> DEFINE f == [[e EXCEPT !.data = data, !.flags = @ \cup more] EXCEPT !.flags = @ \cup flags]
  <2>1. /\ f.kind = "e4i" /\ f.id = e.id /\ f.data = data /\ f.blocks = e.blocks
        /\ f.flags = e.flags \cup more \cup flags
    BY <1>2 DEF Images4
  <2>2. f \in Images4
    BY <1>2, <1>5, <1>7 DEF Images4, Flags, Settable
  <2> HIDE DEF f
  <2>3. Units(f) = u
    BY <2>1 DEF Units, u
  <2>4. Whole(f)
    BY <2>1, <2>3, <1>5, <1>7 DEF Whole, size
  <2> QED
    BY <2>2, <2>4 DEF f
<1>8. ASSUME NEW src \in Seq(Contents), ImportFits(e, src)
      PROVE  /\ [E4Imported(e, src) EXCEPT !.flags = @ \cup flags] \in Images4
             /\ Whole([E4Imported(e, src) EXCEPT !.flags = @ \cup flags])
  <2> DEFINE n == (Len(src) \div u) * u  data == SubSeq(src, 1, n)
  <2>1. n \in 0..Len(src) /\ (Len(src) = size => n = Len(src))
    <3>1. e.blocks \in Nat
      BY <1>2 DEF Images4
    <3>2. u \in {1, 2}
      BY <1>3 DEF u
    <3>3. Len(src) \in Nat
      OBVIOUS
    <3>4. CASE u = 1
      BY <3>1, <3>3, <3>4 DEF size
    <3>5. CASE u = 2
      BY <3>1, <3>3, <3>5 DEF size
    <3> QED
      BY <3>2, <3>4, <3>5
  <2> HIDE DEF n
  <2>2. data \in Seq(Contents) /\ Len(data) = n
    BY <2>1
  <2>3. "append" \in e.flags \/ Len(data) = size
    BY <1>8, <2>1, <2>2 DEF ImportFits, size, u
  <2>4. E4Imported(e, src) = [e EXCEPT !.data = data, !.flags = @ \cup {"formatted", "master"}]
    BY DEF E4Imported, n, u
  <2> HIDE DEF data
  <2> QED
    BY <2>2, <2>3, <2>4, <1>7
<1>9. /\ [Initialised(e) EXCEPT !.flags = @ \cup flags] \in Images4
      /\ Whole([Initialised(e) EXCEPT !.flags = @ \cup flags])
  <2> DEFINE all == [k \in 1..size |-> IF e.id > 0 /\ k % 2 = 1 THEN Identifier(e, (k - 1) \div 2) ELSE 0]
             data == IF "append" \in e.flags THEN <<>> ELSE all
  <2>1. size \in Nat
    BY <1>3 DEF size, u
  <2>2. all \in [1..size -> Contents]
    <3>1. 0 \in Contents
      <4>1. 0 \in Int
        OBVIOUS
      <4> QED
        BY <4>1 DEF Contents
    <3>2. \A k \in 1..size : (k - 1) \div 2 \in Nat
      BY <2>1
    <3> QED
      BY <3>1, <3>2, <1>6
  <2> HIDE DEF all
  <2>3. all \in Seq(Contents) /\ Len(all) = size
    BY <2>1, <2>2
  <2>4. data \in Seq(Contents) /\ ("append" \in e.flags \/ Len(data) = size)
    BY <2>3
  <2>5. Initialised(e) = [e EXCEPT !.data = data, !.flags = @ \cup {"formatted"}]
    BY <1>2 DEF Initialised, Images4, all, size, u
  <2> HIDE DEF data
  <2> QED
    BY <2>4, <2>5, <1>7
<1> QED
  BY <1>2, <1>4, <1>8, <1>9 DEF e

\* a file that is read keeps what it is
LEMMA FileKinds ==
  ASSUME NEW e \in Files
  PROVE  /\ e.kind \in {"none", "raw", "e4i"} /\ e.data \in Seq(Contents)
         /\ (e.kind = "none" => e.data = <<>>) /\ (e.kind = "raw" => e = Raw(e.data))
         /\ (e.kind = "e4i" => e \in Images4)
         /\ (e.kind # "e4i" => Whole(e))
<1>1. <<>> \in Seq(Contents)
  OBVIOUS
<1>2. CASE e = None
  BY <1>1, <1>2 DEF None, Whole
<1>3. CASE e \in [kind : {"raw"}, data : Seq(Contents)]
  BY <1>3 DEF Raw, Whole
<1>4. CASE e \in Images4
  BY <1>4 DEF Images4
<1> QED
  BY <1>2, <1>3, <1>4 DEF Files

LEMMA RawFile ==
  ASSUME NEW d \in Seq(Contents)
  PROVE  Raw(d) \in Files /\ Raw(d).kind = "raw" /\ Raw(d).data = d
  BY DEF Raw, Files

\* The invariant behind both theorems on drives, step by step of the tool, of the emulator and
\* of a crash in either.
THEOREM DriveInvariant == E4Spec => []DriveInv
<1>1. E4Init => DriveInv
  <2>1. None \in Files /\ None.kind = "none" /\ None.data = <<>> /\ Whole(None)
    BY DEF Files, None, Whole
  <2> QED
    BY <2>1, E4ImageAssumption DEF E4Init, DriveInv
<1>2. DriveInv /\ [E4Next]_e4Vars => DriveInv'
  <2> SUFFICES ASSUME DriveInv, [E4Next]_e4Vars PROVE DriveInv'
    OBVIOUS
  <2>0. /\ e4file \in [Names -> Files] /\ conf \in Names /\ image \in Names /\ RawName \in [Names -> Names]
        /\ \A n \in Names : RawName[n] \in Names /\ e4file[n] \in Files
    BY E4ImageAssumption DEF DriveInv
  <2>1. ASSUME NEW n \in Names, UserSets(n) PROVE DriveInv'
    BY <2>1, <2>0, FileKinds DEF UserSets, DriveInv
  <2>2. ASSUME NEW n \in Names, NEW d \in Sources, UserPuts(n, d) PROVE DriveInv'
    <3>1. d \in Seq(Contents)
      BY SourcesAreContents
    <3>2. Raw(d) \in Files /\ Raw(d).kind = "raw" /\ Raw(d).data = d /\ Whole(Raw(d))
      BY <3>1, RawFile, FileKinds
    <3>3. None.kind = "none"
      BY DEF None
    <3> QED
      BY <2>0, <2>2, <3>2, <3>3 DEF UserPuts, DriveInv
  <2>3. ASSUME NEW n \in Names, NEW mode \in Modes, NEW src \in Names \cup {NoSource}, NEW id \in {0, 1},
               NEW gen \in BOOLEAN, NEW append \in BOOLEAN, NEW flags \in {{}, {"removable"}},
               EmiCreate(n, mode, id, append, src, gen, flags)
        PROVE  DriveInv'
    <3> DEFINE new == e4file'[n]
    <3>1. new \in Images4 /\ Whole(new)
      <4> DEFINE e == Created(mode, id, append)
      <4>1. flags \in SUBSET Settable
        BY DEF Settable
      <4>2. src # NoSource => src \in Names /\ e4file[src].data \in Seq(Contents)
        BY <2>0, FileKinds
      <4>3. /\ e \in Images4 /\ Whole(e)
            /\ [Initialised(e) EXCEPT !.flags = @ \cup flags] \in Images4
            /\ Whole([Initialised(e) EXCEPT !.flags = @ \cup flags])
            /\ \A s \in Seq(Contents) : ImportFits(e, s) =>
                 /\ [E4Imported(e, s) EXCEPT !.flags = @ \cup flags] \in Images4
                 /\ Whole([E4Imported(e, s) EXCEPT !.flags = @ \cup flags])
        BY <4>1, FilledWhole
      <4> DEFINE fits == IF src = NoSource THEN InitFits(e, gen)
                         ELSE e4file[src].kind # "none" /\ ImportFits(e, e4file[src].data)
                 full == IF src = NoSource THEN Initialised(e) ELSE E4Imported(e, e4file[src].data)
      <4>4. new = IF fits THEN [full EXCEPT !.flags = @ \cup flags] ELSE e
        BY <2>0, <2>3 DEF EmiCreate
      <4> HIDE DEF new, e
      <4> QED
        BY <4>2, <4>3, <4>4
    <3>2. /\ e4file' = [e4file EXCEPT ![n] = new] /\ e4file[n] = None /\ e4pc = "off"
          /\ truth' = IF n = conf THEN new.data ELSE truth
          /\ UNCHANGED <<conf, e4pc, image, driveReady>>
      BY <2>0, <2>3 DEF EmiCreate
    <3> HIDE DEF new
    <3>3. new \in Files /\ new.kind = "e4i"
      BY <3>1 DEF Files, Images4
    <3>4. None.kind = "none"
      BY DEF None
    <3> QED
      BY <2>0, <3>1, <3>2, <3>3, <3>4 DEF DriveInv
  <2>4. ASSUME NEW n \in Names, NEW f \in Settable, EmiFlags(n, {f}, {}) \/ EmiFlags(n, {}, {f}) PROVE DriveInv'
    <3> DEFINE new == e4file'[n]
    <3>1. e4file[n] \in Images4 /\ Whole(e4file[n])
      BY <2>0, <2>4, FileKinds DEF EmiFlags, DriveInv
    <3>2. PICK set \in SUBSET Settable, clear \in SUBSET Settable : EmiFlags(n, set, clear)
      BY <2>4
    <3>3. /\ e4file' = [e4file EXCEPT ![n] = new] /\ new = [e4file[n] EXCEPT !.flags = (@ \cup set) \ clear]
          /\ e4pc = "off" /\ UNCHANGED <<conf, e4pc, image, driveReady, truth>>
      BY <2>0, <3>2 DEF EmiFlags
    <3> HIDE DEF new
    <3>4. new \in Images4 /\ new.kind = "e4i" /\ new.data = e4file[n].data /\ Units(new) = Units(e4file[n])
      BY <3>1, <3>3 DEF Images4, Flags, Units
    <3>5. Whole(new)
      <4>1. {"formatted", "append"} \cap Settable = {}
        BY DEF Settable
      <4> QED
        BY <3>1, <3>3, <3>4, <4>1 DEF Whole, Images4
    <3>6. new \in Files
      BY <3>4 DEF Files
    <3> QED
      BY <2>0, <3>1, <3>3, <3>4, <3>5, <3>6 DEF DriveInv, Images4
  <2>5. ASSUME NEW n \in Names, NEW dst \in Names, EmiExtract(n, dst) PROVE DriveInv'
    <3>1. /\ Raw(e4file[n].data) \in Files /\ Raw(e4file[n].data).kind = "raw"
          /\ Raw(e4file[n].data).data = e4file[n].data /\ Whole(Raw(e4file[n].data))
      BY <2>0, RawFile, FileKinds
    <3> QED
      BY <2>0, <2>5, <3>1 DEF EmiExtract, DriveInv
  <2>6. CASE Launch
    <3>1. Raw(<<>>) \in Files /\ Raw(<<>>).kind = "raw" /\ Raw(<<>>).data = <<>> /\ Whole(Raw(<<>>))
      <4>1. <<>> \in Seq(Contents)
        OBVIOUS
      <4> QED
        BY <4>1, RawFile, FileKinds
    <3>2. CASE MustExport(conf)
      <4>1. truth \in Seq(Contents) /\ RawName[conf] # conf
        BY <2>0, <3>2, FileKinds DEF MustExport, DriveInv
      <4> QED
        BY <2>0, <2>6, <3>1, <3>2, <4>1 DEF Launch, MustExport, DriveInv
    <3>3. CASE ~MustExport(conf)
      BY <2>0, <2>6, <3>3, FileKinds DEF Launch, MustExport, Opens, DriveInv
    <3> QED
      BY <3>2, <3>3
  <2>7. CASE Export
    <3> DEFINE to == RawName[conf]  done == Len(e4file[to].data)
    <3>1. /\ e4pc = "export" /\ image = conf /\ e4file[conf].kind = "e4i" /\ e4file[conf].data = truth
          /\ e4file[to].kind = "raw" /\ to # conf /\ to \in Names
          /\ done <= Len(truth) /\ \A k \in 1..done : e4file[to].data[k] = truth[k]
      BY <2>0, <2>7 DEF Export, DriveInv
    <3>2. /\ truth \in Seq(Contents) /\ e4file[to].data \in Seq(Contents) /\ done \in Nat
          /\ e4file[to] = Raw(e4file[to].data)
      BY <2>0, <3>1, FileKinds
    <3>3. CASE done < Len(truth)
      <4> DEFINE more == Append(e4file[to].data, truth[done + 1])
      <4>1. e4file' = [e4file EXCEPT ![to] = Raw(more)] /\ UNCHANGED <<conf, driveReady, truth, steps, e4pc, image>>
        BY <2>0, <2>7, <3>1, <3>2, <3>3 DEF Export, Raw
      <4>2. /\ more \in Seq(Contents) /\ Len(more) = done + 1
            /\ \A k \in 1..Len(more) : more[k] = truth[k]
        BY <3>1, <3>2, <3>3
      <4>3. /\ Raw(more) \in Files /\ Raw(more).kind = "raw" /\ Raw(more).data = more /\ Whole(Raw(more))
        BY <4>2, RawFile, FileKinds
      <4> HIDE DEF more
      <4> QED
        BY <2>0, <3>1, <3>2, <3>3, <4>1, <4>2, <4>3 DEF DriveInv
    <3>4. CASE ~(done < Len(truth))
      <4>1. e4file[to].data = truth
        BY <3>1, <3>2, <3>4
      <4>2. e4pc' = "save" /\ image' = to /\ UNCHANGED <<e4file, conf, driveReady, truth, steps>>
        BY <2>7, <3>1, <3>4 DEF Export
      <4> QED
        BY <2>0, <3>1, <4>1, <4>2 DEF DriveInv
    <3> QED
      BY <3>3, <3>4
  <2>8. CASE ExportFails
    <3>1. None \in Files /\ None.kind = "none" /\ Whole(None)
      BY DEF Files, None, Whole
    <3>2. image = conf /\ RawName[conf] # conf
      BY <2>8 DEF ExportFails, DriveInv
    <3> QED
      BY <2>0, <2>8, <3>1, <3>2 DEF ExportFails, DriveInv
  <2>9. CASE E4Save
    BY <2>0, <2>9 DEF E4Save, Opens, DriveInv
  <2>10. CASE Ends
    BY <2>0, <2>10 DEF Ends, DriveInv
  <2>11. ASSUME NEW s \in 1..Total, SectorWr(s) PROVE DriveInv'
    <3> DEFINE now == [truth EXCEPT ![s] = 9]
    <3>1. /\ e4pc = "up" /\ driveReady /\ e4file[image].kind = "raw" /\ e4file[image].data = truth
          /\ e4file[image] = Raw(truth) /\ truth \in Seq(Contents)
      BY <2>0, <2>11, FileKinds DEF SectorWr, DriveInv
    <3>2. /\ e4file' = [e4file EXCEPT ![image] = Raw(now)] /\ truth' = now
          /\ UNCHANGED <<conf, e4pc, image, driveReady, steps>>
      <4>1. [Raw(truth) EXCEPT !.data = now] = Raw(now) /\ Raw(truth).data = truth
        BY DEF Raw
      <4>2. e4file' = [e4file EXCEPT ![image].data[s] = 9]
        BY <2>11 DEF SectorWr
      <4>3. [e4file EXCEPT ![image].data[s] = 9] = [e4file EXCEPT ![image] = [e4file[image] EXCEPT !.data = [e4file[image].data EXCEPT ![s] = 9]]]
        BY <2>0
      <4> QED
        BY <2>0, <2>11, <3>1, <4>1, <4>2, <4>3 DEF SectorWr
    <3>3. now \in Seq(Contents)
      <4>1. 9 \in Int
        OBVIOUS
      <4>2. 9 \in Contents
        BY <4>1 DEF Contents
      <4>3. truth \in [1..Len(truth) -> Contents]
        BY <3>1
      <4>4. now \in [1..Len(truth) -> Contents]
        BY <4>2, <4>3
      <4>5. Len(truth) \in Nat
        BY <3>1
      <4> HIDE DEF now
      <4> QED
        BY <4>4, <4>5
    <3>4. Raw(now) \in Files /\ Raw(now).kind = "raw" /\ Raw(now).data = now /\ Whole(Raw(now))
      BY <3>3, RawFile, FileKinds
    <3> HIDE DEF now
    <3> QED
      BY <2>0, <3>1, <3>2, <3>4 DEF DriveInv
  <2>12. CASE UNCHANGED e4Vars
    BY <2>12 DEF e4Vars, DriveInv
  <2>13. CASE \E n \in Names, mode \in Modes, src \in Names \cup {NoSource}, id \in {0, 1}, gen \in BOOLEAN,
                 append \in BOOLEAN, flags \in {{}, {"removable"}} : EmiCreate(n, mode, id, append, src, gen, flags)
    <3>1. PICK n \in Names, mode \in Modes, src \in Names \cup {NoSource}, id \in {0, 1}, gen \in BOOLEAN,
               append \in BOOLEAN, flags \in {{}, {"removable"}} : EmiCreate(n, mode, id, append, src, gen, flags)
      BY <2>13, Zenon
    <3> QED
      BY <2>3, <3>1
  <2>14. CASE \E n \in Names : \E f \in Settable : EmiFlags(n, {f}, {}) \/ EmiFlags(n, {}, {f})
    BY <2>4, <2>14, Zenon
  <2> QED
    BY Zenon, <2>13, <2>14, <2>1, <2>2, <2>3, <2>4, <2>5, <2>6, <2>7, <2>8, <2>9, <2>10, <2>11, <2>12 DEF E4Next
<1> QED
  BY <1>1, <1>2, PTL DEF E4Spec

\* Whatever images the tool makes of whatever files, and wherever an export or the saving of
\* the configuration is cut short, a drive that is ready shows what its disk holds
\* (e4i_migrate_to_raw(), appcfg_migrate_images(), winchester_create()).
THEOREM DriveAlwaysTrue == E4Spec => []DriveTrue
<1>1. DriveInv => DriveTrue
  BY DEF DriveInv, DriveTrue
<1> QED
  BY <1>1, DriveInvariant, PTL

\* An image of a fixed size that is marked as formatted has all its blocks, whatever file it
\* was made from and whatever flags are set and cleared (e4i_import(), e4i_init()).
THEOREM FormattedAlwaysWhole == E4Spec => []FormattedWhole
<1>1. DriveInv => FormattedWhole
  BY DEF DriveInv, FormattedWhole, Whole
<1> QED
  BY <1>1, DriveInvariant, PTL

-----------------------------------------------------------------------------
(* The configuration in use and what the dialog edits.                     *)

Types == {"terminal", "winchester", "floppy", "sp45de", "rtclock"}
LEMMA TypesAre == {DeviceTypes[i] : i \in DOMAIN DeviceTypes} = Types
<1>1. DOMAIN DeviceTypes = 1..5 /\ 1..5 = {1, 2, 3, 4, 5}
  BY DEF DeviceTypes
<1>2. /\ DeviceTypes[1] = "terminal" /\ DeviceTypes[2] = "winchester" /\ DeviceTypes[3] = "floppy"
      /\ DeviceTypes[4] = "sp45de" /\ DeviceTypes[5] = "rtclock"
  BY DEF DeviceTypes
<1> QED
  BY <1>1, <1>2 DEF Types

LEMMA HoldsTypes == \A t : MayHold(t) \subseteq Types
BY DEF MayHold, Types

LEMMA NothingHeld == MayHold(Nothing) = {} /\ Nothing \notin Types /\ Nothing \notin ChanTypes /\ Nothing \in Texts
<1>1. Nothing # "char" /\ Nothing # "multix"
  BY DEF Nothing
<1>2. MayHold(Nothing) = {}
  BY <1>1 DEF MayHold
<1>3. Nothing \notin Types /\ Nothing \notin ChanTypes
  BY DEF Nothing, Types, ChanTypes
<1>4. Nothing \in Texts
  BY AppCfgAssumption
<1> QED
  BY <1>2, <1>3, <1>4

LEMMA MachineIs ==
  ASSUME NEW m \in CfgMachines
  PROVE  /\ m = [id |-> m.id, setting |-> m.setting, chan |-> m.chan, dev |-> m.dev]
         /\ m.id \in Texts \X Nat /\ m.setting \in Texts
         /\ m.chan \in [CfgChans -> ChanTypes \cup {Nothing}] /\ m.dev \in [Places -> CfgDevices]
BY DEF CfgMachines

LEMMA DeviceIs ==
  ASSUME NEW d \in CfgDevices
  PROVE  /\ d = [type |-> d.type, path |-> d.path, speed |-> d.speed]
         /\ d.type \in Types \cup {Nothing} /\ d.path \in Texts /\ d.speed \in Int
         /\ (d.type \notin WithPath => d.path = Nothing) /\ (d.type # "terminal" => d.speed = 0)
BY TypesAre DEF CfgDevices

LEMMA DeviceFits ==
  ASSUME NEW t \in Types \cup {Nothing}, NEW path \in Texts, NEW s \in Int,
         t \notin WithPath => path = Nothing, t # "terminal" => s = 0
  PROVE  [type |-> t, path |-> path, speed |-> s] \in CfgDevices
BY TypesAre DEF CfgDevices

\* The keys that a machine's section has.
LEMMA KeysWritten ==
  ASSUME NEW m
  PROVE  /\ <<"setting">> \in WrittenKeys(m) <=> m.setting # "default"
         /\ \A c \in CfgChans : <<"channel", c>> \in WrittenKeys(m) <=> m.chan[c] # Nothing
         /\ \A p \in Places : /\ <<"type", p>> \in WrittenKeys(m) <=> m.chan[p[1]] # Nothing /\ m.dev[p].type # Nothing
                              /\ <<"path", p>> \in WrittenKeys(m) <=>
                                   /\ m.chan[p[1]] # Nothing /\ m.dev[p].type # Nothing
                                   /\ m.dev[p].path # Nothing /\ m.dev[p].type \in WithPath
                              /\ <<"speed", p>> \in WrittenKeys(m) <=>
                                   /\ m.chan[p[1]] # Nothing /\ m.dev[p].type # Nothing
                                   /\ m.dev[p].speed # 9600 /\ m.dev[p].type = "terminal"
<1> DEFINE devs == {p \in Places : m.chan[p[1]] # Nothing /\ m.dev[p].type # Nothing}
           A == {<<"setting">> : s \in {m.setting} \ {"default"}}
           B == {<<"channel", c>> : c \in {c \in CfgChans : m.chan[c] # Nothing}}
           C == {<<"type", p>> : p \in devs}
           D == {<<"path", p>> : p \in {p \in devs : m.dev[p].path # Nothing /\ m.dev[p].type \in WithPath}}
           E == {<<"speed", p>> : p \in {p \in devs : m.dev[p].speed # 9600 /\ m.dev[p].type = "terminal"}}
<1>1. WrittenKeys(m) = A \cup B \cup C \cup D \cup E
  BY Zenon DEF WrittenKeys
<1>2. /\ \A x \in A : x[1] = "setting"
      /\ \A x \in B : x[1] = "channel"
      /\ \A x \in C : x[1] = "type"
      /\ \A x \in D : x[1] = "path"
      /\ \A x \in E : x[1] = "speed"
  OBVIOUS
<1>3. <<"setting">>[1] = "setting" /\ \A x : <<"channel", x>>[1] = "channel" /\ <<"type", x>>[1] = "type"
                                              /\ <<"path", x>>[1] = "path" /\ <<"speed", x>>[1] = "speed"
  OBVIOUS
<1>4. <<"setting">> \in A <=> m.setting # "default"
  OBVIOUS
<1>5. \A c \in CfgChans : <<"channel", c>> \in B <=> m.chan[c] # Nothing
  OBVIOUS
<1>6. \A p \in Places : <<"type", p>> \in C <=> p \in devs
  <2> HIDE DEF devs
  <2> QED
    OBVIOUS
<1>7. \A p \in Places : <<"path", p>> \in D <=> p \in devs /\ m.dev[p].path # Nothing /\ m.dev[p].type \in WithPath
  <2> HIDE DEF devs
  <2> QED
    OBVIOUS
<1>8. \A p \in Places : <<"speed", p>> \in E <=> p \in devs /\ m.dev[p].speed # 9600 /\ m.dev[p].type = "terminal"
  <2> HIDE DEF devs
  <2> QED
    OBVIOUS
<1>9. \A p \in Places : p \in devs <=> m.chan[p[1]] # Nothing /\ m.dev[p].type # Nothing
  OBVIOUS
<1> HIDE DEF A, B, C, D, E, devs
<1>10. <<"setting">> \in WrittenKeys(m) <=> <<"setting">> \in A
  BY <1>1, <1>2, <1>3
<1>11. \A c : <<"channel", c>> \in WrittenKeys(m) <=> <<"channel", c>> \in B
  BY <1>1, <1>2, <1>3
<1>12. \A p : <<"type", p>> \in WrittenKeys(m) <=> <<"type", p>> \in C
  BY <1>1, <1>2, <1>3
<1>13. \A p : <<"path", p>> \in WrittenKeys(m) <=> <<"path", p>> \in D
  BY <1>1, <1>2, <1>3
<1>14. \A p : <<"speed", p>> \in WrittenKeys(m) <=> <<"speed", p>> \in E
  BY <1>1, <1>2, <1>3
<1> QED
  BY <1>4, <1>5, <1>6, <1>7, <1>8, <1>9, <1>10, <1>11, <1>12, <1>13, <1>14

\* What the section has for each key.
LEMMA ValuesWritten ==
  ASSUME NEW m
  PROVE  LET keys == Section(m).keys
         IN /\ DOMAIN keys = WrittenKeys(m) /\ Section(m).id = m.id
            /\ <<"setting">> \in WrittenKeys(m) => keys[<<"setting">>] = m.setting
            /\ \A c : <<"channel", c>> \in WrittenKeys(m) => keys[<<"channel", c>>] = m.chan[c]
            /\ \A p : <<"type", p>> \in WrittenKeys(m) => keys[<<"type", p>>] = m.dev[p].type
            /\ \A p : <<"path", p>> \in WrittenKeys(m) => keys[<<"path", p>>] = m.dev[p].path
            /\ \A p : <<"speed", p>> \in WrittenKeys(m) => keys[<<"speed", p>>] = m.dev[p].speed
<1> DEFINE K == WrittenKeys(m)
           keys == [k \in K |->
               CASE k[1] = "setting" -> m.setting [] k[1] = "channel" -> m.chan[k[2]]
                 [] k[1] = "type" -> m.dev[k[2]].type [] k[1] = "path" -> m.dev[k[2]].path
                 [] OTHER -> m.dev[k[2]].speed]
<1>1. Section(m).keys = keys /\ Section(m).id = m.id
  BY DEF Section
<1> HIDE DEF K
<1>2. <<"setting">> \in K => keys[<<"setting">>] = m.setting
  <2>1. <<"setting">>[1] = "setting"
    OBVIOUS
  <2> QED
    BY <2>1
<1>3. ASSUME NEW c, <<"channel", c>> \in K PROVE keys[<<"channel", c>>] = m.chan[c]
  <2>1. <<"channel", c>>[1] = "channel" /\ <<"channel", c>>[2] = c /\ "channel" # "setting"
    OBVIOUS
  <2> QED
    BY <1>3, <2>1
<1>4. ASSUME NEW p, <<"type", p>> \in K PROVE keys[<<"type", p>>] = m.dev[p].type
  <2>1. <<"type", p>>[1] = "type" /\ <<"type", p>>[2] = p
    OBVIOUS
  <2> QED
    BY <1>4, <2>1
<1>5. ASSUME NEW p, <<"path", p>> \in K PROVE keys[<<"path", p>>] = m.dev[p].path
  <2>1. <<"path", p>>[1] = "path" /\ <<"path", p>>[2] = p
    OBVIOUS
  <2> QED
    BY <1>5, <2>1
<1>6. ASSUME NEW p, <<"speed", p>> \in K PROVE keys[<<"speed", p>>] = m.dev[p].speed
  <2>1. <<"speed", p>>[1] = "speed" /\ <<"speed", p>>[2] = p
    OBVIOUS
  <2> QED
    BY <1>6, <2>1
<1>7. DOMAIN keys = K
  OBVIOUS
<1> HIDE DEF keys
<1> QED
  BY <1>1, <1>2, <1>3, <1>4, <1>5, <1>6, <1>7, Zenon DEF K

\* A machine comes back from its section as it was written (appcfg.c).
LEMMA ReadBack ==
  ASSUME NEW m \in CfgMachines, Accepted(m)
  PROVE  Built(Section(m)) = m
<1> DEFINE keys == Section(m).keys
           K == WrittenKeys(m)
           device(p) ==
             LET type == IF <<"channel", p[1]>> \in DOMAIN keys THEN KeyOr(keys, <<"type", p>>, Nothing) ELSE Nothing
             IN [type |-> type,
                 path |-> IF type \in WithPath THEN KeyOr(keys, <<"path", p>>, Nothing) ELSE Nothing,
                 speed |-> IF type = "terminal" THEN KeyOr(keys, <<"speed", p>>, 9600) ELSE 0]
<1>0. /\ m = [id |-> m.id, setting |-> m.setting, chan |-> m.chan, dev |-> m.dev]
      /\ m.chan \in [CfgChans -> ChanTypes \cup {Nothing}] /\ m.dev \in [Places -> CfgDevices]
  BY MachineIs, Zenon
<1>1. Built(Section(m)) = [id |-> Section(m).id, setting |-> KeyOr(keys, <<"setting">>, "default"),
        chan |-> [c \in CfgChans |-> KeyOr(keys, <<"channel", c>>, Nothing)], dev |-> [p \in Places |-> device(p)]]
  BY Zenon DEF Built
<1>2. /\ DOMAIN keys = K /\ Section(m).id = m.id
      /\ <<"setting">> \in K => keys[<<"setting">>] = m.setting
      /\ \A c : <<"channel", c>> \in K => keys[<<"channel", c>>] = m.chan[c]
      /\ \A p : <<"type", p>> \in K => keys[<<"type", p>>] = m.dev[p].type
      /\ \A p : <<"path", p>> \in K => keys[<<"path", p>>] = m.dev[p].path
      /\ \A p : <<"speed", p>> \in K => keys[<<"speed", p>>] = m.dev[p].speed
  BY ValuesWritten, Zenon
<1>3. /\ <<"setting">> \in K <=> m.setting # "default"
      /\ \A c \in CfgChans : <<"channel", c>> \in K <=> m.chan[c] # Nothing
      /\ \A p \in Places : /\ <<"type", p>> \in K <=> m.chan[p[1]] # Nothing /\ m.dev[p].type # Nothing
                           /\ <<"path", p>> \in K <=> m.chan[p[1]] # Nothing /\ m.dev[p].type # Nothing
                                                       /\ m.dev[p].path # Nothing /\ m.dev[p].type \in WithPath
                           /\ <<"speed", p>> \in K <=> m.chan[p[1]] # Nothing /\ m.dev[p].type # Nothing
                                                       /\ m.dev[p].speed # 9600 /\ m.dev[p].type = "terminal"
  BY KeysWritten
<1> HIDE DEF keys, K
<1>4. KeyOr(keys, <<"setting">>, "default") = m.setting
  BY <1>2, <1>3 DEF KeyOr
<1>5. [c \in CfgChans |-> KeyOr(keys, <<"channel", c>>, Nothing)] = m.chan
  <2>1. ASSUME NEW c \in CfgChans PROVE KeyOr(keys, <<"channel", c>>, Nothing) = m.chan[c]
    BY <1>2, <1>3 DEF KeyOr
  <2> QED
    BY <1>0, <2>1
<1>6. [p \in Places |-> device(p)] = m.dev
  <2>1. ASSUME NEW p \in Places PROVE device(p) = m.dev[p]
    <3>1. m.dev[p] \in CfgDevices
      BY <1>0
    <3>2. /\ m.dev[p] = [type |-> m.dev[p].type, path |-> m.dev[p].path, speed |-> m.dev[p].speed]
          /\ (m.dev[p].type \notin WithPath => m.dev[p].path = Nothing) /\ (m.dev[p].type # "terminal" => m.dev[p].speed = 0)
      BY <3>1, DeviceIs, Zenon
    <3>3. p[1] \in CfgChans
      BY DEF Places
    <3>4. m.dev[p].type # Nothing => m.chan[p[1]] # Nothing
      BY NothingHeld DEF Accepted
    <3>5. Nothing \notin WithPath /\ Nothing # "terminal"
      BY DEF Nothing, WithPath, WithImage
    <3>9. /\ <<"type", p>> \in K <=> m.chan[p[1]] # Nothing /\ m.dev[p].type # Nothing
          /\ <<"path", p>> \in K <=> m.chan[p[1]] # Nothing /\ m.dev[p].type # Nothing
                                       /\ m.dev[p].path # Nothing /\ m.dev[p].type \in WithPath
          /\ <<"speed", p>> \in K <=> m.chan[p[1]] # Nothing /\ m.dev[p].type # Nothing
                                        /\ m.dev[p].speed # 9600 /\ m.dev[p].type = "terminal"
          /\ <<"channel", p[1]>> \in K <=> m.chan[p[1]] # Nothing
      BY <1>3, <3>3
    <3> DEFINE type == IF <<"channel", p[1]>> \in DOMAIN keys THEN KeyOr(keys, <<"type", p>>, Nothing) ELSE Nothing
    <3>6. type = m.dev[p].type
      <4>1. CASE m.dev[p].type = Nothing
        BY <1>2, <3>9, <4>1 DEF KeyOr
      <4>2. CASE m.dev[p].type # Nothing
        BY <1>2, <3>9, <3>4, <4>2 DEF KeyOr
      <4> QED
        BY <4>1, <4>2
    <3> HIDE DEF type
    <3>7. (IF type \in WithPath THEN KeyOr(keys, <<"path", p>>, Nothing) ELSE Nothing) = m.dev[p].path
      <4>1. CASE type \in WithPath /\ m.dev[p].path # Nothing
        <5>1. <<"path", p>> \in K
          BY <3>9, <3>4, <3>5, <3>6, <4>1
        <5> QED
          BY <1>2, <5>1, <4>1, Zenon DEF KeyOr
      <4>2. CASE type \in WithPath /\ m.dev[p].path = Nothing
        <5>1. <<"path", p>> \notin K
          BY <3>9, <4>2
        <5> QED
          BY <1>2, <5>1, <4>2, Zenon DEF KeyOr
      <4>3. CASE type \notin WithPath
        BY <3>2, <3>6, <4>3, Zenon
      <4> QED
        BY <4>1, <4>2, <4>3
    <3>8. (IF type = "terminal" THEN KeyOr(keys, <<"speed", p>>, 9600) ELSE 0) = m.dev[p].speed
      <4>1. CASE type = "terminal" /\ m.dev[p].speed # 9600
        <5>1. <<"speed", p>> \in K
          BY <3>9, <3>4, <3>5, <3>6, <4>1
        <5> QED
          BY <1>2, <5>1, <4>1 DEF KeyOr
      <4>2. CASE type = "terminal" /\ m.dev[p].speed = 9600
        <5>1. <<"speed", p>> \notin K
          BY <3>9, <4>2
        <5> QED
          BY <1>2, <5>1, <4>2 DEF KeyOr
      <4>3. CASE type # "terminal"
        BY <3>2, <3>6, <4>3
      <4> QED
        BY <4>1, <4>2, <4>3
    <3> QED
      BY <3>2, <3>6, <3>7, <3>8 DEF type
  <2> HIDE DEF device
  <2> QED
    BY <1>0, <2>1
<1> QED
  BY <1>0, <1>1, <1>2, <1>4, <1>5, <1>6

-----------------------------------------------------------------------------
\* Configurations that the program uses: what a file may say, of machines that it accepts.
Usable(c) == WellFormed(c) /\ \A i \in DOMAIN c.machines : Accepted(c.machines[i])

LEMMA UsableIs ==
  ASSUME NEW c, WellFormed(c)
  PROVE  /\ c = [machines |-> c.machines, active |-> c.active] /\ c.machines \in Seq(CfgMachines)
         /\ Len(c.machines) \in Nat \ {0} /\ DOMAIN c.machines = 1..Len(c.machines) /\ 1 \in DOMAIN c.machines
         /\ \A i \in DOMAIN c.machines : c.machines[i] \in CfgMachines
         /\ c.machines = [i \in 1..Len(c.machines) |-> c.machines[i]]
<1>1. c.machines \in Seq(CfgMachines) /\ c.machines # <<>> /\ c = [machines |-> c.machines, active |-> c.active]
  BY DEF WellFormed
<1> QED
  BY <1>1

\* A sequence that is given by its elements.
LEMMA GivenSeq ==
  ASSUME NEW S, NEW n \in Nat, NEW s \in [1..n -> S]
  PROVE  s \in Seq(S) /\ Len(s) = n /\ DOMAIN s = 1..n
OBVIOUS

LEMMA FileIs ==
  ASSUME NEW c, WellFormed(c)
  PROVE  LET w == Written(c)
         IN /\ w.active = c.active /\ w.sections # <<>> /\ DOMAIN w.sections = 1..Len(c.machines)
            /\ w.sections = [i \in 1..Len(c.machines) |-> Section(c.machines[i])]
<1>1. DOMAIN c.machines = 1..Len(c.machines) /\ 1 \in DOMAIN c.machines
  BY UsableIs
<1> DEFINE ss == [i \in 1..Len(c.machines) |-> Section(c.machines[i])]
<1>2. Written(c) = [active |-> c.active, sections |-> ss, old |-> NoKeys]
  BY <1>1 DEF Written, File
<1>3. 1 \in DOMAIN ss /\ DOMAIN ss = 1..Len(c.machines)
  BY <1>1
<1>4. ss # <<>>
  BY <1>3
<1> HIDE DEF ss
<1>5. Written(c).sections = ss /\ Written(c).active = c.active
  BY <1>2
<1> QED
  BY <1>3, <1>4, <1>5 DEF ss

\* A configuration comes back from the file it was written to (appcfg.c).
LEMMA WrittenLoads ==
  ASSUME NEW c, Usable(c)
  PROVE  Loaded(Written(c)) = c /\ Loadable(Written(c)) /\ Written(c).sections # <<>>
<1> DEFINE w == Written(c)
<1>1. /\ w.active = c.active /\ w.sections # <<>> /\ DOMAIN w.sections = 1..Len(c.machines)
      /\ w.sections = [i \in 1..Len(c.machines) |-> Section(c.machines[i])]
  BY FileIs DEF Usable
<1>2. /\ c = [machines |-> c.machines, active |-> c.active] /\ DOMAIN c.machines = 1..Len(c.machines)
      /\ \A i \in DOMAIN c.machines : c.machines[i] \in CfgMachines
      /\ c.machines = [i \in 1..Len(c.machines) |-> c.machines[i]]
  BY UsableIs DEF Usable
<1>3. ASSUME NEW i \in 1..Len(c.machines) PROVE Built(w.sections[i]) = c.machines[i]
  <2>1. w.sections[i] = Section(c.machines[i])
    BY <1>1
  <2>2. c.machines[i] \in CfgMachines /\ Accepted(c.machines[i])
    BY <1>2 DEF Usable
  <2> QED
    BY <2>1, <2>2, ReadBack
<1> HIDE DEF w
<1>4. Loaded(w) = [machines |-> [i \in DOMAIN w.sections |-> Built(w.sections[i])], active |-> w.active]
  BY <1>1 DEF Loaded
<1>5. [i \in DOMAIN w.sections |-> Built(w.sections[i])] = c.machines
  BY <1>1, <1>2, <1>3
<1>6. Loaded(w) = c
  BY <1>1, <1>2, <1>4, <1>5
<1>7. Loadable(w)
  BY <1>6 DEF Loadable, Usable
<1> QED
  BY <1>1, <1>6, <1>7 DEF w

LEMMA MachineFits ==
  ASSUME NEW id \in Texts \X Nat
  PROVE  Machine(id) \in CfgMachines /\ Machine(id).id = id /\ Accepted(Machine(id))
<1>1. NoDevice \in CfgDevices /\ NoDevice.type = Nothing
  <2>1. NoDevice = [type |-> Nothing, path |-> Nothing, speed |-> 0]
    BY DEF NoDevice
  <2> QED
    BY <2>1, DeviceFits, NothingHeld
<1>2. "default" \in Texts
  BY AppCfgAssumption
<1> DEFINE devs == [p \in Places |-> NoDevice]
           chans == [c \in CfgChans |-> Nothing]
<1>3. devs \in [Places -> CfgDevices] /\ chans \in [CfgChans -> ChanTypes \cup {Nothing}]
  BY <1>1
<1>4. \A p \in Places : devs[p].type = Nothing
  BY <1>1
<1>5. Machine(id) = [id |-> id, setting |-> "default", chan |-> chans, dev |-> devs]
  BY DEF Machine
<1> HIDE DEF devs, chans
<1>6. Machine(id) \in CfgMachines
  BY <1>2, <1>3, <1>5 DEF CfgMachines
<1>7. Machine(id).dev = devs /\ Machine(id).id = id
  BY <1>5
<1> QED
  BY <1>4, <1>6, <1>7 DEF Accepted

\* Without keys there is a machine without channels.
LEMMA EmptyIs ==
  ASSUME NEW id \in Texts \X Nat
  PROVE  Built([id |-> id, keys |-> NoKeys]) = Machine(id)
<1>1. \A k, d : KeyOr(NoKeys, k, d) = d
  BY DEF KeyOr, NoKeys
<1>2. \A k : k \notin DOMAIN NoKeys
  BY DEF NoKeys
<1>3. Nothing \notin WithPath /\ Nothing # "terminal"
  BY DEF Nothing, WithPath, WithImage
<1> DEFINE r == [id |-> id, keys |-> NoKeys]
<1>4. r.id = id /\ r.keys = NoKeys
  OBVIOUS
<1> DEFINE device(p) ==
             LET type == IF <<"channel", p[1]>> \in DOMAIN r.keys THEN KeyOr(r.keys, <<"type", p>>, Nothing) ELSE Nothing
             IN [type |-> type,
                 path |-> IF type \in WithPath THEN KeyOr(r.keys, <<"path", p>>, Nothing) ELSE Nothing,
                 speed |-> IF type = "terminal" THEN KeyOr(r.keys, <<"speed", p>>, 9600) ELSE 0]
<1> HIDE DEF r
<1>5. \A p \in Places : device(p) = NoDevice
  BY <1>1, <1>2, <1>3, <1>4 DEF NoDevice
<1>6. [p \in Places |-> device(p)] = [p \in Places |-> NoDevice]
  BY <1>5
<1>7. [c \in CfgChans |-> KeyOr(r.keys, <<"channel", c>>, Nothing)] = [c \in CfgChans |-> Nothing]
  BY <1>1, <1>4
<1>8. Built(r) = [id |-> r.id, setting |-> KeyOr(r.keys, <<"setting">>, "default"),
        chan |-> [c \in CfgChans |-> KeyOr(r.keys, <<"channel", c>>, Nothing)], dev |-> [p \in Places |-> device(p)]]
  BY Zenon DEF Built
<1> HIDE DEF device
<1>9. Built(r) = Machine(id)
  BY <1>1, <1>4, <1>6, <1>7, <1>8 DEF Machine
<1> QED
  BY <1>9 DEF r

LEMMA OneMachine ==
  ASSUME NEW m \in CfgMachines, NEW id \in Texts \X Nat
  PROVE  WellFormed([machines |-> <<m>>, active |-> id])
<1> DEFINE c == [machines |-> <<m>>, active |-> id]
<1>1. <<m>> \in Seq(CfgMachines) /\ <<m>> # <<>> /\ DOMAIN <<m>> = 1..1
  OBVIOUS
<1>2. c \in [machines : Seq(CfgMachines), active : Texts \X Nat] /\ c.machines = <<m>>
  BY <1>1
<1>3. \A i, j \in 1..1 : i = j
  OBVIOUS
<1> HIDE DEF c
<1>4. WellFormed(c)
  BY <1>1, <1>2, <1>3 DEF WellFormed
<1> QED
  BY <1>4 DEF c

\* What is left of a file, when its writing is not finished, can be read (appcfg.c).
LEMMA CutsLoad ==
  ASSUME NEW c, Usable(c), NEW f \in Cuts(Written(c))
  PROVE  WellFormed(Loaded(f))
<1>1. Imported \in Texts \X Nat
  BY AppCfgAssumption DEF Imported
<1>2. WellFormed([machines |-> <<Built([id |-> Imported, keys |-> NoKeys])>>, active |-> Imported])
  BY <1>1, EmptyIs, MachineFits, OneMachine
<1>3. CASE f.sections = <<>> /\ f.old = NoKeys
  BY <1>2, <1>3 DEF Loaded
<1>4. CASE f.sections # <<>>
  <2> DEFINE w == Written(c)
             n == Len(f.sections)
  <2>1. /\ w.active = c.active /\ w.sections # <<>> /\ DOMAIN w.sections = 1..Len(c.machines)
        /\ w.sections = [i \in 1..Len(c.machines) |-> Section(c.machines[i])]
    BY FileIs DEF Usable
  <2>2. /\ Len(c.machines) \in Nat \ {0} /\ DOMAIN c.machines = 1..Len(c.machines)
        /\ \A i \in DOMAIN c.machines : c.machines[i] \in CfgMachines
    BY UsableIs DEF Usable
  <2>3. PICK k \in 0..Len(w.sections) - 1 : f = File(w.active, SubSeq(w.sections, 1, k), NoKeys)
    <3>1. f # File(NoId, <<>>, NoKeys)
      BY <1>4 DEF File
    <3> HIDE DEF w
    <3> QED
      BY <3>1 DEF Cuts, w
  <2>4. w.sections \in Seq({Section(m) : m \in CfgMachines}) /\ Len(w.sections) = Len(c.machines)
    <3> DEFINE S == {Section(m) : m \in CfgMachines}
    <3>1. \A i \in 1..Len(c.machines) : Section(c.machines[i]) \in S
      BY <2>2
    <3> HIDE DEF S, w
    <3>2. w.sections \in [1..Len(c.machines) -> S]
      BY <2>1, <3>1
    <3>3. w.sections \in Seq(S) /\ Len(w.sections) = Len(c.machines)
      BY <2>2, <3>2, GivenSeq
    <3> QED
      BY <3>3 DEF S
  <2> HIDE DEF w
  <2>5. f.sections = SubSeq(w.sections, 1, k) /\ f.active = w.active
    BY <2>3 DEF File
  <2>6. n = k /\ DOMAIN f.sections = 1..k /\ k > 0 /\ \A i \in 1..k : f.sections[i] = w.sections[i]
    BY <1>4, <2>2, <2>3, <2>4, <2>5
  <2>7. \A i \in 1..k : i \in 1..Len(c.machines) /\ Built(f.sections[i]) = c.machines[i]
    <3> TAKE i \in 1..k
    <3>1. i \in 1..Len(c.machines)
      BY <2>2, <2>3, <2>4
    <3>2. f.sections[i] = Section(c.machines[i])
      BY <2>1, <2>6, <3>1
    <3>3. c.machines[i] \in CfgMachines /\ Accepted(c.machines[i])
      BY <2>2, <3>1 DEF Usable
    <3> QED
      BY <3>1, <3>2, <3>3, ReadBack
  <2> DEFINE ms == [i \in 1..k |-> c.machines[i]]
  <2>8. ms \in Seq(CfgMachines) /\ ms # <<>> /\ DOMAIN ms = 1..k /\ \A i \in 1..k : ms[i] = c.machines[i]
    <3>1. ms \in [1..k -> CfgMachines] /\ 1 \in DOMAIN ms
      BY <2>2, <2>6, <2>7
    <3>2. ms \in Seq(CfgMachines)
      BY <3>1, GivenSeq
    <3>3. ms # <<>>
      BY <3>1
    <3> QED
      BY <3>2, <3>3
  <2>9. Loaded(f) = [machines |-> ms, active |-> c.active]
    <3>1. [i \in DOMAIN f.sections |-> Built(f.sections[i])] = ms
      BY <2>6, <2>7
    <3>2. Loaded(f) = [machines |-> [i \in DOMAIN f.sections |-> Built(f.sections[i])], active |-> f.active]
      BY <1>4 DEF Loaded
    <3> HIDE DEF ms
    <3> QED
      BY <2>1, <2>5, <3>1, <3>2
  <2> HIDE DEF ms
  <2>10. c.active \in Texts \X Nat /\ \A i, j \in DOMAIN c.machines : c.machines[i].id = c.machines[j].id => i = j
    BY DEF Usable, WellFormed
  <2>11. \A i, j \in DOMAIN ms : ms[i].id = ms[j].id => i = j
    BY <2>2, <2>7, <2>8, <2>10
  <2> QED
    BY <2>8, <2>9, <2>10, <2>11 DEF WellFormed
<1>5. f.sections = <<>> => f.old = NoKeys
  BY DEF Cuts, File
<1> QED
  BY <1>3, <1>4, <1>5

-----------------------------------------------------------------------------
(* Identifiers, and machines that are added, taken away and changed.       *)

LEMMA FoundOnce ==
  ASSUME NEW c, WellFormed(c), NEW i \in DOMAIN c.machines
  PROVE  Found(c, c.machines[i].id) = {i}
<1>1. \A j, k \in DOMAIN c.machines : c.machines[j].id = c.machines[k].id => j = k
  BY DEF WellFormed
<1> QED
  BY <1>1 DEF Found

LEMMA FoundIs ==
  ASSUME NEW c, WellFormed(c), NEW id, Found(c, id) # {}
  PROVE  \E i \in DOMAIN c.machines : c.machines[i].id = id /\ Found(c, id) = {i} /\ (CHOOSE j \in Found(c, id) : TRUE) = i
<1>1. PICK i \in DOMAIN c.machines : c.machines[i].id = id
  BY DEF Found
<1>2. Found(c, id) = {i}
  BY <1>1, FoundOnce
<1> QED
  BY <1>1, <1>2

LEMMA CountUp == \A n \in Nat : /\ IsFiniteSet(1..n) /\ Cardinality(1..n) = n
                              /\ IsFiniteSet(1..n + 1) /\ Cardinality(1..n + 1) = n + 1
<1> TAKE n \in Nat
<1>1. 1 \in Int /\ n \in Int /\ n + 1 \in Int
  OBVIOUS
<1>2. IsFiniteSet(1..n) /\ Cardinality(1..n) = IF 1 > n THEN 0 ELSE n - 1 + 1
  BY <1>1, FS_Interval
<1>3. IsFiniteSet(1..n + 1) /\ Cardinality(1..n + 1) = IF 1 > n + 1 THEN 0 ELSE n + 1 - 1 + 1
  BY <1>1, FS_Interval
<1> QED
  BY <1>2, <1>3

LEMMA IdsCount ==
  ASSUME NEW c, WellFormed(c)
  PROVE  Cardinality(Ids(c)) = Len(c.machines)
<1> DEFINE n == Len(c.machines)
           f == [i \in 1..n |-> c.machines[i].id]
<1>1. n \in Nat /\ DOMAIN c.machines = 1..n
  BY UsableIs
<1>2. \A i, j \in 1..n : c.machines[i].id = c.machines[j].id => i = j
  BY <1>1 DEF WellFormed
<1>3. Ids(c) = {c.machines[i].id : i \in 1..n}
  BY <1>1 DEF Ids
<1>4. f \in Bijection(1..n, Ids(c))
  <2>1. f \in [1..n -> Ids(c)]
    BY <1>3
  <2>2. \A t \in Ids(c) : \E i \in 1..n : f[i] = t
    BY <1>3
  <2>3. \A i, j \in 1..n : f[i] = f[j] => i = j
    BY <1>2
  <2> HIDE DEF f
  <2> QED
    BY <2>1, <2>2, <2>3 DEF Bijection, Injection, Surjection, IsInjective
<1>5. IsFiniteSet(1..n) /\ Cardinality(1..n) = n
  BY <1>1, CountUp
<1> HIDE DEF f, n
<1>6. ExistsBijection(1..n, Ids(c))
  BY <1>4 DEF ExistsBijection
<1>7. Cardinality(Ids(c)) = Cardinality(1..n)
  BY <1>5, <1>6, FS_Bijection
<1> QED
  BY <1>5, <1>7 DEF n

LEMMA LowestIs ==
  ASSUME NEW T \in SUBSET Nat, T # {}
  PROVE  Lowest(T) \in T
<1>1. \E m \in T : \A k \in T : m <= k
  BY LeastNumber
<1> QED
  BY <1>1 DEF Lowest

\* There is always a number that makes an identifier of its own: there are more numbers than
\* machines (unique_machine_id(), appcfg_import_legacy_machine()).
LEMMA UniqueIs ==
  ASSUME NEW c, WellFormed(c), NEW base \in Texts
  PROVE  UniqueId(c, base) \in Texts \X Nat /\ Found(c, UniqueId(c, base)) = {}
<1> DEFINE n == Len(c.machines)
           Free == {k \in 1..n + 1 : Found(c, <<base, k>>) = {}}
<1>1. n \in Nat /\ DOMAIN c.machines = 1..n
  BY UsableIs
<1>2. Free # {}
  <2> SUFFICES ASSUME \A k \in 1..n + 1 : Found(c, <<base, k>>) # {} PROVE FALSE
    OBVIOUS
  <2> DEFINE f == [k \in 1..n + 1 |-> CHOOSE i \in Found(c, <<base, k>>) : TRUE]
  <2>1. ASSUME NEW k \in 1..n + 1 PROVE f[k] \in 1..n /\ c.machines[f[k]].id = <<base, k>>
    <3>1. f[k] \in Found(c, <<base, k>>)
      OBVIOUS
    <3> QED
      BY <1>1, <3>1 DEF Found
  <2>2. f \in [1..n + 1 -> 1..n]
    BY <2>1
  <2>3. IsFiniteSet(1..n) /\ Cardinality(1..n) = n /\ IsFiniteSet(1..n + 1) /\ Cardinality(1..n + 1) = n + 1
    BY <1>1, CountUp
  <2> HIDE DEF f
  <2>4. PICK x, y \in 1..n + 1 : x # y /\ f[x] = f[y]
    <3>1. Cardinality(1..n) < Cardinality(1..n + 1)
      BY <1>1, <2>3
    <3> HIDE DEF n
    <3> QED
      BY <2>2, <2>3, <3>1, FS_PigeonHole
  <2>5. <<base, x>> = <<base, y>>
    BY <2>1, <2>4
  <2> QED
    BY <2>4, <2>5
<1>3. PICK m \in Free : \A k \in Free : m <= k
  <2>1. Free \in SUBSET Nat
    BY <1>1
  <2> HIDE DEF Free
  <2> QED
    BY <1>2, <2>1, LeastNumber
<1>4. \A k \in 1..m - 1 : Found(c, <<base, k>>) # {}
  <2> TAKE k \in 1..m - 1
  <2>1. k \in 1..n + 1 /\ ~(m <= k)
    BY <1>1, <1>3
  <2> QED
    BY <1>3, <2>1
<1>5. \E k \in 1..n + 1 : Found(c, <<base, k>>) = {} /\ \A j \in 1..k - 1 : Found(c, <<base, j>>) # {}
  BY <1>3, <1>4
<1> DEFINE u == CHOOSE k \in 1..n + 1 : Found(c, <<base, k>>) = {} /\ \A j \in 1..k - 1 : Found(c, <<base, j>>) # {}
<1>6. u \in 1..n + 1 /\ Found(c, <<base, u>>) = {}
  <2> HIDE DEF n, Free
  <2> QED
    BY <1>5
<1>7. UniqueId(c, base) = <<base, u>>
  BY Zenon DEF UniqueId
<1> HIDE DEF u
<1>8. u \in Nat
  BY <1>1, <1>6
<1> QED
  BY <1>6, <1>7, <1>8

LEMMA AddedUsable ==
  ASSUME NEW c, Usable(c), NEW m \in CfgMachines, Accepted(m), Found(c, m.id) = {}
  PROVE  /\ Usable(Added(c, m)) /\ Added(c, m).active = c.active
         /\ Len(c.machines) + 1 \in DOMAIN Added(c, m).machines /\ Added(c, m).machines[Len(c.machines) + 1] = m
<1> DEFINE d == Added(c, m)
           n == Len(c.machines)
<1>1. /\ c = [machines |-> c.machines, active |-> c.active] /\ c.machines \in Seq(CfgMachines)
      /\ n \in Nat \ {0} /\ DOMAIN c.machines = 1..n
  BY UsableIs DEF Usable
<1>2. d = [machines |-> Append(c.machines, m), active |-> c.active]
  <2>1. c = [machines |-> c.machines, active |-> c.active]
    BY <1>1
  <2>2. \A ms : [c EXCEPT !.machines = ms] = [machines |-> ms, active |-> c.active]
    BY <2>1
  <2>3. d = [c EXCEPT !.machines = Append(c.machines, m)]
    BY Zenon DEF Added
  <2> QED
    BY <2>2, <2>3
<1>3. d.machines = Append(c.machines, m) /\ d.active = c.active
  BY <1>2
<1>4. /\ d.machines \in Seq(CfgMachines) /\ DOMAIN d.machines = 1..n + 1 /\ d.machines # <<>>
      /\ \A i \in 1..n : d.machines[i] = c.machines[i]
      /\ d.machines[n + 1] = m
  BY <1>1, <1>3
<1>5. \A i \in 1..n : c.machines[i].id # m.id
  BY <1>1 DEF Found
<1>6. c.active \in Texts \X Nat /\ \A i, j \in 1..n : c.machines[i].id = c.machines[j].id => i = j
  BY <1>1 DEF Usable, WellFormed
<1> HIDE DEF d
<1>7. \A i, j \in 1..n + 1 : d.machines[i].id = d.machines[j].id => i = j
  <2> TAKE i, j \in 1..n + 1
  <2>1. (i \in 1..n \/ i = n + 1) /\ (j \in 1..n \/ j = n + 1)
    BY <1>1
  <2> HIDE DEF n
  <2> QED
    BY <1>4, <1>5, <1>6, <2>1
<1>8. \A i \in 1..n + 1 : Accepted(d.machines[i])
  <2> TAKE i \in 1..n + 1
  <2>1. i \in 1..n \/ i = n + 1
    BY <1>1
  <2> QED
    BY <1>1, <1>4, <2>1 DEF Usable
<1>9. WellFormed(d)
  BY <1>2, <1>4, <1>6, <1>7 DEF WellFormed
<1> QED
  BY <1>1, <1>3, <1>4, <1>8, <1>9 DEF d, Usable

LEMMA WithoutUsable ==
  ASSUME NEW c, Usable(c), NEW id, Found(c, id) # {}, Len(c.machines) > 1
  PROVE  Usable(Without(c, id)) /\ \A x \in Texts \X Nat : Usable([Without(c, id) EXCEPT !.active = x])
<1> DEFINE d == Without(c, id)
           n == Len(c.machines)
<1>1. /\ n \in Nat \ {0} /\ DOMAIN c.machines = 1..n
      /\ \A i \in DOMAIN c.machines : c.machines[i] \in CfgMachines
  BY UsableIs DEF Usable
<1>2. PICK spot \in 1..n : (CHOOSE i \in Found(c, id) : TRUE) = spot
  BY <1>1, FoundIs DEF Usable
<1> DEFINE rest == [i \in 1..n - 1 |-> c.machines[IF i < spot THEN i ELSE i + 1]]
<1>3. d = [machines |-> rest, active |-> IF c.active # id THEN c.active ELSE IF rest = <<>> THEN NoId ELSE rest[1].id]
  <2> DEFINE a == CHOOSE i \in Found(c, id) : TRUE
             r(x) == [i \in 1..n - 1 |-> c.machines[IF i < x THEN i ELSE i + 1]]
             w(x) == [machines |-> r(x), active |-> IF c.active # id THEN c.active ELSE IF r(x) = <<>> THEN NoId ELSE r(x)[1].id]
  <2>1. d = w(a)
    BY Zenon DEF Without
  <2>2. a = spot
    BY <1>2
  <2> HIDE DEF a
  <2>3. w(a) = w(spot)
    BY <2>2
  <2> QED
    BY <2>1, <2>3
<1>4. ASSUME NEW i \in 1..n - 1
      PROVE  rest[i] = c.machines[IF i < spot THEN i ELSE i + 1] /\ (IF i < spot THEN i ELSE i + 1) \in 1..n
  BY <1>1
<1>5. \A i \in 1..n - 1 : rest[i] \in CfgMachines /\ Accepted(rest[i])
  BY <1>1, <1>4 DEF Usable
<1>6. rest \in Seq(CfgMachines) /\ DOMAIN rest = 1..n - 1 /\ rest # <<>>
  <2>1. rest \in [1..n - 1 -> CfgMachines] /\ 1 \in DOMAIN rest
    BY <1>1, <1>5
  <2>2. n - 1 \in Nat
    BY <1>1
  <2>3. rest \in Seq(CfgMachines) /\ DOMAIN rest = 1..n - 1
    <3> HIDE DEF rest, n
    <3> QED
      BY <2>1, <2>2, GivenSeq
  <2>4. rest # <<>>
    <3> HIDE DEF rest
    <3> QED
      BY <2>1
  <2> QED
    BY <2>3, <2>4
<1>7. \A i, j \in 1..n - 1 : rest[i].id = rest[j].id => i = j
  <2> TAKE i, j \in 1..n - 1
  <2>1. \A k, l \in 1..n : c.machines[k].id = c.machines[l].id => k = l
    BY <1>1 DEF Usable, WellFormed
  <2>2. rest[i].id = rest[j].id => (IF i < spot THEN i ELSE i + 1) = (IF j < spot THEN j ELSE j + 1)
    BY <1>4, <2>1
  <2>3. (IF i < spot THEN i ELSE i + 1) = (IF j < spot THEN j ELSE j + 1) => i = j
    BY <1>1
  <2> QED
    BY <2>2, <2>3
<1> HIDE DEF rest
<1>8. (IF c.active # id THEN c.active ELSE IF rest = <<>> THEN NoId ELSE rest[1].id) \in Texts \X Nat
  <2>1. 1 \in 1..n - 1
    BY <1>1
  <2>2. rest[1].id \in Texts \X Nat
    BY <2>1, <1>5, MachineIs
  <2>3. c.active \in Texts \X Nat
    BY DEF Usable, WellFormed
  <2> QED
    BY <1>6, <2>2, <2>3
<1>9. ASSUME NEW x \in Texts \X Nat PROVE Usable([machines |-> rest, active |-> x])
  <2> DEFINE e == [machines |-> rest, active |-> x]
  <2>1. e \in [machines : Seq(CfgMachines), active : Texts \X Nat] /\ e.machines = rest
    BY <1>6
  <2> HIDE DEF e
  <2>2. WellFormed(e)
    BY <1>6, <1>7, <2>1 DEF WellFormed
  <2> HIDE DEF n
  <2>3. Usable(e)
    BY <1>5, <1>6, <2>1, <2>2 DEF Usable
  <2> QED
    BY <2>3 DEF e
<1> HIDE DEF d
<1>10. Usable(d)
  BY <1>3, <1>8, <1>9
<1>11. \A x : [d EXCEPT !.active = x] = [machines |-> rest, active |-> x]
  BY <1>3
<1> QED
  BY <1>9, <1>10, <1>11 DEF d

\* Machines changed, and another one active.
LEMMA MachinesChanged ==
  ASSUME NEW c, Usable(c), NEW ms \in [DOMAIN c.machines -> CfgMachines],
         \A i \in DOMAIN c.machines : Accepted(ms[i]) /\ ms[i].id = c.machines[i].id
  PROVE  LET d == [c EXCEPT !.machines = ms]
         IN /\ Usable(d) /\ d.active = c.active /\ d.machines = ms
            /\ \A id : Found(d, id) = Found(c, id)
<1> DEFINE d == [c EXCEPT !.machines = ms]
           n == Len(c.machines)
<1>1. /\ c = [machines |-> c.machines, active |-> c.active]
      /\ n \in Nat \ {0} /\ DOMAIN c.machines = 1..n /\ 1 \in DOMAIN c.machines
  BY UsableIs DEF Usable
<1>2. d = [machines |-> ms, active |-> c.active]
  BY <1>1
<1>3. ms \in Seq(CfgMachines) /\ ms # <<>> /\ DOMAIN ms = 1..n
  BY <1>1, GivenSeq
<1>4. c.active \in Texts \X Nat /\ \A k, j \in DOMAIN c.machines : c.machines[k].id = c.machines[j].id => k = j
  BY DEF Usable, WellFormed
<1> HIDE DEF d
<1>5. d.machines = ms /\ d.active = c.active
  BY <1>2
<1>6. WellFormed(d)
  BY <1>1, <1>2, <1>3, <1>4, <1>5 DEF WellFormed
<1>7. \A id : Found(d, id) = Found(c, id)
  BY <1>1, <1>3, <1>5 DEF Found
<1>8. Usable(d)
  BY <1>1, <1>3, <1>5, <1>6 DEF Usable
<1> QED
  BY <1>5, <1>7, <1>8, Zenon DEF d

LEMMA ChangedUsable ==
  ASSUME NEW c, Usable(c), NEW i \in DOMAIN c.machines, NEW m \in CfgMachines, Accepted(m), m.id = c.machines[i].id
  PROVE  LET d == [c EXCEPT !.machines[i] = m]
         IN /\ Usable(d) /\ d.active = c.active /\ d.machines[i] = m
            /\ \A id : Found(d, id) = Found(c, id)
<1> DEFINE ms == [c.machines EXCEPT ![i] = m]
           d == [c EXCEPT !.machines = ms]
<1>1. /\ c = [machines |-> c.machines, active |-> c.active]
      /\ \A j \in DOMAIN c.machines : c.machines[j] \in CfgMachines
      /\ c.machines = [j \in 1..Len(c.machines) |-> c.machines[j]] /\ DOMAIN c.machines = 1..Len(c.machines)
  BY UsableIs DEF Usable
<1>2. ms \in [DOMAIN c.machines -> CfgMachines] /\ ms[i] = m /\ \A j \in DOMAIN c.machines : j # i => ms[j] = c.machines[j]
  BY <1>1
<1>3. \A j \in DOMAIN c.machines : Accepted(ms[j]) /\ ms[j].id = c.machines[j].id
  BY <1>2 DEF Usable
<1>4. [c EXCEPT !.machines[i] = m] = d
  BY <1>1
<1> HIDE DEF ms
<1>5. Usable(d) /\ d.active = c.active /\ d.machines = ms /\ \A id : Found(d, id) = Found(c, id)
  BY <1>2, <1>3, MachinesChanged, Zenon
<1> HIDE DEF d
<1> QED
  BY <1>2, <1>4, <1>5

LEMMA ChosenUsable ==
  ASSUME NEW c, Usable(c), NEW id \in Texts \X Nat
  PROVE  LET d == [c EXCEPT !.active = id]
         IN /\ Usable(d) /\ d.machines = c.machines /\ d.active = id
            /\ \A x : Found(d, x) = Found(c, x)
<1> DEFINE d == [c EXCEPT !.active = id]
<1>1. c = [machines |-> c.machines, active |-> c.active]
  BY UsableIs DEF Usable
<1>2. d = [machines |-> c.machines, active |-> id]
  BY <1>1
<1> HIDE DEF d
<1>3. d.machines = c.machines /\ d.active = id
  BY <1>2
<1>4. WellFormed(d)
  BY <1>2, <1>3 DEF WellFormed, Usable
<1>5. Usable(d)
  BY <1>3, <1>4 DEF Usable
<1>6. \A x : Found(d, x) = Found(c, x)
  BY <1>3 DEF Found
<1> QED
  BY <1>3, <1>5, <1>6, Zenon DEF d

-----------------------------------------------------------------------------
(* Machines that are edited.                                               *)

Fits(m) == m \in CfgMachines /\ Accepted(m)

\* What is selected is there.
Placed(m, s) ==
  /\ s \in ({-1} \cup CfgChans) \X ({-1} \cup CfgDevs) /\ (s[1] >= 0 => m.chan[s[1]] # Nothing)
  /\ (s[2] >= 0 => s[1] >= 0 /\ m.dev[s].type # Nothing)

LEMMA MachineMade ==
  ASSUME NEW m, Fits(m), NEW id \in Texts \X Nat, NEW set \in Texts, NEW chan \in [CfgChans -> ChanTypes \cup {Nothing}],
         NEW dev \in [Places -> CfgDevices],
         \A p \in Places : dev[p].type # Nothing => dev[p].type \in MayHold(chan[p[1]])
  PROVE  Fits([id |-> id, setting |-> set, chan |-> chan, dev |-> dev])
<1> DEFINE r == [id |-> id, setting |-> set, chan |-> chan, dev |-> dev]
<1>1. r \in CfgMachines /\ r.chan = chan /\ r.dev = dev
  BY DEF CfgMachines
<1> HIDE DEF r
<1>2. Accepted(r)
  BY <1>1 DEF Accepted
<1> QED
  BY <1>1, <1>2 DEF Fits, r

\* Channels and devices changed together.
LEMMA BothChanged ==
  ASSUME NEW m, Fits(m), NEW c, NEW d
  PROVE  [m EXCEPT !.chan = c, !.dev = d] = [id |-> m.id, setting |-> m.setting, chan |-> c, dev |-> d]
<1> DEFINE a == [m EXCEPT !.chan = c]
<1>1. [m EXCEPT !.chan = c, !.dev = d] = [a EXCEPT !.dev = d]
  OBVIOUS
<1>2. m = [id |-> m.id, setting |-> m.setting, chan |-> m.chan, dev |-> m.dev]
  BY MachineIs DEF Fits
<1>3. a = [id |-> m.id, setting |-> m.setting, chan |-> c, dev |-> m.dev]
  BY <1>2
<1> HIDE DEF a
<1>4. [a EXCEPT !.dev = d] = [id |-> m.id, setting |-> m.setting, chan |-> c, dev |-> d]
  BY <1>3
<1> QED
  BY <1>1, <1>4

\* One device changed.
LEMMA DeviceChanged ==
  ASSUME NEW m, Fits(m), NEW p \in Places, NEW d \in CfgDevices, d.type # Nothing => d.type \in MayHold(m.chan[p[1]])
  PROVE  LET r == [m EXCEPT !.dev[p] = d]
         IN Fits(r) /\ r.id = m.id /\ r.chan = m.chan /\ r.dev = [m.dev EXCEPT ![p] = d]
<1> DEFINE r == [m EXCEPT !.dev[p] = d]
           dev == [m.dev EXCEPT ![p] = d]
<1>1. /\ m = [id |-> m.id, setting |-> m.setting, chan |-> m.chan, dev |-> m.dev]
      /\ m.id \in Texts \X Nat /\ m.setting \in Texts
      /\ m.chan \in [CfgChans -> ChanTypes \cup {Nothing}] /\ m.dev \in [Places -> CfgDevices]
  BY MachineIs DEF Fits
<1>2. r = [id |-> m.id, setting |-> m.setting, chan |-> m.chan, dev |-> dev]
  BY <1>1
<1>3. dev \in [Places -> CfgDevices] /\ dev[p] = d /\ \A q \in Places : q # p => dev[q] = m.dev[q]
  BY <1>1
<1> HIDE DEF dev, r
<1>4. \A q \in Places : dev[q].type # Nothing => dev[q].type \in MayHold(m.chan[q[1]])
  BY <1>3 DEF Fits, Accepted
<1>5. Fits(r)
  BY <1>1, <1>2, <1>3, <1>4, MachineMade
<1>6. r.id = m.id /\ r.chan = m.chan /\ r.dev = dev
  BY <1>2
<1> QED
  BY <1>5, <1>6 DEF r, dev

LEMMA ImagePaths == WithPath \subseteq Types /\ WithImage \subseteq WithPath /\ Nothing \notin WithPath
BY DEF WithPath, WithImage, Types, Nothing

\* Another image, or whatever else stands for a path.
LEMMA PathChanged ==
  ASSUME NEW m, Fits(m), NEW p \in Places, m.dev[p].type \in WithPath, NEW path \in Texts
  PROVE  LET r == [m EXCEPT !.dev[p].path = path]
         IN Fits(r) /\ r.id = m.id /\ r.chan = m.chan /\ \A q \in Places : r.dev[q].type = m.dev[q].type
<1> DEFINE e == m.dev[p]
           d == [type |-> e.type, path |-> path, speed |-> e.speed]
           r == [m EXCEPT !.dev[p].path = path]
<1>1. m.dev \in [Places -> CfgDevices] /\ m = [id |-> m.id, setting |-> m.setting, chan |-> m.chan, dev |-> m.dev]
  BY MachineIs DEF Fits
<1>2. /\ e = [type |-> e.type, path |-> e.path, speed |-> e.speed] /\ e.type \in Types \cup {Nothing}
      /\ e.speed \in Int /\ (e.type # "terminal" => e.speed = 0)
  BY <1>1, DeviceIs
<1>3. d \in CfgDevices /\ d.type = e.type
  BY <1>2, DeviceFits
<1>4. [e EXCEPT !.path = path] = d
  BY <1>2
<1>5. r = [m EXCEPT !.dev[p] = [e EXCEPT !.path = path]]
  BY <1>1
<1> HIDE DEF d, r
<1>6. r = [m EXCEPT !.dev[p] = d]
  BY <1>4, <1>5
<1>7. d.type # Nothing => d.type \in MayHold(m.chan[p[1]])
  BY <1>3 DEF Fits, Accepted
<1>8. Fits(r) /\ r.id = m.id /\ r.chan = m.chan /\ r.dev = [m.dev EXCEPT ![p] = d]
  BY <1>3, <1>6, <1>7, DeviceChanged
<1>9. \A q \in Places : r.dev[q].type = m.dev[q].type
  BY <1>1, <1>3, <1>8
<1> QED
  BY <1>8, <1>9 DEF r

LEMMA ImageChanged ==
  ASSUME NEW m, Fits(m), NEW p \in Places, NEW path \in Texts
  PROVE  LET r == ImageSet(m, p, path)
         IN Fits(r) /\ r.id = m.id /\ r.chan = m.chan /\ \A q \in Places : r.dev[q].type = m.dev[q].type
<1>1. CASE SetsImage(m, p, path)
  <2>1. m.dev[p].type \in WithPath
    BY <1>1, ImagePaths DEF SetsImage
  <2>2. ImageSet(m, p, path) = [m EXCEPT !.dev[p].path = path]
    BY <1>1, Zenon DEF ImageSet
  <2> QED
    BY <2>1, <2>2, PathChanged
<1>2. CASE ~SetsImage(m, p, path)
  BY <1>2 DEF ImageSet
<1> QED
  BY <1>1, <1>2

LEMMA PlacedStays ==
  ASSUME NEW m, NEW r, NEW s, Placed(m, s), r.chan = m.chan, \A q \in Places : r.dev[q].type = m.dev[q].type
  PROVE  Placed(r, s)
<1>1. s[2] >= 0 => s \in Places
  BY AppCfgAssumption DEF Placed, Places
<1> QED
  BY <1>1 DEF Placed

-----------------------------------------------------------------------------
(* What holds of the configuration at every moment.                        *)

\* The next start can read the file, and it says what was saved last.
FileRight(f, c) == WellFormed(Loaded(f)) /\ (c # NoConfig => f = Written(c) /\ Usable(c))

\* The dialog's machine is in its copy, and what is selected is there.
CopyRight(c, id, s) ==
  c # NoConfig => Usable(c) /\ Found(c, id) # {} /\ Placed(c.machines[CHOOSE i \in Found(c, id) : TRUE], s)

ConfigInv ==
  /\ program \in {"down", "loading", "up"} /\ legacy \in Legacies
  /\ FileRight(file, saved)
  /\ (program = "up" => Usable(cfg))
  /\ (work # NoConfig => program = "up")
  /\ CopyRight(work, current, sel)

Saves(c) == Save(c) \/ SaveRefused \/ SaveCut(c)

LEMMA SavedRight ==
  ASSUME NEW c, Usable(c), FileRight(file, saved), Saves(c)
  PROVE  FileRight(file', saved')
<1>1. CASE Save(c)
  <2>1. file' = Written(c) /\ saved' = c
    BY <1>1 DEF Save
  <2>2. WellFormed(Loaded(Written(c)))
    BY WrittenLoads DEF Usable
  <2> QED
    BY <2>1, <2>2 DEF FileRight
<1>2. CASE SaveRefused
  <2>1. file' = file /\ saved' = saved
    BY <1>2 DEF SaveRefused
  <2> QED
    BY <2>1 DEF FileRight
<1>3. CASE SaveCut(c)
  <2>1. file' \in Cuts(Written(c)) /\ saved' = NoConfig
    BY <1>3 DEF SaveCut
  <2>2. WellFormed(Loaded(file'))
    BY <2>1, CutsLoad
  <2> QED
    BY <2>1, <2>2 DEF FileRight
<1> QED
  BY <1>1, <1>2, <1>3 DEF Saves

LEMMA ActiveIs ==
  ASSUME NEW c, Usable(c)
  PROVE  /\ ActiveAt(c) \in DOMAIN c.machines /\ Active(c) = c.machines[ActiveAt(c)] /\ Fits(Active(c))
         /\ Found(c, Active(c).id) # {}
<1>1. ActiveAt(c) \in DOMAIN c.machines
  <2>1. CASE Found(c, c.active) = {}
    BY <2>1, UsableIs DEF ActiveAt, Usable
  <2>2. CASE Found(c, c.active) # {}
    BY <2>2, FoundIs DEF ActiveAt, Usable
  <2> QED
    BY <2>1, <2>2
<1>2. Active(c) = c.machines[ActiveAt(c)]
  BY DEF Active
<1>3. Fits(Active(c))
  <2>1. \A i \in DOMAIN c.machines : c.machines[i] \in CfgMachines /\ Accepted(c.machines[i])
    BY UsableIs DEF Usable
  <2> QED
    BY <1>1, <1>2, <2>1 DEF Fits
<1> QED
  BY <1>1, <1>2, <1>3 DEF Found

LEMMA ConfigsAre == \A c : Usable(c) => c # NoConfig
<1> TAKE c
<1>1. NoConfig.machines = <<>>
  BY DEF NoConfig
<1> QED
  BY <1>1 DEF Usable, WellFormed

LEMMA IdsAre ==
  ASSUME NEW c, Usable(c), NEW id \in Ids(c)
  PROVE  id \in Texts \X Nat /\ Found(c, id) # {}
<1>1. PICK i \in DOMAIN c.machines : id = c.machines[i].id
  BY DEF Ids
<1>2. c.machines[i] \in CfgMachines
  BY UsableIs DEF Usable
<1> QED
  BY <1>1, <1>2, MachineIs DEF Found

LEMMA ShownRight ==
  ASSUME NEW c, Usable(c), NEW id \in Texts \X Nat, Found(c, id) # {}, Shown(c, id)
  PROVE  CopyRight(work', current', sel')
<1> DEFINE d == [c EXCEPT !.active = id]
<1>1. work' = d /\ current' = id /\ sel' = NoSelection
  BY DEF Shown
<1>2. Usable(d) /\ \A x : Found(d, x) = Found(c, x)
  BY ChosenUsable, Zenon
<1> HIDE DEF d
<1>3. \A m : Placed(m, NoSelection)
  <2>1. NoSelection = <<-1, -1>> /\ NoSelection[1] = -1 /\ NoSelection[2] = -1
    BY DEF NoSelection
  <2> QED
    BY <2>1 DEF Placed
<1> QED
  BY <1>1, <1>2, <1>3 DEF CopyRight

LEMMA DialogIs ==
  ASSUME ConfigInv, Open
  PROVE  /\ Usable(work) /\ CurrentAt \in DOMAIN work.machines /\ Found(work, current) = {CurrentAt}
         /\ Fits(Mine) /\ Mine.id = current /\ Mine = work.machines[CurrentAt] /\ Placed(Mine, sel)
         /\ current \in Texts \X Nat
<1>1. Usable(work) /\ Found(work, current) # {} /\ Placed(work.machines[CurrentAt], sel)
  BY DEF ConfigInv, CopyRight, Open, CurrentAt
<1>2. CurrentAt \in DOMAIN work.machines /\ Found(work, current) = {CurrentAt} /\ work.machines[CurrentAt].id = current
  BY <1>1, FoundIs DEF CurrentAt, Usable
<1>3. Mine = work.machines[CurrentAt]
  BY DEF Mine
<1>4. Fits(Mine)
  BY <1>1, <1>2, <1>3, UsableIs DEF Fits, Usable
<1>5. current \in Texts \X Nat
  BY <1>2, <1>3, <1>4, MachineIs DEF Fits
<1> QED
  BY <1>1, <1>2, <1>3, <1>4, <1>5

LEMMA EditRight ==
  ASSUME ConfigInv, Open, NEW m, Fits(m), m.id = Mine.id, NEW s, Placed(m, s), Edit(m, s)
  PROVE  CopyRight(work', current', sel')
<1> DEFINE d == [work EXCEPT !.machines[CurrentAt] = m]
<1>1. /\ Usable(work) /\ CurrentAt \in DOMAIN work.machines /\ Found(work, current) = {CurrentAt}
      /\ Mine = work.machines[CurrentAt]
  BY DialogIs
<1>2. work' = d /\ sel' = s /\ current' = current
  BY DEF Edit
<1>3. Usable(d) /\ d.machines[CurrentAt] = m /\ Found(d, current) = Found(work, current)
  BY <1>1, ChangedUsable DEF Fits
<1> HIDE DEF d
<1>4. (CHOOSE i \in Found(d, current) : TRUE) = CurrentAt
  BY <1>3 DEF CurrentAt
<1> QED
  BY <1>1, <1>2, <1>3, <1>4 DEF CopyRight

\* The dialog's steps change nothing but its copy.
LEMMA DialogKeeps ==
  ASSUME ConfigInv, Open, UNCHANGED Outside, CopyRight(work', current', sel')
  PROVE  ConfigInv'
<1>1. /\ file' = file /\ legacy' = legacy /\ program' = program /\ cfg' = cfg /\ saved' = saved
  BY DEF Outside
<1>2. program = "up"
  BY DEF Open
<1> QED
  BY <1>1, <1>2 DEF ConfigInv

LEMMA EditKeeps ==
  ASSUME ConfigInv, Open, UNCHANGED Outside, NEW m, Fits(m), m.id = Mine.id, NEW s, Placed(m, s), Edit(m, s)
  PROVE  ConfigInv'
BY EditRight, DialogKeeps

-----------------------------------------------------------------------------
(* The program and its main window.                                        *)

LEMMA DeviceOf == \A t : Device(t) = [type |-> t, path |-> Nothing, speed |-> 0]
BY DEF Device, NoDevice

LEMMA DefaultUsable == Usable([machines |-> <<Mera400>>, active |-> Mera400.id])
<1> DEFINE id == <<"mera400", 1>>
           m0 == Machine(id)
           p0 == <<0, 0>>
           d == [Device("terminal") EXCEPT !.speed = 9600]
           chan == [c \in CfgChans |-> IF c = 0 THEN "char" ELSE Nothing]
           dev == [m0.dev EXCEPT ![p0] = d]
<1>1. id \in Texts \X Nat /\ "os" \in Texts /\ "terminal" \in Types \cup {Nothing} /\ Nothing \in Texts
  BY AppCfgAssumption, ConfigAssumption DEF Types
<1>2. d = [type |-> "terminal", path |-> Nothing, speed |-> 9600]
  BY DeviceOf
<1>3. d \in CfgDevices /\ d.type = "terminal"
  BY <1>1, <1>2, DeviceFits
<1>4. m0 \in CfgMachines /\ m0.id = id /\ Fits(m0)
  BY <1>1, MachineFits DEF Fits
<1>5. m0.dev = [p \in Places |-> NoDevice] /\ m0.dev \in [Places -> CfgDevices]
  BY <1>4, MachineIs DEF Machine
<1>6. NoDevice.type = Nothing
  BY DEF NoDevice
<1>7. m0 = [id |-> m0.id, setting |-> m0.setting, chan |-> m0.chan, dev |-> m0.dev]
  BY <1>4, MachineIs
<1> HIDE DEF d, m0, id
<1>8. Mera400 = [id |-> id, setting |-> "os", chan |-> chan, dev |-> dev]
  <2>1. Mera400 = [m0 EXCEPT !.setting = "os", !.chan = chan, !.dev[p0] = d]
    BY Zenon DEF Mera400, m0, d, id
  <2>2. [m0 EXCEPT !.setting = "os", !.chan = chan, !.dev[p0] = d] = [id |-> m0.id, setting |-> "os", chan |-> chan, dev |-> dev]
    <3> HIDE DEF chan, dev
    <3> DEFINE a == [m0 EXCEPT !.setting = "os"]
               b == [a EXCEPT !.chan = chan]
    <3>1. [m0 EXCEPT !.setting = "os", !.chan = chan, !.dev[p0] = d] = [b EXCEPT !.dev[p0] = d]
      OBVIOUS
    <3>2. a = [id |-> m0.id, setting |-> "os", chan |-> m0.chan, dev |-> m0.dev]
      BY <1>7
    <3> HIDE DEF a
    <3>3. b = [id |-> m0.id, setting |-> "os", chan |-> chan, dev |-> m0.dev]
      BY <3>2
    <3> HIDE DEF b
    <3>4. [b EXCEPT !.dev[p0] = d] = [id |-> m0.id, setting |-> "os", chan |-> chan, dev |-> [m0.dev EXCEPT ![p0] = d]]
      BY <3>3
    <3> QED
      BY <3>1, <3>4, Zenon DEF dev
  <2> QED
    BY <1>4, <2>1, <2>2
<1>9. chan \in [CfgChans -> ChanTypes \cup {Nothing}]
  BY DEF ChanTypes
<1>10. dev \in [Places -> CfgDevices]
  BY <1>3, <1>5
<1>11. ASSUME NEW p \in Places, dev[p].type # Nothing PROVE dev[p].type \in MayHold(chan[p[1]])
  <2>1. p = p0
    BY <1>5, <1>6, <1>11
  <2>2. dev[p] = d /\ p[1] = 0 /\ p[1] \in CfgChans
    BY <1>5, <2>1 DEF Places
  <2>3. chan[p[1]] = "char"
    BY <2>2
  <2>4. "terminal" \in MayHold("char")
    BY DEF MayHold
  <2> QED
    BY <1>3, <2>2, <2>3, <2>4
<1> HIDE DEF chan, dev
<1>12. Fits(Mera400)
  BY <1>1, <1>4, <1>8, <1>9, <1>10, <1>11, MachineMade
<1>13. Mera400.id \in Texts \X Nat
  BY <1>1, <1>8
<1> DEFINE c == [machines |-> <<Mera400>>, active |-> Mera400.id]
<1>14. WellFormed(c)
  BY <1>12, <1>13, OneMachine DEF Fits
<1>15. c.machines = <<Mera400>>
  OBVIOUS
<1> HIDE DEF c
<1>16. \A i \in DOMAIN c.machines : Accepted(c.machines[i])
  BY <1>12, <1>15 DEF Fits
<1>17. Usable(c)
  BY <1>14, <1>16 DEF Usable
<1> QED
  BY <1>17 DEF c

LEMMA DefaultKeeps == ConfigInv /\ WriteDefault => ConfigInv'
<1> SUFFICES ASSUME ConfigInv, WriteDefault PROVE ConfigInv'
  OBVIOUS
<1> DEFINE c == [machines |-> <<Mera400>>, active |-> Mera400.id]
<1>1. DefaultFile = Written(c) /\ Usable(c)
  BY DefaultUsable DEF DefaultFile
<1> HIDE DEF c
<1>2. saved = NoConfig
  <2>1. NoFile.sections = <<>>
    BY DEF NoFile, File
  <2>2. file = NoFile
    BY DEF WriteDefault
  <2>3. Usable(saved) => Written(saved).sections # <<>>
    BY WrittenLoads
  <2> QED
    BY <2>1, <2>2, <2>3 DEF ConfigInv, FileRight
<1>3. WellFormed(Loaded(Written(c))) /\ \A f \in Cuts(Written(c)) : WellFormed(Loaded(f))
  BY <1>1, WrittenLoads, CutsLoad DEF Usable
<1>4. WellFormed(Loaded(file')) /\ saved' = NoConfig
  BY <1>1, <1>2, <1>3 DEF WriteDefault
<1>5. program = "down" /\ program' \in {"down", "loading"}
  BY DEF WriteDefault
<1>6. /\ legacy' = legacy /\ work' = work /\ current' = current /\ sel' = sel
  BY DEF WriteDefault, Edited
<1> QED
  BY <1>4, <1>5, <1>6 DEF ConfigInv, FileRight

LEMMA BuiltAs ==
  ASSUME NEW x, NEW keys, NEW y \in Texts \X Nat, Fits(Built([id |-> x, keys |-> keys]))
  PROVE  Fits(Built([id |-> y, keys |-> keys])) /\ Built([id |-> y, keys |-> keys]).id = y
<1> DEFINE a == Built([id |-> x, keys |-> keys])
           b == Built([id |-> y, keys |-> keys])
<1>1. b = [id |-> y, setting |-> a.setting, chan |-> a.chan, dev |-> a.dev]
  BY DEF Built
<1> HIDE DEF a, b
<1>2. /\ a.setting \in Texts /\ a.chan \in [CfgChans -> ChanTypes \cup {Nothing}] /\ a.dev \in [Places -> CfgDevices]
      /\ Fits(a)
  BY MachineIs DEF Fits, a
<1>3. \A p \in Places : a.dev[p].type # Nothing => a.dev[p].type \in MayHold(a.chan[p[1]])
  BY <1>2 DEF Fits, Accepted
<1>4. Fits(b)
  BY <1>1, <1>2, <1>3, MachineMade
<1> QED
  BY <1>1, <1>4 DEF b

LEMMA LegacyUsable ==
  ASSUME NEW c, Usable(c), NEW f, Fits(Built([id |-> Imported, keys |-> f.old]))
  PROVE  Usable(WithLegacy(c, f))
<1> DEFINE u == UniqueId(c, "imported")
           m == Built([id |-> u, keys |-> f.old])
<1>1. u \in Texts \X Nat /\ Found(c, u) = {}
  BY UniqueIs, AppCfgAssumption DEF Usable
<1> HIDE DEF u
<1>2. Fits(m) /\ m.id = u
  BY <1>1, BuiltAs
<1> HIDE DEF m
<1>3. Usable(Added(c, m))
  BY <1>1, <1>2, AddedUsable DEF Fits
<1>4. Usable([Added(c, m) EXCEPT !.active = m.id])
  BY <1>1, <1>2, <1>3, ChosenUsable
<1> QED
  BY <1>4 DEF WithLegacy, m, u

LEMMA OverrideUsable ==
  ASSUME NEW c, Usable(c), NEW d \in Override(c)
  PROVE  Usable(d)
<1>1. CASE d = c
  BY <1>1
<1>2. CASE d # c
  <2>1. PICK id \in Ids(c) : d = [c EXCEPT !.active = id]
    BY <1>2 DEF Override, Ids
  <2> QED
    BY <2>1, IdsAre, ChosenUsable
<1> QED
  BY <1>1, <1>2

LEMMA LoadKeeps == ConfigInv /\ LoadConfig => ConfigInv'
<1> SUFFICES ASSUME ConfigInv, LoadConfig PROVE ConfigInv'
  OBVIOUS
<1> DEFINE read == IF importing THEN WithLegacy(Loaded(file), legacy) ELSE Loaded(file)
<1>1. Usable(Loaded(file))
  BY DEF LoadConfig, Loadable, Usable, ConfigInv, FileRight
<1>2. Usable(read)
  <2>1. CASE importing
    <3>1. Fits(Built([id |-> Imported, keys |-> legacy.old]))
      BY <2>1, ConfigAssumption DEF LoadConfig, ConfigInv, Fits
    <3> QED
      BY <1>1, <2>1, <3>1, LegacyUsable
  <2>2. CASE ~importing
    BY <1>1, <2>2
  <2> QED
    BY <2>1, <2>2
<1>3. PICK c \in Override(read) :
        \/ cfg' = c /\ program' = "up" /\ IF importing THEN Save(c) ELSE SaveRefused
        \/ importing /\ SaveRefused /\ program' = "down" /\ UNCHANGED cfg
        \/ importing /\ SaveCut(c) /\ program' = "up" /\ cfg' = c
  BY Zenon DEF LoadConfig
<1> HIDE DEF read
<1>4. Usable(c) /\ Saves(c)
  BY <1>2, <1>3, OverrideUsable DEF Saves
<1>5. FileRight(file', saved')
  BY <1>4, SavedRight DEF ConfigInv
<1>6. program' \in {"up", "down"} /\ (program' = "up" => Usable(cfg'))
  BY <1>3, <1>4
<1>7. program = "loading" /\ legacy' = legacy /\ work' = work /\ current' = current /\ sel' = sel
  BY DEF LoadConfig, Edited
<1> QED
  BY <1>5, <1>6, <1>7 DEF ConfigInv

LEMMA ImageKeeps ==
  ASSUME ConfigInv, NEW p \in Places, NEW path \in Images \cup {Nothing}, SetDiskImage(p, path)
  PROVE  ConfigInv'
<1>1. path \in Texts
  BY AppCfgAssumption, ConfigAssumption
<1>2. program = "up" /\ program' = program /\ legacy' = legacy /\ current' = current /\ sel' = sel /\ Usable(cfg)
  BY DEF SetDiskImage, ConfigInv
<1>3. Usable(cfg')
  <2> DEFINE m == cfg.machines[ActiveAt(cfg)]
  <2>1. ActiveAt(cfg) \in DOMAIN cfg.machines /\ Fits(m)
    BY <1>2, ActiveIs
  <2>2. Fits(ImageSet(m, p, path)) /\ ImageSet(m, p, path).id = m.id
    BY <1>1, <2>1, ImageChanged
  <2>3. cfg' = [cfg EXCEPT !.machines[ActiveAt(cfg)] = ImageSet(m, p, path)]
    <3>1. cfg' = [cfg EXCEPT !.machines[ActiveAt(cfg)] = ImageSet(@, p, path)]
      BY Zenon DEF SetDiskImage
    <3>2. cfg = [machines |-> cfg.machines, active |-> cfg.active]
      BY <1>2, UsableIs DEF Usable
    <3> QED
      BY <3>1, <3>2
  <2> QED
    BY <1>2, <2>1, <2>2, <2>3, ChangedUsable DEF Fits
<1>4. FileRight(file', saved')
  <2>1. Saves(cfg')
    BY Zenon DEF SetDiskImage, Saves
  <2> QED
    BY <1>3, <2>1, SavedRight DEF ConfigInv
<1>5. CASE work = NoConfig
  <2>1. work' = work
    BY <1>5 DEF SetDiskImage
  <2> QED
    BY <1>2, <1>3, <1>4, <1>5, <2>1 DEF ConfigInv, CopyRight
<1>6. CASE work # NoConfig
  <2> DEFINE new(i) == IF work.machines[i].id = cfg.active THEN ImageSet(work.machines[i], p, path) ELSE work.machines[i]
             ms == [i \in DOMAIN work.machines |-> new(i)]
             d == [work EXCEPT !.machines = ms]
  <2>1. /\ Usable(work) /\ CurrentAt \in DOMAIN work.machines /\ Found(work, current) = {CurrentAt}
        /\ Mine = work.machines[CurrentAt] /\ Placed(Mine, sel)
    BY <1>2, <1>6, DialogIs DEF Open
  <2>2. work' = d
    BY <1>6 DEF SetDiskImage
  <2>3. ASSUME NEW i \in DOMAIN work.machines
        PROVE  LET m == work.machines[i] IN
               Fits(new(i)) /\ new(i).id = m.id /\ new(i).chan = m.chan /\ \A q \in Places : new(i).dev[q].type = m.dev[q].type
    <3>1. Fits(work.machines[i])
      BY <2>1, UsableIs DEF Usable, Fits
    <3> QED
      BY <1>1, <3>1, ImageChanged
  <2>4. ms \in [DOMAIN work.machines -> CfgMachines] /\ ms[CurrentAt] = new(CurrentAt)
        /\ \A i \in DOMAIN work.machines : Accepted(ms[i]) /\ ms[i].id = work.machines[i].id
    BY <2>1, <2>3 DEF Fits
  <2>5. Placed(new(CurrentAt), sel)
    BY <2>1, <2>3, PlacedStays
  <2> HIDE DEF ms, new
  <2>6. Usable(d) /\ d.machines = ms /\ Found(d, current) = Found(work, current)
    BY <2>1, <2>4, MachinesChanged
  <2> HIDE DEF d
  <2>7. (CHOOSE i \in Found(d, current) : TRUE) = CurrentAt
    BY <2>6 DEF CurrentAt
  <2>8. CopyRight(work', current', sel')
    BY <1>2, <2>1, <2>2, <2>4, <2>5, <2>6, <2>7 DEF CopyRight
  <2> QED
    BY <1>2, <1>3, <1>4, <2>8 DEF ConfigInv
<1> QED
  BY <1>5, <1>6

LEMMA ActiveKeeps ==
  ASSUME ConfigInv, NEW id, program = "up", id \in Ids(cfg), SetActiveMachine(id)
  PROVE  ConfigInv'
<1>1. Usable(cfg)
  BY DEF ConfigInv
<1>2. id \in Texts \X Nat
  BY <1>1, IdsAre
<1>3. cfg' = [cfg EXCEPT !.active = id] /\ Saves(cfg') /\ legacy' = legacy /\ program' = program
  BY DEF SetActiveMachine, Saves
<1>4. Usable(cfg')
  BY <1>1, <1>2, <1>3, ChosenUsable
<1>5. FileRight(file', saved')
  BY <1>3, <1>4, SavedRight DEF ConfigInv
<1>6. CopyRight(work', current', sel')
  <2>1. CASE work # NoConfig /\ Found(work, id) # {} /\ current # id
    <3>1. Shown(work, id) /\ Usable(work)
      BY <2>1 DEF SetActiveMachine, ConfigInv, CopyRight
    <3> QED
      BY <1>2, <2>1, <3>1, ShownRight
  <2>2. CASE ~(work # NoConfig /\ Found(work, id) # {} /\ current # id)
    <3>1. work' = work /\ current' = current /\ sel' = sel
      BY <2>2 DEF SetActiveMachine, Edited
    <3> QED
      BY <3>1 DEF ConfigInv
  <2> QED
    BY <2>1, <2>2
<1> QED
  BY <1>3, <1>4, <1>5, <1>6 DEF ConfigInv

-----------------------------------------------------------------------------
(* The dialog.                                                             *)

LEMMA PlacedAtChannel ==
  ASSUME NEW m, NEW c \in CfgChans, m.chan[c] # Nothing
  PROVE  Placed(m, <<c, -1>>)
<1> DEFINE s == <<c, -1>>
<1>1. s \in ({-1} \cup CfgChans) \X ({-1} \cup CfgDevs) /\ s[1] = c /\ s[2] = -1
  OBVIOUS
<1> HIDE DEF s
<1>2. Placed(m, s)
  BY <1>1 DEF Placed
<1> QED
  BY <1>2 DEF s

LEMMA PlacedAtDevice ==
  ASSUME NEW m, NEW c \in CfgChans, NEW d \in CfgDevs, m.chan[c] # Nothing, m.dev[<<c, d>>].type # Nothing
  PROVE  Placed(m, <<c, d>>)
<1> DEFINE s == <<c, d>>
<1>1. s \in ({-1} \cup CfgChans) \X ({-1} \cup CfgDevs) /\ s[1] = c
  OBVIOUS
<1>2. m.dev[s].type # Nothing /\ c >= 0
  BY AppCfgAssumption
<1> HIDE DEF s
<1>3. Placed(m, s)
  BY <1>1, <1>2 DEF Placed
<1> QED
  BY <1>3 DEF s

LEMMA NothingSelected == \A m : Placed(m, NoSelection)
<1>1. NoSelection = <<-1, -1>> /\ NoSelection[1] = -1 /\ NoSelection[2] = -1
  BY DEF NoSelection
<1> QED
  BY <1>1 DEF Placed

LEMMA MineIs ==
  ASSUME ConfigInv, Open
  PROVE  /\ Fits(Mine) /\ Mine \in CfgMachines
         /\ Mine = [id |-> Mine.id, setting |-> Mine.setting, chan |-> Mine.chan, dev |-> Mine.dev]
         /\ Mine.id \in Texts \X Nat /\ Mine.setting \in Texts
         /\ Mine.chan \in [CfgChans -> ChanTypes \cup {Nothing}] /\ Mine.dev \in [Places -> CfgDevices]
         /\ \A p \in Places : Mine.dev[p].type # Nothing => Mine.dev[p].type \in MayHold(Mine.chan[p[1]])
<1>1. Fits(Mine)
  BY DialogIs
<1>2. Mine \in CfgMachines /\ Accepted(Mine)
  BY <1>1 DEF Fits
<1> QED
  BY <1>1, <1>2, MachineIs DEF Accepted

LEMMA SelectedIs ==
  ASSUME ConfigInv, Open, Chan >= 0
  PROVE  /\ Chan \in CfgChans /\ Mine.chan[Chan] \in ChanTypes /\ Mine.chan[Chan] # Nothing
         /\ sel[2] >= 0 => /\ sel \in Places /\ sel = <<Chan, sel[2]>> /\ sel[1] = Chan /\ sel[2] \in CfgDevs
                           /\ Mine.dev[sel].type # Nothing
<1>1. Placed(Mine, sel)
  BY DialogIs
<1>2. sel \in ({-1} \cup CfgChans) \X ({-1} \cup CfgDevs) /\ sel[1] = Chan
  BY <1>1 DEF Placed, Chan
<1>3. Chan \in CfgChans /\ Mine.chan[Chan] # Nothing
  BY <1>1, <1>2 DEF Placed
<1>4. Mine.chan[Chan] \in ChanTypes
  BY <1>3, MineIs
<1>5. sel[2] >= 0 => sel[2] \in CfgDevs /\ sel = <<Chan, sel[2]>> /\ Mine.dev[sel].type # Nothing
  BY <1>1, <1>2 DEF Placed
<1> QED
  BY <1>2, <1>3, <1>4, <1>5 DEF Places

LEMMA ColdIs == Cold => Open /\ UNCHANGED Outside
BY DEF Cold

LEMMA SelectKeeps ==
  ASSUME ConfigInv, NEW id \in Ids(work), SelectMachine(id)
  PROVE  ConfigInv'
<1>1. Open /\ UNCHANGED Outside /\ Shown(work, id)
  BY ColdIs DEF SelectMachine
<1>2. Usable(work)
  BY <1>1, DialogIs
<1>3. CopyRight(work', current', sel')
  BY <1>1, <1>2, IdsAre, ShownRight
<1> QED
  BY <1>1, <1>3, DialogKeeps

LEMMA AnotherAdded ==
  ASSUME ConfigInv, Open, NEW base \in Bases, NEW id, id = UniqueId(work, base), NEW m, Fits(m), m.id = id,
         Shown(Added(work, m), id)
  PROVE  CopyRight(work', current', sel')
<1>1. Usable(work)
  BY DialogIs
<1>2. id \in Texts \X Nat /\ Found(work, id) = {}
  BY <1>1, UniqueIs, ConfigAssumption DEF Usable
<1>3. /\ Usable(Added(work, m))
      /\ Len(work.machines) + 1 \in DOMAIN Added(work, m).machines /\ Added(work, m).machines[Len(work.machines) + 1] = m
  BY <1>1, <1>2, AddedUsable DEF Fits
<1>4. Found(Added(work, m), id) # {}
  BY <1>3 DEF Found
<1> QED
  BY <1>2, <1>3, <1>4, ShownRight

LEMMA AddKeeps ==
  ASSUME ConfigInv, NEW base \in Bases, MachineAdd(base) \/ MachineDuplicate(base)
  PROVE  ConfigInv'
<1> DEFINE id == UniqueId(work, base)
<1>1. Open /\ UNCHANGED Outside
  BY ColdIs DEF MachineAdd, MachineDuplicate
<1>2. id \in Texts \X Nat
  BY <1>1, DialogIs, UniqueIs, ConfigAssumption DEF Usable
<1>3. CASE MachineAdd(base)
  <2>1. Shown(Added(work, Machine(id)), id)
    BY <1>3, Zenon DEF MachineAdd
  <2>2. Fits(Machine(id)) /\ Machine(id).id = id
    BY <1>2, MachineFits DEF Fits
  <2>3. CopyRight(work', current', sel')
    BY <1>1, <2>1, <2>2, AnotherAdded
  <2> QED
    BY <1>1, <2>3, DialogKeeps
<1>4. CASE MachineDuplicate(base)
  <2> DEFINE m == [Mine EXCEPT !.id = id]
  <2>1. Shown(Added(work, m), id)
    BY <1>4, Zenon DEF MachineDuplicate
  <2> HIDE DEF id
  <2>2. m = [id |-> id, setting |-> Mine.setting, chan |-> Mine.chan, dev |-> Mine.dev]
    BY <1>1, MineIs
  <2> HIDE DEF m
  <2>3. Fits(m) /\ m.id = id
    BY <1>1, <1>2, <2>2, MineIs, MachineMade
  <2>4. CopyRight(work', current', sel')
    BY <1>1, <2>1, <2>3, AnotherAdded DEF id
  <2> QED
    BY <1>1, <2>4, DialogKeeps
<1> QED
  BY <1>3, <1>4

LEMMA DeleteKeeps == ConfigInv /\ MachineDelete => ConfigInv'
<1> SUFFICES ASSUME ConfigInv, MachineDelete PROVE ConfigInv'
  OBVIOUS
<1> DEFINE rest == Without(work, current)
<1>1. Open /\ UNCHANGED Outside /\ Len(work.machines) > 1
  BY ColdIs DEF MachineDelete
<1>2. PICK i \in DOMAIN rest.machines : Shown(rest, rest.machines[i].id)
  BY Zenon DEF MachineDelete
<1>3. Usable(work) /\ Found(work, current) # {}
  BY <1>1, DialogIs
<1>4. Usable(rest)
  BY <1>1, <1>3, WithoutUsable
<1> HIDE DEF rest
<1>5. rest.machines[i].id \in Texts \X Nat /\ Found(rest, rest.machines[i].id) # {}
  BY <1>4, IdsAre DEF Ids
<1>6. CopyRight(work', current', sel')
  BY <1>2, <1>4, <1>5, ShownRight
<1> QED
  BY <1>1, <1>6, DialogKeeps

LEMMA SettingsKeep == ConfigInv /\ Settings => ConfigInv'
<1> SUFFICES ASSUME ConfigInv, Settings PROVE ConfigInv'
  OBVIOUS
<1>1. Open /\ UNCHANGED Outside
  BY ColdIs DEF Settings
<1>2. PICK s \in {"default", "os"} : Edit([Mine EXCEPT !.setting = s], sel)
  BY DEF Settings
<1> DEFINE m == [Mine EXCEPT !.setting = s]
<1>3. m = [id |-> Mine.id, setting |-> s, chan |-> Mine.chan, dev |-> Mine.dev] /\ s \in Texts
  BY <1>1, MineIs, AppCfgAssumption
<1>4. Edit(m, sel)
  BY <1>2
<1> HIDE DEF m
<1>5. Fits(m) /\ m.id = Mine.id
  BY <1>1, <1>3, MineIs, MachineMade
<1>6. Placed(m, sel)
  <2>1. Placed(Mine, sel) /\ m.chan = Mine.chan /\ m.dev = Mine.dev
    BY <1>1, <1>3, DialogIs
  <2> QED
    BY <2>1, PlacedStays
<1> QED
  BY <1>1, <1>4, <1>5, <1>6, EditKeeps

LEMMA ItemKeeps ==
  ASSUME ConfigInv, NEW c \in CfgChans, NEW d \in {-1} \cup CfgDevs, SelectItem(c, d)
  PROVE  ConfigInv'
<1>1. /\ Open /\ Mine.chan[c] # Nothing /\ (d >= 0 => Mine.dev[<<c, d>>].type # Nothing)
      /\ sel' = <<c, d>> /\ work' = work /\ current' = current /\ UNCHANGED Outside
  BY DEF SelectItem
<1>2. Placed(Mine, sel')
  <2>1. CASE d = -1
    BY <1>1, <2>1, PlacedAtChannel
  <2>2. CASE d \in CfgDevs
    <3>1. d >= 0
      BY <2>2, AppCfgAssumption
    <3> QED
      BY <1>1, <2>2, <3>1, PlacedAtDevice
  <2> QED
    BY <2>1, <2>2
<1>3. CopyRight(work', current', sel')
  <2>1. Usable(work) /\ Found(work, current) = {CurrentAt} /\ Mine = work.machines[CurrentAt]
    BY <1>1, DialogIs
  <2> QED
    BY <1>1, <1>2, <2>1 DEF CopyRight, CurrentAt
<1> QED
  BY <1>1, <1>3, DialogKeeps

LEMMA NoDeviceFits == NoDevice \in CfgDevices /\ NoDevice.type = Nothing
<1>1. NoDevice = [type |-> Nothing, path |-> Nothing, speed |-> 0]
  BY DEF NoDevice
<1> QED
  BY <1>1, DeviceFits, NothingHeld

LEMMA ChannelKeeps == ConfigInv /\ AddChannel => ConfigInv'
<1> SUFFICES ASSUME ConfigInv, AddChannel PROVE ConfigInv'
  OBVIOUS
<1> DEFINE c == Lowest(FreeChans)
           m == [Mine EXCEPT !.chan[c] = "char"]
           chan == [Mine.chan EXCEPT ![c] = "char"]
<1>1. Open /\ UNCHANGED Outside /\ FreeChans # {} /\ Edit(m, <<c, -1>>)
  BY ColdIs, Zenon DEF AddChannel
<1>2. c \in CfgChans /\ Mine.chan[c] = Nothing
  <2>1. FreeChans \in SUBSET Nat
    BY AppCfgAssumption DEF FreeChans
  <2>2. c \in FreeChans
    BY <1>1, <2>1, LowestIs
  <2> QED
    BY <2>2 DEF FreeChans
<1> HIDE DEF c
<1>3. m = [id |-> Mine.id, setting |-> Mine.setting, chan |-> chan, dev |-> Mine.dev]
  BY <1>1, MineIs
<1>4. chan \in [CfgChans -> ChanTypes \cup {Nothing}] /\ chan[c] = "char"
  BY <1>1, <1>2, MineIs DEF ChanTypes
<1>5. ASSUME NEW p \in Places, Mine.dev[p].type # Nothing PROVE Mine.dev[p].type \in MayHold(chan[p[1]])
  <2>1. Mine.dev[p].type \in MayHold(Mine.chan[p[1]]) /\ p[1] \in CfgChans
    BY <1>1, <1>5, MineIs DEF Places
  <2>2. p[1] # c
    BY <1>2, <2>1, NothingHeld
  <2>3. chan[p[1]] = Mine.chan[p[1]]
    BY <1>1, <2>1, <2>2, MineIs
  <2> QED
    BY <2>1, <2>3
<1> HIDE DEF chan, m
<1>6. Fits(m) /\ m.id = Mine.id /\ m.chan = chan
  BY <1>1, <1>3, <1>4, <1>5, MineIs, MachineMade
<1>7. Placed(m, <<c, -1>>)
  <2>1. "char" # Nothing
    BY DEF Nothing
  <2> QED
    BY <1>2, <1>4, <1>6, <2>1, PlacedAtChannel
<1> QED
  BY <1>1, <1>6, <1>7, EditKeeps

LEMMA DeviceKeeps == ConfigInv /\ AddDevice => ConfigInv'
<1> SUFFICES ASSUME ConfigInv, AddDevice PROVE ConfigInv'
  OBVIOUS
<1> DEFINE T == {i \in DOMAIN DeviceTypes : DeviceTypes[i] \in MayHold(Mine.chan[Chan])}
           type == DeviceTypes[Lowest(T)]
           d == Lowest(FreeDevs)
           e == [Device(type) EXCEPT !.speed = IF type = "terminal" THEN 9600 ELSE 0]
           m == [Mine EXCEPT !.dev[<<Chan, d>>] = e]
<1>1. Open /\ UNCHANGED Outside /\ Chan >= 0 /\ FreeDevs # {} /\ Edit(m, <<Chan, d>>)
  <2>1. Edit(m, <<Chan, d>>)
    BY DEF AddDevice
  <2>2. Cold /\ Chan >= 0 /\ FreeDevs # {}
    BY DEF AddDevice
  <2> QED
    BY <2>1, <2>2, ColdIs
<1>2. Chan \in CfgChans /\ Mine.chan[Chan] \in ChanTypes /\ Mine.chan[Chan] # Nothing
  BY <1>1, SelectedIs
<1>3. d \in CfgDevs /\ d \in Nat /\ d < MaxDevices[Mine.chan[Chan]]
  <2>1. FreeDevs \in SUBSET Nat
    BY AppCfgAssumption DEF FreeDevs
  <2>2. d \in FreeDevs
    BY <1>1, <2>1, LowestIs
  <2> QED
    BY <2>1, <2>2 DEF FreeDevs
<1>4. T # {}
  <2>1. MayHold(Mine.chan[Chan]) # {}
    BY <1>2, <1>3, AppCfgAssumption
  <2>2. MayHold(Mine.chan[Chan]) \subseteq {DeviceTypes[i] : i \in DOMAIN DeviceTypes}
    BY HoldsTypes, TypesAre
  <2> QED
    BY <2>1, <2>2
<1>5. type \in MayHold(Mine.chan[Chan])
  <2>1. DOMAIN DeviceTypes = 1..5
    BY DEF DeviceTypes
  <2>2. T \in SUBSET Nat
    BY <2>1
  <2>3. Lowest(T) \in T
    <3> HIDE DEF T
    <3> QED
      BY <1>4, <2>2, LowestIs
  <2> QED
    BY <2>3
<1> HIDE DEF type, d, T
<1>6. type \in Types /\ type # Nothing
  BY <1>5, HoldsTypes, NothingHeld
<1> DEFINE f == Device(type)
           x == IF type = "terminal" THEN 9600 ELSE 0
<1>7. e = [f EXCEPT !.speed = x] /\ x \in Int /\ (type # "terminal" => x = 0)
  OBVIOUS
<1> HIDE DEF e, f, x
<1>8. e \in CfgDevices /\ e.type = type
  <2>1. f = [type |-> type, path |-> Nothing, speed |-> 0]
    BY DeviceOf DEF f
  <2>2. e = [type |-> type, path |-> Nothing, speed |-> x]
    BY <1>7, <2>1
  <2>3. type \in Types \cup {Nothing} /\ Nothing \in Texts /\ x \in Int /\ (type # "terminal" => x = 0)
    BY <1>6, <1>7, NothingHeld
  <2>4. e \in CfgDevices
    BY <2>2, <2>3, DeviceFits
  <2> QED
    BY <2>2, <2>4
<1> DEFINE p == <<Chan, d>>
<1>9. p \in Places /\ p[1] = Chan
  BY <1>2, <1>3 DEF Places
<1>10. Fits(m) /\ m.id = Mine.id /\ m.chan = Mine.chan /\ m.dev = [Mine.dev EXCEPT ![p] = e]
  <2>1. Fits(Mine)
    BY <1>1, MineIs
  <2> HIDE DEF p
  <2>2. LET r == [Mine EXCEPT !.dev[p] = e]
        IN Fits(r) /\ r.id = Mine.id /\ r.chan = Mine.chan /\ r.dev = [Mine.dev EXCEPT ![p] = e]
    BY <1>5, <1>8, <1>9, <2>1, DeviceChanged
  <2> QED
    BY <2>2, Zenon DEF p
<1>11. Placed(m, <<Chan, d>>)
  <2>1. m.dev[p] = e
    BY <1>1, <1>9, <1>10, MineIs
  <2> QED
    BY <1>2, <1>3, <1>6, <1>8, <1>10, <2>1, PlacedAtDevice
<1> HIDE DEF m
<1> QED
  BY <1>1, <1>10, <1>11, EditKeeps

LEMMA RemoveKeeps == ConfigInv /\ RemoveSelected => ConfigInv'
<1> SUFFICES ASSUME ConfigInv, RemoveSelected PROVE ConfigInv'
  OBVIOUS
<1>1. Open /\ UNCHANGED Outside /\ Chan >= 0
  BY ColdIs DEF RemoveSelected
<1>2. /\ Chan \in CfgChans /\ Mine.chan[Chan] \in ChanTypes /\ Mine.chan[Chan] # Nothing
      /\ sel[2] >= 0 => sel \in Places /\ sel[1] = Chan
  BY <1>1, SelectedIs
<1>3. CASE sel[2] >= 0
  <2> DEFINE m == [Mine EXCEPT !.dev[sel] = NoDevice]
  <2>1. Edit(m, <<Chan, -1>>)
    BY <1>3 DEF RemoveSelected, WithoutDevice
  <2>2. Fits(m) /\ m.id = Mine.id /\ m.chan = Mine.chan
    BY <1>1, <1>2, <1>3, MineIs, NoDeviceFits, DeviceChanged
  <2> HIDE DEF m
  <2>3. Placed(m, <<Chan, -1>>)
    BY <1>2, <2>2, PlacedAtChannel
  <2> QED
    BY <1>1, <2>1, <2>2, <2>3, EditKeeps
<1>4. CASE ~(sel[2] >= 0)
  <2> DEFINE chan == [Mine.chan EXCEPT ![Chan] = Nothing]
             dev == Emptied(Mine.dev, Chan)
             m == [Mine EXCEPT !.chan = chan, !.dev = dev]
  <2>1. Edit(m, NoSelection)
    <3>1. m = [Mine EXCEPT !.chan[Chan] = Nothing, !.dev = Emptied(@, Chan)]
      OBVIOUS
    <3> HIDE DEF m
    <3> QED
      BY <1>4, <3>1 DEF RemoveSelected
  <2>2. m = [id |-> Mine.id, setting |-> Mine.setting, chan |-> chan, dev |-> dev]
    BY <1>1, MineIs, BothChanged
  <2>3. chan \in [CfgChans -> ChanTypes \cup {Nothing}] /\ \A c \in CfgChans : c # Chan => chan[c] = Mine.chan[c]
    BY <1>1, <1>2, MineIs
  <2>4. dev \in [Places -> CfgDevices] /\ \A p \in Places : dev[p] = IF p[1] = Chan THEN NoDevice ELSE Mine.dev[p]
    BY <1>1, NoDeviceFits, MineIs DEF Emptied
  <2>5. ASSUME NEW p \in Places, dev[p].type # Nothing PROVE dev[p].type \in MayHold(chan[p[1]])
    <3>1. p[1] \in CfgChans /\ p[1] # Chan /\ dev[p] = Mine.dev[p]
      BY <2>4, <2>5, NoDeviceFits DEF Places
    <3> QED
      BY <1>1, <2>3, <2>5, <3>1, MineIs
  <2> HIDE DEF chan, dev, m
  <2>6. Fits(m) /\ m.id = Mine.id
    BY <1>1, <2>2, <2>3, <2>4, <2>5, MineIs, MachineMade
  <2> QED
    BY <1>1, <2>1, <2>6, NothingSelected, EditKeeps
<1> QED
  BY <1>3, <1>4

\* A channel moves to a free number with all its devices.
LEMMA NumberKeeps ==
  ASSUME ConfigInv, NEW c \in CfgChans, SetChannelNumber(c)
  PROVE  ConfigInv'
<1>1. Open /\ UNCHANGED Outside /\ Chan >= 0 /\ c \in FreeChans
  BY ColdIs DEF SetChannelNumber
<1>2. /\ Chan \in CfgChans /\ Mine.chan[Chan] \in ChanTypes /\ Mine.chan[Chan] # Nothing
      /\ Mine.chan[c] = Nothing /\ c # Chan
  BY <1>1, SelectedIs DEF FreeChans
<1> DEFINE chan == [Mine.chan EXCEPT ![c] = Mine.chan[Chan], ![Chan] = Nothing]
           dev == [p \in Places |-> IF p[1] = c THEN Mine.dev[<<Chan, p[2]>>] ELSE Emptied(Mine.dev, Chan)[p]]
           m == [Mine EXCEPT !.chan = chan, !.dev = dev]
<1>3. Edit(m, <<c, -1>>)
  <2>1. m = [Mine EXCEPT !.chan = [@ EXCEPT ![c] = Mine.chan[Chan], ![Chan] = Nothing], !.dev = dev]
    OBVIOUS
  <2> HIDE DEF m
  <2> QED
    BY <2>1 DEF SetChannelNumber
<1>4. m = [id |-> Mine.id, setting |-> Mine.setting, chan |-> chan, dev |-> dev]
  BY <1>1, MineIs, BothChanged
<1>5. /\ chan \in [CfgChans -> ChanTypes \cup {Nothing}] /\ chan[c] = Mine.chan[Chan]
      /\ \A d \in CfgChans : d # c /\ d # Chan => chan[d] = Mine.chan[d]
  BY <1>1, <1>2, MineIs
<1>6. ASSUME NEW p \in Places
      PROVE  /\ dev[p] \in CfgDevices
             /\ p[1] = c => <<Chan, p[2]>> \in Places /\ dev[p] = Mine.dev[<<Chan, p[2]>>]
             /\ p[1] = Chan => dev[p] = NoDevice
             /\ p[1] # c /\ p[1] # Chan => dev[p] = Mine.dev[p]
  <2>1. <<Chan, p[2]>> \in Places
    BY <1>2 DEF Places
  <2>2. Mine.dev[p] \in CfgDevices /\ Mine.dev[<<Chan, p[2]>>] \in CfgDevices
    BY <1>1, <2>1, MineIs
  <2>3. Emptied(Mine.dev, Chan)[p] = IF p[1] = Chan THEN NoDevice ELSE Mine.dev[p]
    BY DEF Emptied
  <2> QED
    BY <1>2, <2>1, <2>2, <2>3, NoDeviceFits
<1>7. dev \in [Places -> CfgDevices]
  BY <1>6
<1>8. ASSUME NEW p \in Places, dev[p].type # Nothing PROVE dev[p].type \in MayHold(chan[p[1]])
  <2>1. p[1] \in CfgChans /\ p[1] # Chan
    BY <1>6, <1>8, NoDeviceFits DEF Places
  <2>2. CASE p[1] = c
    <3> DEFINE q == <<Chan, p[2]>>
    <3>1. q \in Places /\ dev[p] = Mine.dev[q] /\ q[1] = Chan
      BY <1>6, <2>2
    <3> HIDE DEF q, dev, chan
    <3>2. Mine.dev[q].type \in MayHold(Mine.chan[Chan])
      BY <1>1, <1>8, <3>1, MineIs
    <3> QED
      BY <1>5, <2>2, <3>1, <3>2
  <2>3. CASE p[1] # c
    <3>1. dev[p] = Mine.dev[p] /\ chan[p[1]] = Mine.chan[p[1]]
      BY <1>5, <1>6, <2>1, <2>3
    <3> HIDE DEF dev, chan
    <3> QED
      BY <1>1, <1>8, <3>1, MineIs
  <2> QED
    BY <2>2, <2>3
<1> HIDE DEF chan, dev, m
<1>9. Fits(m) /\ m.id = Mine.id /\ m.chan = chan
  BY <1>1, <1>4, <1>5, <1>7, <1>8, MineIs, MachineMade
<1>10. Placed(m, <<c, -1>>)
  BY <1>2, <1>5, <1>9, PlacedAtChannel
<1> QED
  BY <1>1, <1>3, <1>9, <1>10, EditKeeps

LEMMA DeviceNumberKeeps ==
  ASSUME ConfigInv, NEW d \in CfgDevs, SetDeviceNumber(d)
  PROVE  ConfigInv'
<1>1. Open /\ UNCHANGED Outside /\ Chan >= 0 /\ sel[2] >= 0 /\ d \in FreeDevs
  BY ColdIs DEF SetDeviceNumber
<1>2. /\ Chan \in CfgChans /\ Mine.chan[Chan] # Nothing /\ sel \in Places /\ sel[1] = Chan
      /\ Mine.dev[sel].type # Nothing
  BY <1>1, SelectedIs
<1> DEFINE to == <<Chan, d>>
           e == Mine.dev[sel]
           one == [Mine EXCEPT !.dev[to] = e]
           m == [one EXCEPT !.dev[sel] = NoDevice]
<1>3. to \in Places /\ to[1] = Chan /\ to # sel
  <2>1. Mine.dev[to].type = Nothing
    BY <1>1 DEF FreeDevs
  <2> QED
    BY <1>2, <2>1 DEF Places
<1>4. e \in CfgDevices /\ e.type \in MayHold(Mine.chan[Chan]) /\ e.type # Nothing
  BY <1>1, <1>2, MineIs
<1>5. Edit([Mine EXCEPT !.dev = [@ EXCEPT ![to] = e, ![sel] = NoDevice]], to)
  BY DEF SetDeviceNumber
<1> HIDE DEF to, e
<1>6. Fits(one) /\ one.id = Mine.id /\ one.chan = Mine.chan /\ one.dev = [Mine.dev EXCEPT ![to] = e]
  BY <1>1, <1>3, <1>4, MineIs, DeviceChanged
<1>7. Fits(m) /\ m.id = one.id /\ m.chan = one.chan /\ m.dev = [one.dev EXCEPT ![sel] = NoDevice]
  <2> HIDE DEF one
  <2> QED
    BY <1>2, <1>6, NoDeviceFits, DeviceChanged
<1>8. [Mine EXCEPT !.dev = [@ EXCEPT ![to] = e, ![sel] = NoDevice]] = m
  <2> DEFINE a == [Mine.dev EXCEPT ![to] = e]
             b == [a EXCEPT ![sel] = NoDevice]
  <2>1. Mine = [id |-> Mine.id, setting |-> Mine.setting, chan |-> Mine.chan, dev |-> Mine.dev]
    BY <1>1, MineIs
  <2>2. [Mine.dev EXCEPT ![to] = e, ![sel] = NoDevice] = b
    OBVIOUS
  <2> HIDE DEF a
  <2>3. one = [id |-> Mine.id, setting |-> Mine.setting, chan |-> Mine.chan, dev |-> a]
    BY <2>1 DEF a
  <2> HIDE DEF one
  <2>4. m = [id |-> Mine.id, setting |-> Mine.setting, chan |-> Mine.chan, dev |-> b]
    BY <2>3
  <2> HIDE DEF b, m
  <2>5. [Mine EXCEPT !.dev = b] = [id |-> Mine.id, setting |-> Mine.setting, chan |-> Mine.chan, dev |-> b]
    BY <2>1
  <2>6. [Mine EXCEPT !.dev = [@ EXCEPT ![to] = e, ![sel] = NoDevice]] = [Mine EXCEPT !.dev = [Mine.dev EXCEPT ![to] = e, ![sel] = NoDevice]]
    OBVIOUS
  <2> QED
    BY <2>2, <2>4, <2>5, <2>6, Zenon
<1>9. Placed(m, to)
  <2>1. m.dev[to] = e
    BY <1>1, <1>3, <1>6, <1>7, <1>2, MineIs
  <2> HIDE DEF m, one
  <2> QED
    BY <1>2, <1>4, <1>6, <1>7, <2>1, PlacedAtDevice DEF to
<1> HIDE DEF m, one
<1>10. Edit(m, to)
  BY <1>5, <1>8, Zenon
<1> QED
  BY <1>1, <1>6, <1>7, <1>9, <1>10, EditKeeps

\* Devices that the new type of a channel has no place for are dropped.
LEMMA TypeKeeps ==
  ASSUME ConfigInv, NEW type \in ChanTypes, SetChannelType(type)
  PROVE  ConfigInv'
<1>1. Open /\ UNCHANGED Outside /\ Chan >= 0 /\ sel[2] < 0
  BY ColdIs DEF SetChannelType
<1>2. Chan \in CfgChans /\ Mine.chan[Chan] # Nothing /\ type # Nothing
  BY <1>1, SelectedIs, NothingHeld
<1> DEFINE chan == [Mine.chan EXCEPT ![Chan] = type]
           dev == Fitting(Mine, Chan, type)
           m == [Mine EXCEPT !.chan = chan, !.dev = dev]
<1>3. Edit(m, sel)
  <2>1. m = [Mine EXCEPT !.chan[Chan] = type, !.dev = Fitting(Mine, Chan, type)]
    OBVIOUS
  <2> HIDE DEF m
  <2> QED
    BY <2>1 DEF SetChannelType
<1>4. m = [id |-> Mine.id, setting |-> Mine.setting, chan |-> chan, dev |-> dev]
  BY <1>1, MineIs, BothChanged
<1>5. /\ chan \in [CfgChans -> ChanTypes \cup {Nothing}] /\ chan[Chan] = type
      /\ \A d \in CfgChans : d # Chan => chan[d] = Mine.chan[d]
  BY <1>1, <1>2, MineIs
<1>6. ASSUME NEW p \in Places
      PROVE  /\ dev[p] \in {NoDevice, Mine.dev[p]}
             /\ p[1] = Chan => dev[p] = NoDevice \/ Mine.dev[p].type \in MayHold(type)
  BY DEF Fitting
<1>7. dev \in [Places -> CfgDevices]
  <2>1. \A p \in Places : dev[p] \in CfgDevices
    BY <1>1, <1>6, MineIs, NoDeviceFits
  <2> QED
    BY <2>1 DEF Fitting
<1>8. ASSUME NEW p \in Places, dev[p].type # Nothing PROVE dev[p].type \in MayHold(chan[p[1]])
  <2>1. p[1] \in CfgChans /\ dev[p] = Mine.dev[p] /\ dev[p] # NoDevice
    BY <1>6, <1>8, NoDeviceFits DEF Places
  <2>2. CASE p[1] = Chan
    BY <1>5, <1>6, <2>1, <2>2
  <2>3. CASE p[1] # Chan
    BY <1>1, <1>5, <1>8, <2>1, <2>3, MineIs
  <2> QED
    BY <2>2, <2>3
<1> HIDE DEF chan, dev, m
<1>9. Fits(m) /\ m.id = Mine.id /\ m.chan = chan
  BY <1>1, <1>4, <1>5, <1>7, <1>8, MineIs, MachineMade
<1>10. Placed(m, sel)
  <2>1. Placed(Mine, sel) /\ sel[1] = Chan
    BY <1>1, DialogIs DEF Chan
  <2>2. ~(sel[2] >= 0)
    BY <1>1, <2>1, AppCfgAssumption DEF Placed
  <2> QED
    BY <1>2, <1>5, <1>9, <2>1, <2>2 DEF Placed
<1> QED
  BY <1>1, <1>3, <1>9, <1>10, EditKeeps

LEMMA DeviceTypeKeeps ==
  ASSUME ConfigInv, NEW type, SetDeviceType(type)
  PROVE  ConfigInv'
<1> DEFINE m == [Mine EXCEPT !.dev[sel] = Device(type)]
<1>1. Open /\ UNCHANGED Outside /\ Chan >= 0 /\ sel[2] >= 0 /\ type \in MayHold(Mine.chan[Chan]) /\ Edit(m, sel)
  BY ColdIs DEF SetDeviceType
<1>2. /\ Chan \in CfgChans /\ Mine.chan[Chan] # Nothing /\ sel \in Places /\ sel[1] = Chan /\ sel[2] \in CfgDevs
      /\ sel = <<Chan, sel[2]>>
  BY <1>1, SelectedIs
<1>3. Device(type) \in CfgDevices /\ Device(type).type = type /\ type # Nothing
  <2>1. type \in Types \cup {Nothing} /\ type # Nothing /\ Nothing \in Texts /\ 0 \in Int
    BY <1>1, HoldsTypes, NothingHeld
  <2>2. Device(type) = [type |-> type, path |-> Nothing, speed |-> 0]
    BY DeviceOf
  <2>3. [type |-> type, path |-> Nothing, speed |-> 0] \in CfgDevices
    BY <2>1, DeviceFits
  <2> QED
    BY <2>1, <2>2, <2>3
<1>4. Fits(m) /\ m.id = Mine.id /\ m.chan = Mine.chan /\ m.dev = [Mine.dev EXCEPT ![sel] = Device(type)]
  BY <1>1, <1>2, <1>3, MineIs, DeviceChanged
<1>5. m.dev[sel] = Device(type)
  <2> HIDE DEF m
  <2> QED
    BY <1>1, <1>2, <1>4, MineIs
<1> HIDE DEF m
<1>6. Placed(m, sel)
  <2>1. Placed(Mine, sel)
    BY <1>1, DialogIs
  <2> QED
    BY <1>1, <1>3, <1>4, <1>5, <2>1 DEF Placed, Chan
<1> QED
  BY <1>1, <1>4, <1>6, EditKeeps

LEMMA SpeedKeeps ==
  ASSUME ConfigInv, NEW s \in Int, SetSpeed(s)
  PROVE  ConfigInv'
<1> DEFINE e == Mine.dev[sel]
           d == [e EXCEPT !.speed = s]
           m == [Mine EXCEPT !.dev[sel].speed = s]
<1>1. Open /\ UNCHANGED Outside /\ Chan >= 0 /\ sel[2] >= 0 /\ e.type = "terminal" /\ Edit(m, sel)
  BY ColdIs DEF SetSpeed
<1>2. /\ Chan \in CfgChans /\ sel \in Places /\ sel[1] = Chan /\ Fits(Mine) /\ Placed(Mine, sel)
      /\ e \in CfgDevices /\ (e.type # Nothing => e.type \in MayHold(Mine.chan[Chan]))
      /\ Mine = [id |-> Mine.id, setting |-> Mine.setting, chan |-> Mine.chan, dev |-> Mine.dev]
      /\ Mine.dev \in [Places -> CfgDevices]
  BY <1>1, SelectedIs, MineIs, DialogIs
<1>3. m = [Mine EXCEPT !.dev[sel] = d]
  BY <1>2
<1> HIDE DEF m, e
<1>4. d = [type |-> e.type, path |-> e.path, speed |-> s]
  BY <1>2, DeviceIs
<1> HIDE DEF d
<1>5. d \in CfgDevices /\ d.type = e.type
  <2>1. e.type \in Types \cup {Nothing} /\ e.path \in Texts /\ (e.type \notin WithPath => e.path = Nothing)
    BY <1>2, DeviceIs
  <2>2. d \in CfgDevices
    BY <1>1, <1>4, <2>1, DeviceFits
  <2> QED
    BY <1>4, <2>2
<1>6. Fits(m) /\ m.id = Mine.id /\ m.chan = Mine.chan /\ m.dev = [Mine.dev EXCEPT ![sel] = d]
  BY <1>2, <1>3, <1>5, DeviceChanged
<1>7. \A q \in Places : m.dev[q].type = Mine.dev[q].type
  BY <1>2, <1>5, <1>6 DEF e
<1>8. Placed(m, sel)
  BY <1>2, <1>6, <1>7, PlacedStays
<1> QED
  BY <1>1, <1>6, <1>8, EditKeeps

LEMMA PathKeeps ==
  ASSUME ConfigInv, NEW path \in Images \cup {Nothing}, SetPath(path)
  PROVE  ConfigInv'
<1> DEFINE m == [Mine EXCEPT !.dev[sel].path = path]
<1>1. Open /\ UNCHANGED Outside /\ Chan >= 0 /\ sel[2] >= 0 /\ Mine.dev[sel].type \in WithPath /\ Edit(m, sel)
  BY DEF SetPath
<1>2. sel \in Places /\ Fits(Mine) /\ Placed(Mine, sel) /\ path \in Texts
  BY <1>1, SelectedIs, DialogIs, AppCfgAssumption, ConfigAssumption
<1>3. Fits(m) /\ m.id = Mine.id /\ m.chan = Mine.chan /\ \A q \in Places : m.dev[q].type = Mine.dev[q].type
  BY <1>1, <1>2, PathChanged
<1> HIDE DEF m
<1>4. Placed(m, sel)
  BY <1>2, <1>3, PlacedStays
<1> QED
  BY <1>1, <1>3, <1>4, EditKeeps

LEMMA AcceptKeeps == ConfigInv /\ AcceptConfig => ConfigInv'
<1> SUFFICES ASSUME ConfigInv, AcceptConfig PROVE ConfigInv'
  OBVIOUS
<1>1. Open /\ Saves(work) /\ cfg' = work /\ work' = NoConfig /\ legacy' = legacy /\ program' = program
  BY DEF AcceptConfig, Saves
<1>2. Usable(work) /\ program = "up"
  BY <1>1, DialogIs DEF Open
<1>3. FileRight(file', saved')
  BY <1>1, <1>2, SavedRight DEF ConfigInv
<1> QED
  BY <1>1, <1>2, <1>3 DEF ConfigInv, CopyRight

-----------------------------------------------------------------------------
LEMMA ConfigStart == ConfigInit => ConfigInv
<1> SUFFICES ASSUME ConfigInit PROVE ConfigInv
  OBVIOUS
<1>1. file \in ConfigFiles /\ legacy \in Legacies /\ program = "down" /\ saved = NoConfig /\ work = NoConfig
  BY DEF ConfigInit
<1>2. WellFormed(Loaded(file))
  BY <1>1, ConfigAssumption
<1> QED
  BY <1>1, <1>2 DEF ConfigInv, FileRight, CopyRight

LEMMA ConfigSteps == ConfigInv /\ [ConfigNext]_cfgVars => ConfigInv'
<1> SUFFICES ASSUME ConfigInv, [ConfigNext]_cfgVars PROVE ConfigInv'
  OBVIOUS
<1>1. CASE Begin \/ LoadFails \/ Quit
  <2>1. /\ program' \in {"down", "loading"} /\ legacy' = legacy /\ file' = file /\ saved' = saved
        /\ work' = NoConfig \/ (work' = work /\ current' = current /\ sel' = sel /\ program # "up")
    BY <1>1 DEF Begin, LoadFails, Quit, Edited
  <2> QED
    BY <2>1 DEF ConfigInv, CopyRight
<1>2. CASE PowerOnOff
  <2>1. /\ program' = program /\ legacy' = legacy /\ file' = file /\ saved' = saved /\ cfg' = cfg
        /\ work' = work /\ current' = current /\ sel' = sel
    BY <1>2 DEF PowerOnOff, Edited
  <2> QED
    BY <2>1 DEF ConfigInv
<1>3. CASE OpenConfig
  <2>1. /\ program' = program /\ program = "up" /\ legacy' = legacy /\ file' = file /\ saved' = saved /\ cfg' = cfg
        /\ work' = cfg /\ current' = Active(cfg).id /\ sel' = NoSelection
    BY <1>3 DEF OpenConfig
  <2>2. Usable(cfg) /\ Found(cfg, Active(cfg).id) # {}
    BY <2>1, ActiveIs DEF ConfigInv
  <2>3. CopyRight(work', current', sel')
    BY <2>1, <2>2, NothingSelected DEF CopyRight
  <2> QED
    BY <2>1, <2>3 DEF ConfigInv
<1>4. CASE Reject
  <2>1. UNCHANGED Outside /\ work' = NoConfig
    BY <1>4 DEF Reject
  <2> QED
    BY <2>1 DEF ConfigInv, CopyRight, Outside
<1>5. CASE UNCHANGED cfgVars
  BY <1>5 DEF ConfigInv, cfgVars
<1>6. CASE \E p \in Places, path \in Images \cup {Nothing} : SetDiskImage(p, path)
  BY <1>6, ImageKeeps
<1>7. CASE program = "up" /\ \E id \in Ids(cfg) : SetActiveMachine(id)
  BY <1>7, ActiveKeeps
<1>8. CASE Open /\ \E id \in Ids(work) : SelectMachine(id)
  BY <1>8, SelectKeeps
<1>9. CASE \E b \in Bases : MachineAdd(b) \/ MachineDuplicate(b)
  BY <1>9, AddKeeps
<1>10. CASE \E c \in CfgChans : SetChannelNumber(c) \/ SelectItem(c, -1) \/ \E d \in CfgDevs : SelectItem(c, d)
  BY <1>10, NumberKeeps, ItemKeeps
<1>11. CASE \E d \in CfgDevs : SetDeviceNumber(d)
  BY <1>11, DeviceNumberKeeps
<1>12. CASE \E t \in {"char", "multix", "iotester"} : SetChannelType(t)
  <2>1. {"char", "multix", "iotester"} \subseteq ChanTypes
    BY DEF ChanTypes
  <2> QED
    BY <1>12, <2>1, TypeKeeps
<1>13. CASE \E i \in DOMAIN DeviceTypes : SetDeviceType(DeviceTypes[i])
  BY <1>13, DeviceTypeKeeps
<1>14. CASE \E s \in {300} : SetSpeed(s)
  BY <1>14, SpeedKeeps
<1>15. CASE \E path \in Images \cup {Nothing} : SetPath(path)
  BY <1>15, PathKeeps
<1>16. CASE \/ WriteDefault \/ LoadConfig \/ MachineDelete \/ Settings \/ AddChannel \/ AddDevice \/ RemoveSelected
            \/ AcceptConfig
  BY <1>16, DefaultKeeps, LoadKeeps, DeleteKeeps, SettingsKeep, ChannelKeeps, DeviceKeeps, RemoveKeeps, AcceptKeeps
<1> QED
  BY <1>1, <1>2, <1>3, <1>4, <1>5, <1>6, <1>7, <1>8, <1>9, <1>10, <1>11, <1>12, <1>13, <1>14, <1>15, <1>16, Zenon
  DEF ConfigNext

LEMMA RightIsSound == ConfigInv => ConfigSound
<1> SUFFICES ASSUME ConfigInv PROVE ConfigSound
  OBVIOUS
<1>1. LoadedIsSaved
  BY WrittenLoads DEF ConfigInv, FileRight, LoadedIsSaved
<1>2. EditsStand
  <2> SUFFICES ASSUME work # NoConfig
               PROVE  /\ Cardinality(Found(work, current)) = 1 /\ Cardinality(Ids(work)) = Len(work.machines)
                      /\ (Chan >= 0 => Mine.chan[Chan] # Nothing)
                      /\ (sel[2] >= 0 => Mine.dev[sel].type # Nothing)
    BY DEF EditsStand
  <2>1. Open
    BY DEF ConfigInv, Open
  <2>2. Usable(work) /\ Found(work, current) = {CurrentAt} /\ Placed(Mine, sel)
    BY <2>1, DialogIs
  <2>3. Cardinality(Found(work, current)) = 1
    BY <2>2, FS_Singleton
  <2>4. Cardinality(Ids(work)) = Len(work.machines)
    BY <2>2, IdsCount DEF Usable
  <2> QED
    BY <2>2, <2>3, <2>4 DEF Placed, Chan
<1> QED
  BY <1>1, <1>2 DEF ConfigSound

\* Whatever the user does, in the dialog and beside it, and wherever the program ends or the
\* disk fills up, the file that was written last is read back as what it was written from,
\* and the dialog edits a machine that is in its copy, once, and what is there of it
\* (appcfg.c, configdialog.cpp, configcontroller.cpp).
THEOREM ConfigAlwaysSound == ConfigSpec => []ConfigSound
BY ConfigStart, ConfigSteps, RightIsSound, PTL DEF ConfigSpec

-----------------------------------------------------------------------------
(* All services, side by side. *)

\* Lists, watches, images, PLIX, the tester, the machine as a whole and its configuration keep
\* what they promise at every moment, whatever the others do, since none touches the state of
\* another (elst.c, dirwatch.c, e4image.c, plix.c, iotester.c, libem400.c, appcfg.c).
THEOREM ServicesAlwaysSafe == ServicesSpec => ServicesSafe
<1>1. ServicesSpec => []ServicesSound
  BY CellsAlwaysSound, NeverCalledLate, OffAlwaysClean, DriveAlwaysTrue, FormattedAlwaysWhole, ConfigAlwaysSound, PTL
  DEF ServicesSpec, ServicesSound
<1>2. ServicesSpec => ServedGets /\ TransfersKeep
  BY ServedAlwaysGets, TransfersAlwaysKeep, PTL DEF ServicesSpec
<1> QED
  BY <1>1, <1>2, PTL DEF ServicesSafe
=============================================================================
