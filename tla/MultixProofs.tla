---------------------------- MODULE MultixProofs ----------------------------
(***************************************************************************)
(* What MULTIX guarantees for any number of lines, any commands, lists of  *)
(* any capacity and any number of resets: its interrupt queue implements a *)
(* mailbox, a reset starts afresh, switching off leaves no thread behind.  *)
(* And what a program can rely on while it is neither reset nor switched   *)
(* off and no list is full: each command accepted is answered once, and    *)
(* the bits of a line tell what it is doing.                               *)
(***************************************************************************)
EXTENDS MCMultix, SequenceTheorems, FiniteSetTheorems, TLAPS

-----------------------------------------------------------------------------
(* The inductive invariant. *)

ProtoCmds == LineCmds \ {"status"}

\* A line's thread is given commands its protocol knows, and answers each with
\* a real interrupt; the same goes for all that is queued.
QueuedReal == \A i \in 1..Len(intq) : intq[i] # INIEA

LinesCommanded ==
  \A l \in Lines :
    /\ protoq[l] \in Seq(ProtoCmds)
    /\ proto_pc[l] \in {"run", "fin"} => proto_cmd[l] \in ProtoCmds
    /\ proto_pc[l] = "fin" => proto_irq[l] # "INIEA"

Commanded == QueuedReal /\ LinesCommanded

\* A line that is not configured has no thread; a thread that waits for work or
\* is gone is not raising an interrupt.
LinesJoined ==
  \A l \in Lines :
    /\ l \notin llines => proto_pc[l] = "none" /\ status_pc[l] = "none"
    /\ proto_pc[l] = "none" => Out(Proto(l))
    /\ status_pc[l] # "sent" => Out(Status(l))

\* What the event thread has left behind at each of its stages.
Initializing == {"init", "init_wait", "ready", "iwyze"}

Phases ==
  /\ ev_pc \notin {"wait", "reject"} => Out(Ev)
  /\ ev_pc \in Initializing \cup {"clear", "int_reset"} => llines = {}
  /\ ev_pc \in Initializing => intspec = INIEA /\ intq = <<>>
  /\ state = "INITIALIZED" /\ ev_pc \notin {"cfg_deinit", "cfg_store"} => llines = {}
  /\ ui_pc = "on" => eventq.QUIT = 0 /\ ev_pc # "exited"
  /\ ui_pc \in {"deinit", "freed", "gone"} => ev_pc = "exited"
  /\ ui_pc \in {"freed", "gone"} => llines = {}

\* Without a reset, the channel stops listening for good when it is switched off.
NeverReset ==
  resets = 0 =>
    /\ cpu_pc \notin {"mcl", "clear"}
    /\ ui_pc = "on" /\ ~Listening => ev_pc \in {"init", "init_wait", "ready"}

IInv == TypeOK /\ Commanded /\ LinesJoined /\ Phases /\ NeverReset /\ NoSilentSpec

-----------------------------------------------------------------------------
(* Threads, queues and interrupts. *)

LEMMA ThreadsDiffer ==
  /\ Ev \in Threads
  /\ \A l \in Lines : Proto(l) \in Threads /\ Status(l) \in Threads
                      /\ Proto(l) # Ev /\ Status(l) # Ev
  /\ \A l, k \in Lines : Proto(l) # Status(k) /\ (Proto(l) = Proto(k) => l = k)
                         /\ (Status(l) = Status(k) => l = k)
BY DEF Threads, Ev, Proto, Status

EventQueues == [CMD : Seq(Events), INT_PUSH : Nat, RESET : Nat, QUIT : Nat]
EventTypes == {"CMD", "INT_PUSH", "RESET", "QUIT"}

LEMMA EventTypesAll == DOMAIN NoEvents = EventTypes /\ NoEvents \in EventQueues
BY DEF NoEvents, EventTypes, EventQueues

\* elst_wait_pop() takes an event of one type, and no other.
LEMMA PopType ==
  ASSUME eventq \in EventQueues, NEW type \in EventTypes, Pop(type)
  PROVE  /\ eventq' \in EventQueues
         /\ type = "CMD" => Head(eventq.CMD) \in Events
         /\ type # "QUIT" => eventq'.QUIT = eventq.QUIT
         /\ type # "RESET" => eventq'.RESET = eventq.RESET
<1>1. CASE type = "CMD"
  <2>1. eventq.CMD # <<>> /\ eventq' = [eventq EXCEPT !.CMD = Tail(eventq.CMD)]
    BY <1>1 DEF Pop, First
  <2>2. Tail(eventq.CMD) \in Seq(Events) /\ Head(eventq.CMD) \in Events
    BY <2>1 DEF EventQueues
  <2> QED
    BY <1>1, <2>1, <2>2 DEF EventQueues
<1>2. CASE type = "INT_PUSH"
  <2>1. eventq.INT_PUSH > 0 /\ eventq' = [eventq EXCEPT !.INT_PUSH = eventq.INT_PUSH - 1]
    BY <1>2 DEF Pop, First
  <2> QED
    BY <1>2, <2>1 DEF EventQueues
<1>3. CASE type = "RESET"
  <2>1. eventq.RESET > 0 /\ eventq' = [eventq EXCEPT !.RESET = eventq.RESET - 1]
    BY <1>3 DEF Pop, First
  <2> QED
    BY <1>3, <2>1 DEF EventQueues
<1>4. CASE type = "QUIT"
  <2>1. eventq.QUIT > 0 /\ eventq' = [eventq EXCEPT !.QUIT = eventq.QUIT - 1]
    BY <1>4 DEF Pop, First
  <2> QED
    BY <1>4, <2>1 DEF EventQueues
<1> QED
  BY <1>1, <1>2, <1>3, <1>4 DEF EventTypes

\* elst_insert() adds an event of one type, or drops it.
LEMMA InsertType ==
  ASSUME eventq \in EventQueues, NEW type \in EventTypes, NEW e \in Events, Insert(type, e)
  PROVE  /\ eventq' \in EventQueues
         /\ type # "QUIT" => eventq'.QUIT = eventq.QUIT
         /\ type # "RESET" => eventq'.RESET = eventq.RESET
         /\ eventq'.RESET >= eventq.RESET
<1>1. CASE eventq' = eventq
  BY <1>1 DEF EventQueues
<1>2. CASE type = "CMD" /\ eventq' = [eventq EXCEPT !.CMD = Append(eventq.CMD, e)]
  <2>1. Append(eventq.CMD, e) \in Seq(Events)
    BY DEF EventQueues
  <2>2. [eventq EXCEPT !.CMD = Append(eventq.CMD, e)] \in EventQueues
    BY <2>1 DEF EventQueues
  <2>3. /\ eventq'.QUIT = eventq.QUIT /\ eventq'.RESET = eventq.RESET /\ eventq.RESET \in Nat
    BY <1>2 DEF EventQueues
  <2> QED
    BY <1>2, <2>2, <2>3
<1>3. CASE type = "INT_PUSH" /\ eventq' = [eventq EXCEPT !.INT_PUSH = eventq.INT_PUSH + 1]
  BY <1>3 DEF EventQueues
<1>4. CASE type = "RESET" /\ eventq' = [eventq EXCEPT !.RESET = eventq.RESET + 1]
  BY <1>4 DEF EventQueues
<1>5. CASE type = "QUIT" /\ eventq' = [eventq EXCEPT !.QUIT = eventq.QUIT + 1]
  BY <1>5 DEF EventQueues
<1> QED
  BY <1>1, <1>2, <1>3, <1>4, <1>5 DEF Insert, EventTypes

\* The answer to a command in hand is an interrupt, and never the empty one.
LEMMA AnswerType ==
  ASSUME NEW i \in Irqs \ {"INIEA"}, NEW e \in Events
  PROVE  Interrupt(i, e.line, e.cmd) \in Interrupts /\ Interrupt(i, e.line, e.cmd) # INIEA
BY DEF Interrupt, Interrupts, INIEA, Events, Event

LEMMA EventType ==
  ASSUME NEW e \in Events
  PROVE  /\ e.cmd \in LineCmds \cup GeneralCmds /\ e.line \in Lines \cup {0}
         /\ e.cmd \in LineCmds => e.line \in Lines
         /\ Event(e.cmd, e.line) = e
BY DEF Events, Event, LineCmds, GeneralCmds

LEMMA IrqNames ==
  /\ {"IWYZE", "IWYTE", "INKON", "IUKON", "INKOT", "ISTRE", "INPAO", "IEPS"} \subseteq Irqs \ {"INIEA"}
  /\ \A c \in LineCmds : NoLine[c] \in Irqs \ {"INIEA"} /\ Reject[c] \in Irqs \ {"INIEA"}
  /\ \A c \in ProtoCmds : Outcomes[c] \subseteq Irqs \ {"INIEA"}
  /\ INIEA \in Interrupts /\ NoEvent \in Events
  /\ Failure \subseteq {"INKON", "INKOT"}
BY DEF Irqs, NoLine, Reject, Outcomes, LineCmds, ProtoCmds, INIEA, Interrupt, Interrupts, NoEvent,
       Event, Events, GeneralCmds, Failure

\* Raising an interrupt.
LEMMA EnqueueType ==
  ASSUME TypeOK, NEW t \in Threads, NEW i \in Interrupts, Enqueue(t, i)
  PROVE  /\ intq' \in Seq(Interrupts) /\ intspec' \in Interrupts /\ irq' \in BOOLEAN
         /\ int_pc' \in [Threads -> {"out", "push", "check", "set"}]
         /\ int_pc' = [int_pc EXCEPT ![t] = "push"]
<1>1. int_pc' = [int_pc EXCEPT ![t] = "push"] /\ intspec' = intspec /\ irq' = irq
  BY DEF Enqueue, Push
<1>2. intq' \in Seq(Interrupts)
  BY DEF Enqueue, TypeOK
<1> QED
  BY <1>1, <1>2 DEF TypeOK

-----------------------------------------------------------------------------
(* Types. *)

ThreadPcs == {"out", "push", "check", "set"}
EvPcs == {"init", "init_wait", "ready", "iwyze", "wait", "cmd", "reject", "cfg_deinit",
          "cfg_store", "cfg_answer", "reset", "clear", "int_reset", "exited"}

IntsOK == /\ intq \in Seq(Interrupts) /\ intspec \in Interrupts /\ irq \in BOOLEAN
          /\ int_pc \in [Threads -> ThreadPcs]
EventOK == ev_pc \in EvPcs /\ ev \in Events
LinesOK ==
  /\ llines \subseteq Lines
  /\ status \in [Lines -> SUBSET (LineCmds \cup {"ATTACHED"})]
  /\ protoq \in [Lines -> Seq(LineCmds)] /\ statusq \in [Lines -> Nat]
  /\ proto_pc \in [Lines -> {"none", "wait", "run", "fin"}]
  /\ proto_cmd \in [Lines -> LineCmds \cup {"none"}] /\ proto_irq \in [Lines -> Irqs]
  /\ status_pc \in [Lines -> {"none", "wait", "sent"}]
CpuOK ==
  /\ cpu_pc \in {"run", "insert", "mcl", "clear", "vector", "push", "wild"}
  /\ pend \in [type : PendTypes, event : Events] /\ spec \in Interrupts
  /\ resets \in Nat
RestOK ==
  /\ state \in {"UNINITIALIZED", "INITIALIZED", "CONFIGURED"}
  /\ eventq \in EventQueues
  /\ ui_pc \in {"on", "quit", "join", "deinit", "freed", "gone"}
  /\ asked \in [Events -> Nat]

LEMMA TypeParts == TypeOK <=> IntsOK /\ EventOK /\ LinesOK /\ CpuOK /\ RestOK
BY DEF TypeOK, IntsOK, EventOK, LinesOK, CpuOK, RestOK, EventQueues, ThreadPcs, EvPcs

\* Parts that a step leaves alone.
LEMMA TypeFrames ==
  /\ IntsOK /\ UNCHANGED ints => IntsOK'
  /\ EventOK /\ UNCHANGED event => EventOK'
  /\ LinesOK /\ UNCHANGED lines => LinesOK'
  /\ CpuOK /\ UNCHANGED cpu => CpuOK'
  /\ RestOK /\ UNCHANGED <<state, eventq, ui_pc, asked>> => RestOK'
BY DEF IntsOK, EventOK, LinesOK, CpuOK, RestOK, ints, event, lines, cpu, queues, threads

LEMMA IntStepType ==
  ASSUME TypeOK, NEW t \in Threads, IntStep(t)
  PROVE  /\ IntsOK' /\ UNCHANGED <<state, eventq, event, lines, cpu, ui_pc, asked>>
<1>1. CASE IntPush(t)
  <2>1. CASE CanAnnounce /\ Announce /\ int_pc' = [int_pc EXCEPT ![t] = "check"]
    <3>1. intq # <<>> /\ intq \in Seq(Interrupts) /\ intspec' = Head(intq) /\ intq' = Tail(intq)
      BY <2>1 DEF CanAnnounce, Announce, TypeOK
    <3>2. intspec' \in Interrupts /\ intq' \in Seq(Interrupts)
      BY <3>1
    <3> QED
      BY <1>1, <2>1, <3>2 DEF IntPush, IntsOK, TypeOK, ThreadPcs
  <2>2. CASE UNCHANGED <<intspec, intq>> /\ int_pc' = [int_pc EXCEPT ![t] = "out"]
    BY <1>1, <2>2 DEF IntPush, IntsOK, TypeOK, ThreadPcs
  <2> QED
    BY <1>1, <2>1, <2>2 DEF IntPush
<1>2. CASE IntCheck(t)
  BY <1>2 DEF IntCheck, IntsOK, TypeOK, ThreadPcs
<1>3. CASE IntSet(t)
  BY <1>3 DEF IntSet, IntsOK, TypeOK, ThreadPcs
<1> QED
  BY <1>1, <1>2, <1>3 DEF IntStep, IntPush, IntCheck, IntSet

\* The event thread answers the command in hand.
LEMMA AnswerKeeps ==
  ASSUME TypeOK, NEW i \in Irqs \ {"INIEA"}, Answer(i)
  PROVE  IntsOK'
<1>1. ev \in Events
  BY DEF TypeOK
<1>2. Interrupt(i, ev.line, ev.cmd) \in Interrupts
  BY <1>1, AnswerType
<1> QED
  BY <1>2, EnqueueType, ThreadsDiffer DEF Answer, IntsOK, ThreadPcs

LEMMA StepTypeEv == TypeOK /\ Commanded /\ EvStep => TypeOK'
<1> SUFFICES ASSUME TypeOK, Commanded, EvStep PROVE TypeOK'
  OBVIOUS
<1>1. IntsOK /\ EventOK /\ LinesOK /\ CpuOK /\ RestOK
  BY TypeParts
<1>2. UNCHANGED lines => LinesOK'
  BY <1>1, TypeFrames
<1>3. UNCHANGED ints => IntsOK'
  BY <1>1, TypeFrames
<1>4. UNCHANGED cpu => CpuOK'
  BY <1>1, TypeFrames
<1>5. UNCHANGED <<state, eventq, ui_pc, asked>> => RestOK'
  BY <1>1, TypeFrames
<1>6. ev' = ev /\ ev_pc' \in EvPcs => EventOK'
  BY <1>1 DEF EventOK
<1>7. Done => EventOK'
  BY IrqNames DEF Done, EventOK, EvPcs
<1>8. IntsOK' /\ EventOK' /\ LinesOK' /\ CpuOK' /\ RestOK' => TypeOK'
  BY DEF TypeOK, IntsOK, EventOK, LinesOK, CpuOK, RestOK, EventQueues, ThreadPcs, EvPcs
<1>9. eventq' \in EventQueues /\ UNCHANGED <<state, ui_pc, asked>> => RestOK'
  BY <1>1 DEF RestOK
<1>10. CASE InitStep
  <2>1. CASE InitPop
    <3>1. PICK type \in EventTypes : Pop(type)
      BY <2>1, EventTypesAll DEF InitPop
    <3>2. eventq' \in EventQueues
      BY <1>1, <3>1, PopType DEF RestOK
    <3>3. ev_pc' \in EvPcs
      BY <2>1 DEF InitPop, EvPcs
    <3> QED
      BY <1>2, <1>3, <1>4, <1>6, <1>8, <1>9, <2>1, <3>2, <3>3 DEF InitPop
  <2>2. CASE InitWait
    BY <1>2, <1>3, <1>4, <1>5, <1>6, <1>8, <2>2 DEF InitWait, EvPcs
  <2>3. CASE Ready
    <3>1. RestOK'
      BY <1>1, <2>3 DEF Ready, RestOK
    <3> QED
      BY <1>2, <1>3, <1>4, <1>6, <1>8, <2>3, <3>1 DEF Ready, EvPcs
  <2>4. CASE Announced
    <3>1. Interrupt("IWYZE", 0, "none") \in Interrupts
      BY DEF Interrupt, Interrupts, Irqs
    <3>2. IntsOK'
      BY <2>4, <3>1, EnqueueType, ThreadsDiffer DEF Announced, IntsOK, ThreadPcs
    <3> QED
      BY <1>2, <1>4, <1>5, <1>6, <1>8, <2>4, <3>2 DEF Announced, EvPcs
  <2> QED
    BY <1>10, <2>1, <2>2, <2>3, <2>4 DEF InitStep
<1>11. CASE EventLoop
  <2>1. UNCHANGED <<state, intq, intspec, irq, lines, cpu, ui_pc, asked>>
    BY <1>11 DEF EventLoop
  <2>2. CASE Pop("CMD") /\ ev_pc' = "cmd" /\ ev' = Head(eventq.CMD) /\ UNCHANGED int_pc
    <3>1. eventq' \in EventQueues /\ ev' \in Events
      BY <1>1, <2>2, PopType DEF RestOK, EventTypes
    <3>2. EventOK' /\ IntsOK'
      BY <1>3, <2>1, <2>2, <3>1 DEF EventOK, EvPcs, ints
    <3> QED
      BY <1>2, <1>4, <1>8, <1>9, <2>1, <3>1, <3>2
  <2>3. CASE Pop("INT_PUSH") /\ Push(Ev) /\ UNCHANGED event
    <3>1. eventq' \in EventQueues
      BY <1>1, <2>3, PopType DEF RestOK, EventTypes
    <3>2. IntsOK' /\ EventOK'
      BY <1>1, <2>1, <2>3, TypeFrames, ThreadsDiffer DEF Push, IntsOK, ThreadPcs
    <3> QED
      BY <1>2, <1>4, <1>8, <1>9, <2>1, <3>1, <3>2
  <2>4. CASE \E type \in {"QUIT", "RESET"} : Pop(type) /\ ev_pc' \in {"exited", "reset"}
                                            /\ UNCHANGED <<ev, int_pc>>
    <3>1. PICK type \in {"QUIT", "RESET"} : Pop(type)
      BY <2>4
    <3>2. eventq' \in EventQueues
      BY <1>1, <3>1, PopType DEF RestOK, EventTypes
    <3>3. EventOK' /\ IntsOK'
      BY <1>3, <1>6, <2>1, <2>4 DEF EvPcs, ints
    <3> QED
      BY <1>2, <1>4, <1>8, <1>9, <2>1, <3>2, <3>3
  <2> QED
    BY <1>11, <2>2, <2>3, <2>4 DEF EventLoop
<1>12. CASE ResetStep
  <2>1. CASE LinesGone
    BY <1>2, <1>3, <1>4, <1>5, <1>6, <1>8, <2>1 DEF LinesGone, EvPcs
  <2>2. CASE ClearEvents
    BY <1>2, <1>3, <1>4, <1>6, <1>8, <1>9, <2>2, EventTypesAll DEF ClearEvents, EvPcs
  <2>3. CASE IntReset
    <3>1. IntsOK'
      BY <1>1, <2>3, IrqNames DEF IntReset, IntsOK
    <3>2. RestOK'
      BY <1>1, <2>3 DEF IntReset, RestOK
    <3> QED
      BY <1>2, <1>4, <1>6, <1>8, <2>3, <3>1, <3>2 DEF IntReset, EvPcs
  <2> QED
    BY <1>12, <2>1, <2>2, <2>3 DEF ResetStep
<1>13. CASE Test
  <2>1. IntsOK'
    BY <1>13, AnswerKeeps, IrqNames DEF Test
  <2> QED
    BY <1>2, <1>4, <1>5, <1>7, <1>8, <1>13, <2>1 DEF Test
<1>14. CASE Requeue
  <2>1. intq' \in Seq(Interrupts)
    BY <1>1, <1>14 DEF Requeue, IntsOK
  <2>2. IntsOK'
    BY <1>1, <1>14, <2>1, ThreadsDiffer, IrqNames DEF Requeue, Push, IntsOK, ThreadPcs
  <2> QED
    BY <1>2, <1>4, <1>5, <1>7, <1>8, <1>14, <2>2 DEF Requeue
<1>15. CASE SetCfgStep
  <2>1. CASE SetCfgFails
    <3>1. IntsOK'
      BY <2>1, AnswerKeeps, IrqNames DEF SetCfgFails
    <3> QED
      BY <1>2, <1>4, <1>5, <1>7, <1>8, <2>1, <3>1 DEF SetCfgFails
  <2>2. ASSUME NEW L \in SUBSET Lines, Configure(L) PROVE LinesOK'
    <3>1. /\ llines' \subseteq Lines /\ protoq' \in [Lines -> Seq(LineCmds)]
          /\ proto_pc' \in [Lines -> {"none", "wait", "run", "fin"}]
          /\ status_pc' \in [Lines -> {"none", "wait", "sent"}]
      BY <1>1, <2>2 DEF Configure, LinesOK
    <3> QED
      BY <1>1, <2>2, <3>1 DEF Configure, LinesOK
  <2>3. CASE SetCfgRejects
    <3>1. LinesOK'
      BY <2>2, <2>3 DEF SetCfgRejects
    <3> QED
      BY <1>3, <1>4, <1>5, <1>6, <1>8, <2>3, <3>1 DEF SetCfgRejects, EvPcs
  <2>4. CASE SetCfgRejected
    <3>1. IntsOK'
      BY <2>4, AnswerKeeps, IrqNames DEF SetCfgRejected
    <3> QED
      BY <1>2, <1>4, <1>5, <1>7, <1>8, <2>4, <3>1 DEF SetCfgRejected
  <2>5. CASE SetCfg
    <3>1. LinesOK'
      BY <2>2, <2>5 DEF SetCfg
    <3> QED
      BY <1>3, <1>4, <1>5, <1>6, <1>8, <2>5, <3>1 DEF SetCfg, EvPcs
  <2>6. CASE SetCfgStore
    <3>1. RestOK'
      BY <1>1, <2>6 DEF SetCfgStore, RestOK
    <3> QED
      BY <1>2, <1>3, <1>4, <1>6, <1>8, <2>6, <3>1 DEF SetCfgStore, EvPcs
  <2>7. CASE SetCfgDone
    <3>1. IntsOK'
      BY <2>7, AnswerKeeps, IrqNames DEF SetCfgDone
    <3> QED
      BY <1>2, <1>4, <1>5, <1>7, <1>8, <2>7, <3>1 DEF SetCfgDone
  <2> QED
    BY <1>15, <2>1, <2>3, <2>4, <2>5, <2>6, <2>7 DEF SetCfgStep
<1>16. CASE DispatchStep
  <2>1. CASE DispatchNone
    <3>1. IntsOK'
      BY <2>1, AnswerKeeps, IrqNames DEF DispatchNone
    <3> QED
      BY <1>2, <1>4, <1>5, <1>7, <1>8, <2>1, <3>1 DEF DispatchNone
  <2>2. CASE DispatchReject
    <3>1. IntsOK'
      BY <2>2, AnswerKeeps, IrqNames DEF DispatchReject, Dispatchable
    <3> QED
      BY <1>2, <1>4, <1>5, <1>6, <1>8, <2>2, <3>1 DEF DispatchReject, EvPcs
  <2>3. CASE DispatchUnlock
    BY <1>2, <1>3, <1>4, <1>5, <1>7, <1>8, <2>3 DEF DispatchUnlock
  <2>4. CASE Dispatch
    <3>1. ev.cmd \in LineCmds
      BY <2>4 DEF Dispatch, Dispatchable
    <3>2. /\ status' \in [Lines -> SUBSET (LineCmds \cup {"ATTACHED"})]
          /\ protoq' \in [Lines -> Seq(LineCmds)] /\ statusq' \in [Lines -> Nat]
      <4>1. status' = [status EXCEPT ![ev.line] = @ \cup {ev.cmd}]
        BY <2>4 DEF Dispatch
      <4>2. status' \in [Lines -> SUBSET (LineCmds \cup {"ATTACHED"})]
        BY <1>1, <3>1, <4>1 DEF LinesOK
      <4>3. \/ statusq' = [statusq EXCEPT ![ev.line] = @ + 1] /\ UNCHANGED protoq
            \/ protoq' = [protoq EXCEPT ![ev.line] = Append(@, ev.cmd)] /\ UNCHANGED statusq
        BY <2>4 DEF Dispatch
      <4>4. protoq' \in [Lines -> Seq(LineCmds)] /\ statusq' \in [Lines -> Nat]
        <5>0. ev.line \in Lines
          BY <1>1, <2>4 DEF Dispatch, Dispatchable, LinesOK
        <5>1. CASE statusq' = [statusq EXCEPT ![ev.line] = @ + 1] /\ UNCHANGED protoq
          <6> DEFINE n == statusq[ev.line] + 1
          <6>1. n \in Nat
            BY <1>1, <5>0 DEF LinesOK
          <6>2. statusq' = [statusq EXCEPT ![ev.line] = n]
            BY <5>1
          <6> HIDE DEF n
          <6> QED
            BY <1>1, <5>0, <5>1, <6>1, <6>2 DEF LinesOK
        <5>2. CASE protoq' = [protoq EXCEPT ![ev.line] = Append(@, ev.cmd)] /\ UNCHANGED statusq
          <6> DEFINE q == Append(protoq[ev.line], ev.cmd)
          <6>1. q \in Seq(LineCmds)
            BY <1>1, <3>1, <5>0 DEF LinesOK
          <6>2. protoq' = [protoq EXCEPT ![ev.line] = q]
            BY <5>2
          <6> HIDE DEF q
          <6> QED
            BY <1>1, <5>0, <5>2, <6>1, <6>2 DEF LinesOK
        <5> QED
          BY <4>3, <5>1, <5>2
      <4> QED
        BY <4>2, <4>4
    <3>3. LinesOK'
      BY <1>1, <2>4, <3>2 DEF Dispatch, LinesOK, threads
    <3> QED
      BY <1>3, <1>4, <1>5, <1>7, <1>8, <2>4, <3>3 DEF Dispatch
  <2> QED
    BY <1>16, <2>1, <2>2, <2>3, <2>4 DEF DispatchStep
<1>17. CASE IntStep(Ev)
  BY <1>1, <1>8, <1>17, IntStepType, TypeFrames, ThreadsDiffer
<1> QED
  BY <1>10, <1>11, <1>12, <1>13, <1>14, <1>15, <1>16, <1>17 DEF EvStep

LEMMA StepTypeLine ==
  ASSUME TypeOK, Commanded, NEW l \in Lines, ProtoStep(l) \/ StatusStep(l)
  PROVE  TypeOK'
<1>1. IntsOK /\ EventOK /\ LinesOK /\ CpuOK /\ RestOK
  BY TypeParts
<1>2. UNCHANGED lines => LinesOK'
  BY <1>1, TypeFrames
<1>3. UNCHANGED ints => IntsOK'
  BY <1>1, TypeFrames
<1>4. UNCHANGED <<state, eventq, event, cpu, ui_pc, asked>> => EventOK' /\ CpuOK' /\ RestOK'
  BY <1>1, TypeFrames
<1>5. IntsOK' /\ EventOK' /\ LinesOK' /\ CpuOK' /\ RestOK' => TypeOK'
  BY DEF TypeOK, IntsOK, EventOK, LinesOK, CpuOK, RestOK, EventQueues, ThreadPcs, EvPcs
<1>6. proto_pc[l] \in {"run", "fin"} => proto_cmd[l] \in ProtoCmds
  BY DEF Commanded, LinesCommanded
<1>7. CASE ProtoTake(l)
  <2>1. Head(protoq[l]) \in LineCmds /\ Tail(protoq[l]) \in Seq(LineCmds)
    BY <1>1, <1>7 DEF ProtoTake, LinesOK
  <2>2. /\ proto_cmd' \in [Lines -> LineCmds \cup {"none"}]
        /\ protoq' \in [Lines -> Seq(LineCmds)]
        /\ proto_pc' \in [Lines -> {"none", "wait", "run", "fin"}]
    BY <1>1, <1>7, <2>1 DEF ProtoTake, LinesOK
  <2>3. LinesOK'
    BY <1>1, <1>7, <2>2 DEF ProtoTake, LinesOK
  <2> QED
    BY <1>3, <1>4, <1>5, <1>7, <2>3 DEF ProtoTake
<1>8. CASE ProtoRun(l)
  <2>1. PICK i \in Outcomes[proto_cmd[l]] : proto_irq' = [proto_irq EXCEPT ![l] = i]
    BY <1>8 DEF ProtoRun
  <2>2. i \in Irqs
    BY <1>6, <1>8, <2>1, IrqNames DEF ProtoRun
  <2>3. StatusAfter(l) \in SUBSET (LineCmds \cup {"ATTACHED"})
    BY <1>1 DEF StatusAfter, LinesOK
  <2>4. /\ proto_irq' \in [Lines -> Irqs]
        /\ status' \in [Lines -> SUBSET (LineCmds \cup {"ATTACHED"})]
        /\ proto_pc' \in [Lines -> {"none", "wait", "run", "fin"}]
    BY <1>1, <1>8, <2>1, <2>2, <2>3 DEF ProtoRun, LinesOK
  <2>5. LinesOK'
    BY <1>1, <1>8, <2>4 DEF ProtoRun, LinesOK
  <2> QED
    BY <1>3, <1>4, <1>5, <1>8, <2>5 DEF ProtoRun
<1>9. CASE ProtoFails(l)
  <2>1. LinesOK'
    BY <1>1, <1>9 DEF ProtoFails, LinesOK, queues, Irqs
  <2> QED
    BY <1>3, <1>4, <1>5, <1>9, <2>1 DEF ProtoFails
<1>10. CASE ProtoFin(l)
  <2>1. Interrupt(proto_irq[l], l, proto_cmd[l]) \in Interrupts
    BY <1>1, <1>6, <1>10 DEF ProtoFin, LinesOK, Interrupt, Interrupts, ProtoCmds
  <2>2. IntsOK'
    BY <1>10, <2>1, EnqueueType, ThreadsDiffer DEF ProtoFin, IntsOK, ThreadPcs
  <2>3. /\ status' \in [Lines -> SUBSET (LineCmds \cup {"ATTACHED"})]
        /\ proto_pc' \in [Lines -> {"none", "wait", "run", "fin"}]
        /\ proto_cmd' \in [Lines -> LineCmds \cup {"none"}]
        /\ proto_irq' \in [Lines -> Irqs]
    BY <1>1, <1>10 DEF ProtoFin, LinesOK, Irqs
  <2>4. LinesOK'
    BY <1>1, <1>10, <2>3 DEF ProtoFin, LinesOK
  <2> QED
    BY <1>4, <1>5, <1>10, <2>2, <2>4 DEF ProtoFin
<1>11. CASE ProtoQuit(l)
  <2>1. LinesOK'
    BY <1>1, <1>11 DEF ProtoQuit, LinesOK, queues
  <2> QED
    BY <1>3, <1>4, <1>5, <1>11, <2>1 DEF ProtoQuit
<1>12. CASE StatusReport(l)
  <2>1. PICK i \in {"ISTRE", "INPAO"} : Enqueue(Status(l), Interrupt(i, l, "status"))
    BY <1>12 DEF StatusReport
  <2>2. Interrupt(i, l, "status") \in Interrupts
    BY <2>1 DEF Interrupt, Interrupts, Irqs, LineCmds
  <2>3. IntsOK'
    BY <2>1, <2>2, EnqueueType, ThreadsDiffer DEF IntsOK, ThreadPcs
  <2>4. statusq' \in [Lines -> Nat] /\ status_pc' \in [Lines -> {"none", "wait", "sent"}]
    BY <1>1, <1>12 DEF StatusReport, LinesOK
  <2>5. LinesOK'
    BY <1>1, <1>12, <2>4 DEF StatusReport, LinesOK
  <2> QED
    BY <1>4, <1>5, <1>12, <2>3, <2>5 DEF StatusReport
<1>13. CASE StatusDone(l)
  <2>1. LinesOK'
    BY <1>1, <1>13 DEF StatusDone, LinesOK
  <2> QED
    BY <1>3, <1>4, <1>5, <1>13, <2>1 DEF StatusDone
<1>14. CASE StatusQuit(l)
  <2>1. LinesOK'
    BY <1>1, <1>14 DEF StatusQuit, LinesOK
  <2> QED
    BY <1>3, <1>4, <1>5, <1>14, <2>1 DEF StatusQuit
<1>15. CASE IntStep(Proto(l)) \/ IntStep(Status(l))
  BY <1>1, <1>5, <1>15, IntStepType, TypeFrames, ThreadsDiffer
<1> QED
  BY <1>7, <1>8, <1>9, <1>10, <1>11, <1>12, <1>13, <1>14, <1>15 DEF ProtoStep, StatusStep

LEMMA StepTypeCpu == TypeOK /\ (CpuStep \/ PowerOff \/ UiContinue) => TypeOK'
<1> SUFFICES ASSUME TypeOK, CpuStep \/ PowerOff \/ UiContinue PROVE TypeOK'
  OBVIOUS
<1>1. IntsOK /\ EventOK /\ LinesOK /\ CpuOK /\ RestOK
  BY TypeParts
<1>2. UNCHANGED <<event, lines>> => EventOK' /\ LinesOK'
  BY <1>1, TypeFrames
<1>3. UNCHANGED ints => IntsOK'
  BY <1>1, TypeFrames
<1>4. UNCHANGED cpu => CpuOK'
  BY <1>1, TypeFrames
<1>5. UNCHANGED <<state, eventq, ui_pc, asked>> => RestOK'
  BY <1>1, TypeFrames
<1>6. IntsOK' /\ EventOK' /\ LinesOK' /\ CpuOK' /\ RestOK' => TypeOK'
  BY DEF TypeOK, IntsOK, EventOK, LinesOK, CpuOK, RestOK, EventQueues, ThreadPcs, EvPcs
<1>7. CASE Issue
  <2>1. PICK e \in Events :
          /\ cpu_pc' = CASE ui_pc = "freed" -> "wild"
                         [] Listening -> "insert"
                         [] OTHER -> "run"
          /\ pend' = IF ui_pc # "freed" /\ Listening THEN Pend("CMD", e) ELSE pend
    BY <1>7 DEF Issue
  <2>2. Pend("CMD", e) \in [type : PendTypes, event : Events]
    BY DEF Pend, PendTypes
  <2>3. CpuOK'
    BY <1>1, <1>7, <2>1, <2>2 DEF Issue, CpuOK
  <2> QED
    BY <1>2, <1>3, <1>5, <1>6, <1>7, <2>3 DEF Issue
<1>8. CASE Reset
  <2>1. Pend("RESET", NoEvent) \in [type : PendTypes, event : Events]
    BY IrqNames DEF Pend, PendTypes
  <2>2. resets' = resets + 1 /\ spec' = spec /\ UNCHANGED <<eventq, ui_pc, asked>>
        /\ cpu_pc' \in {"wild", "mcl", "insert"} /\ pend' \in {pend, Pend("RESET", NoEvent)}
        /\ state' \in {state, "UNINITIALIZED"}
    BY <1>8 DEF Reset
  <2>3. CpuOK' /\ RestOK'
    BY <1>1, <2>1, <2>2 DEF CpuOK, RestOK
  <2> QED
    BY <1>2, <1>3, <1>6, <1>8, <2>3 DEF Reset
<1>9. CASE GetSpec
  <2>1. intspec' \in {intspec, INIEA} /\ spec' \in {spec, intspec}
        /\ UNCHANGED <<intq, irq, int_pc, pend, resets>>
        /\ cpu_pc' \in {"run", "wild", "push"}
    BY <1>9 DEF GetSpec
  <2>2. IntsOK' /\ CpuOK'
    BY <1>1, <2>1, IrqNames DEF IntsOK, CpuOK
  <2>3. asked' \in [Events -> Nat]
    <3>1. CASE UNCHANGED asked
      BY <1>1, <3>1 DEF RestOK
    <3>2. CASE asked' = [e \in Events |->
                           IF e = Event(intspec.cmd, intspec.line) /\ asked[e] > 0
                           THEN asked[e] - 1 ELSE asked[e]]
      <4>1. \A e \in Events : asked[e] \in Nat
        BY <1>1 DEF RestOK
      <4>2. \A e \in Events : asked'[e] \in Nat
        <5> SUFFICES ASSUME NEW e \in Events PROVE asked'[e] \in Nat
          OBVIOUS
        <5>1. CASE e = Event(intspec.cmd, intspec.line) /\ asked[e] > 0
          BY <3>2, <4>1, <5>1
        <5>2. CASE ~(e = Event(intspec.cmd, intspec.line) /\ asked[e] > 0)
          <6>1. asked'[e] = asked[e]
            BY <3>2, <5>2
          <6> QED
            BY <4>1, <6>1
        <5> QED
          BY <5>1, <5>2
      <4>3. asked' = [e \in Events |-> asked'[e]]
        BY <3>2
      <4> QED
        BY <4>2, <4>3
    <3> QED
      BY <1>9, <3>1, <3>2 DEF GetSpec
  <2>4. RestOK'
    BY <1>1, <1>9, <2>3 DEF GetSpec, RestOK
  <2> QED
    BY <1>2, <1>6, <1>9, <2>2, <2>4 DEF GetSpec
<1>10. CASE AskPush
  <2>1. Pend("INT_PUSH", NoEvent) \in [type : PendTypes, event : Events]
    BY IrqNames DEF Pend, PendTypes
  <2>2. CpuOK'
    BY <1>1, <1>10, <2>1, IrqNames DEF AskPush, CpuOK
  <2> QED
    BY <1>2, <1>3, <1>5, <1>6, <1>10, <2>2 DEF AskPush
<1>11. CASE InsertEvent
  <2>1. NoPend \in [type : PendTypes, event : Events]
    BY IrqNames DEF NoPend, Pend, PendTypes
  <2>2. CpuOK'
    BY <1>1, <1>11, <2>1 DEF InsertEvent, CpuOK
  <2>3. eventq' \in EventQueues
    <3>1. CASE UNCHANGED eventq
      BY <1>1, <3>1 DEF RestOK
    <3>2. CASE Insert(pend.type, pend.event)
      <4>1. pend.type \in EventTypes /\ pend.event \in Events
        BY <1>1 DEF CpuOK, PendTypes, EventTypes
      <4> QED
        BY <1>1, <3>2, <4>1, InsertType DEF RestOK
    <3> QED
      BY <1>11, <3>1, <3>2 DEF InsertEvent
  <2>4. asked' \in [Events -> Nat]
    <3>1. CASE UNCHANGED asked
      BY <1>1, <3>1 DEF RestOK
    <3>2. CASE asked' = [asked EXCEPT ![pend.event] = @ + 1]
      <4> DEFINE n == asked[pend.event] + 1
      <4>1. pend.event \in Events
        BY <1>1 DEF CpuOK
      <4>2. n \in Nat
        BY <1>1, <4>1 DEF RestOK
      <4>3. asked' = [asked EXCEPT ![pend.event] = n]
        BY <3>2
      <4> HIDE DEF n
      <4> QED
        BY <1>1, <4>1, <4>2, <4>3 DEF RestOK
    <3> QED
      BY <1>11, <3>1, <3>2 DEF InsertEvent
  <2>5. RestOK'
    BY <1>1, <1>11, <2>3, <2>4 DEF InsertEvent, RestOK
  <2> QED
    BY <1>2, <1>3, <1>6, <1>11, <2>2, <2>5 DEF InsertEvent
<1>12. CASE Serve \/ NoVector \/ ClearAll
  <2>1. IntsOK' /\ CpuOK'
    BY <1>1, <1>12 DEF Serve, NoVector, ClearAll, IntsOK, CpuOK, ints
  <2> QED
    BY <1>2, <1>5, <1>6, <1>12, <2>1 DEF Serve, NoVector, ClearAll
<1>13. CASE PowerOff \/ Forget
  <2>1. RestOK'
    BY <1>1, <1>13 DEF PowerOff, Forget, RestOK
  <2> QED
    BY <1>2, <1>3, <1>4, <1>6, <1>13, <2>1 DEF PowerOff, Forget
<1>14. CASE Quit
  <2>1. Insert("QUIT", NoEvent)
    BY <1>14 DEF Quit
  <2>2. eventq' \in EventQueues
    BY <1>1, <2>1, IrqNames, InsertType DEF RestOK, EventTypes
  <2>3. RestOK'
    BY <1>1, <1>14, <2>2 DEF Quit, RestOK
  <2> QED
    BY <1>2, <1>3, <1>4, <1>6, <1>14, <2>3 DEF Quit
<1>15. CASE Joined
  <2>1. RestOK'
    BY <1>1, <1>15, EventTypesAll DEF Joined, RestOK
  <2> QED
    BY <1>2, <1>3, <1>4, <1>6, <1>15, <2>1 DEF Joined
<1>16. CASE Free
  <2>1. IntsOK' /\ RestOK'
    BY <1>1, <1>16, IrqNames DEF Free, IntsOK, RestOK
  <2> QED
    BY <1>2, <1>4, <1>6, <1>16, <2>1 DEF Free
<1> QED
  BY <1>7, <1>8, <1>9, <1>10, <1>11, <1>12, <1>13, <1>14, <1>15, <1>16
  DEF CpuStep, UiContinue

LEMMA StepType == TypeOK /\ Commanded /\ [Next]_vars => TypeOK'
<1> SUFFICES ASSUME TypeOK, Commanded, [Next]_vars PROVE TypeOK'
  OBVIOUS
<1>1. CASE UNCHANGED vars
  <2>1. IntsOK' /\ EventOK' /\ LinesOK' /\ CpuOK' /\ RestOK'
    BY <1>1, TypeParts, TypeFrames DEF vars
  <2> QED
    BY <2>1
    DEF TypeOK, IntsOK, EventOK, LinesOK, CpuOK, RestOK, EventQueues, ThreadPcs, EvPcs
<1> QED
  BY <1>1, StepTypeEv, StepTypeLine, StepTypeCpu DEF Next

-----------------------------------------------------------------------------
(* What is queued for a line, and for the CPU. *)

\* No interrupt that is raised, announced or taken back is the empty one.
LEMMA EnqueueReal ==
  ASSUME TypeOK, QueuedReal, NEW t \in Threads, NEW i \in Interrupts, i # INIEA, Enqueue(t, i)
  PROVE  QueuedReal'
<1>1. intq \in Seq(Interrupts)
  BY DEF TypeOK
<1>2. CASE intq' = Append(intq, i)
  <2>1. /\ Len(Append(intq, i)) = Len(intq) + 1
        /\ \A j \in 1..Len(intq) : Append(intq, i)[j] = intq[j]
        /\ Append(intq, i)[Len(intq) + 1] = i
    BY <1>1, AppendProperties
  <2>2. Len(intq) \in Nat
    BY <1>1
  <2> QED
    BY <1>2, <2>1, <2>2 DEF QueuedReal
<1>3. CASE intq' = intq
  BY <1>3 DEF QueuedReal
<1> QED
  BY <1>2, <1>3 DEF Enqueue

LEMMA StepQueuedReal == TypeOK /\ Commanded /\ [Next]_vars => QueuedReal'
<1> SUFFICES ASSUME TypeOK, Commanded, [Next]_vars PROVE QueuedReal'
  OBVIOUS
<1> USE DEF Commanded
<1>1. intq \in Seq(Interrupts) /\ Len(intq) \in Nat
  BY DEF TypeOK
<1>2. UNCHANGED intq => QueuedReal'
  BY DEF QueuedReal
<1>3. intq' = <<>> => QueuedReal'
  BY DEF QueuedReal
<1>4. ASSUME NEW i \in Irqs \ {"INIEA"}, Answer(i) PROVE QueuedReal'
  BY <1>4, AnswerType, EnqueueReal, ThreadsDiffer DEF Answer, TypeOK
<1>5. ASSUME NEW t \in Threads, IntStep(t) PROVE QueuedReal'
  <2>1. CASE Announce /\ CanAnnounce
    <3>1. intq' = Tail(intq) /\ intq # <<>>
      BY <2>1 DEF Announce, CanAnnounce
    <3>2. Len(Tail(intq)) = Len(intq) - 1 /\ \A j \in 1..Len(Tail(intq)) : Tail(intq)[j] = intq[j + 1]
      BY <1>1, <3>1
    <3> QED
      BY <1>1, <3>1, <3>2 DEF QueuedReal
  <2>2. CASE UNCHANGED intq
    BY <1>2, <2>2
  <2> QED
    BY <1>5, <2>1, <2>2 DEF IntStep, IntPush, IntCheck, IntSet
<1>6. CASE EvStep
  <2>1. CASE InitPop \/ InitWait \/ Ready \/ EventLoop \/ LinesGone \/ ClearEvents
             \/ SetCfgRejects \/ SetCfg \/ SetCfgStore \/ DispatchUnlock \/ Dispatch
    BY <1>2, <2>1 DEF InitPop, InitWait, Ready, EventLoop, LinesGone, ClearEvents, SetCfgRejects,
                      SetCfg, SetCfgStore, DispatchUnlock, Dispatch, ints
  <2>2. CASE Announced
    <3>1. Interrupt("IWYZE", 0, "none") \in Interrupts /\ Interrupt("IWYZE", 0, "none") # INIEA
      BY DEF Interrupt, Interrupts, Irqs, INIEA
    <3> QED
      BY <2>2, <3>1, EnqueueReal, ThreadsDiffer DEF Announced
  <2>3. CASE IntReset
    BY <1>3, <2>3 DEF IntReset
  <2>4. CASE Requeue
    <3>1. CASE intq' = intq
      BY <1>2, <3>1
    <3>2. CASE intspec # INIEA /\ intq' = <<intspec>> \o intq
      <4>1. /\ Len(<<intspec>> \o intq) = Len(intq) + 1
            /\ (<<intspec>> \o intq)[1] = intspec
            /\ \A j \in 2..Len(intq) + 1 : (<<intspec>> \o intq)[j] = intq[j - 1]
        BY <1>1
      <4>2. \A j \in 1..Len(intq) + 1 : j = 1 \/ (j \in 2..Len(intq) + 1 /\ j - 1 \in 1..Len(intq))
        BY <1>1
      <4> QED
        BY <3>2, <4>1, <4>2 DEF QueuedReal
    <3> QED
      BY <2>4, <3>1, <3>2 DEF Requeue
  <2>5. CASE Test \/ SetCfgFails \/ SetCfgRejected \/ SetCfgDone \/ DispatchNone \/ DispatchReject
    <3>1. \E i \in Irqs \ {"INIEA"} : Answer(i)
      BY <2>5, IrqNames DEF Test, SetCfgFails, SetCfgRejected, SetCfgDone, DispatchNone,
                            DispatchReject, Dispatchable
    <3> QED
      BY <1>4, <3>1
  <2>6. CASE IntStep(Ev)
    BY <1>5, <2>6, ThreadsDiffer
  <2> QED
    BY <1>6, <2>1, <2>2, <2>3, <2>4, <2>5, <2>6
    DEF EvStep, InitStep, ResetStep, SetCfgStep, DispatchStep
<1>7. ASSUME NEW l \in Lines, ProtoStep(l) \/ StatusStep(l) PROVE QueuedReal'
  <2>1. CASE ProtoFin(l)
    <3>1. proto_cmd[l] \in LineCmds /\ proto_irq[l] \in Irqs \ {"INIEA"}
      BY <2>1 DEF ProtoFin, LinesCommanded, ProtoCmds, TypeOK
    <3>2. Interrupt(proto_irq[l], l, proto_cmd[l]) \in Interrupts
          /\ Interrupt(proto_irq[l], l, proto_cmd[l]) # INIEA
      BY <3>1 DEF Interrupt, Interrupts, INIEA
    <3> QED
      BY <2>1, <3>2, EnqueueReal, ThreadsDiffer DEF ProtoFin
  <2>2. CASE StatusReport(l)
    <3>1. PICK i \in {"ISTRE", "INPAO"} : Enqueue(Status(l), Interrupt(i, l, "status"))
      BY <2>2 DEF StatusReport
    <3>2. Interrupt(i, l, "status") \in Interrupts /\ Interrupt(i, l, "status") # INIEA
      BY <3>1 DEF Interrupt, Interrupts, Irqs, LineCmds, INIEA
    <3> QED
      BY <3>1, <3>2, EnqueueReal, ThreadsDiffer
  <2>3. CASE IntStep(Proto(l)) \/ IntStep(Status(l))
    BY <1>5, <2>3, ThreadsDiffer
  <2> QED
    BY <1>2, <1>7, <2>1, <2>2, <2>3
    DEF ProtoStep, StatusStep, ProtoTake, ProtoRun, ProtoFails, ProtoQuit, StatusDone, StatusQuit, ints
<1>8. CASE CpuStep \/ PowerOff \/ UiContinue
  BY <1>2, <1>3, <1>8
  DEF CpuStep, UiContinue, Issue, Reset, Serve, NoVector, GetSpec, AskPush, InsertEvent, ClearAll,
      PowerOff, Quit, Joined, Free, Forget, ints
<1> QED
  BY <1>2, <1>6, <1>7, <1>8 DEF Next, vars, ints

\* A protocol's thread is given the commands it has functions for.
LEMMA StepLinesCommanded == TypeOK /\ Commanded /\ [Next]_vars => LinesCommanded'
<1> SUFFICES ASSUME TypeOK, LinesCommanded, [Next]_vars PROVE LinesCommanded'
  BY DEF Commanded
<1>1. UNCHANGED <<protoq, proto_pc, proto_cmd, proto_irq>> => LinesCommanded'
  BY DEF LinesCommanded
<1>2. LinesOK
  BY TypeParts
<1>3. ASSUME NEW L \in SUBSET Lines, Configure(L) PROVE LinesCommanded'
  BY <1>2, <1>3 DEF Configure, LinesCommanded, LinesOK
<1>4. CASE Dispatch
  <2>1. CASE UNCHANGED protoq
    BY <1>1, <1>4, <2>1 DEF Dispatch, threads
  <2>2. CASE protoq' = [protoq EXCEPT ![ev.line] = Append(@, ev.cmd)] /\ ev.cmd # "status"
    <3> DEFINE q == Append(protoq[ev.line], ev.cmd)
    <3>1. ev.cmd \in ProtoCmds /\ ev.line \in Lines
      BY <1>2, <1>4, <2>2 DEF Dispatch, Dispatchable, ProtoCmds, LinesOK
    <3>2. protoq[ev.line] \in Seq(ProtoCmds)
      BY <3>1 DEF LinesCommanded
    <3>3. q \in Seq(ProtoCmds)
      BY <3>1, <3>2
    <3>4. protoq' = [protoq EXCEPT ![ev.line] = q]
      BY <2>2
    <3> HIDE DEF q
    <3>5. \A l \in Lines : protoq'[l] = protoq[l] \/ protoq'[l] = q
      BY <1>2, <3>4 DEF LinesOK
    <3> QED
      BY <1>4, <3>3, <3>5 DEF Dispatch, threads, LinesCommanded
  <2> QED
    BY <1>4, <2>1, <2>2 DEF Dispatch
<1>5. ASSUME NEW l \in Lines, ProtoTake(l) PROVE LinesCommanded'
  <2>1. Head(protoq[l]) \in ProtoCmds /\ Tail(protoq[l]) \in Seq(ProtoCmds)
    BY <1>5 DEF ProtoTake, LinesCommanded
  <2>2. /\ proto_cmd'[l] = Head(protoq[l]) /\ protoq'[l] = Tail(protoq[l]) /\ proto_pc'[l] = "run"
        /\ \A k \in Lines \ {l} : proto_cmd'[k] = proto_cmd[k] /\ protoq'[k] = protoq[k]
                                   /\ proto_pc'[k] = proto_pc[k]
        /\ UNCHANGED proto_irq
    BY <1>2, <1>5 DEF ProtoTake, LinesOK
  <2> QED
    BY <2>1, <2>2 DEF LinesCommanded
<1>6. ASSUME NEW l \in Lines, ProtoRun(l) PROVE LinesCommanded'
  <2>1. PICK i \in Outcomes[proto_cmd[l]] : proto_irq' = [proto_irq EXCEPT ![l] = i]
    BY <1>6 DEF ProtoRun
  <2>2. proto_cmd[l] \in ProtoCmds
    BY <1>6 DEF ProtoRun, LinesCommanded
  <2>3. i # "INIEA"
    BY <2>1, <2>2, IrqNames
  <2> QED
    BY <1>2, <1>6, <2>1, <2>2, <2>3 DEF ProtoRun, LinesCommanded, LinesOK
<1>7. ASSUME NEW l \in Lines, ProtoFails(l) PROVE LinesCommanded'
  BY <1>2, <1>7 DEF ProtoFails, LinesCommanded, LinesOK, queues
<1>8. ASSUME NEW l \in Lines, ProtoFin(l) PROVE LinesCommanded'
  BY <1>2, <1>8 DEF ProtoFin, LinesCommanded, LinesOK
<1>9. ASSUME NEW l \in Lines, ProtoQuit(l) PROVE LinesCommanded'
  BY <1>2, <1>9 DEF ProtoQuit, LinesCommanded, LinesOK, queues
<1>10. CASE EvStep
  <2>1. CASE SetCfgRejects \/ SetCfg
    BY <1>3, <2>1 DEF SetCfgRejects, SetCfg
  <2> QED
    BY <1>1, <1>4, <1>10, <2>1
    DEF EvStep, InitStep, ResetStep, SetCfgStep, DispatchStep, IntStep, InitPop, InitWait, Ready,
        Announced, EventLoop, LinesGone, ClearEvents, IntReset, Test, Requeue, SetCfgFails,
        SetCfgRejected, SetCfgStore, SetCfgDone, DispatchNone, DispatchReject, DispatchUnlock,
        IntPush, IntCheck, IntSet, lines, queues, threads
<1>11. ASSUME NEW l \in Lines, ProtoStep(l) \/ StatusStep(l) PROVE LinesCommanded'
  BY <1>1, <1>5, <1>6, <1>7, <1>8, <1>9, <1>11
  DEF ProtoStep, StatusStep, StatusReport, StatusDone, StatusQuit, IntStep, IntPush, IntCheck,
      IntSet, lines, queues, threads
<1>12. CASE CpuStep \/ PowerOff \/ UiContinue
  BY <1>1, <1>12
  DEF CpuStep, UiContinue, Issue, Reset, Serve, NoVector, GetSpec, AskPush, InsertEvent, ClearAll,
      PowerOff, Quit, Joined, Free, Forget, lines, queues, threads
<1> QED
  BY <1>1, <1>10, <1>11, <1>12 DEF Next, vars, lines, queues, threads

-----------------------------------------------------------------------------
(* Who raises an interrupt, and which threads there are. *)

\* The event thread's own interrupts leave the lines' threads alone.
LinesOut == \A l \in Lines : int_pc'[Proto(l)] = int_pc[Proto(l)]
                           /\ int_pc'[Status(l)] = int_pc[Status(l)]

LEMMA EvRaises ==
  ASSUME TypeOK, NEW pc, int_pc' = [int_pc EXCEPT ![Ev] = pc]
  PROVE  LinesOut
BY ThreadsDiffer DEF LinesOut, TypeOK

LEMMA StepLinesJoined == TypeOK /\ LinesJoined /\ Phases /\ [Next]_vars => LinesJoined'
<1> SUFFICES ASSUME TypeOK, LinesJoined, Phases, [Next]_vars PROVE LinesJoined'
  OBVIOUS
<1>1. LinesOK /\ int_pc \in [Threads -> ThreadPcs]
  BY TypeParts DEF IntsOK
<1>2. UNCHANGED lines /\ LinesOut => LinesJoined'
  BY DEF LinesJoined, LinesOut, Out, lines, threads
<1>3. UNCHANGED <<lines, int_pc>> => LinesJoined'
  BY <1>2 DEF LinesOut
<1>4. ASSUME NEW L \in SUBSET Lines, Configure(L), llines = {} \/ L = {}, UNCHANGED int_pc
      PROVE  LinesJoined'
  BY <1>1, <1>4 DEF Configure, LinesJoined, LinesOK, Out
<1>5. CASE EvStep
  <2>1. CASE Announced \/ Test \/ Requeue \/ SetCfgFails \/ SetCfgRejected \/ SetCfgDone
             \/ DispatchNone \/ DispatchReject \/ IntStep(Ev)
    <3>1. \E pc : int_pc' = [int_pc EXCEPT ![Ev] = pc]
      BY <2>1 DEF Announced, Test, Requeue, SetCfgFails, SetCfgRejected, SetCfgDone, DispatchNone,
                  DispatchReject, Answer, Enqueue, Push, IntStep, IntPush, IntCheck, IntSet
    <3> QED
      BY <1>2, <2>1, <3>1, EvRaises
      DEF Announced, Test, Requeue, SetCfgFails, SetCfgRejected, SetCfgDone, DispatchNone,
          DispatchReject, IntStep, IntPush, IntCheck, IntSet
  <2>2. CASE EventLoop
    <3>1. UNCHANGED int_pc \/ int_pc' = [int_pc EXCEPT ![Ev] = "push"]
      BY <2>2 DEF EventLoop, Push
    <3> QED
      BY <1>2, <1>3, <2>2, <3>1, EvRaises DEF EventLoop
  <2>3. CASE SetCfgRejects \/ SetCfg
    <3>1. ev_pc = "cmd" /\ UNCHANGED int_pc
      BY <2>3 DEF SetCfgRejects, SetCfg, ints
    <3>2. \E L \in SUBSET Lines : Configure(L) /\ (llines = {} \/ L = {})
      <4>1. CASE state = "INITIALIZED"
        BY <2>3, <3>1, <4>1 DEF Phases, SetCfgRejects, SetCfg
      <4>2. CASE state # "INITIALIZED"
        BY <2>3, <4>2 DEF SetCfgRejects, SetCfg, Listening, TypeOK
      <4> QED
        BY <4>1, <4>2
    <3> QED
      BY <1>4, <3>1, <3>2
  <2>4. CASE Dispatch
    BY <2>4 DEF Dispatch, LinesJoined, Out, threads, ints
  <2> QED
    BY <1>3, <1>5, <2>1, <2>2, <2>3, <2>4
    DEF EvStep, InitStep, ResetStep, SetCfgStep, DispatchStep, InitPop, InitWait, Ready, LinesGone,
        ClearEvents, IntReset, SetCfgStore, DispatchUnlock, ints
<1>6. ASSUME NEW l \in Lines, ProtoStep(l) \/ StatusStep(l) PROVE LinesJoined'
  <2>1. CASE ProtoTake(l) \/ ProtoRun(l) \/ ProtoFails(l) \/ ProtoQuit(l)
    <3>2. UNCHANGED <<llines, status_pc, int_pc>>
      BY <2>1 DEF ProtoTake, ProtoRun, ProtoFails, ProtoQuit, ints
    <3>3. /\ \A k \in Lines \ {l} : proto_pc'[k] = proto_pc[k]
          /\ proto_pc'[l] \in {"run", "fin"} \/ (proto_pc'[l] = "none" /\ Out(Proto(l)))
          /\ proto_pc[l] # "none"
      BY <1>1, <2>1 DEF ProtoTake, ProtoRun, ProtoFails, ProtoQuit, LinesOK
    <3> QED
      BY <3>2, <3>3 DEF LinesJoined, Out
  <2>2. CASE ProtoFin(l)
    <3>1. int_pc' = [int_pc EXCEPT ![Proto(l)] = "push"]
      BY <2>2 DEF ProtoFin, Enqueue, Push
    <3>2. \A k \in Lines : (k # l => int_pc'[Proto(k)] = int_pc[Proto(k)])
                          /\ int_pc'[Status(k)] = int_pc[Status(k)]
      BY <1>1, <3>1, ThreadsDiffer
    <3>3. /\ proto_pc[l] = "fin" /\ UNCHANGED <<llines, status_pc>>
          /\ \A k \in Lines \ {l} : proto_pc'[k] = proto_pc[k]
          /\ proto_pc'[l] = "wait"
      BY <1>1, <2>2 DEF ProtoFin, LinesOK
    <3> QED
      BY <3>2, <3>3 DEF LinesJoined, Out
  <2>3. CASE StatusReport(l)
    <3>1. int_pc' = [int_pc EXCEPT ![Status(l)] = "push"]
      BY <2>3 DEF StatusReport, Enqueue, Push
    <3>2. \A k \in Lines : int_pc'[Proto(k)] = int_pc[Proto(k)]
                          /\ (k # l => int_pc'[Status(k)] = int_pc[Status(k)])
      BY <1>1, <3>1, ThreadsDiffer
    <3>3. /\ status_pc[l] = "wait" /\ status_pc'[l] = "sent"
          /\ \A k \in Lines \ {l} : status_pc'[k] = status_pc[k]
          /\ UNCHANGED <<llines, proto_pc>>
      BY <1>1, <2>3 DEF StatusReport, LinesOK
    <3> QED
      BY <3>2, <3>3 DEF LinesJoined, Out
  <2>4. CASE StatusDone(l) \/ StatusQuit(l)
    BY <1>1, <2>4 DEF StatusDone, StatusQuit, LinesJoined, LinesOK, Out, ints
  <2>5. CASE IntStep(Proto(l))
    <3>1. PICK pc : int_pc' = [int_pc EXCEPT ![Proto(l)] = pc]
      BY <2>5 DEF IntStep, IntPush, IntCheck, IntSet
    <3>2. \A k \in Lines : (k # l => int_pc'[Proto(k)] = int_pc[Proto(k)])
                          /\ int_pc'[Status(k)] = int_pc[Status(k)]
      BY <1>1, <3>1, ThreadsDiffer
    <3>3. ~Out(Proto(l)) /\ UNCHANGED lines
      BY <2>5 DEF IntStep, IntPush, IntCheck, IntSet, Out
    <3> QED
      BY <3>2, <3>3 DEF LinesJoined, Out, lines, threads
  <2>6. CASE IntStep(Status(l))
    <3>1. PICK pc : int_pc' = [int_pc EXCEPT ![Status(l)] = pc]
      BY <2>6 DEF IntStep, IntPush, IntCheck, IntSet
    <3>2. \A k \in Lines : int_pc'[Proto(k)] = int_pc[Proto(k)]
                          /\ (k # l => int_pc'[Status(k)] = int_pc[Status(k)])
      BY <1>1, <3>1, ThreadsDiffer
    <3>3. ~Out(Status(l)) /\ UNCHANGED lines
      BY <2>6 DEF IntStep, IntPush, IntCheck, IntSet, Out
    <3> QED
      BY <3>2, <3>3 DEF LinesJoined, Out, lines, threads
  <2> QED
    BY <1>6, <2>1, <2>2, <2>3, <2>4, <2>5, <2>6 DEF ProtoStep, StatusStep
<1>7. CASE CpuStep \/ PowerOff \/ UiContinue
  BY <1>3, <1>7
  DEF CpuStep, UiContinue, Issue, Reset, Serve, NoVector, GetSpec, AskPush, InsertEvent, ClearAll,
      PowerOff, Quit, Joined, Free, Forget, ints
<1> QED
  BY <1>3, <1>5, <1>6, <1>7 DEF Next, vars, ints

\* Only a line that is set up raises interrupts of its own.
LEMMA OthersRaise ==
  ASSUME TypeOK, LinesJoined, NEW l \in Lines,
         ~Out(Proto(l)) \/ ~Out(Status(l)) \/ proto_pc[l] # "none" \/ status_pc[l] # "none"
  PROVE  llines # {}
BY DEF LinesJoined

LEMMA StepPhasesEv == TypeOK /\ Phases /\ EvStep => Phases'
<1> SUFFICES ASSUME TypeOK, Phases, EvStep PROVE Phases'
  OBVIOUS
<1>1. /\ eventq \in EventQueues /\ int_pc \in [Threads -> ThreadPcs] /\ Ev \in Threads
      /\ state \in {"UNINITIALIZED", "INITIALIZED", "CONFIGURED"}
  BY TypeParts, ThreadsDiffer DEF IntsOK, RestOK
<1>2. Listening <=> state \in {"INITIALIZED", "CONFIGURED"}
  BY <1>1 DEF Listening
<1> USE DEF Initializing
<1>3. CASE InitPop
  <2>1. PICK type \in EventTypes : Pop(type) /\ ev_pc' = IF type = "QUIT" THEN "exited" ELSE "init"
    BY <1>3, EventTypesAll DEF InitPop
  <2>2. type # "QUIT" => eventq'.QUIT = eventq.QUIT
    BY <1>1, <2>1, PopType
  <2>3. type = "QUIT" => eventq.QUIT > 0
    BY <2>1 DEF Pop, First
  <2> QED
    BY <1>1, <1>3, <2>1, <2>2, <2>3 DEF InitPop, Phases, Out, ints, lines
<1>4. CASE InitWait \/ Ready \/ LinesGone \/ IntReset \/ SetCfgStore \/ DispatchUnlock
  BY <1>4 DEF InitWait, Ready, LinesGone, IntReset, SetCfgStore, DispatchUnlock, Done, Phases, Out,
              ints, lines
<1>5. CASE ClearEvents
  BY <1>5 DEF ClearEvents, Phases, NoEvents, Out, ints, lines
<1>6. CASE Announced \/ Test \/ Requeue \/ SetCfgFails \/ SetCfgRejected \/ SetCfgDone
           \/ DispatchNone \/ DispatchReject
  <2>1. ev_pc' \in {"wait", "reject"} /\ ev_pc \in {"iwyze", "cmd", "cfg_deinit", "cfg_answer"}
        /\ UNCHANGED <<state, eventq, llines, ui_pc>>
    BY <1>6 DEF Announced, Test, Requeue, SetCfgFails, SetCfgRejected, SetCfgDone, DispatchNone,
                DispatchReject, Dispatchable, Done, lines
  <2>2. ev_pc \in {"cfg_deinit", "cfg_store"} => llines = {}
    BY <1>6, <2>1 DEF Announced, Test, Requeue, SetCfgFails, SetCfgRejected, SetCfgDone, DispatchNone,
                DispatchReject, Dispatchable
  <2> QED
    BY <2>1, <2>2 DEF Phases
<1>7. CASE EventLoop
  <2>1. ev_pc = "wait" /\ Out(Ev) /\ UNCHANGED <<state, llines, ui_pc>>
    BY <1>7 DEF EventLoop, lines
  <2>2. CASE Pop("QUIT") /\ ev_pc' = "exited" /\ UNCHANGED int_pc
    <3>1. eventq.QUIT > 0
      BY <2>2 DEF Pop, First
    <3> QED
      BY <1>1, <2>1, <2>2, <3>1 DEF Phases, Out
  <2>3. ASSUME NEW type \in EventTypes \ {"QUIT"}, Pop(type),
               ev_pc' = "wait" \/ (ev_pc' \in {"reset", "cmd"} /\ UNCHANGED int_pc)
        PROVE  Phases'
    <3>1. eventq'.QUIT = eventq.QUIT
      BY <1>1, <2>3, PopType
    <3> QED
      BY <2>1, <2>3, <3>1 DEF Phases, Out
  <2>4. {"RESET", "INT_PUSH", "CMD"} \subseteq EventTypes \ {"QUIT"}
    BY DEF EventTypes
  <2>5. UNCHANGED event => ev_pc' = "wait"
    BY <2>1 DEF event
  <2> QED
    BY <1>7, <2>2, <2>3, <2>4, <2>5 DEF EventLoop
<1>8. CASE SetCfgRejects \/ SetCfg
  BY <1>8 DEF SetCfgRejects, SetCfg, Phases, Out, ints
<1>9. CASE Dispatch
  BY <1>9 DEF Dispatch, Dispatchable, Done, Phases, Out, ints
<1>10. CASE IntStep(Ev)
  <2>1. ~Out(Ev) /\ UNCHANGED <<state, eventq, ev_pc, llines, ui_pc>>
    BY <1>10 DEF IntStep, IntPush, IntCheck, IntSet, Out, event, lines
  <2>2. ev_pc \in {"wait", "reject"}
    BY <2>1 DEF Phases
  <2> QED
    BY <2>1, <2>2 DEF Phases
<1> QED
  BY <1>3, <1>4, <1>5, <1>6, <1>7, <1>8, <1>9, <1>10
  DEF EvStep, InitStep, ResetStep, SetCfgStep, DispatchStep

LEMMA StepPhases == TypeOK /\ LinesJoined /\ Phases /\ [Next]_vars => Phases'
<1> SUFFICES ASSUME TypeOK, LinesJoined, Phases, [Next]_vars PROVE Phases'
  OBVIOUS
<1>1. eventq \in EventQueues /\ int_pc \in [Threads -> ThreadPcs] /\ CpuOK
  BY TypeParts DEF IntsOK, RestOK
<1> USE DEF Initializing
<1>2. ASSUME NEW l \in Lines, ProtoStep(l) \/ StatusStep(l) PROVE Phases'
  <2>1. llines # {}
    BY <1>2, OthersRaise
    DEF ProtoStep, StatusStep, ProtoTake, ProtoRun, ProtoFails, ProtoFin, ProtoQuit, StatusReport,
        StatusDone, StatusQuit, IntStep, IntPush, IntCheck, IntSet, Out
  <2>2. UNCHANGED <<state, eventq, event, ui_pc>> /\ llines' \subseteq llines
    BY <1>2
    DEF ProtoStep, StatusStep, ProtoTake, ProtoRun, ProtoFails, ProtoFin, ProtoQuit, StatusReport,
        StatusDone, StatusQuit, IntStep, IntPush, IntCheck, IntSet, lines
  <2>3. int_pc'[Ev] = int_pc[Ev]
    <3>1. \/ UNCHANGED int_pc
          \/ \E t \in {Proto(l), Status(l)}, pc \in ThreadPcs : int_pc' = [int_pc EXCEPT ![t] = pc]
      BY <1>2
      DEF ProtoStep, StatusStep, ProtoTake, ProtoRun, ProtoFails, ProtoFin, ProtoQuit, StatusReport,
          StatusDone, StatusQuit, IntStep, IntPush, IntCheck, IntSet, Enqueue, Push, ints, ThreadPcs
    <3> QED
      BY <1>1, <3>1, ThreadsDiffer
  <2> QED
    BY <2>1, <2>2, <2>3 DEF Phases, Out, event
<1>3. CASE InsertEvent
  <2>1. eventq'.QUIT = eventq.QUIT
    <3>1. CASE UNCHANGED eventq
      BY <3>1
    <3>2. CASE Insert(pend.type, pend.event)
      <4>1. pend.type \in EventTypes \ {"QUIT"} /\ pend.event \in Events
        BY <1>1 DEF CpuOK, PendTypes, EventTypes
      <4> QED
        BY <1>1, <3>2, <4>1, InsertType
    <3> QED
      BY <1>3, <3>1, <3>2 DEF InsertEvent
  <2> QED
    BY <1>3, <2>1 DEF InsertEvent, Phases, Out, ints, event, lines
<1>4. CASE Issue \/ Reset \/ Serve \/ NoVector \/ AskPush \/ ClearAll
  BY <1>4 DEF Issue, Reset, Serve, NoVector, AskPush, ClearAll, Phases, Out, ints, event, lines
<1>5. CASE GetSpec
  BY <1>5 DEF GetSpec, Phases, Out, event, lines
<1>6. CASE PowerOff \/ Quit \/ Joined \/ Free \/ Forget
  BY <1>6 DEF PowerOff, Quit, Joined, Free, Forget, Phases, Out, ints, event, lines
<1>7. CASE UNCHANGED vars
  BY <1>7 DEF vars, Phases, Out, ints, event, lines
<1> QED
  BY <1>2, <1>3, <1>4, <1>5, <1>6, <1>7, StepPhasesEv DEF Next, CpuStep, UiContinue

LEMMA StepNeverReset == TypeOK /\ Phases /\ NeverReset /\ [Next]_vars => NeverReset'
<1> SUFFICES ASSUME TypeOK, Phases, NeverReset, [Next]_vars PROVE NeverReset'
  OBVIOUS
<1>1. UNCHANGED <<state, ev_pc, cpu_pc, resets, ui_pc>> => NeverReset'
  BY DEF NeverReset, Listening
<1>2. CASE EvStep
  <2>1. UNCHANGED <<cpu_pc, resets, ui_pc>>
    BY <1>2
    DEF EvStep, InitStep, ResetStep, SetCfgStep, DispatchStep, IntStep, InitPop, InitWait, Ready,
        Announced, EventLoop, LinesGone, ClearEvents, IntReset, Test, Requeue, SetCfgFails,
        SetCfgRejects, SetCfgRejected, SetCfg, SetCfgStore, SetCfgDone, DispatchNone,
        DispatchReject, DispatchUnlock, Dispatch, IntPush, IntCheck, IntSet, cpu
  <2>2. CASE InitPop
    <3>1. ui_pc = "on" => ~Pop("QUIT")
      BY DEF Phases, Pop, First
    <3>2. ui_pc = "on" => ev_pc' = "init"
      BY <2>2, <3>1 DEF InitPop
    <3> QED
      BY <2>1, <3>2 DEF NeverReset
  <2>3. CASE InitWait \/ Ready \/ SetCfgStore
    BY <2>1, <2>3 DEF InitWait, Ready, SetCfgStore, NeverReset, Listening
  <2>4. CASE IntStep(Ev)
    BY <1>1, <2>1, <2>4 DEF IntStep, IntPush, IntCheck, IntSet, event
  <2>5. CASE ~(InitPop \/ InitWait \/ Ready \/ SetCfgStore \/ IntStep(Ev))
    <3>1. UNCHANGED state /\ ev_pc \notin {"init", "init_wait", "ready"}
      BY <1>2, <2>5
      DEF EvStep, InitStep, ResetStep, SetCfgStep, DispatchStep, Announced, EventLoop, LinesGone,
          ClearEvents, IntReset, Test, Requeue, SetCfgFails, SetCfgRejects, SetCfgRejected, SetCfg,
          SetCfgDone, DispatchNone, DispatchReject, DispatchUnlock, Dispatch, Dispatchable
    <3> QED
      BY <2>1, <3>1 DEF NeverReset, Listening
  <2> QED
    BY <2>2, <2>3, <2>4, <2>5
<1>3. ASSUME NEW l \in Lines, ProtoStep(l) \/ StatusStep(l) PROVE NeverReset'
  BY <1>1, <1>3
  DEF ProtoStep, StatusStep, ProtoTake, ProtoRun, ProtoFails, ProtoFin, ProtoQuit, StatusReport,
      StatusDone, StatusQuit, IntStep, IntPush, IntCheck, IntSet, event, cpu
<1>4. CASE Reset
  BY <1>4 DEF Reset, TypeOK, NeverReset
<1>5. CASE CpuStep /\ ~Reset
  <2>1. UNCHANGED <<state, ev_pc, resets, ui_pc>>
    BY <1>5 DEF CpuStep, Issue, Serve, NoVector, GetSpec, AskPush, InsertEvent, ClearAll, event
  <2>2. cpu_pc' \in {"mcl", "clear"} => cpu_pc = "mcl"
    BY <1>5 DEF CpuStep, Issue, Serve, NoVector, GetSpec, AskPush, InsertEvent, ClearAll
  <2> QED
    BY <2>1, <2>2 DEF NeverReset, Listening
<1>6. CASE PowerOff \/ UiContinue
  BY <1>6 DEF UiContinue, PowerOff, Quit, Joined, Free, Forget, cpu, event, NeverReset, Listening
<1>7. CASE UNCHANGED vars
  BY <1>1, <1>7 DEF vars, event, cpu
<1> QED
  BY <1>2, <1>3, <1>4, <1>5, <1>6, <1>7 DEF Next

\* A thread that takes up raising an interrupt was not about to set the request.
Signalling == \E t \in Threads : int_pc[t] \in {"check", "set"}

LEMMA PushSignals ==
  ASSUME TypeOK, NEW t \in Threads, Out(t), Push(t)
  PROVE  Signalling => Signalling'
BY DEF TypeOK, Out, Push, Signalling

LEMMA IntStepSignals ==
  ASSUME TypeOK, NEW t \in Threads, IntStep(t), Listening, NoSilentSpec, ui_pc = "on", resets = 0,
         ~MemFails, intspec' # INIEA
  PROVE  irq' \/ cpu_pc' = "vector" \/ Signalling'
<1>0. int_pc \in [Threads -> ThreadPcs]
  BY TypeParts DEF IntsOK
<1>1. UNCHANGED cpu_pc
  BY DEF IntStep, IntPush, IntCheck, IntSet, cpu
<1>2. CASE IntPush(t)
  <2>1. CASE int_pc' = [int_pc EXCEPT ![t] = "check"]
    BY <1>0, <2>1 DEF Signalling
  <2>2. CASE UNCHANGED intspec /\ int_pc[t] = "push" /\ int_pc' = [int_pc EXCEPT ![t] = "out"]
    <3>1. Signalling => Signalling'
      BY <1>0, <2>2 DEF Signalling
    <3> QED
      BY <1>1, <1>2, <2>2, <3>1 DEF NoSilentSpec, IntPush, Signalling
  <2> QED
    BY <1>2, <2>1, <2>2 DEF IntPush
<1>3. CASE IntCheck(t)
  BY <1>0, <1>3 DEF IntCheck, Signalling
<1>4. CASE IntSet(t)
  BY <1>4 DEF IntSet
<1> QED
  BY <1>2, <1>3, <1>4 DEF IntStep

LEMMA StepNoSilentSpec == IInv /\ [Next]_vars => NoSilentSpec'
<1> SUFFICES ASSUME IInv, [Next]_vars,
                    intspec' # INIEA, Listening', ui_pc' = "on", resets' = 0, ~MemFails
             PROVE  irq' \/ cpu_pc' = "vector" \/ Signalling'
  BY DEF NoSilentSpec, Signalling
<1> USE DEF IInv
<1>1. UNCHANGED <<irq, int_pc>> => (Signalling => Signalling') /\ (irq => irq')
  BY DEF Signalling
<1>2. intspec # INIEA /\ Listening /\ ui_pc = "on" /\ resets = 0 => irq \/ cpu_pc = "vector" \/ Signalling
  BY DEF NoSilentSpec, Signalling
<1>3. CASE EvStep
  <2>1. UNCHANGED <<cpu_pc, resets, ui_pc>>
    BY <1>3
    DEF EvStep, InitStep, ResetStep, SetCfgStep, DispatchStep, IntStep, InitPop, InitWait, Ready,
        Announced, EventLoop, LinesGone, ClearEvents, IntReset, Test, Requeue, SetCfgFails,
        SetCfgRejects, SetCfgRejected, SetCfg, SetCfgStore, SetCfgDone, DispatchNone,
        DispatchReject, DispatchUnlock, Dispatch, IntPush, IntCheck, IntSet, cpu
  <2>2. CASE Ready \/ IntReset \/ Requeue
    <3>1. intspec' = INIEA
      BY <2>2 DEF Ready, IntReset, Requeue, Phases, Initializing, ints
    <3> QED
      BY <3>1
  <2>3. CASE SetCfgStore
    <3>1. Listening
      BY <2>1, <2>3 DEF SetCfgStore, NeverReset
    <3> QED
      BY <1>1, <1>2, <2>1, <2>3, <3>1 DEF SetCfgStore, ints
  <2>4. CASE IntStep(Ev)
    <3>1. Listening
      BY <2>4 DEF IntStep, IntPush, IntCheck, IntSet, Listening
    <3> QED
      BY <2>1, <2>4, <3>1, IntStepSignals, ThreadsDiffer
  <2>5. CASE Announced \/ Test \/ SetCfgFails \/ SetCfgRejected \/ SetCfgDone \/ DispatchNone
             \/ DispatchReject
    <3>1. Out(Ev) /\ Push(Ev) /\ UNCHANGED <<state, intspec, irq>>
      BY <2>5 DEF Announced, Test, SetCfgFails, SetCfgRejected, SetCfgDone, DispatchNone,
                  DispatchReject, Dispatchable, Answer, Enqueue, Phases
    <3> QED
      BY <1>2, <2>1, <3>1, PushSignals, ThreadsDiffer DEF Listening
  <2>6. CASE EventLoop
    <3>1. UNCHANGED <<state, intspec, irq>> /\ (UNCHANGED int_pc \/ (Out(Ev) /\ Push(Ev)))
      BY <2>6 DEF EventLoop
    <3> QED
      BY <1>1, <1>2, <2>1, <3>1, PushSignals, ThreadsDiffer DEF Listening
  <2>7. CASE InitPop \/ InitWait \/ LinesGone \/ ClearEvents \/ SetCfgRejects \/ SetCfg
             \/ DispatchUnlock \/ Dispatch
    <3>1. UNCHANGED <<state, intspec, irq, int_pc>>
      BY <2>7 DEF InitPop, InitWait, LinesGone, ClearEvents, SetCfgRejects, SetCfg, DispatchUnlock,
                  Dispatch, ints
    <3> QED
      BY <1>1, <1>2, <2>1, <3>1 DEF Listening
  <2> QED
    BY <1>3, <2>2, <2>3, <2>4, <2>5, <2>6, <2>7
    DEF EvStep, InitStep, ResetStep, SetCfgStep, DispatchStep
<1>4. ASSUME NEW l \in Lines, ProtoStep(l) \/ StatusStep(l)
      PROVE  irq' \/ cpu_pc' = "vector" \/ Signalling'
  <2>1. UNCHANGED <<state, cpu_pc, resets, ui_pc>>
    BY <1>4
    DEF ProtoStep, StatusStep, ProtoTake, ProtoRun, ProtoFails, ProtoFin, ProtoQuit, StatusReport,
        StatusDone, StatusQuit, IntStep, IntPush, IntCheck, IntSet, cpu
  <2>2. CASE ProtoFin(l) \/ StatusReport(l)
    <3>1. \E t \in Threads : Out(t) /\ Push(t)
      BY <2>2, ThreadsDiffer DEF ProtoFin, StatusReport, Held, Enqueue, LinesJoined
    <3>2. UNCHANGED <<intspec, irq>>
      BY <2>2 DEF ProtoFin, StatusReport, Enqueue
    <3> QED
      BY <1>2, <2>1, <3>1, <3>2, PushSignals DEF Listening
  <2>3. CASE IntStep(Proto(l)) \/ IntStep(Status(l))
    BY <2>1, <2>3, IntStepSignals, ThreadsDiffer DEF Listening
  <2>4. CASE ~(ProtoFin(l) \/ StatusReport(l) \/ IntStep(Proto(l)) \/ IntStep(Status(l)))
    <3>1. UNCHANGED ints
      BY <1>4, <2>4
      DEF ProtoStep, StatusStep, ProtoTake, ProtoRun, ProtoFails, ProtoQuit, StatusDone, StatusQuit
    <3> QED
      BY <1>1, <1>2, <2>1, <3>1 DEF Listening, ints
  <2> QED
    BY <2>2, <2>3, <2>4
<1>5. CASE CpuStep
  <2>1. CASE Serve
    BY <2>1 DEF Serve
  <2>2. CASE Reset
    BY <2>2 DEF Reset, TypeOK
  <2>3. CASE NoVector
    BY <2>3 DEF NoVector
  <2>4. CASE GetSpec
    <3>1. intspec' = INIEA
      BY <2>4 DEF GetSpec
    <3> QED
      BY <3>1
  <2>5. CASE ClearAll
    BY <2>5 DEF ClearAll, NeverReset
  <2>6. CASE Issue \/ AskPush \/ InsertEvent
    <3>1. UNCHANGED <<state, ints, resets, ui_pc>> /\ cpu_pc # "vector"
      BY <2>6 DEF Issue, AskPush, InsertEvent
    <3> QED
      BY <1>1, <1>2, <3>1 DEF Listening, ints
  <2> QED
    BY <1>5, <2>1, <2>2, <2>3, <2>4, <2>5, <2>6 DEF CpuStep
<1>6. CASE PowerOff \/ UiContinue
  <2>1. ui_pc' # "on"
    BY <1>6 DEF UiContinue, PowerOff, Quit, Joined, Free, Forget
  <2> QED
    BY <2>1
<1>7. CASE UNCHANGED vars
  BY <1>1, <1>2, <1>7 DEF vars, ints, cpu, Listening
<1> QED
  BY <1>3, <1>4, <1>5, <1>6, <1>7 DEF Next

LEMMA InitInv == Init => IInv
<1> SUFFICES ASSUME Init PROVE IInv
  OBVIOUS
<1>1. TypeOK
  <2>1. IntsOK
    <3>1. irq \in BOOLEAN
      BY Zenon DEF Init
    <3>2. intq \in Seq(Interrupts) /\ intspec \in Interrupts /\ int_pc \in [Threads -> ThreadPcs]
      BY IrqNames DEF Init, ThreadPcs
    <3> QED
      BY <3>1, <3>2 DEF IntsOK
  <2>2. EventOK
    BY IrqNames DEF Init, EventOK, EvPcs
  <2>3. LinesOK
    BY DEF Init, LinesOK, Irqs
  <2>4. CpuOK
    BY IrqNames DEF Init, CpuOK, NoPend, Pend, PendTypes
  <2>5. RestOK
    BY EventTypesAll DEF Init, RestOK
  <2> QED
    BY <2>1, <2>2, <2>3, <2>4, <2>5, TypeParts
<1>2. Commanded
  BY DEF Init, Commanded, QueuedReal, LinesCommanded
<1>3. LinesJoined
  BY ThreadsDiffer DEF Init, LinesJoined, Out
<1>4. Phases
  BY ThreadsDiffer DEF Init, Phases, Initializing, Out, NoEvents
<1>5. NeverReset /\ NoSilentSpec
  BY DEF Init, NeverReset, NoSilentSpec
<1> QED
  BY <1>1, <1>2, <1>3, <1>4, <1>5 DEF IInv

LEMMA Invariant == Spec => []IInv
<1>1. IInv /\ [Next]_vars => IInv'
  <2> SUFFICES ASSUME IInv, [Next]_vars PROVE IInv'
    OBVIOUS
  <2>1. TypeOK' /\ Commanded'
    BY StepType, StepQueuedReal, StepLinesCommanded DEF IInv, Commanded
  <2>2. LinesJoined' /\ Phases'
    BY StepLinesJoined, StepPhases DEF IInv
  <2>3. NeverReset' /\ NoSilentSpec'
    BY StepNeverReset, StepNoSilentSpec DEF IInv
  <2> QED
    BY <2>1, <2>2, <2>3 DEF IInv
<1> QED
  BY <1>1, InitInv, PTL DEF Spec

-----------------------------------------------------------------------------
(* Interrupts are handed over as a mailbox hands over messages. *)

LEMMA MailType ==
  ASSUME TypeOK
  PROVE  /\ intq \in Seq(Interrupts) /\ Len(intq) \in Nat /\ mail \in Seq(Interrupts)
         /\ intspec = INIEA => mail = intq
         /\ intspec # INIEA => mail = <<intspec>> \o intq
<1>1. intq \in Seq(Interrupts) /\ Len(intq) \in Nat /\ intspec \in Interrupts
  BY DEF TypeOK
<1>2. CASE intspec = INIEA
  <2>1. mail = <<>> \o intq
    BY <1>2 DEF mail
  <2>2. <<>> \o intq = intq
    BY <1>1
  <2> QED
    BY <1>1, <1>2, <2>1, <2>2
<1>3. CASE intspec # INIEA
  <2>1. mail = <<intspec>> \o intq
    BY <1>3 DEF mail
  <2> QED
    BY <1>1, <1>3, <2>1
<1> QED
  BY <1>2, <1>3

\* A raised interrupt goes to the end of the mailbox, or is dropped.
LEMMA EnqueuePosts ==
  ASSUME TypeOK, TypeOK', NEW t \in Threads, NEW i \in Interrupts, Enqueue(t, i)
  PROVE  mail' = mail \/ mail' = Append(mail, i)
<1>1. intspec' = intspec /\ (intq' = intq \/ intq' = Append(intq, i))
  BY DEF Enqueue
<1>2. CASE intq' = intq
  BY <1>1, <1>2 DEF mail
<1>3. CASE intq' = Append(intq, i)
  <2> DEFINE out == IF intspec = INIEA THEN <<>> ELSE <<intspec>>
  <2>1. out \in Seq(Interrupts) /\ intq \in Seq(Interrupts)
    BY DEF TypeOK
  <2>2. mail = out \o intq /\ mail' = out \o Append(intq, i)
    BY <1>1, <1>3 DEF mail
  <2> HIDE DEF out
  <2>3. out \o Append(intq, i) = Append(out \o intq, i)
    BY <2>1
  <2> QED
    BY <2>2, <2>3
<1> QED
  BY <1>1, <1>2, <1>3

\* Offering the next one changes nothing in the mailbox.
LEMMA IntStepKeepsMail ==
  ASSUME TypeOK, TypeOK', QueuedReal, NEW t \in Threads, IntStep(t)
  PROVE  mail' = mail
<1>1. CASE CanAnnounce /\ Announce
  <2>1. intq # <<>> /\ intspec = INIEA /\ intspec' = Head(intq) /\ intq' = Tail(intq)
    BY <1>1 DEF CanAnnounce, Announce
  <2>2. Head(intq) = intq[1] /\ 1 \in 1..Len(intq) /\ <<Head(intq)>> \o Tail(intq) = intq
    BY <2>1, MailType
  <2>3. intspec' # INIEA
    BY <2>1, <2>2 DEF QueuedReal
  <2>4. mail' = <<intspec'>> \o intq'
    BY <2>3 DEF mail
  <2> QED
    BY <2>1, <2>2, <2>4, MailType
<1>2. CASE UNCHANGED <<intspec, intq>>
  BY <1>2 DEF mail
<1> QED
  BY <1>1, <1>2 DEF IntStep, IntPush, IntCheck, IntSet

LEMMA EmptyMail == intspec' = INIEA /\ intq' = <<>> => mail' = <<>>
BY DEF mail

\* A reset that is due stays due until the event thread carries it out.
LEMMA MailboxEv ==
  ASSUME IInv, TypeOK', EvStep
  PROVE  [Mailbox!Next]_Mailbox!vars
<1> USE DEF IInv
<1>1. UNCHANGED <<spec, ui_pc>>
  BY DEF EvStep, InitStep, ResetStep, SetCfgStep, DispatchStep, IntStep, InitPop, InitWait, Ready,
         Announced, EventLoop, LinesGone, ClearEvents, IntReset, Test, Requeue, SetCfgFails,
         SetCfgRejects, SetCfgRejected, SetCfg, SetCfgStore, SetCfgDone, DispatchNone,
         DispatchReject, DispatchUnlock, Dispatch, IntPush, IntCheck, IntSet, cpu
<1>2. (ResetDue' <=> ResetDue) => ResetDue' = ResetDue
  BY DEF ResetDue
<1>3. CASE mail' = mail /\ (ResetDue' <=> ResetDue)
  BY <1>1, <1>2, <1>3 DEF Mailbox!vars
<1>4. eventq \in EventQueues
  BY TypeParts DEF RestOK
<1>5. CASE InitPop
  <2>1. mail = <<>> /\ mail' = mail
    BY <1>5, MailType DEF InitPop, Phases, Initializing, ints, mail
  <2>2. CASE ResetDue
    <3>1. ResetDue' \in BOOLEAN /\ mail' = <<>>
      BY <2>1 DEF ResetDue
    <3> QED
      BY <1>1, <2>2, <3>1 DEF Mailbox!Next, Mailbox!Reset
  <2>3. CASE ~ResetDue
    <3>1. PICK type \in EventTypes : Pop(type) /\ ev_pc' \in {"init", "exited"}
      BY <1>5, EventTypesAll DEF InitPop
    <3>2. eventq.RESET = 0
      BY <1>4, <2>3 DEF ResetDue, EventQueues
    <3>3. type # "RESET"
      BY <3>1, <3>2 DEF Pop, First
    <3>4. eventq'.RESET = 0
      BY <1>4, <3>1, <3>2, <3>3, PopType
    <3> QED
      BY <1>1, <1>3, <2>1, <2>3, <3>1, <3>4 DEF ResetDue
  <2> QED
    BY <2>2, <2>3
<1>6. CASE IntReset
  <2>1. mail' = <<>>
    BY <1>6, EmptyMail DEF IntReset
  <2>2. ResetDue /\ ResetDue' \in BOOLEAN
    BY <1>6 DEF IntReset, ResetDue
  <2> QED
    BY <1>1, <2>1, <2>2 DEF Mailbox!Next, Mailbox!Reset
<1>7. CASE EventLoop
  <2>1. mail' = mail
    BY <1>7 DEF EventLoop, mail
  <2>2. ev_pc = "wait"
    BY <1>7 DEF EventLoop
  <2>3. CASE Pop("RESET") /\ ev_pc' = "reset"
    <3>1. ResetDue /\ ResetDue'
      BY <2>3 DEF Pop, First, ResetDue
    <3> QED
      BY <1>3, <2>1, <3>1
  <2>4. ASSUME NEW type \in EventTypes \ {"RESET"}, Pop(type), ev_pc' # "reset", ev_pc' \in {"wait", "cmd", "exited"}
        PROVE  ResetDue' <=> ResetDue
    <3>1. eventq'.RESET = eventq.RESET
      BY <1>4, <2>4, PopType
    <3> QED
      BY <1>1, <2>2, <2>4, <3>1 DEF ResetDue
  <2>5. {"QUIT", "INT_PUSH", "CMD"} \subseteq EventTypes \ {"RESET"}
    BY DEF EventTypes
  <2>6. UNCHANGED event => ev_pc' = "wait"
    BY <2>2 DEF event
  <2> QED
    BY <1>3, <1>7, <2>1, <2>3, <2>4, <2>5, <2>6 DEF EventLoop
<1>8. CASE LinesGone \/ ClearEvents
  <2>1. ResetDue /\ ResetDue' /\ mail' = mail
    BY <1>8 DEF LinesGone, ClearEvents, ResetDue, ints, mail
  <2> QED
    BY <1>3, <2>1
<1>9. CASE InitWait \/ Ready \/ SetCfgRejects \/ SetCfg \/ SetCfgStore \/ DispatchUnlock \/ Dispatch
  <2>1. UNCHANGED eventq /\ mail' = mail
    BY <1>9 DEF InitWait, Ready, SetCfgRejects, SetCfg, SetCfgStore, DispatchUnlock, Dispatch, ints, mail
  <2>2. {ev_pc, ev_pc'} \cap {"reset", "clear", "int_reset"} = {}
    BY <1>9 DEF InitWait, Ready, SetCfgRejects, SetCfg, SetCfgStore, DispatchUnlock, Dispatch,
                Dispatchable, Done
  <2> QED
    BY <1>1, <1>3, <2>1, <2>2 DEF ResetDue
<1>10. CASE Announced \/ Test \/ SetCfgFails \/ SetCfgRejected \/ SetCfgDone \/ DispatchNone
            \/ DispatchReject
  <2>1. PICK i \in Interrupts : Enqueue(Ev, i)
    <3>1. CASE Announced
      <4>1. Interrupt("IWYZE", 0, "none") \in Interrupts
        BY DEF Interrupt, Interrupts, Irqs
      <4> QED
        BY <3>1, <4>1 DEF Announced
    <3>2. CASE \E i \in Irqs \ {"INIEA"} : Answer(i)
      BY <3>2, AnswerType DEF Answer, TypeOK
    <3> QED
      BY <1>10, <3>1, <3>2, IrqNames DEF Test, SetCfgFails, SetCfgRejected, SetCfgDone,
                                         DispatchNone, DispatchReject, Dispatchable
  <2>2. mail' = mail \/ mail' = Append(mail, i)
    BY <2>1, EnqueuePosts, ThreadsDiffer
  <2>3. UNCHANGED eventq /\ {ev_pc, ev_pc'} \cap {"reset", "clear", "int_reset"} = {}
    BY <1>10 DEF Announced, Test, SetCfgFails, SetCfgRejected, SetCfgDone, DispatchNone,
                 DispatchReject, Dispatchable, Done
  <2>4. ResetDue' <=> ResetDue
    BY <1>1, <2>3 DEF ResetDue
  <2> QED
    BY <1>1, <1>2, <1>3, <2>2, <2>4 DEF Mailbox!Next, Mailbox!Post
<1>11. CASE Requeue
  <2>1. intspec' = INIEA /\ UNCHANGED eventq /\ {ev_pc, ev_pc'} \cap {"reset", "clear", "int_reset"} = {}
    BY <1>11 DEF Requeue, Done
  <2>2. ResetDue' <=> ResetDue
    BY <1>1, <2>1 DEF ResetDue
  <2>3. mail' = intq'
    BY <2>1, MailType DEF mail, TypeOK
  <2>4. CASE intspec # INIEA /\ Len(intq) >= Capacity
    <3>1. mail = <<intspec>> \o intq /\ intq \in Seq(Interrupts) /\ Len(intq) \in Nat
          /\ intq' = intq /\ Capacity \in Nat
      BY <1>11, <2>4, MailType, MultixAssumption DEF Requeue
    <3>2. Len(mail) = Len(intq) + 1 /\ Tail(mail) = intq
      BY <3>1
    <3>3. Len(mail) > Capacity /\ mail' = Tail(mail)
      BY <2>3, <2>4, <3>1, <3>2
    <3> QED
      BY <1>1, <1>2, <2>2, <3>3 DEF Mailbox!Next, Mailbox!Overflow
  <2>5. CASE intspec = INIEA
    BY <1>3, <1>11, <2>2, <2>3, <2>5, MailType DEF Requeue
  <2>6. CASE intspec # INIEA /\ ~(Len(intq) >= Capacity)
    BY <1>3, <1>11, <2>2, <2>3, <2>6, MailType DEF Requeue
  <2> QED
    BY <2>4, <2>5, <2>6
<1>12. CASE IntStep(Ev)
  <2>1. mail' = mail
    BY <1>12, IntStepKeepsMail, ThreadsDiffer DEF Commanded
  <2>2. ResetDue' <=> ResetDue
    BY <1>1, <1>12 DEF IntStep, IntPush, IntCheck, IntSet, ResetDue, event
  <2> QED
    BY <1>3, <2>1, <2>2
<1> QED
  BY <1>5, <1>6, <1>7, <1>8, <1>9, <1>10, <1>11, <1>12
  DEF EvStep, InitStep, ResetStep, SetCfgStep, DispatchStep

LEMMA MailboxLine ==
  ASSUME IInv, TypeOK', NEW l \in Lines, ProtoStep(l) \/ StatusStep(l)
  PROVE  [Mailbox!Next]_Mailbox!vars
<1> USE DEF IInv
<1>1. UNCHANGED spec /\ (ResetDue' <=> ResetDue)
  BY DEF ProtoStep, StatusStep, ProtoTake, ProtoRun, ProtoFails, ProtoFin, ProtoQuit, StatusReport,
         StatusDone, StatusQuit, IntStep, IntPush, IntCheck, IntSet, cpu, event, ResetDue
<1>2. (ResetDue' <=> ResetDue) => ResetDue' = ResetDue
  BY DEF ResetDue
<1>3. CASE mail' = mail
  BY <1>1, <1>2, <1>3 DEF Mailbox!vars
<1>4. CASE ProtoFin(l)
  <2>1. proto_cmd[l] \in LineCmds /\ proto_irq[l] \in Irqs
    BY <1>4 DEF ProtoFin, Commanded, LinesCommanded, ProtoCmds, TypeOK
  <2>2. PICK i \in Interrupts : Enqueue(Proto(l), i)
    BY <1>4, <2>1 DEF ProtoFin, Interrupt, Interrupts
  <2>3. mail' = mail \/ mail' = Append(mail, i)
    BY <2>2, EnqueuePosts, ThreadsDiffer
  <2> QED
    BY <1>1, <1>2, <1>3, <2>3 DEF Mailbox!Next, Mailbox!Post
<1>5. CASE StatusReport(l)
  <2>1. \A i \in {"ISTRE", "INPAO"} : Interrupt(i, l, "status") \in Interrupts
    BY DEF Interrupt, Interrupts, Irqs, LineCmds
  <2>2. PICK i \in Interrupts : Enqueue(Status(l), i)
    BY <1>5, <2>1 DEF StatusReport
  <2>3. mail' = mail \/ mail' = Append(mail, i)
    BY <2>2, EnqueuePosts, ThreadsDiffer
  <2> QED
    BY <1>1, <1>2, <1>3, <2>3 DEF Mailbox!Next, Mailbox!Post
<1>6. CASE IntStep(Proto(l)) \/ IntStep(Status(l))
  BY <1>3, <1>6, IntStepKeepsMail, ThreadsDiffer DEF Commanded
<1>7. CASE ~(ProtoFin(l) \/ StatusReport(l) \/ IntStep(Proto(l)) \/ IntStep(Status(l)))
  <2>1. UNCHANGED ints
    BY <1>7 DEF ProtoStep, StatusStep, ProtoTake, ProtoRun, ProtoFails, ProtoQuit, StatusDone,
                StatusQuit
  <2> QED
    BY <1>3, <2>1 DEF ints, mail
<1> QED
  BY <1>4, <1>5, <1>6, <1>7

LEMMA MailboxCpu ==
  ASSUME IInv, TypeOK', CpuStep \/ PowerOff \/ UiContinue
  PROVE  [Mailbox!Next]_Mailbox!vars
<1> USE DEF IInv
<1>1. (ResetDue' <=> ResetDue) => ResetDue' = ResetDue
  BY DEF ResetDue
<1>2. CASE Issue \/ Reset \/ Serve \/ NoVector \/ ClearAll
  <2>1. UNCHANGED <<eventq, ev_pc, ui_pc, spec>> /\ mail' = mail
    BY <1>2 DEF Issue, Reset, Serve, NoVector, ClearAll, ints, event, mail
  <2> QED
    BY <1>1, <2>1 DEF ResetDue, Mailbox!vars
<1>3. CASE AskPush
  <2>1. UNCHANGED <<eventq, ev_pc, ui_pc>> /\ mail' = mail /\ spec' = INIEA
    BY <1>3 DEF AskPush, ints, event, mail
  <2> QED
    BY <1>1, <2>1 DEF ResetDue, Mailbox!Next, Mailbox!TakeNothing
<1>4. CASE GetSpec
  <2>1. UNCHANGED <<eventq, ev_pc, ui_pc, intq>>
    BY <1>4 DEF GetSpec, event
  <2>2. ResetDue' = ResetDue
    BY <1>1, <2>1 DEF ResetDue
  <2>3. CASE UNCHANGED <<spec, intspec>>
    BY <2>1, <2>2, <2>3 DEF mail, Mailbox!vars
  <2>4. CASE spec' = intspec /\ intspec' = INIEA
    <3>1. mail' = intq /\ intq \in Seq(Interrupts)
      BY <2>1, <2>4, MailType DEF mail
    <3>2. CASE intspec = INIEA
      BY <2>2, <2>4, <3>1, <3>2, MailType DEF Mailbox!Next, Mailbox!TakeNothing
    <3>3. CASE intspec # INIEA
      <4>1. mail = <<intspec>> \o intq
        BY <3>3, MailType
      <4>2. mail # <<>> /\ Head(mail) = intspec /\ Tail(mail) = intq
        BY <3>1, <4>1
      <4> QED
        BY <2>2, <2>4, <3>1, <4>2 DEF Mailbox!Next, Mailbox!Take
    <3> QED
      BY <3>2, <3>3
  <2> QED
    BY <1>4, <2>3, <2>4 DEF GetSpec
<1>5. CASE InsertEvent
  <2>1. UNCHANGED <<ev_pc, ui_pc, spec>> /\ mail' = mail
    BY <1>5 DEF InsertEvent, ints, event, mail
  <2>2. eventq \in EventQueues /\ eventq' \in EventQueues /\ CpuOK
    BY TypeParts DEF RestOK, TypeOK, EventQueues
  <2>3. eventq'.RESET >= eventq.RESET
    <3>1. CASE UNCHANGED eventq
      BY <2>2, <3>1 DEF EventQueues
    <3>2. CASE Insert(pend.type, pend.event)
      <4>1. pend.type \in EventTypes /\ pend.event \in Events
        BY <2>2 DEF CpuOK, PendTypes, EventTypes
      <4> QED
        BY <2>2, <3>2, <4>1, InsertType
    <3> QED
      BY <1>5, <3>1, <3>2 DEF InsertEvent
  <2>4. ResetDue => ResetDue'
    BY <2>1, <2>2, <2>3 DEF ResetDue, EventQueues
  <2>5. CASE ResetDue' <=> ResetDue
    BY <1>1, <2>1, <2>5 DEF Mailbox!vars
  <2>6. CASE ResetDue' /\ ~ResetDue
    <3>1. ResetDue' = TRUE
      BY <2>6 DEF ResetDue
    <3> QED
      BY <2>1, <3>1 DEF Mailbox!Next, Mailbox!AskReset
  <2> QED
    BY <2>4, <2>5, <2>6
<1>6. CASE PowerOff
  <2>1. UNCHANGED spec /\ mail' = mail /\ ui_pc' # "on"
    BY <1>6 DEF PowerOff, ints, cpu, mail
  <2>2. ResetDue' = TRUE
    BY <2>1 DEF ResetDue
  <2> QED
    BY <2>1, <2>2 DEF Mailbox!Next, Mailbox!AskReset
<1>7. CASE UiContinue
  <2>1. UNCHANGED spec /\ ui_pc # "on" /\ ui_pc' # "on"
    BY <1>7 DEF UiContinue, Quit, Joined, Free, Forget, cpu
  <2>2. ResetDue /\ ResetDue'
    BY <2>1 DEF ResetDue
  <2>3. CASE Free
    <3>1. mail' = <<>>
      BY <2>3, EmptyMail DEF Free
    <3>2. ResetDue' \in BOOLEAN
      BY <2>2 DEF ResetDue
    <3> QED
      BY <2>1, <2>2, <3>1, <3>2 DEF Mailbox!Next, Mailbox!Reset
  <2>4. CASE Quit \/ Joined \/ Forget
    <3>1. mail' = mail
      BY <2>4 DEF Quit, Joined, Forget, ints, mail
    <3> QED
      BY <1>1, <2>1, <2>2, <3>1 DEF Mailbox!vars
  <2> QED
    BY <1>7, <2>3, <2>4 DEF UiContinue
<1> QED
  BY <1>2, <1>3, <1>4, <1>5, <1>6, <1>7 DEF CpuStep

-----------------------------------------------------------------------------
(* What MULTIX guarantees. *)

\* Whatever the threads of a MULTIX with any number of lines do, its interrupts
\* go to the program as through a mailbox: in the order they were raised, each
\* once (mx_int_enqueue(), mx_int_push(), mx_int_get_spec(), mx_cmd_int_requeue()).
THEOREM InterruptsAsMailbox == Spec => ImplementsMailbox
<1>1. Init => Mailbox!Init
  BY EventTypesAll DEF Init, Mailbox!Init, mail, ResetDue, NoEvents
<1>2. IInv /\ IInv' /\ [Next]_vars => [Mailbox!Next]_Mailbox!vars
  <2> SUFFICES ASSUME IInv, TypeOK', [Next]_vars PROVE [Mailbox!Next]_Mailbox!vars
    BY DEF IInv
  <2>1. CASE UNCHANGED vars
    BY <2>1 DEF vars, ints, event, cpu, mail, ResetDue, Mailbox!vars
  <2> QED
    BY <2>1, MailboxEv, MailboxLine, MailboxCpu DEF Next
<1> QED
  BY <1>1, <1>2, Invariant, PTL DEF Spec, ImplementsMailbox, Mailbox!Spec

\* A channel that is freed has left no thread behind, and as long as it is not
\* reset no interrupt is offered that the CPU is not told of, for any number of
\* lines and lists of any capacity (mx_shutdown(), mx_int_push()).
THEOREM NothingEverLeft == Spec => []NothingLeft
<1>1. IInv => NothingLeft
  <2> SUFFICES ASSUME IInv PROVE NoThreadLeft /\ NoSilentSpec
    BY DEF NothingLeft
  <2>1. ASSUME ChannelGone PROVE NoThreadLeft
    <3>1. ev_pc = "exited" /\ llines = {} /\ Out(Ev)
      BY <2>1 DEF IInv, Phases, ChannelGone
    <3>2. \A l \in Lines : /\ proto_pc[l] = "none" /\ status_pc[l] = "none"
                          /\ Out(Proto(l)) /\ Out(Status(l))
      BY <3>1 DEF IInv, LinesJoined
    <3> QED
      BY <3>1, <3>2 DEF NoThreadLeft, Threads
  <2> QED
    BY <2>1 DEF IInv, NoThreadLeft
<1> QED
  BY <1>1, Invariant, PTL

\* The first interrupt after any reset is IWYZE, alone, and no thread of the
\* old configuration is left to raise another (mx_lines_deinit(), mx_int_reset()).
THEOREM AlwaysAfresh == Spec => ResetStartsAfresh
<1>1. ASSUME IInv, IInv', Announced
      PROVE  /\ mail' = <<Interrupt("IWYZE", 0, "none")>> /\ llines = {}
             /\ \A l \in Lines : /\ proto_pc[l] = "none" /\ status_pc[l] = "none"
                                /\ Out(Proto(l)) /\ Out(Status(l))
  <2>1. llines = {} /\ intspec = INIEA /\ intq = <<>>
    BY <1>1 DEF IInv, Phases, Initializing, Announced
  <2>2. \A l \in Lines : /\ proto_pc[l] = "none" /\ status_pc[l] = "none"
                        /\ Out(Proto(l)) /\ Out(Status(l))
    BY <1>1, <2>1 DEF IInv, LinesJoined
  <2>3. intspec' = INIEA /\ intq' = Append(<<>>, Interrupt("IWYZE", 0, "none"))
    BY <1>1, <2>1, MultixAssumption DEF Announced, Enqueue
  <2>4. mail' = <<Interrupt("IWYZE", 0, "none")>>
    BY <2>3 DEF mail
  <2> QED
    BY <2>1, <2>2, <2>4
<1>2. IInv /\ IInv' /\ [Next]_vars =>
        [Announced => /\ mail' = <<Interrupt("IWYZE", 0, "none")>> /\ llines = {}
                      /\ \A l \in Lines : /\ proto_pc[l] = "none" /\ status_pc[l] = "none"
                                         /\ Out(Proto(l)) /\ Out(Status(l))]_vars
  BY <1>1
<1> QED
  BY <1>2, Invariant, PTL DEF Spec, ResetStartsAfresh

-----------------------------------------------------------------------------
(* Answers.  What the program waits for is counted, wherever it is on its  *)
(* way: queued, in hand, with a line, in the mailbox.                      *)

\* No reset has been asked for, and the machine is on.
Undamaged == resets = 0 /\ ui_pc = "on"

\* No list is full: what is inserted into a full one is dropped, and with it a command
\* or its answer.
Roomy == EventCount < Capacity /\ Len(intq) < Capacity

Calm == Undamaged /\ Roomy

\* Nothing of a reset is under way; the state says how far the event thread has
\* come, and nothing is accepted before it listens.
Undisturbed ==
  /\ eventq.RESET = 0 /\ pend.type # "RESET"
  /\ ev_pc \notin {"reset", "clear", "int_reset", "exited"}
  /\ state = "UNINITIALIZED" <=> ev_pc \in {"init", "init_wait", "ready"}
  /\ ~Listening => eventq.CMD = <<>> /\ pend.type # "CMD"

\* Only a configuration that is being carried out sets lines up and takes them down.
Configuring ==
  /\ ev_pc \in {"cfg_deinit", "cfg_store", "cfg_answer"} => ev.cmd = "setcfg"
  /\ ev_pc \in {"cfg_deinit", "cfg_store"} => state = "INITIALIZED"

\* Before the configuration is stored no line has been given a command.
LineIdle(l) ==
  /\ status[l] = {} /\ protoq[l] = <<>> /\ statusq[l] = 0
  /\ proto_pc[l] \in {"none", "wait"} /\ status_pc[l] \in {"none", "wait"}

LinesIdle == state # "CONFIGURED" => \A l \in Lines : LineIdle(l)

CalmInv == Undisturbed /\ Configuring /\ LinesIdle

-----------------------------------------------------------------------------
(* Counting in sequences. *)

Places(s, T) == {i \in DOMAIN s : s[i] \in T}
Count(s, T) == Cardinality(Places(s, T))

One(b) == IF b THEN 1 ELSE 0

LEMMA PlacesFinite ==
  ASSUME NEW S, NEW s \in Seq(S), NEW T
  PROVE  /\ IsFiniteSet(Places(s, T)) /\ Count(s, T) \in Nat
         /\ Places(s, T) \subseteq 1..Len(s) /\ Len(s) \in Nat
<1>1. Len(s) \in Nat /\ DOMAIN s = 1..Len(s)
  OBVIOUS
<1>2. Places(s, T) \subseteq 1..Len(s)
  BY <1>1 DEF Places
<1>3. IsFiniteSet(1..Len(s))
  BY <1>1, FS_Interval
<1>4. IsFiniteSet(Places(s, T))
  BY <1>2, <1>3, FS_Subset
<1> QED
  BY <1>1, <1>2, <1>4, FS_CardinalityType DEF Count

LEMMA CountEmpty == ASSUME NEW T PROVE Count(<<>>, T) = 0
<1>1. Places(<<>>, T) = {}
  BY DEF Places
<1> QED
  BY <1>1, FS_EmptySet DEF Count

LEMMA CountAppend ==
  ASSUME NEW S, NEW s \in Seq(S), NEW x \in S, NEW T
  PROVE  Count(Append(s, x), T) = Count(s, T) + One(x \in T)
<1> DEFINE n == Len(s)
           a == Append(s, x)
<1>1. /\ IsFiniteSet(Places(s, T)) /\ Places(s, T) \subseteq 1..n /\ n \in Nat
      /\ Count(s, T) \in Nat
  BY PlacesFinite
<1>2. /\ Len(a) = n + 1 /\ a \in Seq(S) /\ \A i \in 1..n : a[i] = s[i]
      /\ a[n + 1] = x
  BY AppendProperties
<1>3. DOMAIN a = 1..(n + 1) /\ DOMAIN s = 1..n
  BY <1>2
<1> HIDE DEF a, n
<1>4. n + 1 \notin Places(s, T)
  BY <1>1
<1>5. CASE x \in T
  <2>1. Places(a, T) = Places(s, T) \cup {n + 1}
    BY <1>1, <1>2, <1>3, <1>5 DEF Places
  <2> QED
    BY <1>1, <1>4, <1>5, <2>1, FS_AddElement DEF Count, One, a
<1>6. CASE x \notin T
  <2>1. Places(a, T) = Places(s, T)
    BY <1>1, <1>2, <1>3, <1>6 DEF Places
  <2> QED
    BY <1>1, <1>6, <2>1 DEF Count, One, a
<1> QED
  BY <1>5, <1>6

LEMMA CountCons ==
  ASSUME NEW S, NEW s \in Seq(S), NEW x \in S, NEW T
  PROVE  Count(<<x>> \o s, T) = Count(s, T) + One(x \in T)
<1> DEFINE n == Len(s)
           a == <<x>> \o s
           P == Places(s, T)
           Q == {i \in 2..(n + 1) : a[i] \in T}
<1>1. IsFiniteSet(P) /\ P \subseteq 1..n /\ n \in Nat /\ Count(s, T) \in Nat
  BY PlacesFinite
<1>2. /\ Len(a) = n + 1 /\ DOMAIN a = 1..(n + 1) /\ a[1] = x
      /\ \A i \in 1..n : a[i + 1] = s[i]
  OBVIOUS
<1>3. P = {i \in 1..n : s[i] \in T}
  BY DEF Places
<1> HIDE DEF a, n, P
<1>4. \A i \in P : i + 1 \in Q
  BY <1>1, <1>2, <1>3
<1>5. \A j \in Q : j - 1 \in P /\ j - 1 \in 1..n /\ j = (j - 1) + 1
  <2> SUFFICES ASSUME NEW j \in Q PROVE j - 1 \in P /\ j - 1 \in 1..n /\ j = (j - 1) + 1
    OBVIOUS
  <2>1. j - 1 \in 1..n /\ j = (j - 1) + 1
    BY <1>1
  <2>2. a[j] = s[j - 1]
    BY <1>2, <2>1
  <2> QED
    BY <1>3, <2>1, <2>2
<1>6. ExistsBijection(P, Q)
  <2> DEFINE f == [i \in P |-> i + 1]
  <2>1. f \in [P -> Q]
    BY <1>4
  <2>2. \A i, k \in P : f[i] = f[k] => i = k
    BY <1>1
  <2>3. \A j \in Q : \E i \in P : f[i] = j
    BY <1>5
  <2> HIDE DEF f
  <2>4. f \in Bijection(P, Q)
    BY <2>1, <2>2, <2>3 DEF Bijection, Injection, Surjection, IsInjective
  <2> QED
    BY <2>4 DEF ExistsBijection
<1>7. IsFiniteSet(Q) /\ Cardinality(Q) = Cardinality(P)
  BY <1>1, <1>6, FS_Bijection
<1>8. 1 \notin Q
  BY <1>1
<1>9. CASE x \in T
  <2>1. Places(a, T) = Q \cup {1}
    BY <1>1, <1>2, <1>9 DEF Places
  <2> QED
    BY <1>7, <1>8, <1>9, <2>1, FS_AddElement DEF Count, One, a, P
<1>10. CASE x \notin T
  <2>1. Places(a, T) = Q
    BY <1>1, <1>2, <1>10 DEF Places
  <2>2. Count(a, T) = Count(s, T)
    BY <1>7, <2>1 DEF Count, P
  <2> QED
    BY <1>1, <1>10, <2>2 DEF One, a
<1> QED
  BY <1>9, <1>10

LEMMA CountTail ==
  ASSUME NEW S, NEW s \in Seq(S), s # <<>>, NEW T
  PROVE  /\ Count(s, T) = Count(Tail(s), T) + One(Head(s) \in T)
         /\ Count(Tail(s), T) \in Nat
<1>1. Head(s) \in S /\ Tail(s) \in Seq(S) /\ s = <<Head(s)>> \o Tail(s)
  OBVIOUS
<1> QED
  BY <1>1, CountCons, PlacesFinite

-----------------------------------------------------------------------------
(* While all is calm. *)

LEMMA CalmFrames ==
  /\ Undisturbed /\ UNCHANGED <<eventq, pend, ev_pc, state>> => Undisturbed'
  /\ Configuring /\ UNCHANGED <<ev_pc, ev, state>> => Configuring'
  /\ LinesIdle /\ UNCHANGED <<state, status, protoq, statusq, proto_pc, status_pc>> => LinesIdle'
BY DEF Undisturbed, Configuring, LinesIdle, LineIdle, Listening

LEMMA CalmInit == Init => CalmInv
BY DEF Init, CalmInv, Undisturbed, Configuring, LinesIdle, LineIdle, NoEvents, NoPend, Pend, Listening

\* What the event thread pops is a command or the request to push.
LEMMA CalmPop ==
  ASSUME TypeOK, Phases, Undisturbed, ui_pc = "on", NEW type \in EventTypes, Pop(type)
  PROVE  /\ type \in {"CMD", "INT_PUSH"} /\ eventq'.RESET = 0
         /\ type = "CMD" => /\ eventq.CMD # <<>> /\ eventq'.CMD = Tail(eventq.CMD)
                            /\ Head(eventq.CMD) \in Events
         /\ type = "INT_PUSH" => eventq'.CMD = eventq.CMD
<1>1. eventq \in EventQueues /\ eventq.RESET = 0 /\ eventq.QUIT = 0
  BY DEF TypeOK, EventQueues, Phases, Undisturbed
<1>2. type \in {"CMD", "INT_PUSH"}
  BY <1>1 DEF Pop, First, EventTypes
<1>3. eventq'.RESET = 0
  BY <1>1, <1>2, PopType
<1>4. CASE type = "CMD"
  <2>1. eventq.CMD # <<>> /\ eventq' = [eventq EXCEPT !.CMD = Tail(eventq.CMD)]
    BY <1>4 DEF Pop, First
  <2>2. eventq'.CMD = Tail(eventq.CMD) /\ Head(eventq.CMD) \in Events
    BY <1>1, <2>1 DEF EventQueues
  <2> QED
    BY <1>2, <1>3, <1>4, <2>1, <2>2
<1>5. CASE type = "INT_PUSH"
  <2>1. eventq' = [eventq EXCEPT !.INT_PUSH = eventq.INT_PUSH - 1]
    BY <1>5 DEF Pop
  <2>2. eventq'.CMD = eventq.CMD
    BY <1>1, <2>1 DEF EventQueues
  <2> QED
    BY <1>2, <1>3, <1>5, <2>2
<1> QED
  BY <1>2, <1>4, <1>5

\* A line is there for a command only when the configuration has been stored.
LEMMA LineConfigured ==
  ASSUME TypeOK, Phases, Undisturbed, ev_pc = "cmd", llines # {}
  PROVE  state = "CONFIGURED"
BY DEF TypeOK, Phases, Undisturbed

LEMMA StepCalmEv ==
  ASSUME TypeOK, TypeOK', Phases, CalmInv, Calm, EvStep PROVE CalmInv'
<1>1. Undisturbed /\ Configuring /\ LinesIdle /\ ui_pc = "on" /\ resets = 0
  BY DEF CalmInv, Calm, Undamaged
<1>2. CASE InitPop
  <2>1. PICK type \in EventTypes : Pop(type) /\ ev_pc' = IF type = "QUIT" THEN "exited" ELSE "init"
    BY <1>2, EventTypesAll DEF InitPop
  <2>2. /\ type \in {"CMD", "INT_PUSH"} /\ eventq'.RESET = 0
        /\ type = "CMD" => eventq.CMD # <<>>
        /\ type = "INT_PUSH" => eventq'.CMD = eventq.CMD
    BY <1>1, <2>1, CalmPop
  <2>3. UNCHANGED <<state, ev, lines, pend>> /\ ev_pc \in {"init", "init_wait"} /\ ev_pc' = "init"
    <3>1. UNCHANGED <<state, ev, lines, cpu>> /\ ev_pc \in {"init", "init_wait"}
      BY <1>2 DEF InitPop
    <3> QED
      BY <2>1, <2>2, <3>1 DEF cpu
  <2>4. state = "UNINITIALIZED" /\ eventq.CMD = <<>> /\ pend.type # "CMD"
    BY <1>1, <2>3 DEF Undisturbed, Listening
  <2>5. eventq'.CMD = <<>>
    BY <2>2, <2>4
  <2>6. Undisturbed'
    BY <1>1, <2>2, <2>3, <2>4, <2>5 DEF Undisturbed, Listening
  <2> QED
    BY <1>1, <2>3, <2>6, CalmFrames DEF CalmInv, Configuring, lines, queues, threads
<1>3. CASE InitWait \/ Announced
  <2>1. /\ UNCHANGED <<state, eventq, ev, lines, pend>>
        /\ \/ ev_pc \in {"init", "init_wait"} /\ ev_pc' \in {"init_wait", "ready"}
           \/ ev_pc = "iwyze" /\ ev_pc' = "wait"
    BY <1>3 DEF InitWait, Announced, cpu
  <2>2. Undisturbed' /\ Configuring'
    BY <1>1, <2>1 DEF Undisturbed, Configuring, Listening
  <2> QED
    BY <1>1, <2>1, <2>2, CalmFrames DEF CalmInv, lines, queues, threads
<1>4. CASE Ready
  <2>1. /\ UNCHANGED <<eventq, ev, lines, pend>> /\ state' = "INITIALIZED"
        /\ ev_pc = "ready" /\ ev_pc' = "iwyze"
    BY <1>4 DEF Ready, cpu
  <2>2. Undisturbed' /\ Configuring'
    BY <1>1, <2>1 DEF Undisturbed, Configuring, Listening
  <2>3. LinesIdle'
    BY <1>1, <2>1 DEF Undisturbed, LinesIdle, LineIdle, lines, queues, threads
  <2> QED
    BY <2>2, <2>3 DEF CalmInv
<1>5. CASE EventLoop
  <2>1. UNCHANGED <<state, lines, pend>> /\ ev_pc = "wait"
    BY <1>5 DEF EventLoop, cpu
  <2>2. \/ Pop("CMD") /\ ev_pc' = "cmd"
        \/ Pop("INT_PUSH") /\ UNCHANGED event
    <3>1. ~Pop("QUIT") /\ ~Pop("RESET")
      BY <1>1, CalmPop DEF EventTypes
    <3> QED
      BY <1>5, <3>1 DEF EventLoop
  <2>3. eventq'.RESET = 0 /\ Listening
    BY <1>1, <2>1, <2>2, CalmPop DEF EventTypes, Undisturbed, Listening
  <2>4. ev_pc' \in {"cmd", "wait"}
    BY <2>1, <2>2 DEF event
  <2>5. Undisturbed' /\ Configuring'
    BY <1>1, <2>1, <2>3, <2>4 DEF Undisturbed, Configuring, Listening
  <2> QED
    BY <1>1, <2>1, <2>5, CalmFrames DEF CalmInv, lines, queues, threads
<1>6. ~ResetStep
  BY <1>1 DEF ResetStep, LinesGone, ClearEvents, IntReset, Undisturbed
<1>7. CASE Test \/ Requeue \/ SetCfgFails \/ SetCfgRejected \/ SetCfgDone \/ DispatchNone
           \/ DispatchReject \/ DispatchUnlock
  <2>1. /\ UNCHANGED <<state, eventq, lines, pend>> /\ ev_pc' \in {"wait", "reject"}
        /\ ev_pc \in {"cmd", "cfg_deinit", "cfg_answer", "reject"}
    BY <1>7
    DEF Test, Requeue, SetCfgFails, SetCfgRejected, SetCfgDone, DispatchNone, DispatchReject,
        Dispatchable, DispatchUnlock, Done, cpu
  <2>2. Undisturbed' /\ Configuring'
    BY <1>1, <2>1 DEF Undisturbed, Configuring, Listening
  <2> QED
    BY <1>1, <2>1, <2>2, CalmFrames DEF CalmInv, lines, queues, threads
<1>8. CASE SetCfgRejects \/ SetCfg
  <2>1. PICK L \in SUBSET Lines : Configure(L)
    BY <1>8 DEF SetCfgRejects, SetCfg
  <2>2. /\ UNCHANGED <<state, eventq, ev, pend>> /\ ev_pc' \in {"cfg_deinit", "cfg_store"}
        /\ ev_pc = "cmd" /\ ev.cmd = "setcfg" /\ state # "CONFIGURED"
    BY <1>8 DEF SetCfgRejects, SetCfg, cpu
  <2>3. state = "INITIALIZED"
    BY <1>1, <2>2 DEF TypeOK, Undisturbed
  <2>4. Undisturbed' /\ Configuring'
    BY <1>1, <2>2, <2>3 DEF Undisturbed, Configuring, Listening
  <2>5. \A l \in Lines : LineIdle(l)'
    <3> SUFFICES ASSUME NEW l \in Lines PROVE LineIdle(l)'
      OBVIOUS
    <3>1. LineIdle(l)
      BY <1>1, <2>2 DEF LinesIdle
    <3>2. /\ protoq'[l] = (IF l \in L THEN <<>> ELSE protoq[l])
          /\ proto_pc'[l] = (IF l \in L THEN "wait" ELSE proto_pc[l])
          /\ status_pc'[l] = (IF l \in L THEN "wait" ELSE status_pc[l])
          /\ status' = status /\ statusq' = statusq
      BY <2>1 DEF Configure
    <3> QED
      BY <3>1, <3>2 DEF LineIdle
  <2> QED
    BY <2>4, <2>5 DEF CalmInv, LinesIdle
<1>9. CASE SetCfgStore
  <2>1. /\ UNCHANGED <<eventq, ev, pend>> /\ ev_pc = "cfg_store" /\ ev_pc' = "cfg_answer"
        /\ state' = "CONFIGURED"
    BY <1>9 DEF SetCfgStore, cpu
  <2>2. Undisturbed' /\ Configuring'
    BY <1>1, <2>1 DEF Undisturbed, Configuring, Listening
  <2> QED
    BY <2>1, <2>2 DEF CalmInv, LinesIdle
<1>10. CASE Dispatch
  <2>1. UNCHANGED <<state, eventq, pend>> /\ ev_pc = "cmd" /\ ev_pc' = "wait" /\ ev.line \in llines
    BY <1>10 DEF Dispatch, Dispatchable, Done, cpu
  <2>2. state' = "CONFIGURED"
    BY <1>1, <2>1, LineConfigured
  <2>3. Undisturbed' /\ Configuring'
    BY <1>1, <2>1 DEF Undisturbed, Configuring, Listening
  <2> QED
    BY <2>2, <2>3 DEF CalmInv, LinesIdle
<1>11. CASE IntStep(Ev)
  <2>1. UNCHANGED <<state, eventq, event, lines, cpu>>
    BY <1>11, IntStepType, ThreadsDiffer
  <2> QED
    BY <1>1, <2>1, CalmFrames DEF CalmInv, event, lines, queues, threads, cpu
<1> QED
  BY <1>2, <1>3, <1>4, <1>5, <1>6, <1>7, <1>8, <1>9, <1>10, <1>11
  DEF EvStep, InitStep, SetCfgStep, DispatchStep

LEMMA StepCalmLine ==
  ASSUME TypeOK, TypeOK', CalmInv, Calm, NEW l \in Lines, ProtoStep(l) \/ StatusStep(l)
  PROVE  CalmInv'
<1>1. Undisturbed /\ Configuring /\ LinesIdle
  BY DEF CalmInv
<1>2. UNCHANGED <<state, eventq, event, cpu>>
  <2>1. ~Deinit(l) \/ UNCHANGED <<state, eventq, event, cpu>>
    BY DEF ProtoStep, StatusStep, ProtoTake, ProtoRun, ProtoFails, ProtoFin, ProtoQuit, StatusReport,
           StatusDone, StatusQuit, IntStep, IntPush, IntCheck, IntSet
  <2>2. CASE IntStep(Proto(l)) \/ IntStep(Status(l))
    BY <2>2 DEF IntStep, IntPush, IntCheck, IntSet
  <2>3. CASE ProtoTake(l) \/ ProtoRun(l) \/ ProtoFails(l) \/ ProtoFin(l) \/ ProtoQuit(l)
    BY <2>3 DEF ProtoTake, ProtoRun, ProtoFails, ProtoFin, ProtoQuit
  <2>4. CASE StatusReport(l) \/ StatusDone(l) \/ StatusQuit(l)
    BY <2>4 DEF StatusReport, StatusDone, StatusQuit
  <2> QED
    BY <2>2, <2>3, <2>4 DEF ProtoStep, StatusStep
<1>3. Undisturbed' /\ Configuring'
  BY <1>1, <1>2, CalmFrames DEF event, cpu
<1>4. LinesIdle'
  <2> SUFFICES ASSUME state # "CONFIGURED" PROVE LinesIdle'
    BY <1>2 DEF LinesIdle
  <2>1. /\ protoq[l] = <<>> /\ statusq[l] = 0 /\ proto_pc[l] \in {"none", "wait"}
        /\ status_pc[l] \in {"none", "wait"}
    BY <1>1 DEF LinesIdle, LineIdle
  <2>2. ~ProtoTake(l) /\ ~ProtoRun(l) /\ ~ProtoFails(l) /\ ~ProtoFin(l) /\ ~StatusReport(l) /\ ~StatusDone(l)
    BY <2>1 DEF ProtoTake, ProtoRun, ProtoFails, ProtoFin, StatusReport, StatusDone
  <2>3. CASE IntStep(Proto(l)) \/ IntStep(Status(l))
    <3>1. UNCHANGED <<state, lines>>
      BY <2>3 DEF IntStep, IntPush, IntCheck, IntSet
    <3> QED
      BY <1>1, <3>1, CalmFrames DEF lines, queues, threads
  <2>4. CASE ProtoQuit(l)
    <3>1. /\ UNCHANGED <<state, status, protoq, statusq, status_pc>>
          /\ proto_pc' = [proto_pc EXCEPT ![l] = "none"] /\ proto_pc \in [Lines -> {"none", "wait", "run", "fin"}]
      BY <2>4 DEF ProtoQuit, queues, TypeOK
    <3> QED
      BY <1>1, <3>1 DEF LinesIdle, LineIdle
  <2>5. CASE StatusQuit(l)
    <3>1. /\ UNCHANGED <<state, protoq, statusq, proto_pc>>
          /\ status_pc' = [status_pc EXCEPT ![l] = "none"]
          /\ status' = [status EXCEPT ![l] = {}]
          /\ status_pc \in [Lines -> {"none", "wait", "sent"}]
          /\ status \in [Lines -> SUBSET (LineCmds \cup {"ATTACHED"})]
      BY <2>5 DEF StatusQuit, TypeOK
    <3> QED
      BY <1>1, <3>1 DEF LinesIdle, LineIdle
  <2> QED
    BY <2>2, <2>3, <2>4, <2>5 DEF ProtoStep, StatusStep
<1> QED
  BY <1>3, <1>4 DEF CalmInv

\* elst_insert() finds room.
LEMMA CalmInsert ==
  ASSUME TypeOK, Calm, NEW type \in {"CMD", "INT_PUSH"}, NEW e \in Events, Insert(type, e)
  PROVE  /\ eventq' # eventq /\ eventq'.RESET = eventq.RESET
         /\ eventq'.CMD = IF type = "CMD" THEN Append(eventq.CMD, e) ELSE eventq.CMD
<1>1. eventq \in EventQueues
  BY DEF TypeOK, EventQueues
<1>2. ~(EventCount >= Capacity)
  <2>1. EventCount \in Nat /\ EventCount < Capacity /\ Capacity \in Nat
    BY <1>1, MultixAssumption DEF EventCount, EventQueues, Calm, Roomy
  <2> QED
    BY <2>1
<1>3. CASE type = "CMD"
  <2>1. eventq' = [eventq EXCEPT !.CMD = Append(eventq.CMD, e)]
    BY <1>2, <1>3 DEF Insert
  <2>2. eventq'.CMD = Append(eventq.CMD, e) /\ eventq'.RESET = eventq.RESET
    BY <1>1, <2>1 DEF EventQueues
  <2>3. Len(Append(eventq.CMD, e)) = Len(eventq.CMD) + 1 /\ Len(eventq.CMD) \in Nat
    BY <1>1 DEF EventQueues
  <2> QED
    BY <1>3, <2>2, <2>3
<1>4. CASE type = "INT_PUSH"
  <2>1. eventq' = [eventq EXCEPT !.INT_PUSH = eventq.INT_PUSH + 1]
    BY <1>2, <1>4 DEF Insert
  <2>2. eventq'.CMD = eventq.CMD /\ eventq'.RESET = eventq.RESET
        /\ eventq'.INT_PUSH = eventq.INT_PUSH + 1 /\ eventq.INT_PUSH \in Nat
    BY <1>1, <2>1 DEF EventQueues
  <2> QED
    BY <1>4, <2>2
<1> QED
  BY <1>3, <1>4

LEMMA StepCalmCpu ==
  ASSUME TypeOK, TypeOK', Phases, CalmInv, Calm, Calm', CpuStep \/ PowerOff \/ UiContinue
  PROVE  CalmInv'
<1>1. /\ Undisturbed /\ Configuring /\ LinesIdle /\ ui_pc = "on" /\ ui_pc' = "on"
      /\ resets = 0 /\ resets' = 0
  BY DEF CalmInv, Calm, Undamaged
<1>2. ~PowerOff /\ ~UiContinue /\ ~Reset
  BY <1>1 DEF PowerOff, UiContinue, Quit, Joined, Free, Forget, Reset
<1>3. UNCHANGED <<state, event, lines>>
  BY <1>2 DEF CpuStep, Issue, Serve, NoVector, GetSpec, AskPush, InsertEvent, ClearAll
<1>4. Configuring' /\ LinesIdle'
  BY <1>1, <1>3, CalmFrames DEF event, lines, queues, threads
<1>5. CASE Issue
  <2>1. PICK e \in Events : pend' = IF ui_pc # "freed" /\ Listening THEN Pend("CMD", e) ELSE pend
    BY <1>5 DEF Issue
  <2>2. UNCHANGED <<state, eventq, event>>
    BY <1>5 DEF Issue
  <2>3. Undisturbed'
    BY <1>1, <2>1, <2>2 DEF Undisturbed, Listening, Pend, event
  <2> QED
    BY <1>4, <2>3 DEF CalmInv
<1>6. CASE AskPush
  <2>1. UNCHANGED <<state, eventq, event>> /\ pend' = Pend("INT_PUSH", NoEvent)
    BY <1>6 DEF AskPush
  <2>2. Undisturbed'
    BY <1>1, <2>1 DEF Undisturbed, Listening, Pend, event
  <2> QED
    BY <1>4, <2>2 DEF CalmInv
<1>7. CASE InsertEvent
  <2>1. Insert(pend.type, pend.event) /\ pend' = NoPend /\ UNCHANGED <<state, event>>
    BY <1>1, <1>7 DEF InsertEvent, QueueGone
  <2>2. pend.type \in {"CMD", "INT_PUSH"} /\ pend.event \in Events
    BY <1>1 DEF TypeOK, PendTypes, Undisturbed
  <2>3. /\ eventq'.RESET = 0
        /\ ~Listening => eventq'.CMD = <<>>
    BY <1>1, <2>1, <2>2, CalmInsert DEF Undisturbed
  <2>4. Undisturbed'
    BY <1>1, <2>1, <2>3 DEF Undisturbed, Listening, NoPend, Pend, event
  <2> QED
    BY <1>4, <2>4 DEF CalmInv
<1>8. CASE Serve \/ NoVector \/ GetSpec \/ ClearAll
  <2>1. UNCHANGED <<state, eventq, event, pend>>
    BY <1>8 DEF Serve, NoVector, GetSpec, ClearAll
  <2>2. Undisturbed'
    BY <1>1, <2>1, CalmFrames DEF event
  <2> QED
    BY <1>4, <2>2 DEF CalmInv
<1> QED
  BY <1>2, <1>5, <1>6, <1>7, <1>8 DEF CpuStep

-----------------------------------------------------------------------------
(* How many of a command are queued, being carried out and answered. *)

\* the answers to a command
To(e) == {i \in Interrupts : i.cmd = e.cmd /\ i.line = e.line}

\* what a line has of a command
Working(e) == IF e.line \in Lines THEN Underway(e.line, e.cmd) ELSE 0

OneAnswer(e) == asked[e] = QueuedFor(e) + InHand(e) + AnswersTo(e) + Working(e)

Running(l, c) == proto_pc[l] \in {"run", "fin"} /\ proto_cmd[l] = c

\* What is for a line is a command of lines: they are numbered from 1.
LEMMA LineCommand ==
  ASSUME NEW e \in Events, e.line \in Lines PROVE e.cmd \in LineCmds
<1>1. 0 \notin Lines
  BY MultixAssumption
<1> QED
  BY <1>1 DEF Events, Event

LEMMA QueuedCount ==
  ASSUME NEW e
  PROVE  QueuedFor(e) = Count(eventq.CMD, {e}) /\ QueuedFor(e)' = Count(eventq'.CMD, {e})
<1>1. {i \in DOMAIN eventq.CMD : eventq.CMD[i] = e} = Places(eventq.CMD, {e})
  BY DEF Places
<1>2. {i \in DOMAIN eventq'.CMD : eventq'.CMD[i] = e} = Places(eventq'.CMD, {e})
  BY DEF Places
<1> QED
  BY <1>1, <1>2 DEF QueuedFor, Count

LEMMA UnderwayCount ==
  ASSUME NEW l \in Lines, NEW c \in LineCmds \ {"status"}
  PROVE  /\ Underway(l, c) = Count(protoq[l], {c}) + One(Running(l, c))
         /\ Underway(l, c)' = Count(protoq'[l], {c}) + One(Running(l, c)')
<1>1. {i \in DOMAIN protoq[l] : protoq[l][i] = c} = Places(protoq[l], {c})
  BY DEF Places
<1>2. {i \in DOMAIN protoq'[l] : protoq'[l][i] = c} = Places(protoq'[l], {c})
  BY DEF Places
<1> QED
  BY <1>1, <1>2 DEF Underway, Count, One, Running

LEMMA AnswersCount ==
  ASSUME TypeOK, TypeOK', NEW e \in Events
  PROVE  /\ mail \in Seq(Interrupts) /\ mail' \in Seq(Interrupts)
         /\ AnswersTo(e) = Count(mail, To(e)) /\ AnswersTo(e)' = Count(mail', To(e))
<1>1. mail \in Seq(Interrupts)
  BY MailType
<1>2. mail' \in Seq(Interrupts)
  <2>1. intq' \in Seq(Interrupts) /\ intspec' \in Interrupts
    BY DEF TypeOK
  <2>2. (IF intspec' = INIEA THEN <<>> ELSE <<intspec'>>) \in Seq(Interrupts)
    BY <2>1
  <2>3. mail' = (IF intspec' = INIEA THEN <<>> ELSE <<intspec'>>) \o intq'
    BY DEF mail
  <2> HIDE DEF mail
  <2> QED
    BY <2>1, <2>2, <2>3
<1>3. {i \in DOMAIN mail : mail[i].cmd = e.cmd /\ mail[i].line = e.line} = Places(mail, To(e))
  BY <1>1 DEF Places, To
<1>4. {i \in DOMAIN mail' : mail'[i].cmd = e.cmd /\ mail'[i].line = e.line} = Places(mail', To(e))
  BY <1>2 DEF Places, To
<1> QED
  BY <1>1, <1>2, <1>3, <1>4 DEF AnswersTo, Count

LEMMA Counts ==
  ASSUME TypeOK, TypeOK', NEW e \in Events
  PROVE  QueuedFor(e) \in Nat /\ InHand(e) \in Nat /\ AnswersTo(e) \in Nat /\ Working(e) \in Nat
<1>1. QueuedFor(e) \in Nat
  <2>1. eventq.CMD \in Seq(Events)
    BY DEF TypeOK
  <2> QED
    BY <2>1, QueuedCount, PlacesFinite
<1>2. AnswersTo(e) \in Nat
  BY AnswersCount, PlacesFinite
<1>3. InHand(e) \in Nat
  BY DEF InHand
<1>4. Working(e) \in Nat
  <2>1. CASE e.line \notin Lines
    BY <2>1 DEF Working
  <2>2. CASE e.line \in Lines /\ e.cmd = "status"
    BY <2>2 DEF Working, Underway, TypeOK
  <2>3. CASE e.line \in Lines /\ e.cmd # "status"
    <3>1. e.cmd \in LineCmds \ {"status"} /\ protoq[e.line] \in Seq(LineCmds)
      BY <2>3, LineCommand DEF TypeOK
    <3>2. Count(protoq[e.line], {e.cmd}) \in Nat
      BY <3>1, PlacesFinite
    <3>3. One(Running(e.line, e.cmd)) \in Nat
      BY DEF One
    <3>4. Underway(e.line, e.cmd) = Count(protoq[e.line], {e.cmd}) + One(Running(e.line, e.cmd))
      BY <2>3, <3>1, UnderwayCount
    <3> QED
      BY <2>3, <3>2, <3>3, <3>4 DEF Working
  <2> QED
    BY <2>1, <2>2, <2>3
<1> QED
  BY <1>1, <1>2, <1>3, <1>4

\* Where nothing is changed, as much is counted.
LEMMA CountsSame ==
  ASSUME NEW e \in Events
  PROVE  /\ eventq'.CMD = eventq.CMD => QueuedFor(e)' = QueuedFor(e)
         /\ mail' = mail => AnswersTo(e)' = AnswersTo(e)
         /\ UNCHANGED event => InHand(e)' = InHand(e)
         /\ UNCHANGED <<protoq, statusq, proto_pc, proto_cmd>> => Working(e)' = Working(e)
BY DEF QueuedFor, AnswersTo, event, InHand, Working, Underway

LEMMA MailSame == UNCHANGED <<intspec, intq>> => mail' = mail
BY DEF mail

\* A raised interrupt is an answer to the command it names.
LEMMA Posted ==
  ASSUME TypeOK, TypeOK', Calm, NEW t \in Threads, NEW i \in Interrupts, Enqueue(t, i),
         NEW e \in Events
  PROVE  AnswersTo(e)' = AnswersTo(e) + One(i.cmd = e.cmd /\ i.line = e.line)
<1>1. mail' = Append(mail, i)
  <2>1. intspec' = intspec /\ intq' = Append(intq, i)
    BY DEF Calm, Roomy, Enqueue
  <2> DEFINE out == IF intspec = INIEA THEN <<>> ELSE <<intspec>>
  <2>2. out \in Seq(Interrupts) /\ intq \in Seq(Interrupts)
    BY DEF TypeOK
  <2>3. mail = out \o intq /\ mail' = out \o Append(intq, i)
    BY <2>1 DEF mail
  <2> HIDE DEF out
  <2>4. out \o Append(intq, i) = Append(out \o intq, i)
    BY <2>2
  <2> QED
    BY <2>3, <2>4
<1>2. i \in To(e) <=> i.cmd = e.cmd /\ i.line = e.line
  BY DEF To
<1>3. mail \in Seq(Interrupts)
  BY MailType
<1>4. Count(Append(mail, i), To(e)) = Count(mail, To(e)) + One(i \in To(e))
  BY <1>3, CountAppend
<1> QED
  BY <1>1, <1>2, <1>4, AnswersCount DEF One

\* The command in hand is answered.
LEMMA Answered ==
  ASSUME TypeOK, TypeOK', Calm, NEW i \in Irqs \ {"INIEA"}, Answer(i), NEW e \in Events,
         ev_pc \in {"cmd", "cfg_deinit", "cfg_answer"}, ev_pc' \in {"wait", "reject"}
  PROVE  InHand(e)' + AnswersTo(e)' = InHand(e) + AnswersTo(e)
<1>1. ev \in Events
  BY DEF TypeOK
<1>2. Interrupt(i, ev.line, ev.cmd) \in Interrupts
  BY <1>1, AnswerType
<1>3. AnswersTo(e)' = AnswersTo(e) + One(ev.cmd = e.cmd /\ ev.line = e.line)
  <2>1. Interrupt(i, ev.line, ev.cmd).cmd = ev.cmd /\ Interrupt(i, ev.line, ev.cmd).line = ev.line
    BY DEF Interrupt
  <2> QED
    BY <1>2, <2>1, Posted, ThreadsDiffer DEF Answer
<1>4. ev = e <=> ev.cmd = e.cmd /\ ev.line = e.line
  BY <1>1, EventType
<1>5. InHand(e) = One(ev = e) /\ InHand(e)' = 0
  BY DEF InHand, One
<1> QED
  BY <1>3, <1>4, <1>5, Counts DEF One

-----------------------------------------------------------------------------
(* What a line has to do. *)

\* One more of one command, or one less.
LEMMA UnderwayNat ==
  ASSUME TypeOK, TypeOK', NEW l \in Lines, NEW c \in LineCmds
  PROVE  Underway(l, c) \in Nat /\ Underway(l, c)' \in Nat
<1>1. CASE c = "status"
  BY <1>1 DEF Underway, TypeOK
<1>2. CASE c # "status"
  <2>1. Count(protoq[l], {c}) \in Nat /\ Count(protoq'[l], {c}) \in Nat
    <3>1. protoq[l] \in Seq(LineCmds) /\ protoq'[l] \in Seq(LineCmds)
      BY DEF TypeOK
    <3> QED
      BY <3>1, PlacesFinite
  <2>2. One(Running(l, c)) \in Nat /\ One(Running(l, c)') \in Nat
    BY DEF One
  <2> QED
    BY <1>2, <2>1, <2>2, UnderwayCount
<1> QED
  BY <1>1, <1>2

LEMMA DispatchAdds ==
  ASSUME TypeOK, TypeOK', Dispatch, NEW l \in Lines, NEW c \in LineCmds
  PROVE  Underway(l, c)' = Underway(l, c) + One(l = ev.line /\ c = ev.cmd)
<1>1. /\ ev.line \in Lines /\ ev.cmd \in LineCmds /\ UNCHANGED <<proto_pc, proto_cmd>>
      /\ protoq \in [Lines -> Seq(LineCmds)] /\ statusq \in [Lines -> Nat]
  BY DEF Dispatch, Dispatchable, threads, TypeOK
<1>2. CASE c = "status"
  <2>1. Underway(l, c) = statusq[l] /\ Underway(l, c)' = statusq'[l]
    BY <1>2 DEF Underway
  <2>2. CASE ev.cmd = "status"
    <3>1. statusq' = [statusq EXCEPT ![ev.line] = statusq[ev.line] + 1]
      BY <2>2 DEF Dispatch
    <3> QED
      BY <1>1, <1>2, <2>1, <2>2, <3>1 DEF One
  <2>3. CASE ev.cmd # "status"
    <3>1. statusq' = statusq
      BY <2>3 DEF Dispatch
    <3> QED
      BY <1>1, <1>2, <2>1, <2>3, <3>1 DEF One
  <2> QED
    BY <2>2, <2>3
<1>3. CASE c # "status"
  <2>1. /\ Underway(l, c) = Count(protoq[l], {c}) + One(Running(l, c))
        /\ Underway(l, c)' = Count(protoq'[l], {c}) + One(Running(l, c)')
        /\ Running(l, c)' <=> Running(l, c)
    BY <1>1, <1>3, UnderwayCount DEF Running
  <2>2. One(Running(l, c)') = One(Running(l, c)) /\ One(Running(l, c)) \in Nat
    BY <2>1 DEF One
  <2>3. Count(protoq'[l], {c}) = Count(protoq[l], {c}) + One(l = ev.line /\ c = ev.cmd)
    <3>1. CASE ev.cmd # "status" /\ l = ev.line
      <4>1. protoq'[l] = Append(protoq[l], ev.cmd)
        BY <1>1, <3>1 DEF Dispatch
      <4>2. Count(Append(protoq[l], ev.cmd), {c}) = Count(protoq[l], {c}) + One(ev.cmd \in {c})
        BY <1>1, CountAppend
      <4> QED
        BY <3>1, <4>1, <4>2 DEF One
    <3>2. CASE ev.cmd = "status" \/ l # ev.line
      <4>1. protoq'[l] = protoq[l]
        BY <1>1, <3>2 DEF Dispatch
      <4>2. Count(protoq[l], {c}) \in Nat
        BY <1>1, PlacesFinite
      <4> QED
        BY <1>3, <3>2, <4>1, <4>2 DEF One
    <3> QED
      BY <3>1, <3>2
  <2>4. Count(protoq[l], {c}) \in Nat /\ One(l = ev.line /\ c = ev.cmd) \in Nat
    BY <1>1, PlacesFinite DEF One
  <2> QED
    BY <2>1, <2>2, <2>3, <2>4
<1> QED
  BY <1>2, <1>3

LEMMA TakeKeeps ==
  ASSUME TypeOK, TypeOK', NEW k \in Lines, ProtoTake(k), NEW l \in Lines, NEW c \in LineCmds
  PROVE  Underway(l, c)' = Underway(l, c)
<1>1. /\ proto_pc[k] = "wait" /\ protoq[k] # <<>> /\ protoq[k] \in Seq(LineCmds)
      /\ proto_cmd' = [proto_cmd EXCEPT ![k] = Head(protoq[k])]
      /\ protoq' = [protoq EXCEPT ![k] = Tail(protoq[k])]
      /\ proto_pc' = [proto_pc EXCEPT ![k] = "run"]
      /\ statusq' = statusq
  BY DEF ProtoTake, TypeOK
<1>2. CASE c = "status"
  BY <1>1, <1>2 DEF Underway
<1>3. CASE c # "status" /\ l # k
  <2>1. UNCHANGED <<protoq[l], proto_pc[l], proto_cmd[l]>>
    BY <1>1, <1>3 DEF TypeOK
  <2> QED
    BY <1>3, <2>1 DEF Underway
<1>4. CASE c # "status" /\ l = k
  <2>1. protoq'[l] = Tail(protoq[l]) /\ proto_pc'[l] = "run" /\ proto_cmd'[l] = Head(protoq[l])
    BY <1>1, <1>4 DEF TypeOK
  <2>2. ~Running(l, c) /\ (Running(l, c)' <=> Head(protoq[l]) \in {c})
    BY <1>1, <1>4, <2>1 DEF Running
  <2>3. /\ Underway(l, c) = Count(protoq[l], {c}) + One(Running(l, c))
        /\ Underway(l, c)' = Count(Tail(protoq[l]), {c}) + One(Running(l, c)')
    BY <1>4, <2>1, UnderwayCount
  <2>4. /\ Count(protoq[l], {c}) = Count(Tail(protoq[l]), {c}) + One(Head(protoq[l]) \in {c})
        /\ Count(Tail(protoq[l]), {c}) \in Nat
    BY <1>1, <1>4, CountTail
  <2>5. One(Running(l, c)) = 0 /\ One(Running(l, c)') = One(Head(protoq[l]) \in {c})
    BY <2>2 DEF One
  <2>6. One(Head(protoq[l]) \in {c}) \in Nat
    BY DEF One
  <2> QED
    BY <2>3, <2>4, <2>5, <2>6
<1> QED
  BY <1>2, <1>3, <1>4

LEMMA FinishTakes ==
  ASSUME TypeOK, TypeOK', Commanded, NEW k \in Lines, ProtoFin(k), NEW l \in Lines, NEW c \in LineCmds
  PROVE  Underway(l, c) = Underway(l, c)' + One(l = k /\ c = proto_cmd[k])
<1>1. /\ proto_pc[k] = "fin" /\ proto_cmd[k] \in LineCmds \ {"status"}
      /\ proto_cmd' = [proto_cmd EXCEPT ![k] = "none"]
      /\ proto_pc' = [proto_pc EXCEPT ![k] = "wait"]
      /\ statusq' = statusq /\ protoq' = protoq
  BY DEF ProtoFin, Commanded, LinesCommanded, ProtoCmds
<1>2. CASE c = "status"
  <2>1. Underway(l, c)' = Underway(l, c)
    BY <1>1, <1>2 DEF Underway
  <2> QED
    BY <1>1, <1>2, <2>1, UnderwayNat DEF One
<1>3. CASE c # "status" /\ l # k
  <2>1. UNCHANGED <<protoq[l], proto_pc[l], proto_cmd[l]>>
    BY <1>1, <1>3 DEF TypeOK
  <2>2. Underway(l, c)' = Underway(l, c)
    BY <1>3, <2>1 DEF Underway
  <2> QED
    BY <1>3, <2>2, UnderwayNat DEF One
<1>4. CASE c # "status" /\ l = k
  <2>1. ~Running(l, c)' /\ (Running(l, c) <=> c = proto_cmd[k])
    <3>1. proto_pc'[l] = "wait"
      BY <1>1, <1>4 DEF TypeOK
    <3> QED
      BY <1>1, <1>4, <3>1 DEF Running
  <2>2. /\ Underway(l, c) = Count(protoq[l], {c}) + One(Running(l, c))
        /\ Underway(l, c)' = Count(protoq[l], {c}) + One(Running(l, c)')
    BY <1>1, <1>4, UnderwayCount
  <2>3. Count(protoq[l], {c}) \in Nat
    <3>1. protoq[l] \in Seq(LineCmds)
      BY DEF TypeOK
    <3> QED
      BY <3>1, PlacesFinite
  <2>4. One(Running(l, c)') = 0 /\ One(Running(l, c)) = One(l = k /\ c = proto_cmd[k])
    BY <1>4, <2>1 DEF One
  <2>5. One(l = k /\ c = proto_cmd[k]) \in Nat
    BY DEF One
  <2> QED
    BY <2>2, <2>3, <2>4, <2>5
<1> QED
  BY <1>2, <1>3, <1>4

LEMMA ReportTakes ==
  ASSUME TypeOK, TypeOK', NEW k \in Lines, StatusReport(k), NEW l \in Lines, NEW c \in LineCmds
  PROVE  Underway(l, c) = Underway(l, c)' + One(l = k /\ c = "status")
<1>1. /\ statusq[k] > 0 /\ statusq' = [statusq EXCEPT ![k] = statusq[k] - 1]
      /\ UNCHANGED <<protoq, proto_pc, proto_cmd>> /\ statusq \in [Lines -> Nat]
  BY DEF StatusReport, TypeOK
<1>2. CASE c = "status"
  <2>1. Underway(l, c) = statusq[l] /\ Underway(l, c)' = statusq'[l]
    BY <1>2 DEF Underway
  <2> QED
    BY <1>1, <1>2, <2>1 DEF One
<1>3. CASE c # "status"
  <2>1. Underway(l, c)' = Underway(l, c)
    BY <1>1, <1>3 DEF Underway
  <2> QED
    BY <1>3, <2>1, UnderwayNat DEF One
<1> QED
  BY <1>2, <1>3

LEMMA RunKeeps ==
  ASSUME TypeOK, NEW k \in Lines, ProtoRun(k) \/ ProtoFails(k) \/ ProtoQuit(k),
         NEW l \in Lines, NEW c \in LineCmds
  PROVE  Underway(l, c)' = Underway(l, c)
<1>1. /\ UNCHANGED <<protoq, statusq, proto_cmd>> /\ proto_pc \in [Lines -> {"none", "wait", "run", "fin"}]
      /\ \/ proto_pc[k] = "run" /\ proto_pc' = [proto_pc EXCEPT ![k] = "fin"]
         \/ proto_pc[k] = "wait" /\ proto_pc' = [proto_pc EXCEPT ![k] = "none"]
  BY DEF ProtoRun, ProtoFails, ProtoQuit, queues, TypeOK
<1>2. proto_pc'[l] \in {"run", "fin"} <=> proto_pc[l] \in {"run", "fin"}
  BY <1>1
<1> QED
  BY <1>1, <1>2 DEF Underway

\* A line that has been given nothing has nothing to do.
LEMMA IdleHasNothing ==
  ASSUME NEW l \in Lines, NEW c \in LineCmds
  PROVE  /\ LineIdle(l) => Underway(l, c) = 0
         /\ LineIdle(l)' => Underway(l, c)' = 0
<1>1. CASE c = "status"
  BY <1>1 DEF LineIdle, Underway
<1>2. CASE c # "status"
  <2>1. ASSUME LineIdle(l) PROVE Underway(l, c) = 0
    <3>1. Count(protoq[l], {c}) = 0 /\ ~Running(l, c)
      BY <2>1, CountEmpty DEF LineIdle, Running
    <3> QED
      BY <1>2, <3>1, UnderwayCount DEF One
  <2>2. ASSUME LineIdle(l)' PROVE Underway(l, c)' = 0
    <3>1. Count(protoq'[l], {c}) = 0 /\ ~Running(l, c)'
      BY <2>2, CountEmpty DEF LineIdle, Running
    <3> QED
      BY <1>2, <3>1, UnderwayCount DEF One
  <2> QED
    BY <2>1, <2>2
<1> QED
  BY <1>1, <1>2

-----------------------------------------------------------------------------
(* Each command accepted is answered once. *)

Hand == {"cmd", "cfg_deinit", "cfg_store", "cfg_answer"}

LEMMA InHandFrames ==
  ASSUME NEW e
  PROVE  /\ ev_pc \notin Hand => InHand(e) = 0
         /\ ev_pc' \notin Hand => InHand(e)' = 0
         /\ ev_pc \in Hand => InHand(e) = One(ev = e)
         /\ ev_pc' \in Hand => InHand(e)' = One(ev' = e)
BY DEF InHand, Hand, One

\* A step that asks for nothing and moves nothing on.
LEMMA Steady ==
  ASSUME NEW e \in Events, OneAnswer(e), asked' = asked, eventq'.CMD = eventq.CMD,
         InHand(e)' = InHand(e), mail' = mail, Working(e)' = Working(e)
  PROVE  OneAnswer(e)'
BY CountsSame DEF OneAnswer

LEMMA StepAnswersEv ==
  ASSUME TypeOK, TypeOK', Commanded, Phases, CalmInv, CalmInv', Calm, EvStep,
         NEW e \in Events, e.cmd # "requeue", OneAnswer(e)
  PROVE  OneAnswer(e)'
<1>1. Undisturbed /\ Configuring /\ LinesIdle /\ LinesIdle' /\ ui_pc = "on" /\ ev \in Events
  BY DEF CalmInv, Calm, Undamaged, TypeOK
<1>2. UNCHANGED lines => Working(e)' = Working(e)
  BY CountsSame DEF lines, queues, threads
<1>3. CASE InitPop \/ InitWait \/ Ready \/ DispatchUnlock
  <2>1. /\ UNCHANGED <<ints, lines, asked>>
        /\ ev_pc \in {"init", "init_wait", "ready", "reject"}
        /\ ev_pc' \in {"init", "init_wait", "ready", "exited", "iwyze", "wait"}
    BY <1>3, EventTypesAll DEF InitPop, InitWait, Ready, DispatchUnlock, Done
  <2>2. eventq'.CMD = eventq.CMD
    <3>1. CASE InitPop
      <4>1. PICK type \in EventTypes : Pop(type)
        BY <3>1, EventTypesAll DEF InitPop
      <4>2. eventq.CMD = <<>>
        BY <1>1, <3>1 DEF InitPop, Undisturbed, Listening
      <4> QED
        BY <1>1, <4>1, <4>2, CalmPop
    <3>2. CASE ~InitPop
      BY <1>3, <3>2 DEF InitWait, Ready, DispatchUnlock
    <3> QED
      BY <3>1, <3>2
  <2>3. InHand(e)' = InHand(e)
    BY <2>1, InHandFrames DEF Hand
  <2> QED
    BY <1>2, <2>1, <2>2, <2>3, Steady, MailSame DEF ints
<1>4. CASE Announced
  <2>1. /\ Enqueue(Ev, Interrupt("IWYZE", 0, "none")) /\ UNCHANGED <<eventq, lines, asked>>
        /\ ev_pc = "iwyze" /\ ev_pc' = "wait"
    BY <1>4 DEF Announced
  <2>2. /\ Interrupt("IWYZE", 0, "none") \in Interrupts
        /\ Interrupt("IWYZE", 0, "none").cmd # e.cmd
    BY EventType DEF Interrupt, Interrupts, Irqs, LineCmds, GeneralCmds
  <2>3. AnswersTo(e)' = AnswersTo(e)
    <3>1. AnswersTo(e)' = AnswersTo(e) + One(FALSE)
      BY <2>1, <2>2, Posted, ThreadsDiffer DEF One
    <3> QED
      BY <3>1, Counts DEF One
  <2>4. InHand(e)' = InHand(e)
    BY <2>1, InHandFrames DEF Hand
  <2> QED
    BY <1>2, <2>1, <2>3, <2>4, CountsSame DEF OneAnswer
<1>5. CASE EventLoop
  <2>1. UNCHANGED <<intq, intspec, lines, asked>> /\ ev_pc = "wait"
    BY <1>5 DEF EventLoop
  <2>2. CASE Pop("CMD") /\ ev_pc' = "cmd" /\ ev' = Head(eventq.CMD)
    <3>1. eventq.CMD # <<>> /\ eventq'.CMD = Tail(eventq.CMD) /\ eventq.CMD \in Seq(Events)
      BY <1>1, <2>2, CalmPop DEF EventTypes, TypeOK
    <3>2. QueuedFor(e) = QueuedFor(e)' + One(ev' \in {e}) /\ QueuedFor(e)' \in Nat
      <4>1. /\ Count(eventq.CMD, {e}) = Count(Tail(eventq.CMD), {e}) + One(Head(eventq.CMD) \in {e})
            /\ Count(Tail(eventq.CMD), {e}) \in Nat
        BY <3>1, CountTail
      <4>2. QueuedFor(e) = Count(eventq.CMD, {e}) /\ QueuedFor(e)' = Count(Tail(eventq.CMD), {e})
        BY <3>1, QueuedCount
      <4> QED
        BY <2>2, <4>1, <4>2
    <3>3. InHand(e) = 0 /\ InHand(e)' = One(ev' \in {e})
      BY <2>1, <2>2, InHandFrames DEF Hand, One
    <3>4. AnswersTo(e)' = AnswersTo(e) /\ Working(e)' = Working(e)
      BY <1>2, <2>1, MailSame, CountsSame
    <3>5. One(ev' \in {e}) \in Nat
      BY DEF One
    <3> QED
      BY <2>1, <3>2, <3>3, <3>4, <3>5, Counts DEF OneAnswer
  <2>3. CASE Pop("INT_PUSH") /\ UNCHANGED event
    <3>1. eventq'.CMD = eventq.CMD
      BY <1>1, <2>3, CalmPop DEF EventTypes
    <3> QED
      BY <1>2, <2>1, <2>3, <3>1, Steady, MailSame, CountsSame
  <2>4. ~Pop("QUIT") /\ ~Pop("RESET")
    BY <1>1, CalmPop DEF EventTypes
  <2> QED
    BY <1>5, <2>2, <2>3, <2>4 DEF EventLoop
<1>6. ~ResetStep
  BY <1>1 DEF ResetStep, LinesGone, ClearEvents, IntReset, Undisturbed
<1>7. CASE Test \/ SetCfgFails \/ SetCfgRejected \/ SetCfgDone \/ DispatchNone \/ DispatchReject
  <2>1. PICK i \in Irqs \ {"INIEA"} : Answer(i)
    <3>1. CASE Test \/ SetCfgDone
      BY <3>1, IrqNames DEF Test, SetCfgDone
    <3>2. CASE SetCfgFails \/ SetCfgRejected
      BY <3>2, IrqNames DEF SetCfgFails, SetCfgRejected
    <3>3. CASE DispatchNone \/ DispatchReject
      BY <3>3, IrqNames DEF DispatchNone, DispatchReject, Dispatchable
    <3> QED
      BY <1>7, <3>1, <3>2, <3>3
  <2>2. /\ ev_pc \in {"cmd", "cfg_deinit", "cfg_answer"} /\ ev_pc' \in {"wait", "reject"}
        /\ UNCHANGED <<eventq, lines, asked>>
    BY <1>7
    DEF Test, SetCfgFails, SetCfgRejected, SetCfgDone, DispatchNone, DispatchReject, Dispatchable, Done
  <2>3. InHand(e)' + AnswersTo(e)' = InHand(e) + AnswersTo(e)
    BY <2>1, <2>2, Answered
  <2>4. QueuedFor(e)' = QueuedFor(e) /\ Working(e)' = Working(e)
    BY <1>2, <2>2, CountsSame
  <2>5. AnswersTo(e)' \in Nat /\ InHand(e)' \in Nat
    <3>1. AnswersTo(e)' \in Nat
      BY AnswersCount, PlacesFinite
    <3> QED
      BY <3>1 DEF InHand
  <2> QED
    BY <2>2, <2>3, <2>4, <2>5, Counts DEF OneAnswer
<1>8. CASE Requeue
  <2>1. /\ ev.cmd = "requeue" /\ ev_pc = "cmd" /\ ev_pc' = "wait"
        /\ UNCHANGED <<eventq, lines, asked>>
    BY <1>8 DEF Requeue, Done
  <2>2. InHand(e) = 0 /\ InHand(e)' = 0
    BY <2>1, InHandFrames DEF Hand, One
  <2>3. mail' = mail
    <3>1. CASE intspec = INIEA
      BY <1>8, <3>1, MailSame DEF Requeue
    <3>2. CASE intspec # INIEA
      <4>1. intspec' = INIEA /\ intq' = <<intspec>> \o intq
        BY <1>8, <3>2, MultixAssumption, MailType DEF Requeue, Calm, Roomy
      <4>2. intq' \in Seq(Interrupts)
        BY DEF TypeOK
      <4>3. mail' = <<>> \o intq'
        BY <4>1 DEF mail
      <4>4. <<>> \o intq' = intq'
        BY <4>2
      <4> QED
        BY <3>2, <4>1, <4>3, <4>4, MailType
    <3> QED
      BY <3>1, <3>2
  <2> QED
    BY <1>2, <2>1, <2>2, <2>3, Steady
<1>9. CASE SetCfgRejects \/ SetCfg
  <2>1. /\ UNCHANGED <<state, eventq, ints, ev, asked>> /\ ev_pc = "cmd"
        /\ ev_pc' \in {"cfg_deinit", "cfg_store"} /\ state # "CONFIGURED"
    BY <1>9 DEF SetCfgRejects, SetCfg
  <2>2. InHand(e)' = InHand(e)
    BY <2>1, InHandFrames DEF Hand
  <2>3. Working(e)' = Working(e)
    <3>1. CASE e.line \in Lines
      <4>1. e.cmd \in LineCmds
        BY <3>1, LineCommand
      <4>2. LineIdle(e.line) /\ LineIdle(e.line)'
        BY <1>1, <2>1, <3>1 DEF LinesIdle
      <4>3. Underway(e.line, e.cmd) = 0 /\ Underway(e.line, e.cmd)' = 0
        BY <3>1, <4>1, <4>2, IdleHasNothing
      <4> QED
        BY <3>1, <4>3 DEF Working
    <3>2. CASE e.line \notin Lines
      BY <3>2 DEF Working
    <3> QED
      BY <3>1, <3>2
  <2> QED
    BY <2>1, <2>2, <2>3, Steady, MailSame DEF ints
<1>10. CASE SetCfgStore
  <2>1. /\ UNCHANGED <<eventq, ints, ev, lines, asked>> /\ ev_pc \in Hand /\ ev_pc' \in Hand
    BY <1>10 DEF SetCfgStore, Hand
  <2>2. InHand(e)' = InHand(e)
    BY <2>1, InHandFrames
  <2> QED
    BY <1>2, <2>1, <2>2, Steady, MailSame DEF ints
<1>11. CASE Dispatch
  <2>1. /\ UNCHANGED <<eventq, ints, asked>> /\ ev_pc = "cmd" /\ ev_pc' = "wait"
        /\ ev.cmd \in LineCmds /\ ev.line \in Lines
    BY <1>11 DEF Dispatch, Dispatchable, Done, TypeOK
  <2>2. InHand(e) = One(ev = e) /\ InHand(e)' = 0
    BY <2>1, InHandFrames DEF Hand
  <2>3. Working(e)' = Working(e) + One(ev = e)
    <3>1. CASE e.line \in Lines
      <4>1. e.cmd \in LineCmds
        BY <3>1, LineCommand
      <4>2. Underway(e.line, e.cmd)' = Underway(e.line, e.cmd) + One(e.line = ev.line /\ e.cmd = ev.cmd)
        BY <1>11, <3>1, <4>1, DispatchAdds
      <4>3. ev = e <=> e.line = ev.line /\ e.cmd = ev.cmd
        BY <1>1, EventType
      <4> QED
        BY <3>1, <4>2, <4>3 DEF Working, One
    <3>2. CASE e.line \notin Lines
      BY <2>1, <3>2 DEF Working, One
    <3> QED
      BY <3>1, <3>2
  <2>4. QueuedFor(e)' = QueuedFor(e) /\ AnswersTo(e)' = AnswersTo(e)
    BY <2>1, CountsSame, MailSame DEF ints
  <2> QED
    BY <2>1, <2>2, <2>3, <2>4, Counts DEF OneAnswer, One
<1>12. CASE IntStep(Ev)
  <2>1. UNCHANGED <<eventq, event, lines, asked>> /\ mail' = mail
    BY <1>12, IntStepType, IntStepKeepsMail, ThreadsDiffer DEF Commanded
  <2> QED
    BY <1>2, <2>1, Steady, CountsSame
<1> QED
  BY <1>3, <1>4, <1>5, <1>6, <1>7, <1>8, <1>9, <1>10, <1>11, <1>12
  DEF EvStep, InitStep, SetCfgStep, DispatchStep

LEMMA StepAnswersLine ==
  ASSUME TypeOK, TypeOK', Commanded, CalmInv, Calm, NEW l \in Lines, ProtoStep(l) \/ StatusStep(l),
         NEW e \in Events, OneAnswer(e)
  PROVE  OneAnswer(e)'
<1>1. UNCHANGED <<eventq, event, asked>>
  <2>1. CASE IntStep(Proto(l)) \/ IntStep(Status(l))
    BY <2>1 DEF IntStep, IntPush, IntCheck, IntSet
  <2>2. CASE ProtoTake(l) \/ ProtoRun(l) \/ ProtoFails(l) \/ ProtoFin(l) \/ ProtoQuit(l)
    BY <2>2 DEF ProtoTake, ProtoRun, ProtoFails, ProtoFin, ProtoQuit
  <2>3. CASE StatusReport(l) \/ StatusDone(l) \/ StatusQuit(l)
    BY <2>3 DEF StatusReport, StatusDone, StatusQuit
  <2> QED
    BY <2>1, <2>2, <2>3 DEF ProtoStep, StatusStep
<1>2. QueuedFor(e)' = QueuedFor(e) /\ InHand(e)' = InHand(e)
  BY <1>1, CountsSame
<1>3. e.line \in Lines => e.cmd \in LineCmds
  BY LineCommand
<1>4. CASE ProtoTake(l)
  <2>1. Working(e)' = Working(e)
    BY <1>3, <1>4, TakeKeeps DEF Working
  <2>2. mail' = mail
    BY <1>4, MailSame DEF ProtoTake, ints
  <2> QED
    BY <1>1, <1>2, <2>1, <2>2, Steady
<1>5. CASE IntStep(Proto(l)) \/ IntStep(Status(l))
  <2>1. UNCHANGED lines /\ mail' = mail
    BY <1>5, IntStepType, IntStepKeepsMail, ThreadsDiffer DEF Commanded
  <2>2. Working(e)' = Working(e)
    BY <2>1, CountsSame DEF lines, queues, threads
  <2> QED
    BY <1>1, <1>2, <2>1, <2>2, Steady
<1>6. CASE ProtoRun(l) \/ ProtoFails(l) \/ ProtoQuit(l)
  <2>1. UNCHANGED ints
    BY <1>6 DEF ProtoRun, ProtoFails, ProtoQuit
  <2>2. Working(e)' = Working(e)
    BY <1>3, <1>6, RunKeeps DEF Working
  <2>3. mail' = mail
    BY <2>1, MailSame DEF ints
  <2> QED
    BY <1>1, <1>2, <2>2, <2>3, Steady
<1>7. CASE ProtoFin(l)
  <2> DEFINE c == proto_cmd[l]
             i == Interrupt(proto_irq[l], l, c)
  <2>1. c \in ProtoCmds /\ proto_irq[l] \in Irqs /\ Enqueue(Proto(l), i)
    BY <1>7 DEF ProtoFin, Commanded, LinesCommanded, TypeOK
  <2>2. i \in Interrupts /\ i.cmd = c /\ i.line = l
    BY <2>1 DEF Interrupt, Interrupts, ProtoCmds
  <2> HIDE DEF i
  <2>3. AnswersTo(e)' = AnswersTo(e) + One(c = e.cmd /\ l = e.line)
    BY <2>1, <2>2, Posted, ThreadsDiffer
  <2>4. Working(e) = Working(e)' + One(c = e.cmd /\ l = e.line)
    <3>1. CASE e.line \in Lines
      <4>1. Underway(e.line, e.cmd) = Underway(e.line, e.cmd)' + One(e.line = l /\ e.cmd = c)
        BY <1>3, <1>7, <3>1, FinishTakes
      <4> QED
        BY <3>1, <4>1 DEF Working, One
    <3>2. CASE e.line \notin Lines
      BY <3>2 DEF Working, One
    <3> QED
      BY <3>1, <3>2
  <2>5. Working(e)' \in Nat
    BY <1>3, UnderwayNat DEF Working
  <2>6. One(c = e.cmd /\ l = e.line) \in Nat
    BY DEF One
  <2> QED
    BY <1>1, <1>2, <2>3, <2>4, <2>5, <2>6, Counts DEF OneAnswer
<1>8. CASE StatusReport(l)
  <2>1. PICK n \in Irqs : Enqueue(Status(l), Interrupt(n, l, "status"))
    BY <1>8 DEF StatusReport, Irqs
  <2> DEFINE i == Interrupt(n, l, "status")
  <2>2. i \in Interrupts /\ i.cmd = "status" /\ i.line = l
    BY <2>1 DEF Interrupt, Interrupts, LineCmds
  <2>3. Enqueue(Status(l), i)
    BY <2>1
  <2> HIDE DEF i
  <2>4. AnswersTo(e)' = AnswersTo(e) + One("status" = e.cmd /\ l = e.line)
    BY <2>2, <2>3, Posted, ThreadsDiffer
  <2>5. Working(e) = Working(e)' + One("status" = e.cmd /\ l = e.line)
    <3>1. CASE e.line \in Lines
      <4>1. Underway(e.line, e.cmd) = Underway(e.line, e.cmd)' + One(e.line = l /\ e.cmd = "status")
        BY <1>3, <1>8, <3>1, ReportTakes
      <4> QED
        BY <3>1, <4>1 DEF Working, One
    <3>2. CASE e.line \notin Lines
      BY <3>2 DEF Working, One
    <3> QED
      BY <3>1, <3>2
  <2>6. Working(e)' \in Nat
    BY <1>3, UnderwayNat DEF Working
  <2>7. One("status" = e.cmd /\ l = e.line) \in Nat
    BY DEF One
  <2> QED
    BY <1>1, <1>2, <2>4, <2>5, <2>6, <2>7, Counts DEF OneAnswer
<1>9. CASE StatusDone(l) \/ StatusQuit(l)
  <2>1. UNCHANGED <<ints, protoq, statusq, proto_pc, proto_cmd>>
    BY <1>9 DEF StatusDone, StatusQuit
  <2> QED
    BY <1>1, <1>2, <2>1, Steady, CountsSame, MailSame DEF ints
<1> QED
  BY <1>4, <1>5, <1>6, <1>7, <1>8, <1>9 DEF ProtoStep, StatusStep

\* What the program reads is the answer to what it has asked.
LEMMA ReadTakes ==
  ASSUME TypeOK, TypeOK', GetSpec, ui_pc = "on", NEW e \in Events, OneAnswer(e)
  PROVE  asked[e] - asked'[e] = AnswersTo(e) - AnswersTo(e)'
<1> DEFINE n == One(intspec # INIEA /\ intspec.cmd = e.cmd /\ intspec.line = e.line)
<1>1. /\ intspec' = INIEA /\ intq' = intq
      /\ asked' = [d \in Events |-> IF d = Event(intspec.cmd, intspec.line) /\ asked[d] > 0
                                    THEN asked[d] - 1 ELSE asked[d]]
  BY DEF GetSpec
<1>2. e = Event(intspec.cmd, intspec.line) <=> intspec # INIEA /\ intspec.cmd = e.cmd /\ intspec.line = e.line
  BY EventType DEF Event, INIEA, Interrupt, LineCmds, GeneralCmds
<1>3. mail' = intq /\ intq \in Seq(Interrupts) /\ intspec \in Interrupts
  <2>1. mail' = <<>> \o intq
    BY <1>1 DEF mail
  <2> QED
    BY <2>1, MailType DEF TypeOK
<1>4. AnswersTo(e) = AnswersTo(e)' + n
  <2>1. CASE intspec = INIEA
    <3>1. mail' = mail
      BY <1>3, <2>1, MailType
    <3> QED
      BY <2>1, <3>1, Counts, CountsSame DEF One
  <2>2. CASE intspec # INIEA
    <3>1. mail = <<intspec>> \o intq
      BY <2>2, MailType
    <3>2. Count(mail, To(e)) = Count(intq, To(e)) + One(intspec \in To(e))
      BY <1>3, <3>1, CountCons
    <3>3. One(intspec \in To(e)) = n
      BY <1>3, <2>2 DEF To, One
    <3> QED
      BY <1>3, <3>2, <3>3, AnswersCount
  <2> QED
    BY <2>1, <2>2
<1>5. AnswersTo(e)' \in Nat
  BY AnswersCount, PlacesFinite
<1>6. asked[e] >= n /\ asked[e] \in Nat
  <2>1. asked[e] \in Nat
    BY DEF TypeOK
  <2>2. n \in Nat
    BY DEF One
  <2> HIDE DEF n
  <2> QED
    BY <1>4, <1>5, <2>1, <2>2, Counts DEF OneAnswer
<1>7. asked'[e] = asked[e] - n
  BY <1>1, <1>2, <1>6 DEF One
<1>8. n \in Nat
  BY DEF One
<1> HIDE DEF n
<1> QED
  BY <1>4, <1>5, <1>6, <1>7, <1>8

LEMMA StepAnswersCpu ==
  ASSUME TypeOK, TypeOK', CalmInv, Calm, Calm', CpuStep \/ PowerOff \/ UiContinue,
         NEW e \in Events, e.cmd # "requeue", OneAnswer(e)
  PROVE  OneAnswer(e)'
<1>1. ui_pc = "on" /\ ui_pc' = "on" /\ resets = 0 /\ resets' = 0 /\ Undisturbed
  BY DEF CalmInv, Calm, Undamaged
<1>2. ~PowerOff /\ ~UiContinue /\ ~Reset
  BY <1>1 DEF PowerOff, UiContinue, Quit, Joined, Free, Forget, Reset
<1>3. UNCHANGED <<event, lines>>
  BY <1>2 DEF CpuStep, Issue, Serve, NoVector, GetSpec, AskPush, InsertEvent, ClearAll
<1>4. InHand(e)' = InHand(e) /\ Working(e)' = Working(e)
  BY <1>3, CountsSame DEF lines, queues, threads
<1>5. CASE Issue \/ AskPush \/ Serve \/ NoVector \/ ClearAll
  <2>1. UNCHANGED <<eventq, asked, intq, intspec>>
    BY <1>5 DEF Issue, AskPush, Serve, NoVector, ClearAll, ints
  <2> QED
    BY <1>4, <2>1, Steady, MailSame
<1>6. CASE GetSpec
  <2>1. asked[e] - asked'[e] = AnswersTo(e) - AnswersTo(e)'
    BY <1>1, <1>6, ReadTakes
  <2>2. QueuedFor(e)' = QueuedFor(e)
    BY <1>6, CountsSame DEF GetSpec
  <2>3. asked[e] \in Nat /\ asked'[e] \in Nat
    BY DEF TypeOK
  <2>4. AnswersTo(e)' \in Nat
    BY AnswersCount, PlacesFinite
  <2>5. QueuedFor(e) \in Nat /\ InHand(e) \in Nat /\ AnswersTo(e) \in Nat /\ Working(e) \in Nat
    BY Counts
  <2>6. asked[e] = QueuedFor(e) + InHand(e) + AnswersTo(e) + Working(e)
    BY DEF OneAnswer
  <2>7. asked'[e] = QueuedFor(e) + InHand(e) + AnswersTo(e)' + Working(e)
    BY <2>1, <2>3, <2>4, <2>5, <2>6
  <2> QED
    BY <1>4, <2>2, <2>7 DEF OneAnswer
<1>7. CASE InsertEvent
  <2>1. /\ Insert(pend.type, pend.event) /\ UNCHANGED ints
        /\ asked' = IF pend.type = "CMD" /\ pend.event.cmd # "requeue" /\ eventq' # eventq
                    THEN [asked EXCEPT ![pend.event] = asked[pend.event] + 1] ELSE asked
    BY <1>1, <1>7 DEF InsertEvent, QueueGone
  <2>2. /\ pend.type \in {"CMD", "INT_PUSH"} /\ pend.event \in Events
        /\ asked \in [Events -> Nat] /\ eventq.CMD \in Seq(Events)
    BY <1>1 DEF TypeOK, PendTypes, Undisturbed
  <2>3. /\ eventq' # eventq
        /\ eventq'.CMD = IF pend.type = "CMD" THEN Append(eventq.CMD, pend.event) ELSE eventq.CMD
    BY <2>1, <2>2, CalmInsert
  <2>4. AnswersTo(e)' = AnswersTo(e)
    BY <2>1, CountsSame, MailSame DEF ints
  <2>5. CASE pend.type = "CMD"
    <3>1. Count(Append(eventq.CMD, pend.event), {e}) = Count(eventq.CMD, {e}) + One(pend.event \in {e})
      BY <2>2, CountAppend
    <3>2. QueuedFor(e)' = QueuedFor(e) + One(pend.event = e)
      BY <2>3, <2>5, <3>1, QueuedCount DEF One
    <3>3. asked'[e] = asked[e] + One(pend.event = e)
      BY <2>1, <2>2, <2>3, <2>5 DEF One
    <3>4. One(pend.event = e) \in Nat
      BY DEF One
    <3> QED
      BY <1>4, <2>4, <3>2, <3>3, <3>4, Counts DEF OneAnswer
  <2>6. CASE pend.type # "CMD"
    <3>1. asked' = asked /\ QueuedFor(e)' = QueuedFor(e)
      BY <2>1, <2>3, <2>6, CountsSame
    <3> QED
      BY <1>4, <2>4, <3>1 DEF OneAnswer
  <2> QED
    BY <2>5, <2>6
<1> QED
  BY <1>2, <1>5, <1>6, <1>7 DEF CpuStep

-----------------------------------------------------------------------------
(* The bits of a line tell what it is doing. *)

Reporting(l, c) == c = "status" /\ status_pc[l] = "sent"

BitTells(l, c) == Underway(l, c) + One(Reporting(l, c)) = One(c \in status[l])

BitCmds == LineCmds \ {"abort"}

LEMMA TellsFrame ==
  ASSUME NEW l \in Lines, NEW c \in BitCmds, BitTells(l, c),
         UNCHANGED <<status, protoq, statusq, proto_pc, proto_cmd, status_pc>>
  PROVE  BitTells(l, c)'
BY DEF BitTells, Underway, Reporting, One

LEMMA IdleTells ==
  ASSUME NEW l \in Lines, NEW c \in BitCmds, LineIdle(l)'
  PROVE  BitTells(l, c)'
<1>1. Underway(l, c)' = 0
  BY IdleHasNothing DEF BitCmds
<1>2. ~Reporting(l, c)' /\ c \notin status'[l]
  BY DEF LineIdle, Reporting
<1> QED
  BY <1>1, <1>2 DEF BitTells, One

LEMMA DispatchTells ==
  ASSUME TypeOK, TypeOK', Dispatch, NEW l \in Lines, NEW c \in BitCmds, BitTells(l, c)
  PROVE  BitTells(l, c)'
<1>1. /\ UNCHANGED status_pc /\ ev.cmd \in LineCmds /\ ~NotAllowed(ev.line, ev.cmd)
      /\ status' = [status EXCEPT ![ev.line] = status[ev.line] \cup {ev.cmd}]
      /\ status \in [Lines -> SUBSET (LineCmds \cup {"ATTACHED"})]
  BY DEF Dispatch, Dispatchable, threads, TypeOK
<1>2. Underway(l, c)' = Underway(l, c) + One(l = ev.line /\ c = ev.cmd)
  BY DispatchAdds DEF BitCmds
<1>3. Reporting(l, c)' <=> Reporting(l, c)
  BY <1>1 DEF Reporting
<1>4. Underway(l, c) \in Nat
  BY UnderwayNat DEF BitCmds
<1>5. CASE l = ev.line /\ c = ev.cmd
  <2>1. c \notin status[l]
    BY <1>1, <1>5 DEF NotAllowed, FailPos, BitCmds, LineCmds
  <2>2. c \in status'[l]
    BY <1>1, <1>5
  <2> QED
    BY <1>2, <1>3, <1>4, <1>5, <2>1, <2>2 DEF BitTells, One
<1>6. CASE ~(l = ev.line /\ c = ev.cmd)
  <2>1. c \in status'[l] <=> c \in status[l]
    BY <1>1, <1>6
  <2> QED
    BY <1>2, <1>3, <1>4, <1>6, <2>1 DEF BitTells, One
<1> QED
  BY <1>5, <1>6

LEMMA LineTells ==
  ASSUME TypeOK, TypeOK', Commanded, NEW k \in Lines, ProtoStep(k) \/ StatusStep(k), ~Deinit(k),
         NEW l \in Lines, NEW c \in BitCmds, BitTells(l, c)
  PROVE  BitTells(l, c)'
<1>1. /\ c \in LineCmds /\ c # "ATTACHED" /\ Underway(l, c) \in Nat /\ Underway(l, c)' \in Nat
      /\ status \in [Lines -> SUBSET (LineCmds \cup {"ATTACHED"})]
      /\ status_pc \in [Lines -> {"none", "wait", "sent"}]
  BY UnderwayNat DEF BitCmds, LineCmds, TypeOK
<1>2. CASE ProtoTake(k)
  <2>1. UNCHANGED <<status, status_pc>> /\ Underway(l, c)' = Underway(l, c)
    BY <1>1, <1>2, TakeKeeps DEF ProtoTake
  <2> QED
    BY <2>1 DEF BitTells, Reporting
<1>3. CASE ProtoRun(k) \/ ProtoFails(k)
  <2>1. status_pc' = status_pc /\ Underway(l, c)' = Underway(l, c)
    BY <1>1, <1>3, RunKeeps DEF ProtoRun, ProtoFails
  <2>2. status' = status \/ status' = [status EXCEPT ![k] = StatusAfter(k)]
    BY <1>3 DEF ProtoRun, ProtoFails, queues
  <2>3. c \in StatusAfter(k) <=> c \in status[k]
    BY <1>1 DEF StatusAfter
  <2>4. c \in status'[l] <=> c \in status[l]
    BY <1>1, <2>2, <2>3
  <2> QED
    BY <2>1, <2>4 DEF BitTells, Reporting, One
<1>4. CASE ProtoFin(k)
  <2>1. /\ Underway(l, c) = Underway(l, c)' + One(l = k /\ c = proto_cmd[k])
        /\ status' = [status EXCEPT ![k] = status[k] \ {proto_cmd[k]}]
        /\ status_pc' = status_pc /\ proto_cmd[k] # "status"
    BY <1>1, <1>4, FinishTakes DEF ProtoFin, Commanded, LinesCommanded, ProtoCmds
  <2>2. CASE l = k /\ c = proto_cmd[k]
    <3>1. c \notin status'[l] /\ ~Reporting(l, c) /\ ~Reporting(l, c)'
      BY <1>1, <2>1, <2>2 DEF Reporting
    <3> QED
      BY <1>1, <2>1, <2>2, <3>1 DEF BitTells, One
  <2>3. CASE ~(l = k /\ c = proto_cmd[k])
    <3>1. (c \in status'[l] <=> c \in status[l]) /\ (Reporting(l, c)' <=> Reporting(l, c))
      BY <1>1, <2>1, <2>3 DEF Reporting
    <3> QED
      BY <1>1, <2>1, <2>3, <3>1 DEF BitTells, One
  <2> QED
    BY <2>2, <2>3
<1>5. CASE StatusReport(k)
  <2>1. /\ Underway(l, c) = Underway(l, c)' + One(l = k /\ c = "status")
        /\ status' = status /\ status_pc[k] = "wait"
        /\ status_pc' = [status_pc EXCEPT ![k] = "sent"]
    BY <1>1, <1>5, ReportTakes DEF StatusReport
  <2>2. CASE l = k /\ c = "status"
    <3>1. ~Reporting(l, c) /\ Reporting(l, c)'
      BY <1>1, <2>1, <2>2 DEF Reporting
    <3> QED
      BY <1>1, <2>1, <2>2, <3>1 DEF BitTells, One
  <2>3. CASE ~(l = k /\ c = "status")
    <3>1. Reporting(l, c)' <=> Reporting(l, c)
      BY <1>1, <2>1, <2>3 DEF Reporting
    <3> QED
      BY <1>1, <2>1, <2>3, <3>1 DEF BitTells, One
  <2> QED
    BY <2>2, <2>3
<1>6. CASE StatusDone(k)
  <2>1. /\ Underway(l, c)' = Underway(l, c) /\ status_pc[k] = "sent"
        /\ status' = [status EXCEPT ![k] = status[k] \ {"status"}]
        /\ status_pc' = [status_pc EXCEPT ![k] = "wait"]
    BY <1>6 DEF StatusDone, Underway
  <2>2. CASE l = k /\ c = "status"
    <3>1. Reporting(l, c) /\ ~Reporting(l, c)' /\ c \notin status'[l]
      BY <1>1, <2>1, <2>2 DEF Reporting
    <3> QED
      BY <1>1, <2>1, <3>1 DEF BitTells, One
  <2>3. CASE ~(l = k /\ c = "status")
    <3>1. (c \in status'[l] <=> c \in status[l]) /\ (Reporting(l, c)' <=> Reporting(l, c))
      BY <1>1, <2>1, <2>3 DEF Reporting
    <3> QED
      BY <2>1, <3>1 DEF BitTells, One
  <2> QED
    BY <2>2, <2>3
<1>7. CASE IntStep(Proto(k)) \/ IntStep(Status(k))
  <2>1. UNCHANGED lines
    BY <1>7 DEF IntStep, IntPush, IntCheck, IntSet
  <2> QED
    BY <2>1, TellsFrame DEF lines, queues, threads
<1>8. ~ProtoQuit(k) /\ ~StatusQuit(k)
  BY DEF ProtoQuit, StatusQuit
<1> QED
  BY <1>2, <1>3, <1>4, <1>5, <1>6, <1>7, <1>8 DEF ProtoStep, StatusStep

LinesTell == \A l \in llines, c \in BitCmds : BitTells(l, c)

LEMMA StepLinesTell ==
  ASSUME TypeOK, TypeOK', Commanded, Phases, CalmInv, CalmInv', Calm, Calm', LinesTell, [Next]_vars
  PROVE  LinesTell'
<1>1. /\ Undisturbed /\ Configuring /\ LinesIdle /\ LinesIdle' /\ ui_pc = "on" /\ ui_pc' = "on"
      /\ resets = 0 /\ resets' = 0
  BY DEF CalmInv, Calm, Undamaged
<1>2. llines \subseteq Lines /\ llines' \subseteq Lines
  BY DEF TypeOK
<1>3. UNCHANGED lines => LinesTell'
  BY <1>2, TellsFrame DEF LinesTell, lines, queues, threads
<1>4. CASE state' # "CONFIGURED"
  BY <1>1, <1>2, <1>4, IdleTells DEF LinesIdle, LinesTell
<1>5. CASE state' = "CONFIGURED" /\ EvStep
  <2>1. CASE Dispatch
    <3>1. llines' = llines
      BY <2>1 DEF Dispatch
    <3> QED
      BY <1>2, <2>1, <3>1, DispatchTells DEF LinesTell
  <2>2. ~SetCfgRejects /\ ~SetCfg
    BY <1>5 DEF SetCfgRejects, SetCfg
  <2>3. ~ResetStep
    BY <1>1 DEF ResetStep, LinesGone, ClearEvents, IntReset, Undisturbed
  <2>4. CASE InitStep \/ EventLoop \/ Test \/ Requeue \/ DispatchNone \/ DispatchReject
             \/ DispatchUnlock \/ IntStep(Ev)
    <3>1. UNCHANGED lines
      BY <2>4
      DEF InitStep, InitPop, InitWait, Ready, Announced, EventLoop, Test, Requeue, DispatchNone,
          DispatchReject, DispatchUnlock, IntStep, IntPush, IntCheck, IntSet
    <3> QED
      BY <1>3, <3>1
  <2>5. CASE SetCfgFails \/ SetCfgRejected \/ SetCfgStore \/ SetCfgDone
    <3>1. UNCHANGED lines
      BY <2>5 DEF SetCfgFails, SetCfgRejected, SetCfgStore, SetCfgDone
    <3> QED
      BY <1>3, <3>1
  <2> QED
    BY <1>5, <2>1, <2>2, <2>3, <2>4, <2>5 DEF EvStep, SetCfgStep, DispatchStep
<1>6. CASE state' = "CONFIGURED" /\ \E k \in Lines : ProtoStep(k) \/ StatusStep(k)
  <2>1. PICK k \in Lines : ProtoStep(k) \/ StatusStep(k)
    BY <1>6
  <2>2. state = "CONFIGURED"
    <3>1. CASE IntStep(Proto(k)) \/ IntStep(Status(k))
      BY <1>6, <3>1 DEF IntStep, IntPush, IntCheck, IntSet
    <3>2. CASE ProtoTake(k) \/ ProtoRun(k) \/ ProtoFails(k) \/ ProtoFin(k) \/ ProtoQuit(k)
      BY <1>6, <3>2 DEF ProtoTake, ProtoRun, ProtoFails, ProtoFin, ProtoQuit
    <3>3. CASE StatusReport(k) \/ StatusDone(k) \/ StatusQuit(k)
      BY <1>6, <3>3 DEF StatusReport, StatusDone, StatusQuit
    <3> QED
      BY <2>1, <3>1, <3>2, <3>3 DEF ProtoStep, StatusStep
  <2>3. ~Deinit(k)
    BY <1>1, <2>2 DEF Deinit, Configuring, Undisturbed
  <2>4. llines' = llines
    <3>1. CASE IntStep(Proto(k)) \/ IntStep(Status(k))
      BY <3>1 DEF IntStep, IntPush, IntCheck, IntSet, lines
    <3>2. CASE ProtoTake(k) \/ ProtoRun(k) \/ ProtoFails(k) \/ ProtoFin(k) \/ ProtoQuit(k)
      BY <3>2 DEF ProtoTake, ProtoRun, ProtoFails, ProtoFin, ProtoQuit
    <3>3. CASE StatusReport(k) \/ StatusDone(k)
      BY <3>3 DEF StatusReport, StatusDone
    <3> QED
      BY <2>1, <2>3, <3>1, <3>2, <3>3 DEF ProtoStep, StatusStep, StatusQuit
  <2> QED
    BY <1>2, <2>1, <2>3, <2>4, LineTells DEF LinesTell
<1>7. CASE CpuStep \/ PowerOff \/ UiContinue
  <2>1. ~PowerOff /\ ~UiContinue /\ ~Reset
    BY <1>1 DEF PowerOff, UiContinue, Quit, Joined, Free, Forget, Reset
  <2>2. UNCHANGED lines
    BY <1>7, <2>1 DEF CpuStep, Issue, Serve, NoVector, GetSpec, AskPush, InsertEvent, ClearAll
  <2> QED
    BY <1>3, <2>2
<1>8. CASE UNCHANGED vars
  BY <1>3, <1>8 DEF vars
<1> QED
  BY <1>4, <1>5, <1>6, <1>7, <1>8 DEF Next

-----------------------------------------------------------------------------
(* The two together, until the first reset or the end. *)

Answering == \A e \in Events : e.cmd # "requeue" => OneAnswer(e)

AnswersInv == Undamaged => CalmInv /\ Answering /\ LinesTell

LEMMA AnswersInit == Init => AnswersInv
<1> SUFFICES ASSUME Init PROVE CalmInv /\ Answering /\ LinesTell
  BY DEF AnswersInv
<1>1. CalmInv /\ llines = {}
  BY CalmInit DEF Init
<1>2. ASSUME NEW e \in Events PROVE OneAnswer(e)
  <2>1. QueuedFor(e) = 0
    BY QueuedCount, CountEmpty DEF Init, NoEvents
  <2>2. InHand(e) = 0 /\ asked[e] = 0
    BY InHandFrames DEF Init, Hand
  <2>3. AnswersTo(e) = 0
    <3>1. {i \in DOMAIN mail : mail[i].cmd = e.cmd /\ mail[i].line = e.line} = {}
      BY DEF Init, mail
    <3> QED
      BY <3>1, FS_EmptySet DEF AnswersTo
  <2>4. Working(e) = 0
    <3>1. CASE e.line \in Lines
      <4>1. e.cmd \in LineCmds
        BY <3>1, LineCommand
      <4>2. LineIdle(e.line)
        BY <3>1 DEF Init, LineIdle
      <4> QED
        BY <3>1, <4>1, <4>2, IdleHasNothing DEF Working
    <3>2. CASE e.line \notin Lines
      BY <3>2 DEF Working
    <3> QED
      BY <3>1, <3>2
  <2> QED
    BY <2>1, <2>2, <2>3, <2>4 DEF OneAnswer
<1> QED
  BY <1>1, <1>2 DEF Answering, LinesTell

\* What is damaged is not repaired.
LEMMA DamageStays == TypeOK /\ Undamaged' /\ [Next]_vars => Undamaged
<1> SUFFICES ASSUME TypeOK, Undamaged', [Next]_vars PROVE Undamaged
  OBVIOUS
<1>1. CASE EvStep
  <2>1. CASE IntStep(Ev)
    BY <2>1 DEF IntStep, IntPush, IntCheck, IntSet, Undamaged, cpu
  <2>2. CASE InitStep \/ EventLoop \/ ResetStep \/ Test \/ Requeue
    BY <2>2
    DEF InitStep, InitPop, InitWait, Ready, Announced, EventLoop, ResetStep, LinesGone, ClearEvents,
        IntReset, Test, Requeue, Undamaged, cpu
  <2>3. CASE SetCfgStep
    BY <2>3
    DEF SetCfgStep, SetCfgFails, SetCfgRejects, SetCfgRejected, SetCfg, SetCfgStore, SetCfgDone,
        Undamaged, cpu
  <2>4. CASE DispatchStep
    BY <2>4 DEF DispatchStep, DispatchNone, DispatchReject, DispatchUnlock, Dispatch, Undamaged, cpu
  <2> QED
    BY <1>1, <2>1, <2>2, <2>3, <2>4 DEF EvStep
<1>2. CASE \E l \in Lines : ProtoStep(l) \/ StatusStep(l)
  <2>1. PICK l \in Lines : ProtoStep(l) \/ StatusStep(l)
    BY <1>2
  <2>2. CASE IntStep(Proto(l)) \/ IntStep(Status(l))
    BY <2>2 DEF IntStep, IntPush, IntCheck, IntSet, Undamaged, cpu
  <2>3. CASE ProtoTake(l) \/ ProtoRun(l) \/ ProtoFails(l) \/ ProtoFin(l) \/ ProtoQuit(l)
    BY <2>3 DEF ProtoTake, ProtoRun, ProtoFails, ProtoFin, ProtoQuit, Undamaged, cpu
  <2>4. CASE StatusReport(l) \/ StatusDone(l) \/ StatusQuit(l)
    BY <2>4 DEF StatusReport, StatusDone, StatusQuit, Undamaged, cpu
  <2> QED
    BY <2>1, <2>2, <2>3, <2>4 DEF ProtoStep, StatusStep
<1>3. CASE CpuStep
  <2>1. CASE Reset
    BY <2>1 DEF Reset, Undamaged, TypeOK
  <2>2. CASE Issue \/ Serve \/ NoVector \/ GetSpec \/ AskPush \/ InsertEvent \/ ClearAll
    BY <2>2 DEF Issue, Serve, NoVector, GetSpec, AskPush, InsertEvent, ClearAll, Undamaged
  <2> QED
    BY <1>3, <2>1, <2>2 DEF CpuStep
<1>4. CASE PowerOff \/ UiContinue
  BY <1>4 DEF PowerOff, UiContinue, Quit, Joined, Free, Forget, Undamaged
<1>5. CASE UNCHANGED vars
  BY <1>5 DEF vars, Undamaged, cpu
<1> QED
  BY <1>1, <1>2, <1>3, <1>4, <1>5 DEF Next

LEMMA StepAnswersInv ==
  IInv /\ IInv' /\ Roomy /\ Roomy' /\ AnswersInv /\ [Next]_vars => AnswersInv'
<1> SUFFICES ASSUME IInv, IInv', Roomy, Roomy', AnswersInv, [Next]_vars, Undamaged'
             PROVE  (CalmInv /\ Answering /\ LinesTell)'
  BY DEF AnswersInv
<1>1. TypeOK /\ TypeOK' /\ Commanded /\ Phases
  BY DEF IInv
<1>2. Undamaged /\ Calm /\ Calm'
  BY <1>1, DamageStays DEF Calm
<1>3. CalmInv /\ Answering /\ LinesTell
  BY <1>2 DEF AnswersInv
<1>4. CalmInv'
  <2>1. CASE UNCHANGED vars
    BY <1>3, <2>1, CalmFrames DEF CalmInv, vars, event, lines, queues, threads, cpu
  <2> QED
    BY <1>1, <1>2, <1>3, <2>1, StepCalmEv, StepCalmLine, StepCalmCpu DEF Next
<1>5. Answering'
  <2> SUFFICES ASSUME NEW e \in Events, e.cmd # "requeue" PROVE OneAnswer(e)'
    BY DEF Answering
  <2>1. OneAnswer(e)
    BY <1>3 DEF Answering
  <2>2. CASE UNCHANGED vars
    BY <2>1, <2>2, Steady, CountsSame, MailSame DEF vars, ints, lines, queues, threads
  <2> QED
    BY <1>1, <1>2, <1>3, <1>4, <2>1, <2>2, StepAnswersEv, StepAnswersLine, StepAnswersCpu DEF Next
<1>6. LinesTell'
  BY <1>1, <1>2, <1>3, <1>4, StepLinesTell
<1> QED
  BY <1>4, <1>5, <1>6

LEMMA AnswersInvariant == Spec /\ []Roomy => []AnswersInv
BY AnswersInit, StepAnswersInv, Invariant, PTL DEF Spec

LEMMA AnswersFollow == IInv /\ AnswersInv /\ Undamaged => AnswersSound
<1> SUFFICES ASSUME IInv, AnswersInv, Undamaged PROVE AnswersSound
  OBVIOUS
<1>1. TypeOK /\ Answering /\ LinesTell
  BY DEF IInv, AnswersInv
<1>2. OneAnswerEach
  BY <1>1 DEF OneAnswerEach, Answering, OneAnswer, Working
<1>3. StatusTells
  BY <1>1 DEF StatusTells, LinesTell, BitTells, BitCmds, Reporting, One
<1> QED
  BY <1>1, <1>2, <1>3 DEF AnswersSound

\* Until the first reset or the end, and while no list is full, each command that
\* MULTIX accepts is in one queue or hand, or its one answer waits, and the bits of a
\* line tell what it is doing: for any number of lines, any program and any order in
\* which the threads take their turns (mx_line_cmd_dispatch(), mx_line_thread(),
\* mx_line_status_thread(), mx_int_get_spec()).
THEOREM AnsweredOnce == Spec /\ []Roomy => [](Undamaged => AnswersSound)
BY AnswersFollow, AnswersInvariant, Invariant, PTL

\* A program that waits for the answer before it repeats a command is never told that
\* the line is still busy with it (mx_line_cmd_allowed()).
THEOREM NeverRejectedInVain == Spec /\ []Calm => RejectedOnlyIfBusy
<1> DEFINE Busy == \/ ev.cmd = "attach" /\ "ATTACHED" \in status[ev.line]
                   \/ ev.cmd = "transmit" /\ "ATTACHED" \notin status[ev.line]
                   \/ ev.cmd = "abort"
                   \/ asked[ev] > 1
                   \/ ev.cmd = "detach" /\ asked[Event("transmit", ev.line)] > 0
<1>1. ASSUME IInv, IInv', AnswersInv, Calm, DispatchReject PROVE Busy
  <2>1. TypeOK /\ TypeOK' /\ CalmInv /\ Answering /\ LinesTell
    BY <1>1 DEF IInv, AnswersInv, Calm
  <2>2. /\ ev_pc = "cmd" /\ ev.cmd \in LineCmds /\ ev.line \in llines /\ ~Held(ev.line)
        /\ NotAllowed(ev.line, ev.cmd) /\ ev \in Events /\ ev.line \in Lines
    BY <1>1, <2>1 DEF DispatchReject, Dispatchable, TypeOK
  <2>3. ASSUME NEW c \in BitCmds, c \in status[ev.line] PROVE Underway(ev.line, c) = 1
    <3>1. ~Reporting(ev.line, c)
      BY <2>2 DEF Reporting, Held
    <3>2. BitTells(ev.line, c) /\ Underway(ev.line, c) \in Nat
      BY <2>1, <2>2, UnderwayNat DEF LinesTell, BitCmds
    <3> QED
      BY <2>3, <3>1, <3>2 DEF BitTells, One
  <2>4. ASSUME NEW c \in BitCmds, c \in status[ev.line] PROVE asked[Event(c, ev.line)] > 0
    <3> DEFINE e == Event(c, ev.line)
    <3>1. e \in Events /\ e.cmd = c /\ e.line = ev.line /\ c # "requeue"
      BY <2>2 DEF Event, Events, BitCmds, LineCmds
    <3>2. OneAnswer(e) /\ Working(e) = 1
      BY <2>1, <2>2, <2>3, <2>4, <3>1 DEF Answering, Working
    <3> HIDE DEF e
    <3>3. asked[e] > 0
      BY <2>1, <3>1, <3>2, Counts DEF OneAnswer
    <3> QED
      BY <3>3 DEF e
  <2>5. ASSUME ev.cmd \in BitCmds, ev.cmd \in status[ev.line] PROVE asked[ev] > 1
    <3>1. Working(ev) = 1 /\ InHand(ev) = 1
      BY <2>2, <2>3, <2>5, InHandFrames DEF Working, Hand, One
    <3>2. OneAnswer(ev)
      BY <2>1, <2>2 DEF Answering, LineCmds
    <3> QED
      BY <2>1, <2>2, <3>1, <3>2, Counts DEF OneAnswer
  <2>6. CASE ev.cmd = "abort"
    BY <2>6
  <2>7. CASE ev.cmd \in {"attach", "status"}
    BY <2>2, <2>5, <2>7 DEF NotAllowed, FailPos, FailNeg, BitCmds, LineCmds
  <2>8. CASE ev.cmd = "transmit"
    BY <2>2, <2>5, <2>8 DEF NotAllowed, FailPos, FailNeg, BitCmds, LineCmds
  <2>9. CASE ev.cmd = "detach"
    BY <2>2, <2>4, <2>5, <2>9 DEF NotAllowed, FailPos, FailNeg, BitCmds, LineCmds
  <2> QED
    BY <2>2, <2>6, <2>7, <2>8, <2>9 DEF LineCmds
<1>2. IInv /\ IInv' /\ AnswersInv /\ Calm /\ [Next]_vars => [DispatchReject => Busy]_vars
  BY <1>1
<1>3. Calm => Roomy
  BY DEF Calm
<1> QED
  BY <1>2, <1>3, AnswersInvariant, Invariant, PTL DEF Spec, RejectedOnlyIfBusy

=============================================================================
