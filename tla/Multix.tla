------------------------------- MODULE Multix -------------------------------
(***************************************************************************)
(* MULTIX, the peripheral processor (src/io/mx/mx.c, line.c): the event    *)
(* thread and its priority queue, a protocol and a status thread for each  *)
(* logical line, the interrupt queue, and the two that use them: the CPU   *)
(* thread and the front-end, which switches the machine off.               *)
(*                                                                         *)
(* A step is what a thread does between two accesses to shared state: a    *)
(* section under int_mutex, an operation on a list, a load or a store of   *)
(* the state.  Allocations succeed.  Physical and logical lines are one.   *)
(***************************************************************************)
EXTENDS Integers, Sequences, FiniteSets

LOCAL INSTANCE Functions

CONSTANTS
  Lines,       \* numbers of the lines a configuration sets up, from 1 here
  Commands,    \* commands the program issues
  ChanCmds,    \* "intspec" and "reset" (IN), "mcl": the reset of all channels
  Runs,        \* commands the lines' protocol has functions for
  MemFails,    \* memory may refuse an access
  Switches,    \* the operator may switch the machine off
  Capacity,    \* of a list: 1024
  MaxQueue,    \* bound: the program waits while that many events are queued
  MaxAsked,    \* bound: and while it expects that many answers
  MaxResets    \* bound: resets asked for

LineCmds == {"attach", "status", "transmit", "detach", "abort"}

\* "err" is any of the eight codes without a command
GeneralCmds == {"test", "setcfg", "requeue", "err"}

ASSUME MultixAssumption ==
  /\ Lines \subseteq Nat \ {0} /\ IsFiniteSet(Lines)
  /\ Commands \subseteq LineCmds \cup GeneralCmds
  /\ ChanCmds \subseteq {"intspec", "reset", "mcl"}
  /\ Runs \subseteq LineCmds \ {"status"}
  /\ MemFails \in BOOLEAN /\ Switches \in BOOLEAN
  /\ Capacity \in Nat \ {0} /\ MaxQueue \in Nat \ {0} /\ MaxAsked \in Nat \ {0}
  /\ MaxResets \in Nat

VARIABLES
  state,                          \* the atomic
  eventq,                         \* one list: FIFO for each priority
  intq, intspec,                  \* under int_mutex
  irq,                            \* the channel's request in rz
  int_pc,                         \* where each thread is in raising an interrupt
  ev_pc, ev,                      \* the event thread and its command
  llines,                         \* lines configured
  status, protoq, statusq,        \* of each line
  proto_pc, proto_cmd, proto_irq,
  status_pc,
  cpu_pc, pend, spec,             \* the CPU thread, what it inserts, what it has read
  ui_pc,
  asked,                          \* history: commands accepted and not answered to the program
  resets                          \* bound: see MaxResets

ints == <<intq, intspec, irq, int_pc>>
event == <<ev_pc, ev>>
queues == <<status, protoq, statusq>>
threads == <<proto_pc, proto_cmd, proto_irq, status_pc>>
lines == <<llines, queues, threads>>
cpu == <<cpu_pc, pend, spec, resets>>
vars == <<state, eventq, ints, event, lines, cpu, ui_pc, asked>>

-----------------------------------------------------------------------------
(* Interrupts and events.                                                  *)

\* cmd is history: the command it answers
Interrupt(i, l, c) == [irq |-> i, line |-> l, cmd |-> c]

\* specification 0: "interrupt no longer valid"
INIEA == Interrupt("INIEA", 0, "none")

Irqs == {"INIEA", "IWYZE", "IWYTE", "INKON", "IUKON", "INKOT", "ISTRE", "INSTR", "INKST",
         "IDOLI", "INDOL", "INKDO", "IETRA", "INTRA", "INKTR", "ITRER", "INABT",
         "INKAB", "IODLI", "INODL", "INKOD", "INPAO", "IEPS"}

Interrupts == [irq : Irqs, line : Lines \cup {0}, cmd : LineCmds \cup GeneralCmds \cup {"none"}]

\* a command and the line it is for, 0 for the general ones
Event(c, l) == [cmd |-> c, line |-> l]
Events == {Event(c, l) : c \in LineCmds, l \in Lines} \cup {Event(c, 0) : c \in GeneralCmds}

\* what a variable holds that has been freed or not used yet
NoEvent == Event("test", 0)

Ev == <<"event", 0>>
Proto(l) == <<"proto", l>>
Status(l) == <<"status", l>>
Threads == {Ev} \cup {Proto(l) : l \in Lines} \cup {Status(l) : l \in Lines}

\* a thread goes on once its interrupt is dealt with
Out(t) == int_pc[t] = "out"

Push(t) == int_pc' = [int_pc EXCEPT ![t] = "push"]

\* mx_int_enqueue() up to its push; a full list drops the interrupt
Enqueue(t, i) ==
  /\ intq' = IF Len(intq) < Capacity THEN Append(intq, i) ELSE intq
  /\ Push(t)
  /\ UNCHANGED <<intspec, irq>>

\* one specification is out at a time
CanAnnounce == intspec = INIEA /\ intq # <<>>

Announce == intspec' = Head(intq) /\ intq' = Tail(intq)

\* mx_int_push(), under the mutex
IntPush(t) ==
  /\ int_pc[t] = "push"
  /\ \/ /\ CanAnnounce /\ Announce
        /\ int_pc' = [int_pc EXCEPT ![t] = "check"]
     \/ /\ ~CanAnnounce /\ UNCHANGED <<intspec, intq>>
        /\ int_pc' = [int_pc EXCEPT ![t] = "out"]
  /\ UNCHANGED <<irq, state, eventq, event, lines, cpu, ui_pc, asked>>

Listening == state # "UNINITIALIZED"

\* while a reset is going on, reads give nothing and writes go nowhere, but
\* neither fails
MemRefuses == MemFails /\ Listening

\* mx_int_set() looks at the state
IntCheck(t) ==
  /\ int_pc[t] = "check"
  /\ int_pc' = [int_pc EXCEPT ![t] = IF Listening THEN "set" ELSE "out"]
  /\ UNCHANGED <<irq, intspec, intq, state, eventq, event, lines, cpu, ui_pc, asked>>

\* and only then sets the request
IntSet(t) ==
  /\ int_pc[t] = "set"
  /\ int_pc' = [int_pc EXCEPT ![t] = "out"] /\ irq' = TRUE
  /\ UNCHANGED <<intspec, intq, state, eventq, event, lines, cpu, ui_pc, asked>>

IntStep(t) == IntPush(t) \/ IntCheck(t) \/ IntSet(t)

\* what the CPU is about to insert
Pend(type, e) == [type |-> type, event |-> e]
NoPend == Pend("INT_PUSH", NoEvent)

NoEvents == [CMD |-> <<>>, INT_PUSH |-> 0, RESET |-> 0, QUIT |-> 0]

EventCount == Len(eventq.CMD) + eventq.INT_PUSH + eventq.RESET + eventq.QUIT

\* elst_insert(): behind the events of its priority, unless the list is full
Insert(type, e) ==
  eventq' = IF EventCount >= Capacity THEN eventq
            ELSE IF type = "CMD" THEN [eventq EXCEPT !.CMD = Append(@, e)]
            ELSE [eventq EXCEPT ![type] = @ + 1]

\* elst_wait_pop() finds an event of this type first
First(type) ==
  /\ type = "CMD" => eventq.CMD # <<>>
  /\ type # "CMD" => eventq[type] > 0
  /\ type # "QUIT" => eventq.QUIT = 0
  /\ type \in {"INT_PUSH", "CMD"} => eventq.RESET = 0
  /\ type = "CMD" => eventq.INT_PUSH = 0

Pop(type) ==
  /\ First(type)
  /\ eventq' = IF type = "CMD" THEN [eventq EXCEPT !.CMD = Tail(@)]
               ELSE [eventq EXCEPT ![type] = @ - 1]

-----------------------------------------------------------------------------
(* The event thread: initialization and the loop.                          *)

\* mutant: QUIT is taken for another reset
InitPopNoQuit ==
  /\ ev_pc \in {"init", "init_wait"}
  /\ \E type \in DOMAIN NoEvents : Pop(type)
  /\ ev_pc' = "init"
  /\ UNCHANGED <<state, ints, ev, lines, cpu, ui_pc, asked>>

\* mx_init_dummy() waits with a timeout; what comes is not carried out
InitPop ==
  /\ ev_pc \in {"init", "init_wait"}
  /\ \E type \in DOMAIN NoEvents :
       /\ Pop(type)
       /\ ev_pc' = IF type = "QUIT" THEN "exited" ELSE "init"
  /\ UNCHANGED <<state, ints, ev, lines, cpu, ui_pc, asked>>

\* the timeout is looked at before the list: an event may have come
InitWait ==
  /\ \/ ev_pc = "init" /\ EventCount = 0 /\ ev_pc' = "init_wait"
     \/ ev_pc = "init_wait" /\ ev_pc' = "ready"
  /\ UNCHANGED <<state, eventq, ints, ev, lines, cpu, ui_pc, asked>>

Ready ==
  /\ ev_pc = "ready"
  /\ state' = "INITIALIZED" /\ ev_pc' = "iwyze"
  /\ UNCHANGED <<eventq, ints, ev, lines, cpu, ui_pc, asked>>

Announced ==
  /\ ev_pc = "iwyze"
  /\ Enqueue(Ev, Interrupt("IWYZE", 0, "none"))
  /\ ev_pc' = "wait"
  /\ UNCHANGED <<state, eventq, ev, lines, cpu, ui_pc, asked>>

\* mx_event_loop()
EventLoop ==
  /\ ev_pc = "wait" /\ Out(Ev)
  /\ \/ Pop("QUIT") /\ ev_pc' = "exited" /\ UNCHANGED <<ev, int_pc>>
     \/ Pop("RESET") /\ ev_pc' = "reset" /\ UNCHANGED <<ev, int_pc>>
     \/ Pop("INT_PUSH") /\ Push(Ev) /\ UNCHANGED event
     \/ Pop("CMD") /\ ev_pc' = "cmd" /\ ev' = Head(eventq.CMD) /\ UNCHANGED int_pc
  /\ UNCHANGED <<state, intq, intspec, irq, lines, cpu, ui_pc, asked>>

\* mutant: the lines are left alone
LinesGoneNot ==
  /\ ev_pc = "reset" /\ ev_pc' = "clear"
  /\ UNCHANGED <<state, eventq, ints, ev, lines, cpu, ui_pc, asked>>

\* MX_EV_RESET: after mx_lines_deinit()
LinesGone ==
  /\ ev_pc = "reset" /\ llines = {}
  /\ ev_pc' = "clear"
  /\ UNCHANGED <<state, eventq, ints, ev, lines, cpu, ui_pc, asked>>

ClearEvents ==
  /\ ev_pc = "clear"
  /\ eventq' = NoEvents /\ ev_pc' = "int_reset"
  /\ UNCHANGED <<state, ints, ev, lines, cpu, ui_pc, asked>>

\* mx_int_reset(); a program that resets the channel expects no more answers
IntReset ==
  /\ ev_pc = "int_reset"
  /\ intspec' = INIEA /\ intq' = <<>>
  /\ asked' = [e \in Events |-> 0]
  /\ ev_pc' = "init"
  /\ UNCHANGED <<irq, int_pc, state, eventq, ev, lines, cpu, ui_pc>>

-----------------------------------------------------------------------------
(* The event thread: commands.                                             *)

\* the answer to the command in hand
Answer(i) == Enqueue(Ev, Interrupt(i, ev.line, ev.cmd))

\* the event is freed
Done == ev_pc' = "wait" /\ ev' = NoEvent

Test ==
  /\ ev_pc = "cmd" /\ ev.cmd \in {"test", "err"}
  /\ Answer(IF ev.cmd = "test" THEN "IWYTE" ELSE "IEPS")
  /\ Done
  /\ UNCHANGED <<state, eventq, lines, cpu, ui_pc, asked>>

\* mutant: the specification goes to the end of the queue
RequeueBehind ==
  /\ ev_pc = "cmd" /\ ev.cmd = "requeue"
  /\ intspec' = INIEA
  /\ intq' = IF intspec = INIEA \/ Len(intq) >= Capacity THEN intq ELSE Append(intq, intspec)
  /\ Push(Ev)
  /\ Done
  /\ UNCHANGED <<irq, state, eventq, lines, cpu, ui_pc, asked>>

\* the specification goes back to the head, and is lost if the list is full
Requeue ==
  /\ ev_pc = "cmd" /\ ev.cmd = "requeue"
  /\ intspec' = INIEA
  /\ intq' = IF intspec = INIEA \/ Len(intq) >= Capacity THEN intq ELSE <<intspec>> \o intq
  /\ Push(Ev)
  /\ Done
  /\ UNCHANGED <<irq, state, eventq, lines, cpu, ui_pc, asked>>

\* reporting the error may fail too
Failure == {"INKON"} \cup IF MemRefuses THEN {"INKOT"} ELSE {}

\* configured already, or the configuration cannot be read
SetCfgFails ==
  /\ ev_pc = "cmd" /\ ev.cmd = "setcfg"
  /\ \/ state = "CONFIGURED" /\ \E i \in Failure : Answer(i)
     \/ state = "INITIALIZED" /\ MemRefuses /\ Answer("INKOT")
  /\ Done
  /\ UNCHANGED <<state, eventq, lines, cpu, ui_pc, asked>>

\* mx_line_conf_log() empties the protocol's queue and starts the threads
Configure(L) ==
  /\ llines' = llines \cup L
  /\ protoq' = [l \in Lines |-> IF l \in L THEN <<>> ELSE protoq[l]]
  /\ proto_pc' = [l \in Lines |-> IF l \in L THEN "wait" ELSE proto_pc[l]]
  /\ status_pc' = [l \in Lines |-> IF l \in L THEN "wait" ELSE status_pc[l]]
  /\ UNCHANGED <<status, statusq, proto_cmd, proto_irq>>

\* some lines may have been set up before a mistake is found; reads during
\* a reset give zeros, which set up none
SetCfgRejects ==
  /\ ev_pc = "cmd" /\ ev.cmd = "setcfg" /\ state # "CONFIGURED"
  /\ \E L \in SUBSET Lines : (Listening \/ L = {}) /\ Configure(L)
  /\ ev_pc' = "cfg_deinit"
  /\ UNCHANGED <<state, eventq, ints, ev, cpu, ui_pc, asked>>

SetCfgRejected ==
  /\ ev_pc = "cfg_deinit" /\ llines = {}
  /\ \E i \in Failure : Answer(i)
  /\ Done
  /\ UNCHANGED <<state, eventq, lines, cpu, ui_pc, asked>>

SetCfg ==
  /\ ev_pc = "cmd" /\ ev.cmd = "setcfg" /\ state = "INITIALIZED"
  /\ Configure(Lines)
  /\ ev_pc' = "cfg_store"
  /\ UNCHANGED <<state, eventq, ints, ev, cpu, ui_pc, asked>>

\* after the delay, whatever has happened to the state
SetCfgStore ==
  /\ ev_pc = "cfg_store"
  /\ state' = "CONFIGURED" /\ ev_pc' = "cfg_answer"
  /\ UNCHANGED <<eventq, ints, ev, lines, cpu, ui_pc, asked>>

SetCfgDone ==
  /\ ev_pc = "cfg_answer"
  /\ Answer("IUKON")
  /\ Done
  /\ UNCHANGED <<state, eventq, lines, cpu, ui_pc, asked>>

-----------------------------------------------------------------------------
(* The event thread: mx_cmd_dispatch() of line commands.                   *)

\* mx_cmd_routing[]; the bit of a running command has the command's name
NoLine == [attach |-> "INKDO", status |-> "INKST", transmit |-> "INKTR",
           detach |-> "INKOD", abort |-> "INKAB"]

Reject == [attach |-> "INDOL", status |-> "INSTR", transmit |-> "INTRA",
           detach |-> "INODL", abort |-> "INABT"]

\* mutant: the mask of STATUS is empty
FailPosNoStatus ==
  [attach |-> {"attach", "ATTACHED"}, status |-> {}, transmit |-> {"transmit"},
   detach |-> {"transmit", "detach"}, abort |-> {}]

FailPos == [attach |-> {"attach", "ATTACHED"}, status |-> {"status"}, transmit |-> {"transmit"},
            detach |-> {"transmit", "detach"}, abort |-> {}]

FailNeg == [attach |-> {}, status |-> {}, transmit |-> {"ATTACHED"},
            detach |-> {}, abort |-> {"transmit"}]

\* mx_line_cmd_allowed(), which is true when the command is not
NotAllowed(l, c) ==
  \/ status[l] \cap FailPos[c] # {}
  \/ FailNeg[c] # {} /\ status[l] \cap FailNeg[c] = {}

\* mutant: the status thread unlocks before it clears the bit
HeldNotReporting(l) == ~Out(Proto(l)) \/ (ev_pc = "reject" /\ ev.line = l)

\* status_mutex is taken: a thread of the line, or the dispatch, is raising an interrupt
Held(l) ==
  \/ ~Out(Proto(l))
  \/ status_pc[l] = "sent"
  \/ ev_pc = "reject" /\ ev.line = l

NoRun(c) == c \notin Runs \cup {"status"}

\* no such line, or no function of its protocol
DispatchNone ==
  /\ ev_pc = "cmd" /\ ev.cmd \in LineCmds
  /\ \/ ev.line \notin llines /\ Answer(NoLine[ev.cmd])
     \/ ev.line \in llines /\ NoRun(ev.cmd) /\ Answer(Reject[ev.cmd])
  /\ Done
  /\ UNCHANGED <<state, eventq, lines, cpu, ui_pc, asked>>

Dispatchable ==
  /\ ev_pc = "cmd" /\ ev.cmd \in LineCmds
  /\ ev.line \in llines /\ ~NoRun(ev.cmd) /\ ~Held(ev.line)

\* the mutex is kept until the interrupt is raised
DispatchReject ==
  /\ Dispatchable /\ NotAllowed(ev.line, ev.cmd)
  /\ Answer(Reject[ev.cmd])
  /\ ev_pc' = "reject"
  /\ UNCHANGED <<state, eventq, ev, lines, cpu, ui_pc, asked>>

DispatchUnlock ==
  /\ ev_pc = "reject" /\ Out(Ev)
  /\ Done
  /\ UNCHANGED <<state, eventq, ints, lines, cpu, ui_pc, asked>>

Dispatch ==
  /\ Dispatchable /\ ~NotAllowed(ev.line, ev.cmd)
  /\ status' = [status EXCEPT ![ev.line] = @ \cup {ev.cmd}]
  /\ IF ev.cmd = "status"
       THEN statusq' = [statusq EXCEPT ![ev.line] = @ + 1] /\ UNCHANGED protoq
       ELSE protoq' = [protoq EXCEPT ![ev.line] = Append(@, ev.cmd)] /\ UNCHANGED statusq
  /\ Done
  /\ UNCHANGED <<state, eventq, ints, llines, threads, cpu, ui_pc, asked>>

-----------------------------------------------------------------------------
(* The two threads of a line.                                              *)

\* mx_line_thread()
ProtoTake(l) ==
  /\ proto_pc[l] = "wait" /\ Out(Proto(l)) /\ protoq[l] # <<>>
  /\ proto_cmd' = [proto_cmd EXCEPT ![l] = Head(protoq[l])]
  /\ protoq' = [protoq EXCEPT ![l] = Tail(@)]
  /\ proto_pc' = [proto_pc EXCEPT ![l] = "run"]
  /\ UNCHANGED <<state, eventq, ints, event, llines, status, statusq, proto_irq, status_pc,
                 cpu, ui_pc, asked>>

\* what each command answers, and does to the line, when it is run
Outcomes == [attach |-> {"IDOLI"}, detach |-> {"IODLI"}, abort |-> {"INABT"},
             transmit |-> {"IETRA", "ITRER", "INTRA", "INPAO"}]

StatusAfter(l) ==
  CASE proto_cmd[l] = "attach" -> status[l] \cup {"ATTACHED"}
    [] proto_cmd[l] = "detach" -> status[l] \ {"ATTACHED"}
    [] OTHER -> status[l]

\* attaching and detaching take status_mutex
ProtoRun(l) ==
  /\ proto_pc[l] = "run"
  /\ proto_cmd[l] \in {"attach", "detach"} => ~Held(l)
  /\ \E i \in Outcomes[proto_cmd[l]] :
       /\ i = "INPAO" => MemRefuses
       /\ proto_irq' = [proto_irq EXCEPT ![l] = i]
  /\ status' = [status EXCEPT ![l] = StatusAfter(l)]
  /\ proto_pc' = [proto_pc EXCEPT ![l] = "fin"]
  /\ UNCHANGED <<state, eventq, ints, event, llines, protoq, statusq, proto_cmd, status_pc,
                 cpu, ui_pc, asked>>

\* the parameters cannot be read: the command is not run
ProtoFails(l) ==
  /\ proto_pc[l] = "run" /\ proto_cmd[l] \in {"attach", "transmit"} /\ MemRefuses
  /\ proto_irq' = [proto_irq EXCEPT ![l] = "INPAO"]
  /\ proto_pc' = [proto_pc EXCEPT ![l] = "fin"]
  /\ UNCHANGED <<state, eventq, ints, event, llines, queues, proto_cmd, status_pc,
                 cpu, ui_pc, asked>>

\* the mutex is kept until the interrupt is raised
ProtoFin(l) ==
  /\ proto_pc[l] = "fin" /\ ~Held(l)
  /\ status' = [status EXCEPT ![l] = @ \ {proto_cmd[l]}]
  /\ Enqueue(Proto(l), Interrupt(proto_irq[l], l, proto_cmd[l]))
  /\ proto_pc' = [proto_pc EXCEPT ![l] = "wait"]
  /\ proto_cmd' = [proto_cmd EXCEPT ![l] = "none"]
  /\ proto_irq' = [proto_irq EXCEPT ![l] = "INIEA"]
  /\ UNCHANGED <<state, eventq, event, llines, protoq, statusq, status_pc, cpu, ui_pc, asked>>

\* mx_line_status_thread() answers and only then clears the bit, under the mutex
StatusReport(l) ==
  /\ status_pc[l] = "wait" /\ statusq[l] > 0 /\ ~Held(l)
  /\ statusq' = [statusq EXCEPT ![l] = @ - 1]
  /\ \E i \in {"ISTRE"} \cup IF MemRefuses THEN {"INPAO"} ELSE {} :
       Enqueue(Status(l), Interrupt(i, l, "status"))
  /\ status_pc' = [status_pc EXCEPT ![l] = "sent"]
  /\ UNCHANGED <<state, eventq, event, llines, status, protoq, proto_pc, proto_cmd, proto_irq,
                 cpu, ui_pc, asked>>

StatusDone(l) ==
  /\ status_pc[l] = "sent" /\ Out(Status(l))
  /\ status' = [status EXCEPT ![l] = @ \ {"status"}]
  /\ status_pc' = [status_pc EXCEPT ![l] = "wait"]
  /\ UNCHANGED <<state, eventq, ints, event, llines, protoq, statusq, proto_pc, proto_cmd,
                 proto_irq, cpu, ui_pc, asked>>

\* mx_lines_deinit() is under way, and this is its line
Deinit(l) ==
  /\ ev_pc \in {"reset", "cfg_deinit"} \/ ui_pc = "deinit"
  /\ l \in llines /\ \A k \in llines : l <= k

\* QUIT goes to the head of the queue: the thread finishes what it does and
\* is joined; the commands behind stay in the queue
ProtoQuit(l) ==
  /\ Deinit(l)
  /\ proto_pc[l] = "wait" /\ Out(Proto(l))
  /\ proto_pc' = [proto_pc EXCEPT ![l] = "none"]
  /\ UNCHANGED <<state, eventq, ints, event, llines, queues, proto_cmd, proto_irq, status_pc,
                 cpu, ui_pc, asked>>

StatusQuit(l) ==
  /\ Deinit(l)
  /\ proto_pc[l] = "none" /\ status_pc[l] = "wait"
  /\ status_pc' = [status_pc EXCEPT ![l] = "none"]
  /\ status' = [status EXCEPT ![l] = {}]
  /\ llines' = llines \ {l}
  /\ UNCHANGED <<state, eventq, ints, event, protoq, statusq, proto_pc, proto_cmd, proto_irq,
                 cpu, ui_pc, asked>>

-----------------------------------------------------------------------------
(* The CPU thread.                                                         *)

Room ==
  /\ EventCount < MaxQueue
  /\ SumFunction(asked) < MaxAsked

\* the front-end has destroyed the event queue, or all of the channel
QueueGone == ui_pc \in {"deinit", "freed", "gone"}
ChannelGone == ui_pc \in {"freed", "gone"}

\* mx_event() answers EN to a command when it does not listen
Issue ==
  /\ cpu_pc = "run" /\ ui_pc # "gone" /\ Room
  /\ \E e \in Events :
       /\ e.cmd \in Commands
       /\ cpu_pc' = CASE ui_pc = "freed" -> "wild"
                      [] Listening -> "insert"
                      [] OTHER -> "run"
       /\ pend' = IF ui_pc # "freed" /\ Listening THEN Pend("CMD", e) ELSE pend
  /\ UNCHANGED <<state, eventq, ints, event, lines, spec, resets, ui_pc, asked>>

\* mx_cmd_reset(): the state as early as possible
Reset ==
  /\ cpu_pc = "run" /\ ui_pc # "gone"
  /\ resets < MaxResets /\ resets' = resets + 1
  /\ \E c \in ChanCmds \ {"intspec"} :
       IF ui_pc = "freed"
         THEN cpu_pc' = "wild" /\ UNCHANGED <<state, pend>>
         ELSE /\ state' = "UNINITIALIZED" /\ cpu_pc' = IF c = "mcl" THEN "mcl" ELSE "insert"
              /\ pend' = Pend("RESET", NoEvent)
  /\ UNCHANGED <<eventq, ints, event, lines, spec, ui_pc, asked>>

\* mx_int_get_spec(), for the program or for int_serve()
GetSpec ==
  /\ \/ cpu_pc = "vector"
     \/ cpu_pc = "run" /\ "intspec" \in ChanCmds /\ Room
  /\ CASE ui_pc = "gone" -> cpu_pc' = "run" /\ UNCHANGED <<spec, intspec, asked>>
       [] ui_pc = "freed" -> cpu_pc' = "wild" /\ UNCHANGED <<spec, intspec, asked>>
       [] OTHER ->
            /\ spec' = intspec /\ intspec' = INIEA
            /\ asked' = [e \in Events |->
                           IF e = Event(intspec.cmd, intspec.line) /\ asked[e] > 0
                           THEN asked[e] - 1 ELSE asked[e]]
            /\ cpu_pc' = "push"
  /\ UNCHANGED <<state, eventq, intq, irq, int_pc, event, lines, pend, resets, ui_pc>>

\* mutant: nobody is asked to push the next interrupt
AskPushNever ==
  /\ cpu_pc = "push"
  /\ cpu_pc' = "run" /\ spec' = INIEA
  /\ UNCHANGED <<state, eventq, ints, event, lines, pend, resets, ui_pc, asked>>

\* and mx_event(INT_PUSH)
AskPush ==
  /\ cpu_pc = "push"
  /\ cpu_pc' = CASE ChannelGone -> "wild" [] Listening -> "insert" [] OTHER -> "run"
  /\ pend' = Pend("INT_PUSH", NoEvent)
  /\ spec' = INIEA
  /\ UNCHANGED <<state, eventq, ints, event, lines, resets, ui_pc, asked>>

InsertEvent ==
  /\ cpu_pc \in {"insert", "mcl"}
  /\ IF QueueGone
       THEN cpu_pc' = "wild" /\ UNCHANGED <<eventq, asked>>
       ELSE /\ Insert(pend.type, pend.event)
            /\ asked' = IF pend.type = "CMD" /\ pend.event.cmd # "requeue" /\ eventq' # eventq
                        THEN [asked EXCEPT ![pend.event] = @ + 1] ELSE asked
            /\ cpu_pc' = IF cpu_pc = "mcl" THEN "clear" ELSE "run"
  /\ pend' = NoPend
  /\ UNCHANGED <<state, ints, event, lines, spec, resets, ui_pc>>

\* MCL clears all requests once the channels have been reset
ClearAll ==
  /\ cpu_pc = "clear"
  /\ irq' = FALSE /\ cpu_pc' = "run"
  /\ UNCHANGED <<state, eventq, intq, intspec, int_pc, event, lines, pend, spec, resets, ui_pc,
                 asked>>

\* int_serve(): the request is cleared, then the vector is read
Serve ==
  /\ cpu_pc = "run" /\ irq
  /\ irq' = FALSE /\ cpu_pc' = "vector"
  /\ UNCHANGED <<state, eventq, intq, intspec, int_pc, event, lines, pend, spec, resets, ui_pc,
                 asked>>

NoVector ==
  /\ cpu_pc = "vector" /\ MemFails
  /\ cpu_pc' = "run"
  /\ UNCHANGED <<state, eventq, ints, event, lines, pend, spec, resets, ui_pc, asked>>

-----------------------------------------------------------------------------
(* mx_shutdown(), by the front-end.                                        *)

PowerOff ==
  /\ ui_pc = "on" /\ Switches
  /\ state' = "UNINITIALIZED" /\ ui_pc' = "quit"
  /\ UNCHANGED <<eventq, ints, event, lines, cpu, asked>>

Quit ==
  /\ ui_pc = "quit"
  /\ Insert("QUIT", NoEvent) /\ ui_pc' = "join"
  /\ UNCHANGED <<state, ints, event, lines, cpu, asked>>

Joined ==
  /\ ui_pc = "join" /\ ev_pc = "exited" /\ Out(Ev)
  /\ eventq' = NoEvents /\ ui_pc' = "deinit"
  /\ UNCHANGED <<state, ints, event, lines, cpu, asked>>

\* mutant: the lines are left alone
FreeAtOnce ==
  /\ ui_pc = "deinit"
  /\ intq' = <<>> /\ intspec' = INIEA
  /\ ui_pc' = "freed"
  /\ UNCHANGED <<state, eventq, irq, int_pc, event, lines, cpu, asked>>

Free ==
  /\ ui_pc = "deinit" /\ llines = {}
  /\ intq' = <<>> /\ intspec' = INIEA
  /\ ui_pc' = "freed"
  /\ UNCHANGED <<state, eventq, irq, int_pc, event, lines, cpu, asked>>

\* io_shutdown() forgets the channel
Forget ==
  /\ ui_pc = "freed" /\ ui_pc' = "gone"
  /\ UNCHANGED <<state, eventq, ints, event, lines, cpu, asked>>

-----------------------------------------------------------------------------
Init ==
  /\ state = "UNINITIALIZED" /\ eventq = NoEvents
  /\ intq = <<>> /\ intspec = INIEA /\ irq = FALSE
  /\ int_pc = [t \in Threads |-> "out"]
  /\ ev_pc = "init" /\ ev = NoEvent
  /\ llines = {}
  /\ status = [l \in Lines |-> {}] /\ protoq = [l \in Lines |-> <<>>]
  /\ statusq = [l \in Lines |-> 0]
  /\ proto_pc = [l \in Lines |-> "none"] /\ status_pc = [l \in Lines |-> "none"]
  /\ proto_cmd = [l \in Lines |-> "none"] /\ proto_irq = [l \in Lines |-> "INIEA"]
  /\ cpu_pc = "run" /\ pend = NoPend /\ spec = INIEA
  /\ ui_pc = "on"
  /\ asked = [e \in Events |-> 0] /\ resets = 0

InitStep == InitPop \/ InitWait \/ Ready \/ Announced
ResetStep == LinesGone \/ ClearEvents \/ IntReset
SetCfgStep == SetCfgFails \/ SetCfgRejects \/ SetCfgRejected \/ SetCfg \/ SetCfgStore \/ SetCfgDone
DispatchStep == DispatchNone \/ DispatchReject \/ DispatchUnlock \/ Dispatch

EvStep ==
  \/ InitStep \/ EventLoop \/ ResetStep
  \/ Test \/ Requeue \/ SetCfgStep \/ DispatchStep
  \/ IntStep(Ev)

ProtoStep(l) ==
  ProtoTake(l) \/ ProtoRun(l) \/ ProtoFails(l) \/ ProtoFin(l) \/ ProtoQuit(l) \/ IntStep(Proto(l))

StatusStep(l) == StatusReport(l) \/ StatusDone(l) \/ StatusQuit(l) \/ IntStep(Status(l))

\* in the middle of something
CpuContinue ==
  \/ cpu_pc = "vector" /\ GetSpec
  \/ AskPush \/ InsertEvent \/ ClearAll

CpuStep == Issue \/ Reset \/ Serve \/ NoVector \/ GetSpec \/ AskPush \/ InsertEvent \/ ClearAll

UiContinue == Quit \/ Joined \/ Free \/ Forget

Next ==
  \/ EvStep
  \/ \E l \in Lines : ProtoStep(l) \/ StatusStep(l)
  \/ CpuStep \/ PowerOff \/ UiContinue

Spec == Init /\ [][Next]_vars

\* threads run; the program need not ask, serve or reset, nor the operator switch off
Fairness ==
  /\ WF_vars(EvStep)
  /\ \A l \in Lines : WF_vars(ProtoStep(l)) /\ WF_vars(StatusStep(l))
  /\ WF_vars(CpuContinue) /\ WF_vars(UiContinue)

FairSpec == Spec /\ Fairness

-----------------------------------------------------------------------------
(* What must hold.                                                         *)

\* offered to the program, then queued
mail == (IF intspec = INIEA THEN <<>> ELSE <<intspec>>) \o intq

PendTypes == {"CMD", "INT_PUSH", "RESET"}

\* Every variable has its type.
TypeOK ==
  /\ state \in {"UNINITIALIZED", "INITIALIZED", "CONFIGURED"}
  /\ eventq \in [CMD : Seq(Events), INT_PUSH : Nat, RESET : Nat, QUIT : Nat]
  /\ intq \in Seq(Interrupts) /\ intspec \in Interrupts /\ irq \in BOOLEAN
  /\ int_pc \in [Threads -> {"out", "push", "check", "set"}]
  /\ ev_pc \in {"init", "init_wait", "ready", "iwyze", "wait", "cmd", "reject", "cfg_deinit",
                "cfg_store", "cfg_answer", "reset", "clear", "int_reset", "exited"}
  /\ ev \in Events
  /\ llines \subseteq Lines
  /\ status \in [Lines -> SUBSET (LineCmds \cup {"ATTACHED"})]
  /\ protoq \in [Lines -> Seq(LineCmds)] /\ statusq \in [Lines -> Nat]
  /\ proto_pc \in [Lines -> {"none", "wait", "run", "fin"}]
  /\ proto_cmd \in [Lines -> LineCmds \cup {"none"}] /\ proto_irq \in [Lines -> Irqs]
  /\ status_pc \in [Lines -> {"none", "wait", "sent"}]
  /\ cpu_pc \in {"run", "insert", "mcl", "clear", "vector", "push", "wild"}
  /\ pend \in [type : PendTypes, event : Events] /\ spec \in Interrupts
  /\ ui_pc \in {"on", "quit", "join", "deinit", "freed", "gone"}
  /\ asked \in [Events -> Nat] /\ resets \in Nat

\* Interrupts are handed to the program in the order they were raised, each
\* once, whichever threads push, poll, requeue and reset: the queue and the
\* one specification that is out implement a mailbox (mx.c:357-418, 688-703).
ResetDue == eventq.RESET > 0 \/ ev_pc \in {"reset", "clear", "int_reset"} \/ ui_pc # "on"

Mailbox == INSTANCE Mailbox WITH
  Messages <- Interrupts, Nothing <- INIEA, handed <- spec, due <- ResetDue

ImplementsMailbox == Mailbox!Spec

\* Until the machine is first reset or is switched off, an interrupt offered to
\* the CPU is never silent: the request is set, will be by the thread that
\* announced it, or has just been served (mx.c:346-376), if memory gives the CPU
\* its vector.
NoSilentSpec ==
  intspec # INIEA /\ Listening /\ ui_pc = "on" /\ resets = 0 /\ ~MemFails =>
    irq \/ cpu_pc = "vector" \/ \E t \in Threads : int_pc[t] \in {"check", "set"}

\* A queued interrupt reaches the CPU: nobody is left to push only if the
\* queue is empty (mx.c:357-395, and the INT_PUSH of mx.c:948).
InterruptSignalled == mail # <<>> ~> (irq \/ mail = <<>> \/ ~Listening)

\* how many are queued, being carried out, or answered and not read
QueuedFor(e) == Cardinality({i \in DOMAIN eventq.CMD : eventq.CMD[i] = e})
InHand(e) == IF ev_pc \in {"cmd", "cfg_deinit", "cfg_store", "cfg_answer"} /\ ev = e THEN 1 ELSE 0

Underway(l, c) ==
  IF c = "status" THEN statusq[l]
  ELSE Cardinality({i \in DOMAIN protoq[l] : protoq[l][i] = c})
       + IF proto_pc[l] \in {"run", "fin"} /\ proto_cmd[l] = c THEN 1 ELSE 0

AnswersTo(e) == Cardinality({i \in DOMAIN mail : mail[i].cmd = e.cmd /\ mail[i].line = e.line})

\* Every command accepted is answered once: it is in exactly one queue or
\* hand, or its one answer is waiting (mx.c:706-798, line.c:225-364).
OneAnswerEach ==
  \A e \in Events :
    e.cmd # "requeue" =>
      asked[e] = QueuedFor(e) + InHand(e) + AnswersTo(e)
                 + IF e.line \in Lines THEN Underway(e.line, e.cmd) ELSE 0

\* The bits of a line tell what it is doing: a bit is set as long as one
\* command of its kind is queued or running, never two (line.c:141-221).
StatusTells ==
  \A l \in llines, c \in LineCmds \ {"abort"} :
    Underway(l, c) + (IF c = "status" /\ status_pc[l] = "sent" THEN 1 ELSE 0)
      = IF c \in status[l] THEN 1 ELSE 0

\* A program that waits for the answer before it repeats a command is not
\* told that the line is still busy with it: bit and answer change under one
\* mutex (mx.c:724-729, line.c:268-271, 343-352).
RejectedOnlyIfBusy ==
  [][DispatchReject =>
       \/ ev.cmd = "attach" /\ "ATTACHED" \in status[ev.line]
       \/ ev.cmd = "transmit" /\ "ATTACHED" \notin status[ev.line]
       \/ ev.cmd = "abort"
       \/ asked[ev] > 1
       \/ ev.cmd = "detach" /\ asked[Event("transmit", ev.line)] > 0]_vars

\* The first interrupt after a reset is IWYZE, and it is the only one: no
\* line of the old configuration is left to raise another (mx.c:871-874).
ResetStartsAfresh ==
  [][Announced =>
       /\ mail' = <<Interrupt("IWYZE", 0, "none")>> /\ llines = {}
       /\ \A l \in Lines : /\ proto_pc[l] = "none" /\ status_pc[l] = "none"
                          /\ Out(Proto(l)) /\ Out(Status(l))]_vars

\* Nothing runs in a channel that has been freed (mx.c:292-319).
NoThreadLeft ==
  ChannelGone =>
    /\ ev_pc = "exited"
    /\ \A l \in Lines : proto_pc[l] = "none" /\ status_pc[l] = "none"
    /\ \A t \in Threads : Out(t)

\* A channel that is freed has left no thread behind, and no interrupt is announced
\* that the CPU is not told of (mx_shutdown(), mx_int_push()).
NothingLeft == NoThreadLeft /\ NoSilentSpec

\* Switching off ends: the event thread takes its QUIT and the lines theirs
\* (mx.c:294-300).
QuitCompletes == ui_pc = "quit" ~> ui_pc = "gone"

\* "Upon receiving a reset request, set the state to MX_UNINITIALIZED and let
\* everything run, but... cut all communication" (mx.c:41-45): while a reset
\* waits, the channel does not listen.
ResetCutsOff == eventq.RESET > 0 => state = "UNINITIALIZED"

\* "no interrupt will be sent from multix to the CPU" (mx.c:45).
ResetSilences == [][irq' /\ ~irq => Listening]_vars

\* "any processing that stated just before the reset will have no effect"
\* (mx.c:46): a line set up anew has no command left over.
ConfiguredAfresh ==
  [][\A l \in llines' \ llines : protoq'[l] = <<>> /\ statusq'[l] = 0]_vars

\* "'transmit' rejected (errors in field, line not attached, previous
\* transmission ongoing)" (irq.h:41): only an attached line transmits.
TransmitsWhenAttached ==
  \A l \in Lines :
    proto_pc[l] = "run" /\ proto_cmd[l] = "transmit" => "ATTACHED" \in status[l]

\* "make multix uninitialized (further interface commands will be dropped)"
\* (mx.c:288): the CPU does not reach what has been destroyed.
CpuUsesLive == cpu_pc # "wild"
=============================================================================
