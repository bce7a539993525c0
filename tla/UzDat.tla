------------------------------- MODULE UzDat --------------------------------
(***************************************************************************)
(* A terminal behind its controller on a character channel: UZ-DAT         *)
(* (src/io/cchar/uzdat.c) and the device with its TCP client               *)
(* (src/io/dev/terminal.c).                                                *)
(*                                                                         *)
(* All callbacks of the device and of the controller run in the I/O loop,  *)
(* one at a time; the CPU thread runs the commands.  A callback that has   *)
(* raised goes on to cchar_int_trigger() in a step of its own.  Characters *)
(* are model values; NUL is the one the device treats differently.         *)
(* An asynchronous wake-up (uv_async_send()) is a flag that is taken in    *)
(* the loop: two before it is taken are one.                               *)
(***************************************************************************)
EXTENDS CChar, Sequences, SequencesExt

CONSTANTS
  Unit,          \* its place on the channel
  Typeable, Nul,     \* what is typed; the n-th character the program writes is n
  FifoLen,       \* UZDAT_RX_FIFO_LEN
  BufSize,       \* TERMINAL_BUF_SIZE
  Burst,         \* bound: characters that arrive from the client at once
  MaxTyped,      \* bound: characters typed
  MaxWritten     \* bound: characters the controller accepts from the program

Ready == 1       \* CCHAR_INT_READY
TooSlow == 5     \* CCHAR_INT_TOO_SLOW

ASSUME UzDatAssumption ==
  /\ Unit \in Units /\ {Ready, TooSlow} \subseteq Reasons
  /\ {FifoLen, BufSize, Burst} \subseteq Nat \ {0} /\ {MaxTyped, MaxWritten} \subseteq Nat

VARIABLES
  state, dir, xfer_busy, buf_wr,
  unattended,          \* the receive FIFO and backpressure are in use
  rx,                  \* rx_fifo, or buf_rd if buf_rd_ready
  async_write, async_switch, timer_switch,     \* wake-ups sent, timer active
  client,              \* a TCP client is connected
  rdbuf, timer_read,
  sender_busy, wrbuf,
  writing,             \* the write under way: "none", "socket", "delay"
  typed, accepted,     \* characters received from the client, and accepted from the program
  wire,                \* history: characters put out by the terminal
  cut,                 \* history: a reset came while a character was being transmitted
  lost                 \* history: an unattended receiver was overrun

unit == <<state, dir, xfer_busy, buf_wr, unattended, rx>>
wakes == <<async_write, async_switch, timer_switch>>
input == <<client, rdbuf, timer_read, typed>>
output == <<sender_busy, wrbuf, writing, wire>>
uzdatVars == <<state, dir, xfer_busy, buf_wr, unattended, rx, async_write, async_switch,
               timer_switch, client, rdbuf, timer_read, sender_busy, wrbuf, writing, typed,
               accepted, wire, cut, lost>>
datVars == <<ccharVars, uzdatVars>>

UzDatInit ==
  /\ CCharInit
  /\ state = "OFF" /\ dir = "NONE" /\ xfer_busy = FALSE /\ buf_wr = 0
  /\ unattended \in BOOLEAN /\ rx = <<>>
  /\ async_write = FALSE /\ async_switch = FALSE /\ timer_switch = FALSE
  /\ client = FALSE /\ rdbuf = <<>> /\ timer_read = FALSE
  /\ sender_busy = FALSE /\ wrbuf = 0 /\ writing = "none"
  /\ typed = 0 /\ accepted = <<>> /\ wire = <<>> /\ cut = FALSE /\ lost = FALSE

\* what a step of one thread leaves of the other in the channel
LoopOnly == UNCHANGED <<channel, irq, cpu_pc, cpu_unit, resetting, resets, told>>
CpuOnly == UNCHANGED <<channel, lines, irq, loop_pc, cpu_pc, cpu_unit, resetting, resets, history>>
NoRaise == UNCHANGED <<lines, loop_pc, left>>

\* the receive queue, uzdat_rx_full__locked()
RxFull == Len(rx) >= FifoLen
Receiving == dir = "IN" /\ state # "OFF"

-----------------------------------------------------------------------------
(* The I/O loop. *)

\* intspec is a register: what is stored replaces what was there
RaiseIf(cond, r) == IF cond THEN Raising(Unit, {r}) ELSE NoRaise /\ loop_pc = "idle"

(* uzdat_on_data_received() *)
OnDataReceived(c) ==
  IF ~Receiving THEN UNCHANGED <<rx, lost>> /\ NoRaise
  ELSE LET over == IF unattended THEN RxFull ELSE rx # <<>>
       IN /\ rx' = IF ~unattended THEN <<c>> ELSE IF over THEN rx ELSE Append(rx, c)
          /\ lost' = (lost \/ (unattended /\ over))
          /\ Raising(Unit, IF over THEN {TooSlow} ELSE IF state = "EN" THEN {Ready} ELSE lines[Unit])

\* uzdat_can_receive()
CanReceive == unattended => ~RxFull

(* on_read_delay_timeout(): a character is held, handed over, or dropped if NUL. *)
OnReadDelay ==
  /\ loop_pc = "idle" /\ timer_read
  /\ IF ~CanReceive THEN UNCHANGED <<rdbuf, timer_read, rx, lost>> /\ NoRaise
     ELSE /\ rdbuf' = IF rdbuf = <<>> THEN rdbuf ELSE Tail(rdbuf)
          /\ timer_read' = (rdbuf' # <<>>)
          /\ IF rdbuf # <<>> /\ Head(rdbuf) # Nul THEN OnDataReceived(Head(rdbuf))
             ELSE UNCHANGED <<rx, lost>> /\ NoRaise
  /\ LoopOnly
  /\ UNCHANGED <<state, dir, xfer_busy, buf_wr, unattended, wakes, client, typed, output, accepted, cut>>

(* on_tcp_read() with a burst of characters: what does not fit is dropped, and *)
(* then the timer is not started.                                              *)
OnTcpRead ==
  /\ loop_pc = "idle" /\ client
  /\ \E n \in 0..Burst, c \in Typeable :
       LET room == BufSize - Len(rdbuf)
       IN /\ typed + n <= MaxTyped /\ typed' = typed + n
          /\ rdbuf' = rdbuf \o [i \in 1..(IF n < room THEN n ELSE room) |-> c]
          /\ timer_read' = (timer_read \/ n <= room)
  /\ LoopOnly /\ NoRaise
  /\ UNCHANGED <<unit, wakes, client, output, accepted, cut, lost>>

(* on_new_tcp_connection(), which turns a second client away, and the end of a *)
(* connection: the error of the read starts the timer.                         *)
OnConnect ==
  /\ loop_pc = "idle" /\ ~client /\ client' = TRUE
  /\ LoopOnly /\ NoRaise
  /\ UNCHANGED <<unit, wakes, rdbuf, timer_read, typed, output, accepted, cut, lost>>
OnTcpClose ==
  /\ loop_pc = "idle" /\ client /\ client' = FALSE
  /\ timer_read' = TRUE
  /\ LoopOnly /\ NoRaise
  /\ UNCHANGED <<unit, wakes, rdbuf, typed, output, accepted, cut, lost>>

(* uzdat_on_async_write() and terminal_write(): a busy sender drops the character. *)
OnAsyncWrite ==
  /\ loop_pc = "idle" /\ async_write /\ async_write' = FALSE
  /\ IF sender_busy THEN UNCHANGED <<sender_busy, wrbuf, writing>>
     ELSE /\ sender_busy' = TRUE /\ wrbuf' = buf_wr
          /\ writing' \in IF client THEN {"socket", "delay"} ELSE {"delay"}
  /\ LoopOnly /\ NoRaise
  /\ UNCHANGED <<unit, async_switch, timer_switch, input, wire, accepted, cut, lost>>

AfterWrite == "delay"

(* on_async_write_complete(): written or failed, the delay of a character follows. *)
OnWriteComplete ==
  /\ loop_pc = "idle" /\ writing = "socket" /\ writing' = AfterWrite
  /\ LoopOnly /\ NoRaise
  /\ UNCHANGED <<unit, wakes, input, sender_busy, wrbuf, wire, accepted, cut, lost>>

SentRaises == state = "EN"

(* on_write_delay_timeout() and uzdat_on_data_sent() *)
OnWriteDelay ==
  /\ loop_pc = "idle" /\ writing = "delay" /\ writing' = "none"
  /\ sender_busy' = FALSE /\ wire' = Append(wire, wrbuf)
  /\ xfer_busy' = FALSE
  /\ RaiseIf(SentRaises, Ready)
  /\ LoopOnly
  /\ UNCHANGED <<state, dir, buf_wr, unattended, rx, wakes, input, wrbuf, accepted, cut, lost>>

(* uzdat_on_async_switch_dir() *)
OnAsyncSwitch ==
  /\ loop_pc = "idle" /\ async_switch /\ async_switch' = FALSE
  /\ timer_switch' = TRUE
  /\ LoopOnly /\ NoRaise
  /\ UNCHANGED <<unit, async_write, input, output, accepted, cut, lost>>

(* uzdat_on_transmit_switch_timeout() *)
OnSwitchTimeout ==
  /\ loop_pc = "idle" /\ timer_switch /\ timer_switch' = FALSE
  /\ dir' = IF state # "OFF" THEN "OUT" ELSE dir
  /\ RaiseIf(state = "EN", Ready)
  /\ LoopOnly
  /\ UNCHANGED <<state, xfer_busy, buf_wr, unattended, rx, async_write, async_switch, input, output,
                 accepted, cut, lost>>

UzLoopTrigger == LoopTrigger /\ UNCHANGED uzdatVars

Loop == OnReadDelay \/ OnAsyncWrite \/ OnWriteComplete \/ OnWriteDelay \/ OnAsyncSwitch
          \/ OnSwitchTimeout \/ UzLoopTrigger
Outside == OnTcpRead \/ OnConnect \/ OnTcpClose

-----------------------------------------------------------------------------
(* The CPU thread: commands of a program. *)

(* uzdat_read() *)
Read ==
  /\ cpu_pc = "idle"
  /\ dir' = "IN"
  /\ IF rx # <<>> THEN state' = "OK" /\ rx' = Tail(rx)
     ELSE state' = "EN" /\ UNCHANGED rx
  /\ CpuOnly
  /\ UNCHANGED <<xfer_busy, buf_wr, unattended, wakes, input, output, accepted, cut, lost>>

MayWrite == dir = "OUT" /\ ~xfer_busy

(* uzdat_write() *)
Write ==
  /\ cpu_pc = "idle" /\ Len(accepted) < MaxWritten
  /\ IF MayWrite
     THEN LET c == Len(accepted) + 1 IN
          /\ state' = "OK" /\ buf_wr' = c /\ xfer_busy' = TRUE
          /\ async_write' = TRUE /\ accepted' = Append(accepted, c)
          /\ UNCHANGED async_switch
     ELSE /\ state' = "EN" /\ async_switch' = (async_switch \/ dir # "OUT")
          /\ UNCHANGED <<buf_wr, xfer_busy, async_write, accepted>>
  /\ CpuOnly
  /\ UNCHANGED <<dir, unattended, rx, timer_switch, input, output, cut, lost>>

(* uzdat_disconnect() *)
Disconnect ==
  /\ cpu_pc = "idle"
  /\ IF xfer_busy THEN state' = "EN" /\ UNCHANGED <<dir, rx>>
     ELSE state' = "OFF" /\ dir' = "NONE" /\ rx' = <<>>
  /\ CpuOnly
  /\ UNCHANGED <<xfer_busy, buf_wr, unattended, wakes, input, output, accepted, cut, lost>>

(* uzdat_reset(): neither the interrupt nor what the loop is doing is taken back. *)
UnitReset ==
  /\ state' = "OFF" /\ dir' = "NONE" /\ xfer_busy' = FALSE /\ rx' = <<>>
  /\ cut' = (cut \/ xfer_busy \/ sender_busy)
  /\ UNCHANGED <<buf_wr, unattended, wakes, input, output, accepted, lost>>
Reset == cpu_pc = "idle" /\ resets < MaxResets /\ resets' = resets + 1 /\ UnitReset
           /\ UNCHANGED <<channel, lines, irq, loop_pc, cpu_pc, cpu_unit, resetting, history>>

(* The channel's part: uzdat_intspec() makes the unit OK, whatever it was. *)
UzIntSpec ==
  /\ IntSpec
  /\ state' = IF interrupting_device = Unit THEN "OK" ELSE state
  /\ UNCHANGED <<dir, xfer_busy, buf_wr, unattended, rx, wakes, input, output, accepted, cut, lost>>

UzResetUnit == ResetUnit /\ IF cpu_unit = Unit THEN UnitReset ELSE UNCHANGED uzdatVars

Chan == /\ \/ CpuTakes \/ CpuTrigger \/ ChanReset \/ ResetReport \/ ClearRequests
        /\ UNCHANGED uzdatVars

UzNext == \/ Loop \/ Outside
        \/ Read \/ Write \/ Disconnect \/ Reset
        \/ UzIntSpec \/ UzResetUnit \/ Chan

UzSpec == UzDatInit /\ [][UzNext]_datVars

-----------------------------------------------------------------------------
UzTypeOK ==
  /\ CCharTypeOK
  /\ state \in {"OFF", "OK", "EN"} /\ dir \in {"NONE", "IN", "OUT"}
  /\ buf_wr \in 0..MaxWritten /\ wrbuf \in 0..MaxWritten
  /\ {xfer_busy, unattended, async_write, async_switch, timer_switch, client, timer_read,
      sender_busy, cut, lost} \subseteq BOOLEAN
  /\ rx \in BoundedSeq(Typeable \ {Nul}, FifoLen) /\ rdbuf \in BoundedSeq(Typeable, BufSize)
  /\ unattended \/ Len(rx) <= 1
  /\ writing \in {"none", "socket", "delay"}
  /\ typed \in 0..MaxTyped /\ Len(accepted) <= MaxWritten

\* A command answered "engaged" is answered by an interrupt: one is pending, or what
\* will raise it is on its way, or the program waits for input.
EngagedAnswered ==
  state = "EN" => \/ HasInterrupt(Unit) \/ async_switch \/ timer_switch \/ xfer_busy
                  \/ dir = "IN" /\ rx = <<>>

\* The terminal puts out what the program had accepted, in order, each character once
\* and at most one behind, unless a reset cut a transmission.
OutputIntact ==
  ~cut => IsPrefix(wire, accepted) /\ Len(accepted) <= Len(wire) + 1

\* With "unattended" set no character for a receiving controller is lost, however
\* long the program does not read (comment at the option in uzdat_t).
UnattendedLosesNothing == unattended => ~lost

\* Buffered input keeps moving (comment in on_read_delay_timeout(): "delivers every
\* character on this timer").
InputMoves == rdbuf # <<>> => timer_read

\* While the controller is busy something is under way that will make it ready again,
\* whatever resets and repeated commands came in between; otherwise it would refuse
\* WRITE and DISCONNECT for good.
BusyMoves == xfer_busy => async_write \/ writing # "none"
=============================================================================
