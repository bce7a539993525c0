------------------------------- MODULE PowerOn -------------------------------
(***************************************************************************)
(* Building a machine and taking it down: em400_init(), em400_shutdown()   *)
(* (src/libem400.c), the I/O system and its ioloop (src/io/io.c), channels *)
(* (chan.c) and the devices and controllers they own.  Any step of the     *)
(* building may fail; what has been built is then taken down.  Memory of   *)
(* what has handles in the ioloop is freed when the last of them is closed.*)
(***************************************************************************)
EXTENDS Integers, Sequences

CONSTANTS
  Machines,   \* configurations: of each channel, [type, dev |-> what stands at each number]
  Chans, Devs,\* 0..EM400_IO_MAX_CHAN - 1, 0..EM400_CHAN_MAX_DEV - 1
  MaxPowers   \* bound: times that the machine is turned on

ASSUME PowerAssumption ==
  /\ Chans \subseteq Nat /\ \E n \in Chans : Chans = 0..n
  /\ Devs \subseteq Nat /\ \E n \in Devs : Devs = 0..n
  /\ MaxPowers \in Nat

VARIABLES
  stage,      \* of the user's thread: "off", "init", "building", "on", "down", "channels", "cpu"
  at,         \* channel and device in hand
  machine,
  ioloop, loopThread, cpu, \* I/O is initialised, its thread runs, the CPU runs
  io_chan,    \* channel -> its type, or "none"
  owned,   \* devices that channels or their controllers own
  handles,    \* of devices and controllers, in the ioloop: open and closing ones
  made, released,\* devices and controllers; bags as functions to numbers, for this time the machine is on
  busy,       \* the channel whose function the CPU is in, or -1
  powers

powerVars == <<stage, at, machine, ioloop, loopThread, cpu, io_chan, owned, handles, made, released, busy, powers>>

\* one of a device, or its controller in the character channel
Parts == {"dev", "unit"} \X Chans \X Devs
FirstPlace == <<0, 0>>

\* chan_kinds, chan_dev_compatible()
Compatible(ctype) ==
  CASE ctype = "char" -> {"terminal", "sp45de", "rtclock"}
    [] ctype = "mx" -> {"winchester", "flop5", "terminal"}
    [] OTHER -> {}

\* libuv's handles that each has, but for sp45de and winchester, which have none yet
TerminalHandles == 3 \* tcp_handle, timer_write, timer_read
UzdatHandles == 3    \* async_write, async_switch_transmit, timer_switch_transmit
UzfxHandles == 2     \* async_process, timer_process
MecloHandles == 7    \* of the display, the clock, the seconds and the date
HandlesOf(o, type) ==
  IF o[1] = "dev" THEN IF type = "terminal" THEN TerminalHandles ELSE 0
  ELSE CASE type = "terminal" -> UzdatHandles [] type = "sp45de" -> UzfxHandles [] OTHER -> MecloHandles

TypeAt(o) == machine[o[2]].dev[o[3]]
NoChannel(c) == io_chan[c] = "none"

PowerInit ==
  /\ stage = "off" /\ at = FirstPlace /\ machine \in Machines
  /\ ioloop = FALSE /\ loopThread = FALSE /\ cpu = FALSE
  /\ io_chan = [c \in Chans |-> "none"] /\ owned = {} /\ handles = [o \in Parts |-> 0]
  /\ made = {} /\ released = [o \in Parts |-> 0] /\ busy = -1 /\ powers = 0

-----------------------------------------------------------------------------
(* em400_init().                                                           *)
Em400Init ==
  /\ stage = "off" /\ powers < MaxPowers /\ powers' = powers + 1 /\ stage' = "init" /\ at' = FirstPlace
  /\ made' = {} /\ released' = [o \in Parts |-> 0] /\ machine' \in Machines
  /\ UNCHANGED <<ioloop, loopThread, cpu, io_chan, owned, handles, busy>>

\* mem_init(), cpu_init(), io_init(), which an ioloop left over makes fail
InitParts ==
  /\ stage = "init"
  /\ \/ stage' = "down" /\ UNCHANGED <<ioloop, cpu>>
     \/ cpu' = TRUE /\ stage' = "down" /\ UNCHANGED ioloop
     \/ cpu' = TRUE /\ ioloop' = TRUE /\ ~ioloop /\ stage' = "building"
  /\ UNCHANGED <<at, machine, loopThread, io_chan, owned, handles, made, released, busy, powers>>

NextChannel(c) == IF c + 1 \in Chans THEN <<c + 1, 0>> ELSE <<>>
NextPlace(c, d) == IF d + 1 \in Devs THEN <<c, d + 1>> ELSE NextChannel(c)

\* io_channel_init(), chan_create()
BuildChannel ==
  LET c == at[1]
  IN /\ stage = "building" /\ at # <<>> /\ NoChannel(c) /\ machine[c].type # "none" /\ at[2] = FirstPlace[2]
     /\ \/ io_chan' = [io_chan EXCEPT ![c] = machine[c].type] /\ UNCHANGED stage
        \/ stage' = "down" /\ UNCHANGED io_chan
     /\ UNCHANGED <<at, machine, ioloop, loopThread, cpu, owned, handles, made, released, busy, powers>>
SkipChannel ==
  /\ stage = "building" /\ at # <<>> /\ machine[at[1]].type = "none" /\ at' = NextChannel(at[1])
  /\ UNCHANGED <<stage, machine, ioloop, loopThread, cpu, io_chan, owned, handles, made, released, busy, powers>>

\* the functions that take a device or a controller down: its handles begin to close, or
\* it is freed at once
TakenDown(os) ==
  released' = [o \in Parts |-> IF o \in os /\ handles[o] = 0 THEN released[o] + 1 ELSE released[o]]

Rejected(o) == TakenDown({o})

\* device_build(): terminal_create() and the like, io_dev_connect()
BuildDevice ==
  LET c == at[1]
      o == <<"dev", c, at[2]>>
      u == <<"unit", c, at[2]>>
      type == TypeAt(o)
      has == [handles EXCEPT ![o] = HandlesOf(o, type)]
  IN /\ stage = "building" /\ at # <<>> /\ ~NoChannel(c)
     /\ \/ /\ type \in {"none", "flop5"} /\ at' = NextPlace(c, at[2])
           /\ UNCHANGED <<stage, owned, handles, made, released>>
        \/ /\ type \notin {"none", "flop5"} /\ stage' = "down"
           /\ \/ UNCHANGED <<handles, made, released>>
              \/ \* the terminal's port is taken: one handle is left to close
                 /\ type = "terminal" /\ handles' = [handles EXCEPT ![o] = 1] /\ made' = made \cup {o} /\ UNCHANGED released
              \/ \* not for this channel, or no controller (no memory, no PROM)
                 /\ type \in Compatible(io_chan[c]) => io_chan[c] = "char"
                 /\ handles' = has /\ made' = made \cup {o}
                 /\ IF has[o] > 0 THEN UNCHANGED released ELSE Rejected(o)
           /\ UNCHANGED <<at, owned>>
        \/ /\ type \in Compatible(io_chan[c]) \ {"none", "flop5"} /\ at' = NextPlace(c, at[2])
           /\ owned' = owned \cup {o} \cup (IF io_chan[c] = "char" THEN {u} ELSE {})
           /\ made' = made \cup {o} \cup (IF io_chan[c] = "char" THEN {u} ELSE {})
           /\ handles' = IF io_chan[c] = "char" THEN [has EXCEPT ![u] = HandlesOf(u, type)] ELSE has
           /\ UNCHANGED <<stage, released>>
     /\ UNCHANGED <<machine, ioloop, loopThread, cpu, io_chan, busy, powers>>

\* io_run(), and an image preloaded into memory
RunIo ==
  /\ stage = "building" /\ at = <<>>
  /\ \/ loopThread' = TRUE /\ stage' \in {"on", "down"}
     \/ stage' = "down" /\ UNCHANGED loopThread
  /\ UNCHANGED <<at, machine, ioloop, cpu, io_chan, owned, handles, made, released, busy, powers>>

-----------------------------------------------------------------------------
(* em400_shutdown(), and the end of em400_init() when it fails: the I/O    *)
(* first, while the CPU still runs.                                        *)
TurnOff ==
  /\ stage = "on" /\ stage' = "down"
  /\ UNCHANGED <<at, machine, ioloop, loopThread, cpu, io_chan, owned, handles, made, released, busy, powers>>

\* io_shutdown(): the ioloop's thread is waited for, before anything is closed
JoinLoop ==
  /\ stage = "down" /\ loopThread' = FALSE
  /\ stage' = IF ioloop THEN "channels" ELSE "cpu" \* there is nothing without an ioloop
  /\ UNCHANGED <<at, machine, ioloop, cpu, io_chan, owned, handles, made, released, busy, powers>>

\* cchar_shutdown() with its controllers, mx_shutdown(), plix_shutdown(), it_shutdown():
\* a terminal is taken down along with its controller, other devices of the character
\* channel when their controller's memory is freed
ShutChannel(c) ==
  LET mine == {o \in owned : o[2] = c}
      now == {o \in mine : o[1] = "dev" /\ (io_chan[c] = "mx" \/ TypeAt(o) = "terminal")}
  IN /\ stage = "channels" /\ ~NoChannel(c) /\ \A d \in Chans : d < c => NoChannel(d)
     /\ io_chan' = [io_chan EXCEPT ![c] = "none"] /\ TakenDown(now) /\ owned' = owned \ now
     /\ UNCHANGED <<stage, at, machine, ioloop, loopThread, cpu, handles, made, busy, powers>>

\* Mutant of FreedWith: a controller frees its device whatever it is.
FreedWithAll(o) == IF o[1] = "unit" THEN {o, <<"dev", o[2], o[3]>>} ELSE {o}

\* what goes with the last handle of a device or controller: uzfx_try_free() and
\* meclo_try_free() take their device along
FreedWith(o) ==
  LET dev == <<"dev", o[2], o[3]>>
  IN IF o[1] = "unit" /\ TypeAt(dev) # "terminal" THEN {o, dev} ELSE {o}

\* uv_run() once more, until every handle is closed
CloseHandle(o) ==
  LET gone == IF handles[o] = 1 THEN FreedWith(o) ELSE {}
  IN /\ stage = "channels" /\ (\A c \in Chans : NoChannel(c)) /\ handles[o] > 0
     /\ handles' = [handles EXCEPT ![o] = @ - 1]
     /\ released' = [p \in Parts |-> released[p] + IF p \in gone THEN 1 ELSE 0] /\ owned' = owned \ gone
     /\ UNCHANGED <<stage, at, machine, ioloop, loopThread, cpu, io_chan, made, busy, powers>>
LoopClosed ==
  /\ stage = "channels" /\ (\A c \in Chans : NoChannel(c)) /\ (\A o \in Parts : handles[o] = 0)
  /\ ioloop' = FALSE /\ stage' = "cpu"
  /\ UNCHANGED <<at, machine, loopThread, cpu, io_chan, owned, handles, made, released, busy, powers>>
CpuShutdown ==
  /\ stage = "cpu" /\ busy = -1 /\ cpu' = FALSE /\ stage' = "off"
  /\ UNCHANGED <<at, machine, ioloop, loopThread, io_chan, owned, handles, made, released, busy, powers>>

\* the CPU, in io_dispatch()
CallChannel(c) ==
  /\ cpu /\ busy = -1 /\ stage \in {"on", "down", "channels"} /\ at = <<>> /\ ~NoChannel(c) /\ busy' = c
  /\ UNCHANGED <<stage, at, machine, ioloop, loopThread, cpu, io_chan, owned, handles, made, released, powers>>
ReturnFrom ==
  /\ busy # -1 /\ busy' = -1
  /\ UNCHANGED <<stage, at, machine, ioloop, loopThread, cpu, io_chan, owned, handles, made, released, powers>>

PowerNext ==
  \/ Em400Init \/ InitParts \/ BuildChannel \/ SkipChannel \/ BuildDevice \/ RunIo \/ TurnOff
  \/ JoinLoop \/ LoopClosed \/ CpuShutdown \/ ReturnFrom
  \/ \E c \in Chans : ShutChannel(c) \/ CallChannel(c)
  \/ \E o \in Parts : CloseHandle(o)
PowerSpec == PowerInit /\ [][PowerNext]_powerVars

-----------------------------------------------------------------------------
\* Wherever the building fails, and whenever the machine is turned off, all that was made
\* is freed, once each, nothing is left in the I/O system and it can be turned on again
\* (em400_init(), io_shutdown(), device_build(), the controllers' shutdown functions).
OffIsClean ==
  /\ \A o \in Parts : released[o] <= 1
  /\ stage = "off" => /\ ~ioloop /\ ~loopThread /\ ~cpu /\ \A c \in Chans : NoChannel(c)
                      /\ owned = {} /\ \A o \in made : released[o] = 1

\* The CPU is in no channel that has been taken down; it may be, as the I/O goes first.
CallsLive == busy # -1 => ~NoChannel(busy)
=============================================================================
