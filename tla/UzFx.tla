-------------------------------- MODULE UzFx --------------------------------
(***************************************************************************)
(* The floppy controller UZ-FX (src/io/cchar/uzfx.c) on a character        *)
(* channel, with the drive SP45DE (src/io/dev/sp45de.c) behind it.         *)
(*                                                                         *)
(* Three threads: the CPU gives commands, the I/O loop carries the         *)
(* operations out and the front-end changes the media.  state_mutex is     *)
(* kept while an interrupt is published and reported, which takes the      *)
(* channel's int_mutex; so both are modelled.  A byte of the buffer is     *)
(* known by where it came from: n, the n-th of a sector the program gave,  *)
(* 0, padding, or Disk.  uzfx->operation is written and never read.        *)
(***************************************************************************)
EXTENDS CChar

CONSTANTS
  FxUnit,                               \* its place on the channel
  TrackCnt, TrackLast, SectorsPerTrack, \* SP45DE_TRACK_CNT, ...
  BlkSize,                              \* SP45DE_BLK_SIZE
  Addresses,                            \* what control commands name: <<track, sector>>
  Followed                              \* commands whose answer EN the history follows

\* interrupts, most urgent first
NotFound == 0    \* UZFX_INT_SECT_NOT_FOUND
HwErr == 3       \* UZFX_INT_HW_ERR
DiskEnd == 4     \* UZFX_INT_DISK_END
FxReady == 5     \* UZFX_INT_READY

ASSUME UzFxAssumption ==
  /\ FxUnit \in Clearing /\ {NotFound, HwErr, DiskEnd, FxReady} \subseteq Reasons
  /\ {TrackCnt, TrackLast, SectorsPerTrack, BlkSize} \subseteq Nat \ {0} /\ TrackLast < TrackCnt
  /\ Addresses \subseteq Nat \X Nat

Disk == BlkSize + 1

VARIABLES
  fx_state, address, pending_buf_write, interrupt_required,
  kick,                          \* kick_worker: uv_async_send() comes next
  async_process, timer_process,
  buf, buf_pos, doors_locked,
  image,                         \* a medium is in the drive
  state_mutex, int_mutex,        \* "free", "loop", "cpu": int_mutex in cchar_cmd_intspec() only
  owed,                          \* history: commands told to wait for the operation since the last interrupt
  given,                         \* history: bytes the program gave for this sector
  broken,                        \* history: a reset came in the middle of a sector
  torn                           \* history: a sector was written with bytes not meant for it

operation == <<fx_state, address, pending_buf_write, interrupt_required>>
wake == <<kick, async_process, timer_process>>
drive == <<buf, buf_pos, doors_locked, image>>
fxHistory == <<owed, given, broken, torn>>
uzfxVars == <<fx_state, address, pending_buf_write, interrupt_required, kick, async_process,
              timer_process, buf, buf_pos, doors_locked, image, state_mutex, int_mutex, owed,
              given, broken, torn>>
fxVars == <<ccharVars, uzfxVars>>

\* uzfx_process_states() stops there
Waiting == {"IDLE", "BUF_RD", "BUF_WR"}

UzFxInit ==
  /\ CCharInit
  /\ fx_state = "IDLE" /\ address = <<1, 1>>
  /\ pending_buf_write = FALSE /\ interrupt_required = FALSE
  /\ kick = FALSE /\ async_process = FALSE /\ timer_process = FALSE
  /\ buf = [i \in 0..BlkSize - 1 |-> 0] /\ buf_pos = 0 /\ doors_locked = FALSE
  /\ image \in BOOLEAN
  /\ state_mutex = "free" /\ int_mutex = "free"
  /\ owed = {} /\ given = 0 /\ broken = FALSE /\ torn = FALSE

-----------------------------------------------------------------------------
(* The drive. *)

GeometryValid(a) == a[1] < TrackCnt /\ a[2] \in 1..SectorsPerTrack
AtMediaEnd(a) == a = <<TrackLast, SectorsPerTrack>>

\* what sp45de_blk_read() and sp45de_blk_write() may answer
BlkResults ==
  IF ~GeometryValid(address) THEN {"NO_SECTOR"}
  ELSE {"FAULT"} \cup (IF ~image THEN {} ELSE IF AtMediaEnd(address) THEN {"MEDIA_END"} ELSE {"OK"})
Done == {"OK", "MEDIA_END"}

\* Mutant of Padded: one byte of what was in the buffer stays.
PaddedShort == [i \in 0..BlkSize - 1 |-> IF i > buf_pos THEN 0 ELSE buf[i]]

\* the buffer when a transfer is given up: what is left is skipped, or padded
Padded == [i \in 0..BlkSize - 1 |-> IF i >= buf_pos THEN 0 ELSE buf[i]]

BufEnd == buf_pos + 1 >= BlkSize
Meant == [i \in 0..BlkSize - 1 |-> IF i < given THEN i + 1 ELSE 0]

\* uzfx_address_advance()
Advanced ==
  IF address[2] < SectorsPerTrack THEN <<address[1], address[2] + 1>>
  ELSE <<IF address[1] + 1 > TrackLast THEN 1 ELSE address[1] + 1, 1>>

ReplaceRefused == doors_locked

(* sp45de_image_replace(): the old medium is out before the new one is opened. *)
ImageReplace ==
  /\ ~ReplaceRefused
  /\ image' \in BOOLEAN
  /\ UNCHANGED <<ccharVars, operation, wake, buf, buf_pos, doors_locked, state_mutex, int_mutex, fxHistory>>

-----------------------------------------------------------------------------
(* The I/O loop. *)
InLoop == UNCHANGED <<channel, irq, cpu_pc, cpu_unit, resetting, resets, told>>
LoopFree == loop_pc = "idle" /\ state_mutex # "loop"

OnAsyncProcess ==
  /\ LoopFree /\ async_process
  /\ async_process' = FALSE /\ timer_process' = TRUE
  /\ UNCHANGED <<ccharVars, operation, kick, drive, state_mutex, int_mutex, fxHistory>>

(* uzfx_process_states() enters, does one state after the other, and leaves. *)
ProcessStart ==
  /\ LoopFree /\ timer_process /\ state_mutex = "free"
  /\ timer_process' = FALSE /\ state_mutex' = "loop"
  /\ UNCHANGED <<ccharVars, operation, kick, async_process, drive, int_mutex, fxHistory>>

ProcessEnd ==
  /\ loop_pc = "idle" /\ state_mutex = "loop" /\ fx_state \in Waiting
  /\ state_mutex' = "free"
  /\ UNCHANGED <<ccharVars, operation, wake, drive, int_mutex, fxHistory>>

Processing(st) == loop_pc = "idle" /\ state_mutex = "loop" /\ fx_state = st

\* the end of every turn: doors, and publishing with the mutex held
Finish(next, ints) ==
  /\ fx_state' = next
  /\ doors_locked' = (doors_locked /\ next # "IDLE")
  /\ IF ints = {} THEN UNCHANGED <<lines, loop_pc, left, owed>>
     ELSE Raising(FxUnit, lines[FxUnit] \cup ints) /\ owed' = {}
  /\ InLoop /\ UNCHANGED <<wake, image, state_mutex, int_mutex, broken>>

SectRd ==
  /\ Processing("SECT_RD") /\ buf_pos' = 0
  /\ \E r \in BlkResults :
       /\ buf' = IF r \in Done THEN [i \in DOMAIN buf |-> Disk] ELSE buf
       /\ Finish(IF r \in Done THEN "BUF_RD" ELSE "IDLE",
                 CASE r = "OK" -> {FxReady} [] r = "MEDIA_END" -> {DiskEnd, FxReady}
                   [] r = "NO_SECTOR" -> {NotFound} [] r = "FAULT" -> {HwErr})
  /\ interrupt_required' = FALSE
  /\ UNCHANGED <<address, pending_buf_write, given, torn>>

BufRdCancel ==
  /\ Processing("BUF_RD_CANCEL") /\ buf_pos' = 0
  /\ Finish("IDLE", {FxReady}) /\ interrupt_required' = FALSE
  /\ address' = Advanced
  /\ UNCHANGED <<buf, pending_buf_write, given, torn>>

BufWrStart ==
  /\ Processing("BUF_WR_START")
  /\ Finish("BUF_WR", {FxReady} \cup IF AtMediaEnd(address) THEN {DiskEnd} ELSE {})
  /\ interrupt_required' = FALSE
  /\ UNCHANGED <<address, pending_buf_write, buf, buf_pos, given, torn>>

\* Mutant of WriteRaises: an engaged DETACH is forgotten.
WriteRaisesOnErrors(cancel) == cancel

WriteRaises(cancel) == cancel \/ interrupt_required

(* UZFX_ST7_SECT_WR, and UZFX_ST3_BUF_WR_CANCEL which pads and falls through *)
SectWr ==
  /\ Processing("SECT_WR") \/ Processing("BUF_WR_CANCEL")
  /\ LET cancel == fx_state = "BUF_WR_CANCEL"
     IN /\ buf' = IF cancel THEN Padded ELSE buf
        /\ buf_pos' = 0
        /\ \E r \in BlkResults :
             LET ints == (CASE r = "OK" -> {} [] r = "MEDIA_END" -> {DiskEnd}
                            [] r = "NO_SECTOR" -> {NotFound} [] r = "FAULT" -> {HwErr})
                         \cup IF WriteRaises(cancel) THEN {FxReady} ELSE {}
             IN /\ address' = IF r \in Done THEN Advanced ELSE address
                /\ torn' = (torn \/ (~broken /\ r \in Done /\ buf' # Meant))
                /\ Finish(IF pending_buf_write THEN "BUF_WR_START" ELSE "IDLE", ints)
                /\ interrupt_required' = (interrupt_required /\ ints = {})
        /\ pending_buf_write' = FALSE
        /\ given' = 0

FxLoopTrigger == int_mutex = "free" /\ LoopTrigger /\ UNCHANGED uzfxVars

FxLoop == OnAsyncProcess \/ ProcessStart \/ ProcessEnd \/ SectRd \/ BufRdCancel \/ BufWrStart
            \/ SectWr \/ FxLoopTrigger

-----------------------------------------------------------------------------
(* The CPU thread. *)
CpuFree == cpu_pc = "idle" /\ int_mutex # "cpu" /\ ~kick
Command(st) == CpuFree /\ state_mutex = "free" /\ fx_state = st
ByCpu == UNCHANGED <<channel, irq, loop_pc, cpu_pc, cpu_unit, resetting, resets, history>>
InMemory == ByCpu /\ UNCHANGED <<lines, async_process, timer_process, image, state_mutex, int_mutex>>

\* Mutant of Acknowledged: a READ or DETACH drops whatever is pending.
AcknowledgedAll == {}

Acknowledged == lines[FxUnit] \ {FxReady}

Owing(c) == owed' = owed \cup ({c} \cap Followed)

(* READ or WRITE in the idle state starts an operation. *)
Start(st) ==
  /\ Command("IDLE") /\ fx_state' = st /\ doors_locked' = TRUE /\ kick' = TRUE
  /\ Owing(IF st = "SECT_RD" THEN "read" ELSE "write")
  /\ InMemory
  /\ UNCHANGED <<address, pending_buf_write, interrupt_required, buf, buf_pos, given, broken, torn>>

(* READ of a byte *)
ReadByte ==
  /\ Command("BUF_RD")
  /\ lines' = [lines EXCEPT ![FxUnit] = Acknowledged]
  /\ IF BufEnd THEN buf_pos' = 0 /\ address' = Advanced /\ fx_state' = "IDLE" /\ doors_locked' = FALSE
     ELSE buf_pos' = buf_pos + 1 /\ UNCHANGED <<address, fx_state, doors_locked>>
  /\ ByCpu
  /\ UNCHANGED <<pending_buf_write, interrupt_required, wake, buf, image, state_mutex, int_mutex, fxHistory>>

KickAtEnd == TRUE

(* WRITE of a byte *)
WriteByte ==
  /\ Command("BUF_WR")
  /\ buf' = [buf EXCEPT ![buf_pos] = given + 1] /\ given' = given + 1
  /\ IF BufEnd THEN buf_pos' = 0 /\ fx_state' = "SECT_WR" /\ kick' = KickAtEnd
     ELSE buf_pos' = buf_pos + 1 /\ UNCHANGED <<fx_state, kick>>
  /\ InMemory
  /\ UNCHANGED <<address, pending_buf_write, interrupt_required, doors_locked, owed, broken, torn>>

(* DETACH: idle, or giving up a sector *)
DetachIdle ==
  /\ Command("IDLE") /\ doors_locked' = FALSE
  /\ lines' = [lines EXCEPT ![FxUnit] = Acknowledged]
  /\ ByCpu
  /\ UNCHANGED <<operation, wake, buf, buf_pos, image, state_mutex, int_mutex, fxHistory>>

DetachCancel ==
  /\ \/ Command("BUF_RD") /\ fx_state' = "BUF_RD_CANCEL"
     \/ Command("BUF_WR") /\ fx_state' = "BUF_WR_CANCEL"
  /\ kick' = TRUE /\ Owing("detach")
  /\ InMemory
  /\ UNCHANGED <<address, pending_buf_write, interrupt_required, buf, buf_pos, doors_locked, given, broken, torn>>

\* a state in which command c is only told to wait
BusyFor(c) == CASE c = "control" -> fx_state # "IDLE"
                [] c = "read" -> fx_state \notin {"IDLE", "BUF_RD"}
                [] c = "write" -> fx_state \notin {"IDLE", "BUF_WR"}
                [] c = "detach" -> fx_state \notin Waiting

(* Any command, when the controller is busy, is answered EN. *)
Engaged(c) ==
  /\ CpuFree /\ state_mutex = "free" /\ BusyFor(c)
  /\ pending_buf_write' = (pending_buf_write \/ (c = "write" /\ fx_state = "SECT_WR"))
  /\ interrupt_required' = (interrupt_required \/ (c = "detach" /\ fx_state = "SECT_WR"))
  /\ IF fx_state \in Waiting THEN UNCHANGED owed ELSE Owing(c)
  /\ InMemory
  /\ UNCHANGED <<fx_state, address, kick, buf, buf_pos, doors_locked, given, broken, torn>>

(* control: the interrupt for a wrong address is reported with the mutex held *)
Control(a) ==
  /\ Command("IDLE") /\ address' = a
  /\ IF GeometryValid(a)
     THEN doors_locked' = TRUE /\ UNCHANGED <<lines, cpu_pc, state_mutex>>
     ELSE /\ lines' = [lines EXCEPT ![FxUnit] = @ \cup {NotFound}]
          /\ cpu_pc' = "trigger" /\ state_mutex' = "cpu" /\ UNCHANGED doors_locked
  /\ UNCHANGED <<channel, irq, loop_pc, cpu_unit, resetting, resets, history, fx_state,
                 pending_buf_write, interrupt_required, wake, buf, buf_pos, image, int_mutex, fxHistory>>

\* uv_async_send() after the unlock
Kick ==
  /\ kick /\ kick' = FALSE /\ async_process' = TRUE
  /\ UNCHANGED <<ccharVars, operation, timer_process, drive, state_mutex, int_mutex, fxHistory>>

(* uzfx_reset_state(); the drive's buffer keeps its place *)
StateReset(unlock) ==
  /\ state_mutex = "free"
  /\ fx_state' = "IDLE" /\ address' = <<1, 1>>
  /\ pending_buf_write' = FALSE /\ interrupt_required' = FALSE
  /\ doors_locked' = (doors_locked /\ ~unlock)
  /\ owed' = {} /\ given' = 0 /\ broken' = (broken \/ buf_pos # 0)
  /\ UNCHANGED <<wake, buf, buf_pos, image, state_mutex, int_mutex, torn>>

(* the command RESET leaves the motor running, a reset of the channel stops it *)
CmdReset == CpuFree /\ Withdraw(FxUnit) /\ StateReset(FALSE)
FxResetUnit == ResetUnit /\ IF cpu_unit = FxUnit THEN StateReset(TRUE) ELSE UNCHANGED uzfxVars

\* Mutant of SpecMayRun: intspec() and has_interrupt() take state_mutex.
SpecLocks == state_mutex = "free"

SpecMayRun == TRUE

(* cchar_cmd_intspec(): int_mutex is taken, then the unit is asked. *)
SpecStart ==
  /\ cpu_pc \in {"idle", "ask"} /\ ~kick /\ int_mutex = "free" /\ int_mutex' = "cpu"
  /\ UNCHANGED <<ccharVars, operation, wake, drive, state_mutex, fxHistory>>
FxIntSpec ==
  /\ int_mutex = "cpu" /\ SpecMayRun /\ IntSpec /\ int_mutex' = "free"
  /\ UNCHANGED <<operation, wake, drive, state_mutex, fxHistory>>

FxCpuTrigger ==
  /\ int_mutex = "free" /\ CpuTrigger
  /\ state_mutex' = IF state_mutex = "cpu" THEN "free" ELSE state_mutex
  /\ UNCHANGED <<operation, wake, drive, int_mutex, fxHistory>>

FxChan == /\ ~kick /\ int_mutex = "free"
          /\ CpuTakes \/ Cancel \/ ChanReset \/ ResetReport \/ ClearRequests
          /\ UNCHANGED uzfxVars

FxNext == \/ FxLoop \/ ImageReplace
          \/ \E st \in {"SECT_RD", "BUF_WR_START"} : Start(st)
          \/ ReadByte \/ WriteByte \/ DetachIdle \/ DetachCancel
          \/ \E c \in {"read", "write", "detach", "control"} : Engaged(c)
          \/ \E a \in Addresses : Control(a)
          \/ Kick \/ CmdReset \/ FxResetUnit
          \/ SpecStart \/ FxIntSpec \/ FxCpuTrigger \/ FxChan

FxSpec == UzFxInit /\ [][FxNext]_fxVars

-----------------------------------------------------------------------------
FxTypeOK ==
  /\ CCharTypeOK
  /\ fx_state \in Waiting \cup {"SECT_RD", "BUF_RD_CANCEL", "BUF_WR_START", "BUF_WR_CANCEL", "SECT_WR"}
  /\ address \in Nat \X Nat
  /\ {pending_buf_write, interrupt_required, kick, async_process, timer_process, doors_locked,
      image, broken, torn} \subseteq BOOLEAN
  /\ buf \in [0..BlkSize - 1 -> 0..Disk] /\ buf_pos \in 0..BlkSize - 1
  /\ state_mutex \in {"free", "loop", "cpu"} /\ int_mutex \in {"free", "cpu"}
  /\ owed \subseteq Followed /\ given \in 0..BlkSize

\* No operation is left lying: in a state that the loop must process a wake-up is on
\* its way (the comment in struct uzfx on the lost wake-ups of an earlier design).
WorkIsScheduled ==
  fx_state \notin Waiting => kick \/ async_process \/ timer_process \/ state_mutex = "loop"

\* A WRITE or DETACH answered EN while an operation is under way is followed by an
\* interrupt before the controller waits for the program again.
WriterIsAnswered == fx_state \in Waiting => owed \cap {"write", "detach"} = {}

\* So is every other command (comments in uzfx_cmd_read() and uzfx_cmd_control():
\* "guaranteed to raise an interrupt").
BusyIsAnswered == fx_state \in Waiting => owed = {}

\* A sector is written with the bytes the program gave for it and padding, unless a
\* reset came in the middle of a sector before: the buffer keeps its place then.
SectorsWhole == ~torn

\* The medium is not changed under an operation, by whatever reset, DETACH or error
\* the doors were unlocked before.
MediaStays == [][image' # image => fx_state = "IDLE"]_fxVars

\* What is pending besides READY survives READ and DETACH: only the channel's
\* question and a reset take it (comments in uzfx_cmd_read(), uzfx_cmd_detach()).
EndReported ==
  [][(DiskEnd \in lines[FxUnit] /\ DiskEnd \notin lines'[FxUnit])
       => (int_mutex = "cpu" \/ cpu_pc' = "cancel")]_fxVars

\* Publishing under state_mutex cannot deadlock with the channel asking under
\* int_mutex (comment in struct uzfx): never does each wait for the other.
NoCircularWait ==
  ~(state_mutex = "loop" /\ loop_pc = "trigger" /\ int_mutex = "cpu" /\ ~ENABLED FxIntSpec)
=============================================================================
