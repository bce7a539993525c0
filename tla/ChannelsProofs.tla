--------------------------- MODULE ChannelsProofs ---------------------------
(***************************************************************************)
(* What holds of a character channel and its units for any number of       *)
(* places, any size of buffers, disks and calendars, and any program: the  *)
(* commands told to wait are answered, nothing is left lying, what is      *)
(* transmitted and written is what was given, and the drive is kept.       *)
(***************************************************************************)
EXTENDS MCChannels, SequenceTheorems, FiniteSetTheorems, WellFoundedInduction, TLAPS

-----------------------------------------------------------------------------
(* The inductive invariant, one part for the channel and each unit. *)

\* a reset of the channel has a unit in hand until it reports
ResetPlaced == resetting => /\ cpu_pc \in {"cancel", "trigger", "reset"}
                            /\ cpu_pc # "reset" => cpu_unit < NUnits

ChannelInv == CCharTypeOK /\ ResetPlaced /\ NoneForgotten

\* The character accepted last is the only one not on the wire: it waits for its
\* wake-up or is with the sender.
OneBehind ==
  ~cut => IF xfer_busy
          THEN /\ accepted = Append(wire, buf_wr) /\ (sender_busy => wrbuf = buf_wr)
               /\ async_write = ~sender_busy
          ELSE accepted = wire /\ ~async_write /\ ~sender_busy

TermTyped ==
  /\ state \in {"OFF", "OK", "EN"} /\ dir \in {"NONE", "IN", "OUT"}
  /\ buf_wr \in 0..MaxWritten /\ wrbuf \in 0..MaxWritten
  /\ xfer_busy \in BOOLEAN /\ unattended \in BOOLEAN /\ async_write \in BOOLEAN
  /\ async_switch \in BOOLEAN /\ timer_switch \in BOOLEAN /\ client \in BOOLEAN
  /\ timer_read \in BOOLEAN /\ sender_busy \in BOOLEAN /\ cut \in BOOLEAN /\ lost \in BOOLEAN
  /\ writing \in {"none", "socket", "delay"}
  /\ accepted \in Seq(0..MaxWritten) /\ Len(accepted) <= MaxWritten /\ wire \in Seq(0..MaxWritten)

Buffered ==
  /\ rx \in Seq(Typeable \ {Nul}) /\ Len(rx) <= FifoLen /\ (unattended \/ Len(rx) <= 1)
  /\ rdbuf \in Seq(Typeable) /\ Len(rdbuf) <= BufSize
  /\ typed \in 0..MaxTyped

\* the sender is busy as long as a write or a delay is under way
SenderMoves == sender_busy <=> writing # "none"

TerminalInv ==
  /\ TermTyped /\ Buffered /\ SenderMoves /\ OneBehind
  /\ EngagedAnswered /\ BusyMoves /\ UnattendedLosesNothing

FloppyTyped ==
  /\ fx_state \in Waiting \cup {"SECT_RD", "BUF_RD_CANCEL", "BUF_WR_START", "BUF_WR_CANCEL", "SECT_WR"}
  /\ address \in Nat \X Nat
  /\ pending_buf_write \in BOOLEAN /\ interrupt_required \in BOOLEAN /\ kick \in BOOLEAN
  /\ async_process \in BOOLEAN /\ timer_process \in BOOLEAN /\ doors_locked \in BOOLEAN
  /\ image \in BOOLEAN /\ broken \in BOOLEAN /\ torn \in BOOLEAN
  /\ state_mutex \in {"free", "loop", "cpu"} /\ int_mutex \in {"free", "cpu"}
  /\ owed \subseteq Followed

DoorsKept == fx_state # "IDLE" => doors_locked

\* who waits for a sector to be written is remembered until it is
WriteRemembers ==
  fx_state = "SECT_WR" => /\ "detach" \in owed => interrupt_required
                          /\ "write" \in owed => pending_buf_write

\* the program is filling the buffer
Filling == {"BUF_WR", "BUF_WR_CANCEL"}

Filled ==
  /\ buf \in [0..BlkSize - 1 -> 0..Disk] /\ buf_pos \in 0..BlkSize - 1 /\ given \in 0..BlkSize
  /\ fx_state \in Filling => given <= buf_pos
  /\ fx_state \notin Filling \cup {"SECT_WR"} => given = 0
  /\ ~broken => /\ fx_state \notin Filling \cup {"BUF_RD", "BUF_RD_CANCEL"} => buf_pos = 0
                /\ fx_state \in Filling => buf_pos = given
                /\ fx_state = "SECT_WR" => given = BlkSize
                /\ \A i \in 0..BlkSize - 1 : i < given => buf[i] = i + 1

FloppyInv ==
  /\ FloppyTyped /\ DoorsKept /\ WorkIsScheduled /\ WriterIsAnswered /\ WriteRemembers
  /\ Filled /\ SectorsWhole

ClockTyped ==
  /\ pressed \subseteq {"hs", "ms", "dr", "tr", "irq"}
  /\ cycle_seconds \in BOOLEAN /\ seconds_read \in BOOLEAN /\ seconds_advance \in BOOLEAN
  /\ clock_stopped \in BOOLEAN /\ keep_date_read \in BOOLEAN /\ has_int \in BOOLEAN
  /\ clock \in Clocks /\ display \in {"date", "time", "seconds"}
  /\ sent \subseteq {"display", "switch", "keep"} /\ timers \subseteq {"display", "switch", "keep"}
  /\ to_send \subseteq {"display", "switch", "keep"}

\* the units that do not run
Apart ==
  /\ part \in {"terminal", "floppy", "clock"}
  /\ part # "terminal" => state = "OFF"
  /\ part # "floppy" => DiskEnd \notin lines[FxUnit]

IInv == ChannelInv /\ TerminalInv /\ FloppyInv /\ ClockTyped /\ DateEnds /\ Apart

LEMMA LeastExists ==
  ASSUME NEW S \in SUBSET Nat, S # {}
  PROVE  \E i \in S : \A j \in S : i <= j
<1> DEFINE T == {0..i : i \in S}
<1>1. T \subseteq FiniteSubsetsOf(Nat) /\ T # {}
  <2>1. \A i \in S : 0..i \in SUBSET Nat /\ IsFiniteSet(0..i)
    BY FS_Interval
  <2> QED
    BY <2>1 DEF FiniteSubsetsOf
<1>2. IsWellFoundedOn(StrictSubsetOrdering(Nat), FiniteSubsetsOf(Nat))
  BY FS_StrictSubsetOrderingWellFounded
<1>3. PICK x \in T : \A y \in T : ~(<<y, x>> \in StrictSubsetOrdering(Nat))
  <2> HIDE DEF T
  <2> QED
    BY <1>1, <1>2, WFMin, Zenon
<1>4. PICK i \in S : x = 0..i
  OBVIOUS
<1>5. ASSUME NEW j \in S PROVE i <= j
  <2> SUFFICES ASSUME j < i PROVE FALSE
    OBVIOUS
  <2>1. 0..j \in T /\ 0..j \in SUBSET Nat /\ 0..i \in SUBSET Nat
    OBVIOUS
  <2>2. 0..j \subseteq 0..i /\ i \in 0..i /\ i \notin 0..j
    OBVIOUS
  <2> HIDE DEF T
  <2> QED
    BY <1>3, <1>4, <2>1, <2>2 DEF StrictSubsetOrdering
<1> QED
  BY <1>5

-----------------------------------------------------------------------------
(* The channel. *)

LEMMA Modulo ==
  ASSUME NEW n \in Nat \ {0}, NEW k \in 0..n - 1
  PROVE  k % n = k /\ (k + n) % n = k
BY Z3

LEMMA ModuloRange ==
  ASSUME NEW n \in Nat \ {0}, NEW k \in Nat
  PROVE  k % n \in 0..n - 1
BY Z3

(* cchar_int_trigger() finds a unit that has something to report. *)
LEMMA TurnFound ==
  ASSUME CCharTypeOK, \E u \in Units : HasInterrupt(u)
  PROVE  InTurn \in Units /\ HasInterrupt(InTurn)
<1> DEFINE at(i) == (ScanFrom + i) % NUnits
           found == {i \in 1..NUnits : at(i) \in Units /\ HasInterrupt(at(i))}
<1>1. PICK u \in Units : HasInterrupt(u)
  OBVIOUS
<1>2. ScanFrom \in 0..NUnits - 1 /\ u \in 0..NUnits - 1 /\ NUnits \in Nat \ {0}
  BY CCharAssumption DEF CCharTypeOK, ScanFrom
<1>3. \E i \in 1..NUnits : at(i) = u
  <2>1. CASE u > ScanFrom
    <3>1. at(u - ScanFrom) = u
      BY <1>2, Modulo
    <3> QED
      BY <1>2, <2>1, <3>1
  <2>2. CASE u <= ScanFrom
    <3>1. ScanFrom + (u - ScanFrom + NUnits) = u + NUnits
      BY <1>2
    <3>2. at(u - ScanFrom + NUnits) = u
      BY <1>2, <3>1, Modulo
    <3> QED
      BY <1>2, <2>2, <3>2
  <2> QED
    BY <1>2, <2>1, <2>2
<1>4. found \in SUBSET Nat /\ found # {}
  <2>1. PICK i \in 1..NUnits : at(i) = u
    BY <1>3
  <2>2. at(i) \in Units /\ HasInterrupt(at(i))
    BY <1>1, <2>1
  <2>3. i \in found
    BY <2>2
  <2>4. found \in SUBSET Nat
    BY <1>2
  <2> QED
    BY <2>3, <2>4
<1>5. \E i \in found : \A j \in found : i <= j
  BY <1>4, LeastExists
<1>6. (CHOOSE i \in found : \A j \in found : i <= j) \in found
  BY <1>5
<1> QED
  BY <1>6 DEF InTurn

LEMMA Triggered ==
  ASSUME CCharTypeOK, Trigger
  PROVE  /\ interrupting_device' \in Units \cup {None} /\ last_reported_device' \in 0..NUnits - 1
         /\ irq' \in BOOLEAN /\ told' \in BOOLEAN
         /\ interrupting_device' # None \/ \A u \in Units : ~HasInterrupt(u)
<1>1. CASE interrupting_device # None \/ \A u \in Units : ~HasInterrupt(u)
  BY <1>1 DEF CCharTypeOK, Trigger, channel
<1>2. CASE ~(interrupting_device # None \/ \A u \in Units : ~HasInterrupt(u))
  <2>1. InTurn \in Units
    BY <1>2, TurnFound
  <2>2. interrupting_device' = InTurn /\ last_reported_device' = InTurn /\ irq' = TRUE /\ told' = FALSE
    BY <1>2, Zenon DEF Trigger, Reported
  <2>3. InTurn \in 0..NUnits - 1
    BY <2>1, CCharAssumption
  <2>4. interrupting_device' # None
    BY <2>2, <2>3, CCharAssumption DEF None
  <2>5. irq' \in BOOLEAN /\ told' \in BOOLEAN
    BY <2>2, Zenon
  <2> QED
    BY <2>1, <2>2, <2>3, <2>4, <2>5
<1> QED
  BY <1>1, <1>2

(* A unit that raises has the channel look. *)
LEMMA RaisingKeeps ==
  ASSUME ChannelInv, NEW u \in Units, NEW rs \in SUBSET Reasons, Raising(u, rs),
         UNCHANGED <<channel, irq, cpu_pc, cpu_unit, resetting, resets, told>>
  PROVE  ChannelInv'
<1>1. lines' \in [Units -> SUBSET Reasons]
  BY DEF ChannelInv, CCharTypeOK, Raising
<1> QED
  BY <1>1 DEF ChannelInv, CCharTypeOK, ResetPlaced, NoneForgotten, Raising, channel

(* What the CPU takes from a unit cannot be forgotten. *)
LEMMA TakingKeeps ==
  ASSUME ChannelInv, NEW u \in Units, NEW rs \in SUBSET Reasons, rs \subseteq lines[u],
         lines' = [lines EXCEPT ![u] = rs],
         UNCHANGED <<channel, irq, loop_pc, cpu_pc, cpu_unit, resetting, resets, history>>
  PROVE  ChannelInv'
<1>1. lines' \in [Units -> SUBSET Reasons]
  BY DEF ChannelInv, CCharTypeOK
<1>2. \A v \in Units : HasInterrupt(v)' => HasInterrupt(v)
  BY DEF ChannelInv, CCharTypeOK, HasInterrupt
<1> QED
  BY <1>1, <1>2 DEF ChannelInv, CCharTypeOK, ResetPlaced, NoneForgotten, channel, history

LEMMA ChannelStep ==
  ASSUME ChannelInv, LoopTrigger \/ CpuTakes \/ CCharCpu \/ \E u \in Units : Withdraw(u)
  PROVE  ChannelInv'
<1> USE DEF ChannelInv
<1>1. CASE LoopTrigger
  <2>1. CCharTypeOK'
    BY <1>1, Triggered DEF CCharTypeOK, LoopTrigger
  <2>2. ResetPlaced' /\ NoneForgotten'
    BY <1>1, Triggered DEF LoopTrigger, ResetPlaced, NoneForgotten, HasInterrupt
  <2> QED
    BY <2>1, <2>2
<1>2. CASE CpuTakes
  BY <1>2 DEF CpuTakes, CCharTypeOK, ResetPlaced, NoneForgotten, HasInterrupt, channel
<1>3. CASE IntSpec
  <2>1. lines' \in [Units -> SUBSET Reasons]
    BY <1>3 DEF IntSpec, CCharTypeOK
  <2>2. interrupting_device' = None /\ told' = FALSE /\ cpu_pc' = "trigger"
    BY <1>3 DEF IntSpec, Asked
  <2>3. told' \in BOOLEAN
    BY <2>2, Zenon
  <2> QED
    BY <1>3, <2>1, <2>2, <2>3 DEF IntSpec, CCharTypeOK, ResetPlaced, NoneForgotten
<1>4. CASE CpuTrigger
  <2>1. cpu_unit \in Nat /\ cpu_unit' \in 0..NUnits
    BY <1>4, CCharAssumption DEF CpuTrigger, CCharTypeOK, ResetPlaced
  <2>2. CCharTypeOK'
    BY <1>4, <2>1, Triggered DEF CCharTypeOK, CpuTrigger
  <2>3. ResetPlaced' /\ NoneForgotten'
    BY <1>4, Triggered DEF CpuTrigger, ResetPlaced, NoneForgotten, HasInterrupt
  <2> QED
    BY <2>2, <2>3
<1>5. CASE Cancel
  BY <1>5 DEF Cancel, CCharTypeOK, ResetPlaced, NoneForgotten, HasInterrupt, history
<1>6. CASE ChanReset
  <2>1. resetting' \in BOOLEAN /\ resets' \in 0..MaxResets /\ cpu_unit' \in 0..NUnits
    <3>1. resetting' = TRUE
      BY <1>6 DEF ChanReset
    <3>2. resetting' \in BOOLEAN
      BY <3>1, Zenon
    <3> QED
      BY <1>6, <3>2, CCharAssumption DEF ChanReset, CCharTypeOK
  <2> QED
    BY <1>6, <2>1 DEF ChanReset, CCharTypeOK, ResetPlaced, NoneForgotten, HasInterrupt, channel, history
<1>7. CASE ResetUnit
  <2>1. CASE cpu_unit \in Clearing
    <3>1. lines' \in [Units -> SUBSET Reasons]
      BY <1>7, <2>1 DEF ResetUnit, TakingBack, CCharTypeOK
    <3> QED
      BY <1>7, <2>1, <3>1
      DEF ResetUnit, TakingBack, CCharTypeOK, ResetPlaced, NoneForgotten, channel, history
  <2>2. CASE cpu_unit \notin Clearing
    <3>1. cpu_unit' \in 0..NUnits
      BY <1>7, <2>2, CCharAssumption DEF ResetUnit, CCharTypeOK
    <3> QED
      BY <1>7, <2>2, <3>1
      DEF ResetUnit, CCharTypeOK, ResetPlaced, NoneForgotten, HasInterrupt, channel, history
  <2> QED
    BY <2>1, <2>2
<1>8. CASE ResetReport
  <2>1. resetting' \in BOOLEAN /\ cpu_unit' \in 0..NUnits
    <3>1. resetting' = FALSE
      BY <1>8 DEF ResetReport
    <3>2. resetting' \in BOOLEAN
      BY <3>1, Zenon
    <3> QED
      BY <1>8, <3>2, CCharAssumption DEF ResetReport
  <2> QED
    BY <1>8, <2>1 DEF ResetReport, CCharTypeOK, ResetPlaced, NoneForgotten, HasInterrupt
<1>9. CASE ClearRequests
  <2>1. irq' = FALSE /\ told' = FALSE
    BY <1>9 DEF ClearRequests
  <2>2. irq' \in BOOLEAN /\ told' \in BOOLEAN
    BY <2>1, Zenon
  <2> QED
    BY <1>9, <2>2 DEF ClearRequests, CCharTypeOK, ResetPlaced, NoneForgotten, HasInterrupt, channel
<1>10. ASSUME NEW u \in Units, Withdraw(u) PROVE ChannelInv'
  <2>1. lines' \in [Units -> SUBSET Reasons] /\ cpu_unit' \in 0..NUnits
    BY <1>10, CCharAssumption DEF Withdraw, TakingBack, CCharTypeOK
  <2> QED
    BY <1>10, <2>1 DEF Withdraw, TakingBack, CCharTypeOK, ResetPlaced, NoneForgotten, channel, history
<1> QED
  BY <1>1, <1>2, <1>3, <1>4, <1>5, <1>6, <1>7, <1>8, <1>9, <1>10 DEF CCharCpu

-----------------------------------------------------------------------------
(* The terminal. *)

\* a step of the terminal brings no end of a disk
NoDiskEnd == DiskEnd \notin lines[FxUnit]

LEMMA UnitsPlaced == Unit \in Units /\ FxUnit \in Units /\ {Ready, TooSlow} \subseteq Reasons
BY UzDatAssumption, UzFxAssumption, CCharAssumption

LEMMA ChannelQuiet ==
  ASSUME ChannelInv, UNCHANGED ccharVars
  PROVE  ChannelInv' /\ (NoDiskEnd => NoDiskEnd')
BY DEF ccharVars, ChannelInv, CCharTypeOK, ResetPlaced, NoneForgotten, HasInterrupt, NoDiskEnd

(* What the loop does to the channel for the terminal: raise, or nothing. *)
LEMMA TerminalRaises ==
  ASSUME ChannelInv, LoopOnly, NEW rs \in SUBSET {Ready, TooSlow},
         NoRaise \/ Raising(Unit, rs) \/ Raising(Unit, lines[Unit])
  PROVE  ChannelInv' /\ (NoDiskEnd => NoDiskEnd')
<1>1. CASE NoRaise
  <2>1. UNCHANGED ccharVars
    BY <1>1 DEF LoopOnly, NoRaise, ccharVars, channel
  <2> QED
    BY <2>1, ChannelQuiet
<1>2. CASE Raising(Unit, rs)
  <2>1. rs \in SUBSET Reasons
    BY UnitsPlaced
  <2>2. ChannelInv'
    BY <1>2, <2>1, UnitsPlaced, RaisingKeeps DEF LoopOnly
  <2>3. DiskEnd \notin rs
    BY DEF DiskEnd, Ready, TooSlow
  <2>4. NoDiskEnd => NoDiskEnd'
    BY <1>2, <2>3, UnitsPlaced DEF Raising, NoDiskEnd, ChannelInv, CCharTypeOK
  <2> QED
    BY <2>2, <2>4
<1>3. CASE Raising(Unit, lines[Unit])
  <2>1. lines[Unit] \in SUBSET Reasons
    BY UnitsPlaced DEF ChannelInv, CCharTypeOK
  <2>2. ChannelInv'
    BY <1>3, <2>1, UnitsPlaced, RaisingKeeps DEF LoopOnly
  <2>3. NoDiskEnd => NoDiskEnd'
    BY <1>3, UnitsPlaced DEF Raising, NoDiskEnd, ChannelInv, CCharTypeOK
  <2> QED
    BY <2>2, <2>3
<1> QED
  BY <1>1, <1>2, <1>3

(* What the loop raises for a program that waits stays until it is asked for. *)
LEMMA RaisedIsPending ==
  ASSUME ChannelInv, NEW rs, Raising(Unit, rs)
  PROVE  lines'[Unit] = rs
BY UnitsPlaced DEF Raising, ChannelInv, CCharTypeOK

LEMMA QueueStays ==
  ASSUME NEW S, NEW q \in Seq(S), NEW n \in Nat, Len(q) <= n, q # <<>>
  PROVE  Tail(q) \in Seq(S) /\ Len(Tail(q)) <= n
BY HeadTailProperties

LEMMA DataReceivedStep ==
  ASSUME ChannelInv, TerminalInv, NEW c \in Typeable \ {Nul}, CanReceive, OnDataReceived(c), LoopOnly,
         UNCHANGED <<state, dir, xfer_busy, async_switch, timer_switch, unattended>>
  PROVE  /\ ChannelInv' /\ (NoDiskEnd => NoDiskEnd')
         /\ rx' \in Seq(Typeable \ {Nul}) /\ Len(rx') <= FifoLen /\ (unattended' \/ Len(rx') <= 1)
         /\ lost' \in BOOLEAN /\ EngagedAnswered' /\ UnattendedLosesNothing'
<1> USE DEF TerminalInv, Buffered, TermTyped
<1>1. CASE ~Receiving
  <2>1. rx' = rx /\ lost' = lost /\ NoRaise
    BY <1>1 DEF OnDataReceived
  <2>2. ChannelInv' /\ (NoDiskEnd => NoDiskEnd')
    BY <2>1, TerminalRaises
  <2>3. EngagedAnswered' /\ UnattendedLosesNothing'
    BY <2>1 DEF EngagedAnswered, UnattendedLosesNothing, NoRaise, HasInterrupt
  <2> QED
    BY <2>1, <2>2, <2>3
<1>2. CASE Receiving
  <2> DEFINE over == IF unattended THEN RxFull ELSE rx # <<>>
             rs == IF over THEN {TooSlow} ELSE IF state = "EN" THEN {Ready} ELSE lines[Unit]
  <2>1. /\ rx' = IF ~unattended THEN <<c>> ELSE IF over THEN rx ELSE Append(rx, c)
        /\ lost' = (lost \/ (unattended /\ over))
        /\ Raising(Unit, rs)
    BY <1>2 DEF OnDataReceived
  <2>2. ChannelInv' /\ (NoDiskEnd => NoDiskEnd')
    <3>1. CASE over
      BY <2>1, <3>1, TerminalRaises
    <3>2. CASE ~over /\ state = "EN"
      BY <2>1, <3>2, TerminalRaises
    <3>3. CASE ~over /\ state # "EN"
      BY <2>1, <3>3, TerminalRaises
    <3> QED
      BY <3>1, <3>2, <3>3
  <2>3. rx' \in Seq(Typeable \ {Nul}) /\ Len(rx') <= FifoLen /\ (unattended' \/ Len(rx') <= 1)
    <3>1. CASE ~unattended
      BY <2>1, <3>1, UzDatAssumption
    <3>2. CASE unattended
      BY <2>1, <3>2, UzDatAssumption DEF RxFull
    <3> QED
      BY <3>1, <3>2
  <2>4. lost' \in BOOLEAN /\ UnattendedLosesNothing'
    <3>1. unattended => ~over
      BY DEF CanReceive
    <3>2. lost' = lost
      BY <2>1, <3>1, Zenon
    <3> QED
      BY <3>2 DEF UnattendedLosesNothing
  <2>5. EngagedAnswered'
    <3>1. lines'[Unit] = rs
      BY <2>1, RaisedIsPending
    <3>2. state = "EN" => rs # {}
      OBVIOUS
    <3> QED
      BY <3>1, <3>2 DEF EngagedAnswered, HasInterrupt
  <2> QED
    BY <2>2, <2>3, <2>4, <2>5
<1> QED
  BY <1>1, <1>2

(* the step of an actor keeps what holds of the channel and of the terminal *)
TerminalKept == ChannelInv' /\ TerminalInv' /\ (NoDiskEnd => NoDiskEnd')

LEMMA LoopStep ==
  ASSUME ChannelInv, TerminalInv, Loop
  PROVE  TerminalKept
<1> USE DEF TerminalInv
<1>1. CASE OnReadDelay
  <2> USE DEF OnReadDelay
  <2>1. CASE ~CanReceive
    <3>1. NoRaise /\ LoopOnly
      BY <1>1, <2>1
    <3>2. ChannelInv' /\ (NoDiskEnd => NoDiskEnd')
      BY <3>1, TerminalRaises
    <3>3. TermTyped' /\ Buffered' /\ SenderMoves' /\ OneBehind' /\ BusyMoves' /\ UnattendedLosesNothing'
      BY <1>1, <2>1
      DEF TermTyped, Buffered, SenderMoves, OneBehind, BusyMoves, UnattendedLosesNothing, wakes, output
    <3>4. EngagedAnswered'
      BY <1>1, <2>1 DEF EngagedAnswered, HasInterrupt, NoRaise, wakes
    <3> QED
      BY <3>2, <3>3, <3>4 DEF TerminalKept
  <2>2. CASE CanReceive
    <3>1. rdbuf' \in Seq(Typeable) /\ Len(rdbuf') <= BufSize
      BY <1>1, <2>2, QueueStays, UzDatAssumption DEF Buffered
    <3>2. timer_read' \in BOOLEAN
      BY <1>1, <2>2, Zenon
    <3>3. /\ ChannelInv' /\ (NoDiskEnd => NoDiskEnd')
          /\ rx' \in Seq(Typeable \ {Nul}) /\ Len(rx') <= FifoLen /\ (unattended' \/ Len(rx') <= 1)
          /\ lost' \in BOOLEAN /\ EngagedAnswered' /\ UnattendedLosesNothing'
      <4>1. CASE rdbuf # <<>> /\ Head(rdbuf) # Nul
        <5>1. Head(rdbuf) \in Typeable \ {Nul}
          BY <4>1, HeadTailProperties DEF Buffered
        <5> QED
          BY <1>1, <2>2, <4>1, <5>1, DataReceivedStep DEF wakes
      <4>2. CASE ~(rdbuf # <<>> /\ Head(rdbuf) # Nul)
        <5>1. rx' = rx /\ lost' = lost /\ NoRaise /\ LoopOnly
          BY <1>1, <2>2, <4>2
        <5>2. ChannelInv' /\ (NoDiskEnd => NoDiskEnd')
          BY <5>1, TerminalRaises
        <5>3. EngagedAnswered' /\ UnattendedLosesNothing'
          BY <1>1, <5>1 DEF EngagedAnswered, UnattendedLosesNothing, HasInterrupt, NoRaise, wakes
        <5> QED
          BY <1>1, <5>1, <5>2, <5>3 DEF Buffered, TermTyped
      <4> QED
        BY <4>1, <4>2
    <3>4. TermTyped'
      BY <1>1, <3>2, <3>3 DEF TermTyped, wakes, output
    <3>5. Buffered'
      BY <1>1, <3>1, <3>3 DEF Buffered
    <3>6. SenderMoves' /\ OneBehind' /\ BusyMoves'
      BY <1>1 DEF SenderMoves, OneBehind, BusyMoves, wakes, output
    <3> QED
      BY <3>3, <3>4, <3>5, <3>6 DEF TerminalKept
  <2> QED
    BY <2>1, <2>2
<1>2. CASE OnAsyncWrite
  <2> USE DEF OnAsyncWrite
  <2>1. ChannelInv' /\ (NoDiskEnd => NoDiskEnd')
    BY <1>2, TerminalRaises
  <2>2. Buffered' /\ EngagedAnswered' /\ UnattendedLosesNothing'
    BY <1>2 DEF Buffered, EngagedAnswered, UnattendedLosesNothing, HasInterrupt, NoRaise, unit, input
  <2>3. CASE sender_busy
    <3>1. UNCHANGED <<sender_busy, wrbuf, writing, unit, input, wire, accepted, cut, lost, async_switch, timer_switch>>
      BY <1>2, <2>3
    <3>2. async_write' = FALSE
      BY <1>2
    <3>3. async_write' \in BOOLEAN
      BY <3>2, Zenon
    <3>4. TermTyped' /\ SenderMoves' /\ BusyMoves'
      BY <2>3, <3>1, <3>3 DEF TermTyped, SenderMoves, BusyMoves, unit, input
    <3>5. OneBehind'
      BY <2>3, <3>1, <3>2 DEF OneBehind, TermTyped, unit
    <3> QED
      BY <2>1, <2>2, <3>4, <3>5 DEF TerminalKept
  <2>4. CASE ~sender_busy
    <3>1. sender_busy' = TRUE /\ wrbuf' = buf_wr /\ writing' \in {"socket", "delay"} /\ async_write' = FALSE
      BY <1>2, <2>4
    <3>2. sender_busy' \in BOOLEAN /\ async_write' \in BOOLEAN
      BY <3>1, Zenon
    <3>3. TermTyped'
      BY <1>2, <3>1, <3>2 DEF TermTyped, unit, input
    <3>4. SenderMoves' /\ BusyMoves'
      BY <3>1 DEF SenderMoves, BusyMoves
    <3>5. OneBehind'
      BY <1>2, <2>4, <3>1 DEF OneBehind, TermTyped, unit, input
    <3> QED
      BY <2>1, <2>2, <3>3, <3>4, <3>5 DEF TerminalKept
  <2> QED
    BY <2>3, <2>4 DEF TermTyped
<1>3. CASE OnWriteComplete
  <2> USE DEF OnWriteComplete, AfterWrite
  <2>1. ChannelInv' /\ (NoDiskEnd => NoDiskEnd')
    BY <1>3, TerminalRaises
  <2> QED
    BY <1>3, <2>1
    DEF TerminalKept, TermTyped, Buffered, SenderMoves, OneBehind, BusyMoves, EngagedAnswered,
        UnattendedLosesNothing, HasInterrupt, NoRaise, unit, wakes, input
<1>4. CASE OnWriteDelay
  <2> USE DEF OnWriteDelay, SentRaises, RaiseIf
  <2>1. ChannelInv' /\ (NoDiskEnd => NoDiskEnd')
    <3>1. LoopOnly /\ (NoRaise \/ Raising(Unit, {Ready}))
      BY <1>4
    <3> QED
      BY <3>1, TerminalRaises
  <2>2. sender_busy' = FALSE /\ xfer_busy' = FALSE /\ wire' = Append(wire, wrbuf) /\ writing' = "none"
    BY <1>4
  <2>3. sender_busy' \in BOOLEAN /\ xfer_busy' \in BOOLEAN
    BY <2>2, Zenon
  <2>4. TermTyped'
    BY <1>4, <2>2, <2>3, AppendProperties DEF TermTyped, wakes, input
  <2>5. Buffered' /\ UnattendedLosesNothing' /\ SenderMoves' /\ BusyMoves'
    BY <1>4 DEF Buffered, UnattendedLosesNothing, SenderMoves, BusyMoves, wakes, input
  <2>6. OneBehind'
    BY <1>4, <2>2 DEF OneBehind, SenderMoves, TermTyped, wakes
  <2>7. EngagedAnswered'
    <3>1. CASE state = "EN"
      <4>1. lines'[Unit] = {Ready}
        BY <1>4, <3>1, RaisedIsPending
      <4> QED
        BY <4>1 DEF EngagedAnswered, HasInterrupt
    <3>2. CASE state # "EN"
      BY <1>4, <3>2 DEF EngagedAnswered
    <3> QED
      BY <3>1, <3>2
  <2> QED
    BY <2>1, <2>4, <2>5, <2>6, <2>7 DEF TerminalKept
<1>5. CASE OnAsyncSwitch
  <2> USE DEF OnAsyncSwitch
  <2>1. ChannelInv' /\ (NoDiskEnd => NoDiskEnd')
    BY <1>5, TerminalRaises
  <2>2. async_switch' = FALSE /\ timer_switch' = TRUE
    BY <1>5
  <2>3. async_switch' \in BOOLEAN /\ timer_switch' \in BOOLEAN
    BY <2>2, Zenon
  <2> QED
    BY <1>5, <2>1, <2>3
    DEF TerminalKept, TermTyped, Buffered, SenderMoves, OneBehind, BusyMoves, EngagedAnswered,
        UnattendedLosesNothing, unit, input, output
<1>6. CASE OnSwitchTimeout
  <2> USE DEF OnSwitchTimeout, RaiseIf
  <2>1. ChannelInv' /\ (NoDiskEnd => NoDiskEnd')
    <3>1. LoopOnly /\ (NoRaise \/ Raising(Unit, {Ready}))
      BY <1>6
    <3> QED
      BY <3>1, TerminalRaises
  <2>2. timer_switch' = FALSE /\ dir' \in {"NONE", "IN", "OUT"}
    BY <1>6 DEF TermTyped
  <2>3. timer_switch' \in BOOLEAN
    BY <2>2, Zenon
  <2>4. TermTyped' /\ Buffered' /\ SenderMoves' /\ OneBehind' /\ BusyMoves' /\ UnattendedLosesNothing'
    BY <1>6, <2>2, <2>3
    DEF TermTyped, Buffered, SenderMoves, OneBehind, BusyMoves, UnattendedLosesNothing, input, output
  <2>5. EngagedAnswered'
    <3>1. CASE state = "EN"
      <4>1. lines'[Unit] = {Ready}
        BY <1>6, <3>1, RaisedIsPending
      <4> QED
        BY <4>1 DEF EngagedAnswered, HasInterrupt
    <3>2. CASE state # "EN"
      BY <1>6, <3>2 DEF EngagedAnswered
    <3> QED
      BY <3>1, <3>2
  <2> QED
    BY <2>1, <2>4, <2>5 DEF TerminalKept
<1>7. CASE UzLoopTrigger
  <2>1. ChannelInv'
    BY <1>7, ChannelStep DEF UzLoopTrigger
  <2> QED
    BY <1>7, <2>1
    DEF UzLoopTrigger, LoopTrigger, uzdatVars, TerminalKept, TermTyped, Buffered, SenderMoves, OneBehind,
        BusyMoves, EngagedAnswered, UnattendedLosesNothing, HasInterrupt, NoDiskEnd
<1> QED
  BY <1>1, <1>2, <1>3, <1>4, <1>5, <1>6, <1>7 DEF Loop

(* The client: what does not fit is not taken. *)
LEMMA OutsideStep ==
  ASSUME ChannelInv, TerminalInv, Outside
  PROVE  TerminalKept
<1> USE DEF TerminalInv
<1>1. LoopOnly /\ NoRaise
  BY DEF Outside, OnTcpRead, OnConnect, OnTcpClose
<1>2. ChannelInv' /\ (NoDiskEnd => NoDiskEnd')
  BY <1>1, TerminalRaises
<1>3. UNCHANGED <<unit, wakes, output, accepted, cut, lost>>
  BY DEF Outside, OnTcpRead, OnConnect, OnTcpClose
<1>4. SenderMoves' /\ OneBehind' /\ BusyMoves' /\ UnattendedLosesNothing' /\ EngagedAnswered'
  BY <1>1, <1>3
  DEF SenderMoves, OneBehind, BusyMoves, UnattendedLosesNothing, EngagedAnswered, HasInterrupt, NoRaise,
      unit, wakes, output
<1>5. client' \in BOOLEAN /\ timer_read' \in BOOLEAN
  <2>1. CASE OnTcpRead
    <3>1. \E b \in BOOLEAN : timer_read' = (timer_read \/ b)
      BY <2>1, Zenon DEF OnTcpRead
    <3>2. timer_read' \in BOOLEAN
      BY <3>1
    <3> QED
      BY <2>1, <3>2 DEF OnTcpRead, TermTyped
  <2>2. CASE OnConnect
    <3>1. client' = TRUE /\ timer_read' = timer_read
      BY <2>2 DEF OnConnect
    <3>2. client' \in BOOLEAN
      BY <3>1, Zenon
    <3> QED
      BY <3>1, <3>2 DEF TermTyped
  <2>3. CASE OnTcpClose
    <3>1. client' = FALSE /\ timer_read' = TRUE
      BY <2>3 DEF OnTcpClose
    <3> QED
      BY <3>1, Zenon
  <2> QED
    BY <2>1, <2>2, <2>3 DEF Outside
<1>6. TermTyped'
  BY <1>3, <1>5 DEF TermTyped, unit, wakes, output
<1>7. Buffered'
  <2>1. CASE OnTcpRead
    <3>1. PICK n \in 0..Burst, c \in Typeable :
             LET room == BufSize - Len(rdbuf)
             IN /\ typed + n <= MaxTyped /\ typed' = typed + n
                /\ rdbuf' = rdbuf \o [i \in 1..(IF n < room THEN n ELSE room) |-> c]
      BY <2>1 DEF OnTcpRead
    <3> DEFINE room == BufSize - Len(rdbuf)
               k == IF n < room THEN n ELSE room
               new == [i \in 1..k |-> c]
    <3>2. n \in Nat /\ room \in Nat /\ k \in Nat /\ k <= room
      BY UzDatAssumption DEF Buffered
    <3>3. new \in Seq(Typeable) /\ Len(new) = k
      BY <3>2
    <3>4. rdbuf' = rdbuf \o new
      BY <3>1
    <3> HIDE DEF k, new
    <3>5. rdbuf' \in Seq(Typeable) /\ Len(rdbuf') <= BufSize
      BY <3>2, <3>3, <3>4, ConcatProperties, UzDatAssumption DEF Buffered
    <3>6. typed' \in 0..MaxTyped
      BY <3>1, <3>2, UzDatAssumption DEF Buffered
    <3> QED
      BY <1>3, <3>5, <3>6 DEF Buffered, unit
  <2>2. CASE OnConnect \/ OnTcpClose
    BY <2>2 DEF OnConnect, OnTcpClose, Buffered, unit
  <2> QED
    BY <2>1, <2>2 DEF Outside
<1> QED
  BY <1>2, <1>4, <1>6, <1>7 DEF TerminalKept

(* The commands of the program. *)
LEMMA CommandStep ==
  ASSUME ChannelInv, TerminalInv, Read \/ Write \/ Disconnect
  PROVE  TerminalKept
<1> USE DEF TerminalInv
<1>1. CpuOnly
  BY DEF Read, Write, Disconnect
<1>2. UNCHANGED ccharVars
  BY <1>1 DEF CpuOnly, ccharVars, channel, history
<1>3. ChannelInv' /\ (NoDiskEnd => NoDiskEnd')
  BY <1>2, ChannelQuiet
<1>4. lines' = lines
  BY <1>1 DEF CpuOnly
<1>5. CASE Read
  <2> USE DEF Read
  <2>1. rx' \in Seq(Typeable \ {Nul}) /\ Len(rx') <= FifoLen /\ (unattended' \/ Len(rx') <= 1)
    <3>1. CASE rx # <<>>
      <4>1. rx' = Tail(rx) /\ unattended' = unattended
        BY <1>5, <3>1
      <4>2. Tail(rx) \in Seq(Typeable \ {Nul}) /\ Len(Tail(rx)) = Len(rx) - 1
        BY <3>1, HeadTailProperties DEF Buffered
      <4> QED
        BY <4>1, <4>2, UzDatAssumption DEF Buffered
    <3>2. CASE rx = <<>>
      BY <1>5, <3>2 DEF Buffered
    <3> QED
      BY <3>1, <3>2
  <2> QED
    BY <1>3, <1>4, <1>5, <2>1
    DEF TerminalKept, TermTyped, Buffered, SenderMoves, OneBehind, BusyMoves, EngagedAnswered,
        UnattendedLosesNothing, HasInterrupt, wakes, input, output
<1>6. CASE Write /\ MayWrite
  <2> DEFINE c == Len(accepted) + 1
  <2>1. /\ state' = "OK" /\ buf_wr' = c /\ xfer_busy' = TRUE /\ Len(accepted) < MaxWritten
        /\ async_write' = TRUE /\ accepted' = Append(accepted, c) /\ async_switch' = async_switch
        /\ UNCHANGED <<dir, unattended, rx, timer_switch, input, output, cut, lost>>
    BY <1>6 DEF Write
  <2>2. c \in 0..MaxWritten
    BY <2>1, UzDatAssumption DEF TermTyped
  <2>3. accepted' \in Seq(0..MaxWritten) /\ Len(accepted') <= MaxWritten
    BY <2>1, <2>2, AppendProperties DEF TermTyped
  <2>4. xfer_busy' \in BOOLEAN /\ async_write' \in BOOLEAN
    BY <2>1, Zenon
  <2>5. TermTyped'
    BY <2>1, <2>2, <2>3, <2>4 DEF TermTyped, input, output
  <2>6. Buffered' /\ SenderMoves' /\ BusyMoves' /\ EngagedAnswered' /\ UnattendedLosesNothing'
    BY <2>1 DEF Buffered, SenderMoves, BusyMoves, EngagedAnswered, UnattendedLosesNothing, input, output
  <2>7. OneBehind'
    BY <1>6, <2>1 DEF OneBehind, TermTyped, MayWrite, output
  <2> QED
    BY <1>3, <2>5, <2>6, <2>7 DEF TerminalKept
<1>7. CASE Write /\ ~MayWrite
  <2>1. /\ state' = "EN" /\ async_switch' = (async_switch \/ dir # "OUT")
        /\ UNCHANGED <<buf_wr, xfer_busy, async_write, accepted>>
        /\ UNCHANGED <<dir, unattended, rx, timer_switch, input, output, cut, lost>>
    BY <1>7 DEF Write
  <2>2. async_switch' \in BOOLEAN
    BY <2>1, Zenon
  <2>3. TermTyped'
    BY <2>1, <2>2 DEF TermTyped, input, output
  <2>4. EngagedAnswered'
    <3>1. async_switch' \/ xfer_busy'
      BY <1>7, <2>1 DEF MayWrite
    <3> QED
      BY <3>1 DEF EngagedAnswered
  <2> QED
    BY <1>3, <2>1, <2>3, <2>4
    DEF TerminalKept, Buffered, SenderMoves, OneBehind, BusyMoves, UnattendedLosesNothing, input, output
<1>8. CASE Disconnect
  <2> USE DEF Disconnect
  <2>1. rx' \in Seq(Typeable \ {Nul}) /\ Len(rx') <= FifoLen /\ (unattended' \/ Len(rx') <= 1)
    <3>1. <<>> \in Seq(Typeable \ {Nul}) /\ Len(<<>>) = 0
      OBVIOUS
    <3>2. unattended' = unattended /\ (rx' = rx \/ rx' = <<>>)
      BY <1>8
    <3> QED
      <4>1. CASE rx' = rx
        BY <3>2, <4>1 DEF Buffered
      <4>2. CASE rx' = <<>>
        <5>1. FifoLen \in Nat
          BY UzDatAssumption
        <5> QED
          BY <3>1, <4>2, <5>1
      <4> QED
        BY <3>2, <4>1, <4>2
  <2> QED
    BY <1>3, <1>4, <1>8, <2>1
    DEF TerminalKept, TermTyped, Buffered, SenderMoves, OneBehind, BusyMoves, EngagedAnswered,
        UnattendedLosesNothing, HasInterrupt, wakes, input, output
<1> QED
  BY <1>5, <1>6, <1>7, <1>8

(* uzdat_reset() leaves the loop what it is doing. *)
LEMMA UnitResetStep ==
  ASSUME TerminalInv, UnitReset
  PROVE  TerminalInv'
<1> USE DEF TerminalInv
<1>1. /\ state' = "OFF" /\ dir' = "NONE" /\ xfer_busy' = FALSE /\ rx' = <<>>
      /\ cut' = (cut \/ xfer_busy \/ sender_busy)
      /\ UNCHANGED <<buf_wr, unattended, wakes, input, output, accepted, lost>>
  BY DEF UnitReset
<1>2. xfer_busy' \in BOOLEAN /\ cut' \in BOOLEAN
  BY <1>1, Zenon
<1>3. TermTyped'
  BY <1>1, <1>2 DEF TermTyped, wakes, input, output
<1>4. Buffered'
  <2>1. <<>> \in Seq(Typeable \ {Nul}) /\ Len(<<>>) = 0 /\ FifoLen \in Nat
    BY UzDatAssumption
  <2> QED
    BY <1>1, <2>1 DEF Buffered, input
<1>5. OneBehind'
  BY <1>1 DEF OneBehind, wakes, output
<1>6. SenderMoves' /\ BusyMoves' /\ EngagedAnswered' /\ UnattendedLosesNothing'
  BY <1>1 DEF SenderMoves, BusyMoves, EngagedAnswered, UnattendedLosesNothing, output
<1> QED
  BY <1>3, <1>4, <1>5, <1>6

(* The channel takes what it reports, or the unit's reset does. *)
LEMMA TerminalChannelStep ==
  ASSUME ChannelInv, TerminalInv, Reset \/ UzIntSpec \/ UzResetUnit \/ Chan
  PROVE  TerminalKept
<1>1. CASE Reset
  <2>1. TerminalInv'
    BY <1>1, UnitResetStep DEF Reset
  <2>2. resets' \in 0..MaxResets
    BY <1>1, CCharAssumption DEF Reset, ChannelInv, CCharTypeOK
  <2>3. ChannelInv'
    BY <1>1, <2>2
    DEF Reset, ChannelInv, CCharTypeOK, ResetPlaced, NoneForgotten, HasInterrupt, channel, history
  <2>4. NoDiskEnd => NoDiskEnd'
    BY <1>1 DEF Reset, NoDiskEnd
  <2> QED
    BY <2>1, <2>3, <2>4 DEF TerminalKept
<1>2. CASE UzIntSpec
  <2>1. ChannelInv'
    BY <1>2, ChannelStep DEF UzIntSpec, CCharCpu
  <2>2. NoDiskEnd => NoDiskEnd'
    BY <1>2, UnitsPlaced DEF UzIntSpec, IntSpec, NoDiskEnd, ChannelInv, CCharTypeOK
  <2>3. EngagedAnswered'
    <3>1. CASE interrupting_device = Unit
      BY <1>2, <3>1 DEF UzIntSpec, EngagedAnswered
    <3>2. CASE interrupting_device # Unit
      <4>1. lines'[Unit] = lines[Unit] /\ state' = state
        BY <1>2, <3>2, UnitsPlaced DEF UzIntSpec, IntSpec, ChannelInv, CCharTypeOK
      <4> QED
        BY <1>2, <4>1 DEF UzIntSpec, EngagedAnswered, HasInterrupt, TerminalInv, wakes
    <3> QED
      BY <3>1, <3>2
  <2>4. TermTyped' /\ Buffered' /\ SenderMoves' /\ OneBehind' /\ BusyMoves' /\ UnattendedLosesNothing'
    BY <1>2
    DEF UzIntSpec, TerminalInv, TermTyped, Buffered, SenderMoves, OneBehind, BusyMoves,
        UnattendedLosesNothing, wakes, input, output
  <2> QED
    BY <2>1, <2>2, <2>3, <2>4 DEF TerminalKept, TerminalInv
<1>3. CASE UzResetUnit
  <2>1. ChannelInv'
    BY <1>3, ChannelStep DEF UzResetUnit, CCharCpu
  <2>2. NoDiskEnd => NoDiskEnd'
    BY <1>3, UnitsPlaced DEF UzResetUnit, ResetUnit, TakingBack, NoDiskEnd, ChannelInv, CCharTypeOK
  <2>3. CASE cpu_unit = Unit
    BY <1>3, <2>1, <2>2, <2>3, UnitResetStep DEF UzResetUnit, TerminalKept
  <2>4. CASE cpu_unit # Unit
    <3>1. UNCHANGED uzdatVars /\ lines'[Unit] = lines[Unit]
      BY <1>3, <2>4, UnitsPlaced DEF UzResetUnit, ResetUnit, TakingBack, ChannelInv, CCharTypeOK
    <3> QED
      BY <2>1, <2>2, <3>1
      DEF TerminalKept, TerminalInv, uzdatVars, TermTyped, Buffered, SenderMoves, OneBehind, BusyMoves,
          EngagedAnswered, UnattendedLosesNothing, HasInterrupt
  <2> QED
    BY <2>3, <2>4
<1>4. CASE Chan
  <2>1. ChannelInv'
    BY <1>4, ChannelStep DEF Chan, CCharCpu
  <2>2. UNCHANGED uzdatVars /\ lines' = lines
    BY <1>4 DEF Chan, CpuTakes, CpuTrigger, ChanReset, ResetReport, ClearRequests
  <2> QED
    BY <2>1, <2>2
    DEF TerminalKept, TerminalInv, uzdatVars, TermTyped, Buffered, SenderMoves, OneBehind, BusyMoves,
        EngagedAnswered, UnattendedLosesNothing, HasInterrupt, NoDiskEnd
<1> QED
  BY <1>1, <1>2, <1>3, <1>4

LEMMA TerminalStep ==
  ASSUME ChannelInv, TerminalInv, UzNext
  PROVE  TerminalKept
BY LoopStep, OutsideStep, CommandStep, TerminalChannelStep DEF UzNext

-----------------------------------------------------------------------------
(* The floppy controller. *)

FxReasons == {NotFound, HwErr, DiskEnd, FxReady}

\* what a step of the floppy controller does to the channel, and what of EndReported
FloppyReports ==
  /\ ChannelInv'
  /\ DiskEnd \in lines[FxUnit] /\ DiskEnd \notin lines'[FxUnit] => int_mutex = "cpu" \/ cpu_pc' = "cancel"

LEMMA FloppyQuiet ==
  ASSUME ChannelInv, UNCHANGED ccharVars
  PROVE  FloppyReports
BY ChannelQuiet DEF ccharVars, FloppyReports

LEMMA FinishReports ==
  ASSUME ChannelInv, NEW next, NEW ints \in SUBSET FxReasons, Finish(next, ints)
  PROVE  FloppyReports
<1>1. UNCHANGED <<channel, irq, cpu_pc, cpu_unit, resetting, resets, told>>
  BY DEF Finish, InLoop
<1>2. CASE ints = {}
  <2>1. UNCHANGED ccharVars
    BY <1>1, <1>2 DEF Finish, ccharVars, channel
  <2> QED
    BY <2>1, FloppyQuiet
<1>3. CASE ints # {}
  <2>1. Raising(FxUnit, lines[FxUnit] \cup ints)
    BY <1>3 DEF Finish
  <2>2. lines[FxUnit] \cup ints \in SUBSET Reasons
    BY UnitsPlaced, UzFxAssumption DEF ChannelInv, CCharTypeOK, FxReasons
  <2>3. ChannelInv'
    BY <1>1, <2>1, <2>2, UnitsPlaced, RaisingKeeps
  <2>4. lines'[FxUnit] = lines[FxUnit] \cup ints
    BY <2>1, UnitsPlaced DEF Raising, ChannelInv, CCharTypeOK
  <2> QED
    BY <2>3, <2>4 DEF FloppyReports
<1> QED
  BY <1>2, <1>3

LEMMA FloppyLoopReports ==
  ASSUME ChannelInv, FxLoop
  PROVE  FloppyReports
<1>1. CASE OnAsyncProcess \/ ProcessStart \/ ProcessEnd
  BY <1>1, FloppyQuiet DEF OnAsyncProcess, ProcessStart, ProcessEnd
<1>2. CASE SectRd
  <2>1. PICK r \in BlkResults : Finish(IF r \in Done THEN "BUF_RD" ELSE "IDLE",
                 CASE r = "OK" -> {FxReady} [] r = "MEDIA_END" -> {DiskEnd, FxReady}
                   [] r = "NO_SECTOR" -> {NotFound} [] r = "FAULT" -> {HwErr})
    BY <1>2 DEF SectRd
  <2>2. r \in {"OK", "MEDIA_END", "NO_SECTOR", "FAULT"}
    BY DEF BlkResults
  <2> DEFINE ints == CASE r = "OK" -> {FxReady} [] r = "MEDIA_END" -> {DiskEnd, FxReady}
                       [] r = "NO_SECTOR" -> {NotFound} [] r = "FAULT" -> {HwErr}
  <2>3. ints \in SUBSET FxReasons
    BY <2>2 DEF FxReasons
  <2> HIDE DEF ints
  <2>4. \E next : Finish(next, ints)
    BY <2>1 DEF ints
  <2> QED
    BY <2>3, <2>4, FinishReports
<1>3. CASE BufRdCancel
  BY <1>3, FinishReports DEF BufRdCancel, FxReasons
<1>4. CASE BufWrStart
  <2> DEFINE ints == {FxReady} \cup IF AtMediaEnd(address) THEN {DiskEnd} ELSE {}
  <2>1. ints \in SUBSET FxReasons
    BY DEF FxReasons
  <2>2. Finish("BUF_WR", ints)
    BY <1>4 DEF BufWrStart
  <2> HIDE DEF ints
  <2> QED
    BY <2>1, <2>2, FinishReports
<1>5. CASE SectWr
  <2> DEFINE cancel == fx_state = "BUF_WR_CANCEL"
             ints(r) == (CASE r = "OK" -> {} [] r = "MEDIA_END" -> {DiskEnd}
                           [] r = "NO_SECTOR" -> {NotFound} [] r = "FAULT" -> {HwErr})
                        \cup IF WriteRaises(cancel) THEN {FxReady} ELSE {}
  <2>1. PICK r \in BlkResults : Finish(IF pending_buf_write THEN "BUF_WR_START" ELSE "IDLE", ints(r))
    BY <1>5 DEF SectWr
  <2>2. r \in {"OK", "MEDIA_END", "NO_SECTOR", "FAULT"}
    BY DEF BlkResults
  <2>3. ints(r) \in SUBSET FxReasons
    BY <2>2 DEF FxReasons
  <2> HIDE DEF ints
  <2> QED
    BY <2>1, <2>3, FinishReports
<1>6. CASE FxLoopTrigger
  <2>1. ChannelInv'
    BY <1>6, ChannelStep DEF FxLoopTrigger
  <2> QED
    BY <1>6, <2>1 DEF FxLoopTrigger, LoopTrigger, FloppyReports
<1> QED
  BY <1>1, <1>2, <1>3, <1>4, <1>5, <1>6 DEF FxLoop

LEMMA FloppyCpuReports ==
  ASSUME ChannelInv, FxNext, ~FxLoop
  PROVE  FloppyReports
<1>1. CASE ImageReplace \/ Kick \/ SpecStart
  BY <1>1, FloppyQuiet DEF ImageReplace, Kick, SpecStart
<1>2. ASSUME InMemory PROVE FloppyReports
  <2>1. UNCHANGED ccharVars
    BY <1>2 DEF InMemory, ByCpu, ccharVars, channel, history
  <2> QED
    BY <2>1, FloppyQuiet
<1>3. CASE \/ \E st \in {"SECT_RD", "BUF_WR_START"} : Start(st)
           \/ WriteByte \/ DetachCancel
           \/ \E c \in {"read", "write", "detach", "control"} : Engaged(c)
  BY <1>2, <1>3 DEF Start, WriteByte, DetachCancel, Engaged
<1>4. CASE ReadByte \/ DetachIdle
  <2>1. ByCpu /\ lines' = [lines EXCEPT ![FxUnit] = Acknowledged]
    BY <1>4 DEF ReadByte, DetachIdle
  <2>2. Acknowledged \in SUBSET Reasons /\ Acknowledged \subseteq lines[FxUnit]
    BY UnitsPlaced DEF ChannelInv, CCharTypeOK, Acknowledged
  <2>3. ChannelInv'
    BY <2>1, <2>2, UnitsPlaced, TakingKeeps DEF ByCpu
  <2>4. lines'[FxUnit] = lines[FxUnit] \ {FxReady}
    BY <2>1, UnitsPlaced DEF ChannelInv, CCharTypeOK, Acknowledged
  <2> QED
    BY <2>3, <2>4 DEF FloppyReports, DiskEnd, FxReady
<1>5. ASSUME NEW a \in Addresses, Control(a) PROVE FloppyReports
  <2>1. cpu_pc = "idle" /\ UNCHANGED <<channel, irq, loop_pc, cpu_unit, resetting, resets, history>>
    BY <1>5 DEF Control, Command, CpuFree
  <2>2. CASE GeometryValid(a)
    <3>1. UNCHANGED ccharVars
      BY <1>5, <2>1, <2>2 DEF Control, ccharVars, channel, history
    <3> QED
      BY <3>1, FloppyQuiet
  <2>3. CASE ~GeometryValid(a)
    <3>1. lines' = [lines EXCEPT ![FxUnit] = @ \cup {NotFound}] /\ cpu_pc' = "trigger"
      BY <1>5, <2>3 DEF Control
    <3>2. lines' \in [Units -> SUBSET Reasons] /\ lines'[FxUnit] = lines[FxUnit] \cup {NotFound}
      BY <3>1, UnitsPlaced, UzFxAssumption DEF ChannelInv, CCharTypeOK
    <3>3. ChannelInv'
      BY <2>1, <3>1, <3>2
      DEF ChannelInv, CCharTypeOK, ResetPlaced, NoneForgotten, HasInterrupt, channel, history
    <3> QED
      BY <3>2, <3>3 DEF FloppyReports
  <2> QED
    BY <2>2, <2>3
<1>6. CASE CmdReset
  <2>1. ChannelInv'
    BY <1>6, ChannelStep, UnitsPlaced DEF CmdReset
  <2> QED
    BY <1>6, <2>1 DEF CmdReset, Withdraw, TakingBack, FloppyReports
<1>7. CASE FxResetUnit
  <2>1. ChannelInv'
    BY <1>7, ChannelStep DEF FxResetUnit, CCharCpu
  <2> QED
    BY <1>7, <2>1 DEF FxResetUnit, ResetUnit, TakingBack, FloppyReports
<1>8. CASE FxIntSpec
  <2>1. ChannelInv'
    BY <1>8, ChannelStep DEF FxIntSpec, CCharCpu
  <2> QED
    BY <1>8, <2>1 DEF FxIntSpec, FloppyReports
<1>9. CASE FxCpuTrigger
  <2>1. ChannelInv'
    BY <1>9, ChannelStep DEF FxCpuTrigger, CCharCpu
  <2> QED
    BY <1>9, <2>1 DEF FxCpuTrigger, CpuTrigger, FloppyReports
<1>10. CASE FxChan
  <2>1. ChannelInv'
    BY <1>10, ChannelStep DEF FxChan, CCharCpu
  <2>2. lines' = lines
    BY <1>10 DEF FxChan, CpuTakes, Cancel, ChanReset, ResetReport, ClearRequests
  <2> QED
    BY <2>1, <2>2 DEF FloppyReports
<1> QED
  BY <1>1, <1>3, <1>4, <1>5, <1>6, <1>7, <1>8, <1>9, <1>10 DEF FxNext

(* The wake-ups, the locks and the medium leave the operation alone. *)
LEMMA FloppyAside ==
  ASSUME FloppyInv,
         \/ OnAsyncProcess \/ ProcessStart \/ ProcessEnd \/ Kick \/ ImageReplace
         \/ SpecStart \/ FxIntSpec \/ FxCpuTrigger \/ FxLoopTrigger \/ FxChan
  PROVE  FloppyInv'
<1> USE DEF FloppyInv
<1>1. UNCHANGED <<operation, buf, buf_pos, doors_locked, fxHistory>>
  BY DEF OnAsyncProcess, ProcessStart, ProcessEnd, Kick, ImageReplace, SpecStart, FxIntSpec,
         FxCpuTrigger, FxLoopTrigger, FxChan, drive, uzfxVars, operation, fxHistory
<1>2. DoorsKept' /\ WriterIsAnswered' /\ WriteRemembers' /\ Filled' /\ SectorsWhole'
  BY <1>1 DEF DoorsKept, WriterIsAnswered, WriteRemembers, Filled, SectorsWhole, Filling, Waiting,
              operation, fxHistory
<1>3. /\ kick' \in BOOLEAN /\ async_process' \in BOOLEAN /\ timer_process' \in BOOLEAN
      /\ image' \in BOOLEAN
      /\ state_mutex' \in {"free", "loop", "cpu"} /\ int_mutex' \in {"free", "cpu"}
      /\ WorkIsScheduled'
  <2> USE DEF FloppyTyped, WorkIsScheduled, Waiting
  <2>1. CASE OnAsyncProcess
    <3>1. async_process' = FALSE /\ timer_process' = TRUE
      BY <2>1 DEF OnAsyncProcess
    <3>2. async_process' \in BOOLEAN /\ timer_process' \in BOOLEAN
      BY <3>1, Zenon
    <3> QED
      BY <2>1, <3>1, <3>2 DEF OnAsyncProcess, operation, drive
  <2>2. CASE ProcessStart
    <3>1. timer_process' = FALSE
      BY <2>2 DEF ProcessStart
    <3>2. timer_process' \in BOOLEAN
      BY <3>1, Zenon
    <3> QED
      BY <2>2, <3>2 DEF ProcessStart, operation, drive
  <2>3. CASE ProcessEnd
    BY <2>3 DEF ProcessEnd, operation, drive, wake
  <2>4. CASE Kick
    <3>1. kick' = FALSE /\ async_process' = TRUE
      BY <2>4 DEF Kick
    <3>2. kick' \in BOOLEAN /\ async_process' \in BOOLEAN
      BY <3>1, Zenon
    <3> QED
      BY <2>4, <3>1, <3>2 DEF Kick, operation, drive
  <2>5. CASE ImageReplace
    BY <2>5 DEF ImageReplace, operation, wake
  <2>6. CASE SpecStart
    BY <2>6 DEF SpecStart, operation, wake, drive
  <2>7. CASE FxIntSpec
    BY <2>7 DEF FxIntSpec, operation, wake, drive
  <2>8. CASE FxCpuTrigger
    BY <2>8 DEF FxCpuTrigger, operation, wake, drive
  <2>9. CASE FxLoopTrigger \/ FxChan
    BY <2>9 DEF FxLoopTrigger, FxChan, uzfxVars
  <2> QED
    BY <2>1, <2>2, <2>3, <2>4, <2>5, <2>6, <2>7, <2>8, <2>9
<1>4. FloppyTyped'
  BY <1>1, <1>3 DEF FloppyTyped, Waiting, operation, fxHistory
<1> QED
  BY <1>2, <1>3, <1>4

LEMMA AdvancedTyped ==
  ASSUME FloppyTyped
  PROVE  Advanced \in Nat \X Nat
BY UzFxAssumption DEF FloppyTyped, Advanced

(* The end of a turn: an operation that ends leaves nobody waiting, when it reports. *)
LEMMA FinishKeeps ==
  ASSUME FloppyInv, NEW next \in Waiting \cup {"BUF_WR_START"}, NEW ints, Finish(next, ints),
         state_mutex = "loop",
         ints = {} => next = "BUF_WR_START" \/ owed \cap {"write", "detach"} = {}
  PROVE  /\ fx_state' \in Waiting \cup {"BUF_WR_START"}
         /\ kick' \in BOOLEAN /\ async_process' \in BOOLEAN /\ timer_process' \in BOOLEAN
         /\ doors_locked' \in BOOLEAN /\ image' \in BOOLEAN /\ broken' \in BOOLEAN
         /\ state_mutex' \in {"free", "loop", "cpu"} /\ int_mutex' \in {"free", "cpu"}
         /\ owed' \subseteq Followed
         /\ WorkIsScheduled' /\ WriterIsAnswered' /\ WriteRemembers'
         /\ fx_state # "IDLE" => DoorsKept'
<1>1. /\ fx_state' = next /\ UNCHANGED <<wake, image, state_mutex, int_mutex, broken>>
      /\ doors_locked' = (doors_locked /\ next # "IDLE")
      /\ IF ints = {} THEN owed' = owed ELSE owed' = {}
  BY DEF Finish
<1>2. doors_locked' \in BOOLEAN
  BY <1>1, Zenon
<1>3. WriterIsAnswered' /\ owed' \subseteq Followed
  BY <1>1 DEF WriterIsAnswered, FloppyInv, FloppyTyped, Waiting
<1>4. WorkIsScheduled' /\ WriteRemembers'
  BY <1>1 DEF WorkIsScheduled, WriteRemembers, Waiting
<1> QED
  BY <1>1, <1>2, <1>3, <1>4 DEF FloppyInv, FloppyTyped, DoorsKept, wake

LEMMA FloppyTurn ==
  ASSUME FloppyInv, SectRd \/ BufRdCancel \/ BufWrStart \/ SectWr
  PROVE  FloppyInv'
<1> USE DEF FloppyInv
<1>1. state_mutex = "loop"
  BY DEF SectRd, BufRdCancel, BufWrStart, SectWr, Processing
<1>2. CASE SectRd
  <2>1. PICK r \in BlkResults :
          /\ buf' = IF r \in Done THEN [i \in DOMAIN buf |-> Disk] ELSE buf
          /\ Finish(IF r \in Done THEN "BUF_RD" ELSE "IDLE",
                 CASE r = "OK" -> {FxReady} [] r = "MEDIA_END" -> {DiskEnd, FxReady}
                   [] r = "NO_SECTOR" -> {NotFound} [] r = "FAULT" -> {HwErr})
    BY <1>2 DEF SectRd
  <2> DEFINE next == IF r \in Done THEN "BUF_RD" ELSE "IDLE"
             ints == CASE r = "OK" -> {FxReady} [] r = "MEDIA_END" -> {DiskEnd, FxReady}
                       [] r = "NO_SECTOR" -> {NotFound} [] r = "FAULT" -> {HwErr}
  <2>2. ints # {} /\ next \in {"BUF_RD", "IDLE"}
    BY DEF BlkResults
  <2>3. Finish(next, ints) /\ fx_state = "SECT_RD" /\ buf_pos' = 0 /\ interrupt_required' = FALSE
        /\ UNCHANGED <<address, pending_buf_write, given, torn>>
    BY <1>2, <2>1 DEF SectRd, Processing
  <2> HIDE DEF ints, next
  <2>4. fx_state' = next /\ broken' = broken
    BY <2>3 DEF Finish
  <2>5. interrupt_required' \in BOOLEAN
    BY <2>3, Zenon
  <2>6. FloppyTyped'
    BY <1>1, <2>2, <2>3, <2>5, FinishKeeps DEF FloppyTyped, Waiting
  <2>7. Filled'
    <3>1. buf' \in [0..BlkSize - 1 -> 0..Disk]
      BY <2>1, UzFxAssumption DEF Filled, Disk
    <3>2. fx_state' \in {"BUF_RD", "IDLE"} /\ given' = 0 /\ buf_pos' = 0 /\ 0 \in 0..BlkSize - 1
      BY <2>2, <2>3, <2>4, UzFxAssumption DEF Filled, Filling
    <3> QED
      BY <3>1, <3>2, UzFxAssumption DEF Filled, Filling
  <2>8. DoorsKept' /\ WorkIsScheduled' /\ WriterIsAnswered' /\ WriteRemembers' /\ SectorsWhole'
    BY <1>1, <2>2, <2>3, FinishKeeps DEF Waiting, SectorsWhole
  <2> QED
    BY <2>6, <2>7, <2>8
<1>3. CASE BufRdCancel
  <2>1. Finish("IDLE", {FxReady}) /\ fx_state = "BUF_RD_CANCEL" /\ buf_pos' = 0 /\ address' = Advanced
        /\ interrupt_required' = FALSE /\ UNCHANGED <<buf, pending_buf_write, given, torn>>
    BY <1>3 DEF BufRdCancel, Processing
  <2>2. fx_state' = "IDLE" /\ broken' = broken
    BY <2>1 DEF Finish
  <2>3. interrupt_required' \in BOOLEAN
    BY <2>1, Zenon
  <2>4. FloppyTyped'
    BY <1>1, <2>1, <2>3, AdvancedTyped, FinishKeeps DEF FloppyTyped, Waiting
  <2>5. Filled'
    BY <2>1, <2>2, UzFxAssumption DEF Filled, Filling
  <2>6. DoorsKept' /\ WorkIsScheduled' /\ WriterIsAnswered' /\ WriteRemembers' /\ SectorsWhole'
    BY <1>1, <2>1, FinishKeeps DEF Waiting, SectorsWhole
  <2> QED
    BY <2>4, <2>5, <2>6
<1>4. CASE BufWrStart
  <2> DEFINE ints == {FxReady} \cup IF AtMediaEnd(address) THEN {DiskEnd} ELSE {}
  <2>1. Finish("BUF_WR", ints) /\ fx_state = "BUF_WR_START" /\ interrupt_required' = FALSE
        /\ UNCHANGED <<address, pending_buf_write, buf, buf_pos, given, torn>>
    BY <1>4 DEF BufWrStart, Processing
  <2>2. ints # {}
    OBVIOUS
  <2> HIDE DEF ints
  <2>3. fx_state' = "BUF_WR" /\ broken' = broken
    BY <2>1 DEF Finish
  <2>4. interrupt_required' \in BOOLEAN
    BY <2>1, Zenon
  <2>5. FloppyTyped'
    BY <1>1, <2>1, <2>2, <2>4, FinishKeeps DEF FloppyTyped, Waiting
  <2>6. Filled'
    BY <2>1, <2>3 DEF Filled, Filling
  <2>7. DoorsKept' /\ WorkIsScheduled' /\ WriterIsAnswered' /\ WriteRemembers' /\ SectorsWhole'
    BY <1>1, <2>1, <2>2, FinishKeeps DEF Waiting, SectorsWhole
  <2> QED
    BY <2>5, <2>6, <2>7
<1>5. CASE SectWr
  <2> DEFINE cancel == fx_state = "BUF_WR_CANCEL"
             next == IF pending_buf_write THEN "BUF_WR_START" ELSE "IDLE"
             ints(r) == (CASE r = "OK" -> {} [] r = "MEDIA_END" -> {DiskEnd}
                           [] r = "NO_SECTOR" -> {NotFound} [] r = "FAULT" -> {HwErr})
                        \cup IF WriteRaises(cancel) THEN {FxReady} ELSE {}
  <2>1. /\ fx_state \in {"SECT_WR", "BUF_WR_CANCEL"}
        /\ buf' = IF cancel THEN Padded ELSE buf
        /\ buf_pos' = 0 /\ given' = 0 /\ pending_buf_write' = FALSE
    BY <1>5 DEF SectWr, Processing
  <2>2. PICK r \in BlkResults :
          /\ address' = IF r \in Done THEN Advanced ELSE address
          /\ torn' = (torn \/ (~broken /\ r \in Done /\ buf' # Meant))
          /\ Finish(next, ints(r))
          /\ interrupt_required' = (interrupt_required /\ ints(r) = {})
    BY <1>5 DEF SectWr
  <2>3. next \in {"BUF_WR_START", "IDLE"}
    OBVIOUS
  <2>4. ints(r) = {} => next = "BUF_WR_START" \/ owed \cap {"write", "detach"} = {}
    <3>1. CASE cancel \/ interrupt_required
      BY <3>1 DEF WriteRaises
    <3>2. CASE ~cancel /\ ~interrupt_required /\ pending_buf_write
      BY <3>2
    <3>3. CASE ~cancel /\ ~interrupt_required /\ ~pending_buf_write
      BY <2>1, <3>3 DEF WriteRemembers
    <3> QED
      BY <3>1, <3>2, <3>3
  <2> HIDE DEF ints, next
  <2>5. fx_state' = next /\ broken' = broken
    BY <2>2 DEF Finish
  <2>6. interrupt_required' \in BOOLEAN /\ pending_buf_write' \in BOOLEAN /\ torn' \in BOOLEAN
    BY <2>1, <2>2, Zenon
  <2>7. FloppyTyped'
    BY <1>1, <2>2, <2>3, <2>4, <2>6, AdvancedTyped, FinishKeeps DEF FloppyTyped, Waiting
  <2>8. Padded \in [0..BlkSize - 1 -> 0..Disk]
    BY UzFxAssumption DEF Padded, Filled, Disk
  <2>9. Filled'
    BY <2>1, <2>3, <2>5, <2>8, UzFxAssumption DEF Filled, Filling
  <2>10. ~broken => buf' = Meant
    <3>1. CASE cancel /\ ~broken
      <4>1. buf_pos = given /\ \A i \in 0..BlkSize - 1 : i < given => buf[i] = i + 1
        BY <3>1 DEF Filled, Filling
      <4> QED
        BY <2>1, <3>1, <4>1, UzFxAssumption DEF Padded, Meant, Filled
    <3>2. CASE ~cancel /\ ~broken
      <4>1. given = BlkSize /\ \A i \in 0..BlkSize - 1 : i < given => buf[i] = i + 1
        BY <2>1, <3>2 DEF Filled
      <4>2. buf = [i \in 0..BlkSize - 1 |-> i + 1]
        BY <4>1, UzFxAssumption DEF Filled
      <4> QED
        BY <2>1, <3>2, <4>1, <4>2, UzFxAssumption DEF Meant
    <3> QED
      BY <3>1, <3>2
  <2>11. SectorsWhole'
    BY <2>2, <2>10 DEF SectorsWhole
  <2>12. DoorsKept' /\ WorkIsScheduled' /\ WriterIsAnswered' /\ WriteRemembers'
    BY <1>1, <2>1, <2>2, <2>3, <2>4, FinishKeeps DEF Waiting
  <2> QED
    BY <2>7, <2>9, <2>11, <2>12
<1> QED
  BY <1>2, <1>3, <1>4, <1>5

(* The program's commands. *)
LEMMA FloppyCommand ==
  ASSUME FloppyInv,
         \/ \E st \in {"SECT_RD", "BUF_WR_START"} : Start(st)
         \/ ReadByte \/ WriteByte \/ DetachIdle \/ DetachCancel
         \/ \E a \in Addresses : Control(a)
  PROVE  FloppyInv'
<1> USE DEF FloppyInv
<1>1. ASSUME NEW st \in {"SECT_RD", "BUF_WR_START"}, Start(st) PROVE FloppyInv'
  <2>1. /\ fx_state = "IDLE" /\ fx_state' = st /\ doors_locked' = TRUE /\ kick' = TRUE
        /\ owed' \subseteq Followed
        /\ UNCHANGED <<address, pending_buf_write, interrupt_required, buf, buf_pos, given, broken, torn,
                       async_process, timer_process, image, state_mutex, int_mutex>>
    BY <1>1 DEF Start, Command, Owing, InMemory, FloppyTyped
  <2>2. doors_locked' \in BOOLEAN /\ kick' \in BOOLEAN
    BY <2>1, Zenon
  <2>3. FloppyTyped'
    BY <2>1, <2>2 DEF FloppyTyped
  <2>4. Filled'
    BY <2>1 DEF Filled, Filling
  <2> QED
    BY <2>1, <2>3, <2>4
    DEF DoorsKept, WorkIsScheduled, WriterIsAnswered, WriteRemembers, SectorsWhole, Waiting
<1>2. CASE ReadByte
  <2>1. /\ fx_state = "BUF_RD" /\ UNCHANGED <<pending_buf_write, interrupt_required, wake, buf, image,
                                             state_mutex, int_mutex, fxHistory>>
        /\ \/ buf_pos' = 0 /\ address' = Advanced /\ fx_state' = "IDLE" /\ doors_locked' = FALSE
           \/ ~BufEnd /\ buf_pos' = buf_pos + 1 /\ UNCHANGED <<address, fx_state, doors_locked>>
    BY <1>2 DEF ReadByte, Command
  <2>2. doors_locked' \in BOOLEAN
    <3>1. doors_locked' = FALSE \/ doors_locked' = doors_locked
      BY <2>1
    <3> QED
      BY <3>1, Zenon DEF FloppyTyped
  <2>3. address' \in Nat \X Nat
    BY <2>1, AdvancedTyped DEF FloppyTyped
  <2>4. FloppyTyped'
    BY <2>1, <2>2, <2>3 DEF FloppyTyped, Waiting, wake, fxHistory
  <2>5. Filled'
    BY <2>1, UzFxAssumption DEF Filled, Filling, BufEnd, fxHistory
  <2> QED
    BY <2>1, <2>4, <2>5
    DEF DoorsKept, WorkIsScheduled, WriterIsAnswered, WriteRemembers, SectorsWhole, Waiting, wake, fxHistory
<1>3. CASE WriteByte
  <2>1. /\ fx_state = "BUF_WR"
        /\ buf' = [buf EXCEPT ![buf_pos] = given + 1] /\ given' = given + 1
        /\ UNCHANGED <<address, pending_buf_write, interrupt_required, doors_locked, owed, broken, torn,
                       async_process, timer_process, image, state_mutex, int_mutex>>
        /\ \/ BufEnd /\ buf_pos' = 0 /\ fx_state' = "SECT_WR" /\ kick' = TRUE
           \/ ~BufEnd /\ buf_pos' = buf_pos + 1 /\ UNCHANGED <<fx_state, kick>>
    BY <1>3 DEF WriteByte, Command, InMemory, KickAtEnd
  <2>2. kick' \in BOOLEAN
    <3>1. kick' = TRUE \/ kick' = kick
      BY <2>1
    <3> QED
      BY <3>1, Zenon DEF FloppyTyped
  <2>3. FloppyTyped'
    BY <2>1, <2>2 DEF FloppyTyped, Waiting
  <2>4. given <= buf_pos /\ buf_pos \in 0..BlkSize - 1 /\ given \in Nat /\ BlkSize \in Nat
        /\ (~broken => buf_pos = given)
    BY <2>1, UzFxAssumption DEF Filled, Filling
  <2>5. buf' \in [0..BlkSize - 1 -> 0..Disk] /\ given' \in 0..BlkSize /\ buf_pos' \in 0..BlkSize - 1
    BY <2>1, <2>4 DEF Filled, Disk, BufEnd
  <2>6. ~broken' => \A i \in 0..BlkSize - 1 : i < given' => buf'[i] = i + 1
    BY <2>1, <2>4 DEF Filled
  <2>7. CASE BufEnd
    <3>1. fx_state' = "SECT_WR" /\ buf_pos' = 0
      BY <2>1, <2>7
    <3>2. buf_pos = BlkSize - 1
      BY <2>4, <2>7 DEF BufEnd
    <3>3. Filled'
      BY <2>1, <2>4, <2>5, <2>6, <3>1, <3>2 DEF Filled, Filling
    <3> QED
      BY <2>1, <2>3, <2>7, <3>1, <3>3
      DEF DoorsKept, WorkIsScheduled, WriterIsAnswered, WriteRemembers, SectorsWhole, Waiting
  <2>8. CASE ~BufEnd
    <3>1. fx_state' = "BUF_WR" /\ buf_pos' = buf_pos + 1
      BY <2>1, <2>8
    <3>2. Filled'
      <4>1. given' <= buf_pos' /\ (~broken' => buf_pos' = given')
        BY <2>1, <2>4, <3>1
      <4> QED
        BY <2>5, <2>6, <3>1, <4>1 DEF Filled, Filling
    <3> QED
      BY <2>1, <2>3, <2>8, <3>1, <3>2
      DEF DoorsKept, WorkIsScheduled, WriterIsAnswered, WriteRemembers, SectorsWhole, Waiting
  <2> QED
    BY <2>7, <2>8
<1>4. CASE DetachIdle
  <2>1. /\ fx_state = "IDLE" /\ doors_locked' = FALSE
        /\ UNCHANGED <<operation, wake, buf, buf_pos, image, state_mutex, int_mutex, fxHistory>>
    BY <1>4 DEF DetachIdle, Command
  <2>2. doors_locked' \in BOOLEAN
    BY <2>1, Zenon
  <2>3. FloppyTyped'
    BY <2>1, <2>2 DEF FloppyTyped, operation, wake, fxHistory
  <2> QED
    BY <2>1, <2>3
    DEF Filled, Filling, DoorsKept, WorkIsScheduled, WriterIsAnswered, WriteRemembers, SectorsWhole,
        Waiting, operation, wake, fxHistory
<1>5. CASE DetachCancel
  <2>1. /\ \/ fx_state = "BUF_RD" /\ fx_state' = "BUF_RD_CANCEL"
           \/ fx_state = "BUF_WR" /\ fx_state' = "BUF_WR_CANCEL"
        /\ kick' = TRUE /\ owed' \subseteq Followed
        /\ UNCHANGED <<address, pending_buf_write, interrupt_required, buf, buf_pos, doors_locked, given,
                       broken, torn, async_process, timer_process, image, state_mutex, int_mutex>>
    BY <1>5 DEF DetachCancel, Command, Owing, InMemory, FloppyTyped
  <2>2. kick' \in BOOLEAN
    BY <2>1, Zenon
  <2>3. FloppyTyped'
    BY <2>1, <2>2 DEF FloppyTyped
  <2>4. Filled'
    BY <2>1 DEF Filled, Filling
  <2> QED
    BY <2>1, <2>3, <2>4
    DEF DoorsKept, WorkIsScheduled, WriterIsAnswered, WriteRemembers, SectorsWhole, Waiting
<1>6. ASSUME NEW a \in Addresses, Control(a) PROVE FloppyInv'
  <2>1. /\ fx_state = "IDLE" /\ address' = a
        /\ UNCHANGED <<fx_state, pending_buf_write, interrupt_required, wake, buf, buf_pos, image, int_mutex,
                       fxHistory>>
        /\ \/ doors_locked' = TRUE /\ UNCHANGED state_mutex
           \/ state_mutex' = "cpu" /\ UNCHANGED doors_locked
    BY <1>6 DEF Control, Command
  <2>2. doors_locked' \in BOOLEAN
    <3>1. doors_locked' = TRUE \/ doors_locked' = doors_locked
      BY <2>1
    <3> QED
      BY <3>1, Zenon DEF FloppyTyped
  <2>3. FloppyTyped'
    BY <2>1, <2>2, UzFxAssumption DEF FloppyTyped, wake, fxHistory
  <2> QED
    BY <2>1, <2>3
    DEF Filled, Filling, DoorsKept, WorkIsScheduled, WriterIsAnswered, WriteRemembers, SectorsWhole,
        Waiting, wake, fxHistory
<1> QED
  BY <1>1, <1>2, <1>3, <1>4, <1>5, <1>6

(* A command that has to wait is remembered, a reset forgets. *)
LEMMA FloppyEngagedOrReset ==
  ASSUME FloppyInv,
         \/ \E c \in {"read", "write", "detach", "control"} : Engaged(c)
         \/ \E unlock \in BOOLEAN : StateReset(unlock)
  PROVE  FloppyInv'
<1> USE DEF FloppyInv
<1>1. ASSUME NEW c \in {"read", "write", "detach", "control"}, Engaged(c) PROVE FloppyInv'
  <2>1. /\ pending_buf_write' = (pending_buf_write \/ (c = "write" /\ fx_state = "SECT_WR"))
        /\ interrupt_required' = (interrupt_required \/ (c = "detach" /\ fx_state = "SECT_WR"))
        /\ IF fx_state \in Waiting THEN owed' = owed ELSE owed' = owed \cup ({c} \cap Followed)
        /\ UNCHANGED <<async_process, timer_process, image, state_mutex, int_mutex>>
        /\ UNCHANGED <<fx_state, address, kick, buf, buf_pos, doors_locked, given, broken, torn>>
    BY <1>1 DEF Engaged, InMemory, Owing
  <2>2. pending_buf_write' \in BOOLEAN /\ interrupt_required' \in BOOLEAN
    BY <2>1, Zenon
  <2>3. FloppyTyped'
    BY <2>1, <2>2 DEF FloppyTyped, Waiting
  <2>4. WriteRemembers'
    BY <2>1 DEF WriteRemembers, Waiting
  <2>5. WriterIsAnswered'
    BY <2>1 DEF WriterIsAnswered
  <2> QED
    BY <2>1, <2>3, <2>4, <2>5 DEF Filled, Filling, DoorsKept, WorkIsScheduled, SectorsWhole, Waiting
<1>2. ASSUME NEW unlock \in BOOLEAN, StateReset(unlock) PROVE FloppyInv'
  <2>1. /\ fx_state' = "IDLE" /\ address' = <<1, 1>>
        /\ pending_buf_write' = FALSE /\ interrupt_required' = FALSE
        /\ doors_locked' = (doors_locked /\ ~unlock)
        /\ owed' = {} /\ given' = 0 /\ broken' = (broken \/ buf_pos # 0)
        /\ UNCHANGED <<wake, buf, buf_pos, image, state_mutex, int_mutex, torn>>
    BY <1>2 DEF StateReset
  <2>2. /\ pending_buf_write' \in BOOLEAN /\ interrupt_required' \in BOOLEAN
        /\ doors_locked' \in BOOLEAN /\ broken' \in BOOLEAN
    BY <2>1, Zenon
  <2>3. FloppyTyped'
    BY <2>1, <2>2 DEF FloppyTyped, Waiting, wake
  <2>4. Filled'
    <3>1. ~broken' => buf_pos' = 0
      BY <2>1
    <3>2. given' = 0 /\ 0 \in 0..BlkSize /\ fx_state' \notin Filling \cup {"SECT_WR", "BUF_RD", "BUF_RD_CANCEL"}
      BY <2>1, UzFxAssumption DEF Filling
    <3>3. buf' \in [0..BlkSize - 1 -> 0..Disk] /\ buf_pos' \in 0..BlkSize - 1
      BY <2>1 DEF Filled
    <3> QED
      BY <3>1, <3>2, <3>3 DEF Filled
  <2> QED
    BY <2>1, <2>3, <2>4
    DEF DoorsKept, WorkIsScheduled, WriterIsAnswered, WriteRemembers, SectorsWhole, Waiting
<1> QED
  BY <1>1, <1>2

LEMMA FloppyStep ==
  ASSUME ChannelInv, FloppyInv, FxNext
  PROVE  FloppyInv' /\ FloppyReports
<1>1. FloppyReports
  BY FloppyLoopReports, FloppyCpuReports
<1>2. FloppyInv'
  <2>1. CASE FxResetUnit /\ UNCHANGED uzfxVars
    BY <2>1
    DEF uzfxVars, FloppyInv, FloppyTyped, DoorsKept, WorkIsScheduled, WriterIsAnswered, WriteRemembers,
        Filled, SectorsWhole
  <2>2. CASE CmdReset \/ (FxResetUnit /\ ~UNCHANGED uzfxVars)
    BY <2>2, FloppyEngagedOrReset DEF CmdReset, FxResetUnit
  <2> QED
    BY <2>1, <2>2, FloppyAside, FloppyTurn, FloppyCommand, FloppyEngagedOrReset DEF FxNext, FxLoop
<1> QED
  BY <1>1, <1>2

-----------------------------------------------------------------------------
(* The clock. *)

Days == UNION {1..MonthDays[m] : m \in DOMAIN MonthDays}

LEMMA Calendar ==
  /\ \A m \in DOMAIN MonthDays : MonthDays[m] \in Nat \ {0} /\ 1..MonthDays[m] \subseteq Days
  /\ DOMAIN MonthDays = 1..Len(MonthDays) /\ Len(MonthDays) \in Nat \ {0}
  /\ 1 \in Days /\ Days \subseteq Nat
<1>1. MonthDays \in Seq(Nat \ {0}) /\ MonthDays # <<>>
  BY MecloAssumption
<1>2. DOMAIN MonthDays = 1..Len(MonthDays) /\ Len(MonthDays) \in Nat \ {0}
  BY <1>1
<1>3. \A m \in DOMAIN MonthDays : MonthDays[m] \in Nat \ {0}
  BY <1>1
<1>4. \A m \in DOMAIN MonthDays : 1..MonthDays[m] \subseteq Days
  BY DEF Days
<1>5. 1 \in DOMAIN MonthDays /\ 1 \in 1..MonthDays[1]
  BY <1>2, <1>3
<1>6. Days \subseteq Nat
  BY <1>3 DEF Days
<1> QED
  BY <1>2, <1>3, <1>4, <1>5, <1>6

LEMMA ClocksOf ==
  ASSUME NEW c
  PROVE  c \in Clocks <=>
           /\ c = [month |-> c.month, day |-> c.day, hour |-> c.hour, minute |-> c.minute, second |-> c.second]
           /\ c.month \in DOMAIN MonthDays /\ c.day \in Days /\ c.hour \in 0..MaxHour
           /\ c.minute \in 0..MaxMinute /\ c.second \in 0..MaxSecond
BY DEF Clocks, Days

(* the keys, and a second, make a time of a time *)
LEMMA SetTyped ==
  ASSUME NEW c \in Clocks, clock \in Clocks
  PROVE  ClockSet(c) \in Clocks
<1> DEFINE d == ClockSet(c)
<1>1. /\ c.month \in DOMAIN MonthDays /\ c.day \in Days /\ c.hour \in 0..MaxHour
      /\ c.minute \in 0..MaxMinute /\ c.second \in 0..MaxSecond
  BY DEF Clocks, Days
<1>2. /\ d.month \in {c.month, Wrap(c.month, Len(MonthDays), 1)} /\ d.day \in {c.day, NextDay(c.day)}
      /\ d.hour \in {c.hour, Wrap(c.hour, MaxHour, 0)}
      /\ d.minute \in {c.minute, Wrap(c.minute, MaxMinute, 0)} /\ d.second = c.second
      /\ d = [month |-> d.month, day |-> d.day, hour |-> d.hour, minute |-> d.minute, second |-> d.second]
  <2>1. c = [month |-> c.month, day |-> c.day, hour |-> c.hour, minute |-> c.minute, second |-> c.second]
    BY ClocksOf
  <2>2. PICK day, month, hour, minute :
          /\ d = [c EXCEPT !.day = day, !.month = month, !.hour = hour, !.minute = minute]
          /\ day \in {c.day, NextDay(c.day)} /\ month \in {c.month, Wrap(c.month, Len(MonthDays), 1)}
          /\ hour \in {c.hour, Wrap(c.hour, MaxHour, 0)} /\ minute \in {c.minute, Wrap(c.minute, MaxMinute, 0)}
    <3> DEFINE hs == "hs" \in pressed  dr == "dr" \in pressed  tr == "tr" \in pressed
               day == IF hs /\ dr /\ tr THEN NextDay(c.day) ELSE c.day
               month == IF hs /\ dr /\ ~tr THEN Wrap(c.month, Len(MonthDays), 1) ELSE c.month
               hour == IF hs /\ ~dr THEN Wrap(c.hour, MaxHour, 0) ELSE c.hour
               minute == IF "ms" \in pressed THEN Wrap(c.minute, MaxMinute, 0) ELSE c.minute
    <3>1. d = [c EXCEPT !.day = day, !.month = month, !.hour = hour, !.minute = minute]
      BY <2>1 DEF ClockSet
    <3>2. /\ day \in {c.day, NextDay(c.day)} /\ month \in {c.month, Wrap(c.month, Len(MonthDays), 1)}
          /\ hour \in {c.hour, Wrap(c.hour, MaxHour, 0)} /\ minute \in {c.minute, Wrap(c.minute, MaxMinute, 0)}
      OBVIOUS
    <3> HIDE DEF d, day, month, hour, minute
    <3> QED
      BY <3>1, <3>2
  <2> HIDE DEF d
  <2>3. d = [month |-> month, day |-> day, hour |-> hour, minute |-> minute, second |-> c.second]
    BY <2>1, <2>2
  <2> QED
    BY <2>2, <2>3
<1>3. clock.month \in DOMAIN MonthDays
  BY DEF Clocks
<1>4. NextDay(c.day) \in Days
  <2>1. MDays \in Nat /\ 1..MDays \subseteq Days /\ 1 \in Days /\ c.day \in Nat
    BY <1>1, <1>3, Calendar DEF MDays
  <2>2. c.day + 1 \in Nat /\ (c.day < MDays => c.day + 1 \in 1..MDays)
    BY <2>1
  <2> QED
    BY <2>1, <2>2 DEF NextDay, Wrap
<1>5. /\ Wrap(c.month, Len(MonthDays), 1) \in DOMAIN MonthDays
      /\ Wrap(c.hour, MaxHour, 0) \in 0..MaxHour /\ Wrap(c.minute, MaxMinute, 0) \in 0..MaxMinute
  <2>1. MaxHour \in Nat /\ MaxMinute \in Nat
    BY MecloAssumption
  <2>2. c.month \in 1..Len(MonthDays) /\ DOMAIN MonthDays = 1..Len(MonthDays) /\ Len(MonthDays) \in Nat \ {0}
    BY <1>1, Calendar
  <2>3. Wrap(c.month, Len(MonthDays), 1) \in DOMAIN MonthDays
    BY <2>2 DEF Wrap
  <2>4. Wrap(c.hour, MaxHour, 0) \in 0..MaxHour /\ Wrap(c.minute, MaxMinute, 0) \in 0..MaxMinute
    BY <1>1, <2>1 DEF Wrap
  <2> QED
    BY <2>3, <2>4
<1> HIDE DEF d
<1>6. d \in Clocks
  BY <1>1, <1>2, <1>4, <1>5, ClocksOf
<1> QED
  BY <1>6 DEF d

LEMMA AdvanceTyped ==
  ASSUME NEW c \in Clocks, clock \in Clocks
  PROVE  Advance(c, MDays) \in Clocks
<1> DEFINE d == Advance(c, MDays)
<1>1. /\ c.month \in DOMAIN MonthDays /\ c.day \in Days /\ c.hour \in 0..MaxHour
      /\ c.minute \in 0..MaxMinute /\ c.second \in 0..MaxSecond
  BY DEF Clocks, Days
<1>2. clock.month \in DOMAIN MonthDays
  BY DEF Clocks
<1>3. c.day + 1 \in Days \/ DayCarries(c, MDays)
  <2>1. MDays \in Nat /\ 1..MDays \subseteq Days /\ c.day \in Nat
    BY <1>1, <1>2, Calendar DEF MDays
  <2>2. c.day + 1 \in 1..MDays \/ c.day + 1 > MDays
    BY <2>1
  <2> QED
    BY <2>1, <2>2 DEF DayCarries
<1>4. /\ d.month \in {c.month, Wrap(c.month, Len(MonthDays), 1)}
      /\ d.day \in {1, c.day} \/ (d.day = c.day + 1 /\ ~DayCarries(c, MDays))
      /\ d.hour \in {0, c.hour} \/ (d.hour = c.hour + 1 /\ ~(c.hour + 1 > MaxHour))
      /\ d.minute \in {0, c.minute} \/ (d.minute = c.minute + 1 /\ ~(c.minute + 1 > MaxMinute))
      /\ d.second = 0 \/ (d.second = c.second + 1 /\ ~(c.second + 1 > MaxSecond))
      /\ d = [month |-> d.month, day |-> d.day, hour |-> d.hour, minute |-> d.minute, second |-> d.second]
  BY DEF Advance
<1>5. Wrap(c.month, Len(MonthDays), 1) \in DOMAIN MonthDays
  BY <1>1, Calendar DEF Wrap
<1> HIDE DEF d
<1>6. d.month \in DOMAIN MonthDays /\ d.day \in Days
  BY <1>1, <1>3, <1>4, <1>5, Calendar
<1>7. d.hour \in 0..MaxHour /\ d.minute \in 0..MaxMinute /\ d.second \in 0..MaxSecond
  <2>1. MaxHour \in Nat /\ MaxMinute \in Nat /\ MaxSecond \in Nat
    BY MecloAssumption
  <2>2. d.hour \in 0..MaxHour
    BY <1>1, <1>4, <2>1
  <2>3. d.minute \in 0..MaxMinute
    BY <1>1, <1>4, <2>1
  <2>4. d.second \in 0..MaxSecond
    BY <1>1, <1>4, <2>1
  <2> QED
    BY <2>2, <2>3, <2>4
<1>8. d \in Clocks
  BY <1>4, <1>6, <1>7, ClocksOf
<1> QED
  BY <1>8 DEF d

LEMMA ClockStep ==
  ASSUME ClockTyped, DateEnds, MecloNext
  PROVE  ClockTyped' /\ DateEnds'
<1> USE DEF ClockTyped
<1>1. CASE Tick
  <2>1. ClockSet(clock) \in Clocks
    BY SetTyped
  <2>2. clock' \in Clocks
    <3>1. clock' = ClockSet(clock) \/ clock' = Advance(ClockSet(clock), MDays)
      BY <1>1 DEF Tick
    <3> QED
      BY <2>1, <3>1, AdvanceTyped
  <2>3. seconds_read' \in BOOLEAN /\ seconds_advance' \in BOOLEAN
    BY <1>1 DEF Tick
  <2>4. has_int' \in BOOLEAN
    <3>1. has_int' = TRUE \/ has_int' = FALSE
      BY <1>1 DEF Tick
    <3> QED
      BY <3>1, Zenon
  <2> QED
    BY <1>1, <2>2, <2>3, <2>4 DEF Tick, DateEnds
<1>2. ASSUME NEW t \in {"display", "switch", "keep"}, OnAsync(t) PROVE ClockTyped' /\ DateEnds'
  BY <1>2 DEF OnAsync, switches, DateEnds
<1>3. CASE DisplayUpdate
  BY <1>3 DEF DisplayUpdate, switches, DateEnds
<1>4. CASE SecondsSwitch
  <2>1. seconds_read' = TRUE /\ cycle_seconds' = TRUE
    BY <1>4 DEF SecondsSwitch
  <2>2. seconds_read' \in BOOLEAN /\ cycle_seconds' \in BOOLEAN
    BY <2>1, Zenon
  <2> QED
    BY <1>4, <2>2 DEF SecondsSwitch, DateEnds
<1>5. CASE KeepDateEnds
  <2>1. keep_date_read' = FALSE
    BY <1>5 DEF KeepDateEnds
  <2>2. keep_date_read' \in BOOLEAN
    BY <2>1, Zenon
  <2> QED
    BY <1>5, <2>1, <2>2 DEF KeepDateEnds, switches, DateEnds
<1>6. ASSUME NEW keys \in Keys, ClockOp(keys) PROVE ClockTyped' /\ DateEnds'
  <2>1. /\ pressed' = keys
        /\ seconds_read' = ("tr" \in keys /\ seconds_read) /\ cycle_seconds' = ("tr" \in keys /\ cycle_seconds)
        /\ clock_stopped' = ("ms" \in keys \/ (~("tr" \in keys) /\ clock_stopped))
        /\ keep_date_read' = (keep_date_read \/ KeepsDate(keys))
    BY <1>6 DEF ClockOp
  <2>2. /\ seconds_read' \in BOOLEAN /\ cycle_seconds' \in BOOLEAN
        /\ clock_stopped' \in BOOLEAN /\ keep_date_read' \in BOOLEAN
    BY <2>1, Zenon
  <2>3. clock' \in Clocks
    <3>1. CASE clock' = clock
      BY <3>1
    <3>2. CASE clock' = [clock EXCEPT !.second = 0]
      <4>1. 0 \in 0..MaxSecond
        BY MecloAssumption
      <4> QED
        BY <3>2, <4>1 DEF Clocks
    <3> QED
      BY <1>6, <3>1, <3>2 DEF ClockOp
  <2>4. to_send' \subseteq {"display", "switch", "keep"} /\ (KeepsDate(keys) => "keep" \in to_send')
    BY <1>6 DEF ClockOp, KeepsDate
  <2>5. UNCHANGED <<seconds_advance, display, sent, timers, has_int>> /\ to_send = {}
    BY <1>6 DEF ClockOp
  <2>6. pressed' \subseteq {"hs", "ms", "dr", "tr", "irq"}
    BY <2>1, MecloAssumption
  <2>7. DateEnds'
    BY <2>1, <2>4, <2>5 DEF DateEnds
  <2> QED
    BY <2>2, <2>3, <2>4, <2>5, <2>6, <2>7
<1>7. CASE Send
  BY <1>7 DEF Send, switches, DateEnds
<1>8. CASE MecloIntSpec
  <2>1. has_int' = FALSE
    BY <1>8 DEF MecloIntSpec
  <2>2. has_int' \in BOOLEAN
    BY <2>1, Zenon
  <2> QED
    BY <1>8, <2>2 DEF MecloIntSpec, switches, DateEnds
<1>9. CASE MecloReset
  <2>1. seconds_read' = FALSE /\ cycle_seconds' = FALSE /\ clock_stopped' = FALSE
    BY <1>9 DEF MecloReset
  <2>2. seconds_read' \in BOOLEAN /\ cycle_seconds' \in BOOLEAN /\ clock_stopped' \in BOOLEAN
    BY <2>1, Zenon
  <2> QED
    BY <1>9, <2>2 DEF MecloReset, DateEnds
<1> QED
  BY <1>1, <1>2, <1>3, <1>4, <1>5, <1>6, <1>7, <1>8, <1>9 DEF MecloNext

-----------------------------------------------------------------------------
(* The calendar counts.  The days of the year before a month are those of  *)
(* the months before it, added up; each unit above is a digit of a number. *)

LEMMA UpTo ==
  ASSUME NEW S, NEW n \in Nat, 0 \in S, \A k \in 0..n - 1 : k \in S => k + 1 \in S
  PROVE  0..n \subseteq S
<1> SUFFICES ASSUME NEW j \in 0..n, j \notin S PROVE FALSE
  OBVIOUS
<1> DEFINE T == {k \in 0..n : k \notin S}
<1>1. PICK m \in T : \A k \in T : m <= k
  <2>1. T \in SUBSET Nat /\ T # {}
    OBVIOUS
  <2> HIDE DEF T
  <2> QED
    BY <2>1, LeastExists
<1>2. m # 0 /\ m \in 0..n /\ m - 1 \in 0..n - 1 /\ m - 1 \notin T
  BY <1>1
<1>3. m - 1 \in S
  BY <1>2
<1> QED
  BY <1>1, <1>2, <1>3

LEMMA ElapsedExists ==
  \E g : g = [k \in 0..Len(MonthDays) |-> IF k = 0 THEN 0 ELSE g[k - 1] + MonthDays[k]]
<1> DEFINE Good(j) == \E g : g = [k \in 0..j |-> IF k = 0 THEN 0 ELSE g[k - 1] + MonthDays[k]]
           T == {j \in Nat : Good(j)}
<1>1. 0 \in T
  <2> DEFINE g == [k \in 0..0 |-> 0]
  <2>1. g = [k \in 0..0 |-> IF k = 0 THEN 0 ELSE g[k - 1] + MonthDays[k]]
    OBVIOUS
  <2> HIDE DEF g
  <2>2. Good(0)
    BY <2>1
  <2> QED
    BY <2>2
<1>2. ASSUME NEW j \in Nat, j \in T PROVE j + 1 \in T
  <2>1. PICK g : g = [k \in 0..j |-> IF k = 0 THEN 0 ELSE g[k - 1] + MonthDays[k]]
    BY <1>2
  <2> DEFINE h == [k \in 0..j + 1 |-> IF k <= j THEN g[k] ELSE g[j] + MonthDays[j + 1]]
  <2>2. ASSUME NEW k \in 0..j + 1 PROVE h[k] = IF k = 0 THEN 0 ELSE h[k - 1] + MonthDays[k]
    <3>1. CASE k = 0
      BY <3>1, <2>1
    <3>2. CASE k \in 1..j
      BY <3>2, <2>1
    <3>3. CASE k = j + 1
      BY <3>3
    <3> QED
      BY <3>1, <3>2, <3>3
  <2>3. h = [k \in 0..j + 1 |-> IF k = 0 THEN 0 ELSE h[k - 1] + MonthDays[k]]
    BY <2>2
  <2> HIDE DEF h
  <2>4. Good(j + 1)
    BY <2>3
  <2> HIDE DEF Good
  <2> QED
    BY <2>4
<1>3. Len(MonthDays) \in Nat
  BY Calendar
<1> HIDE DEF T
<1>4. 0..Len(MonthDays) \subseteq T
  BY <1>1, <1>2, <1>3, UpTo
<1>5. Len(MonthDays) \in T
  BY <1>3, <1>4
<1> QED
  BY <1>5 DEF T

(* months follow one another and fill the year *)
LEMMA MonthsFollow ==
  /\ Elapsed[0] = 0
  /\ \A m \in 1..Len(MonthDays) : Elapsed[m] = Elapsed[m - 1] + MonthDays[m]
  /\ \A m \in 0..Len(MonthDays) : Elapsed[m] \in Nat
  /\ \A m \in 0..Len(MonthDays) : \A k \in 0..m : Elapsed[k] <= Elapsed[m]
<1> DEFINE N == Len(MonthDays)
<1>1. N \in Nat /\ \A m \in 1..N : MonthDays[m] \in Nat \ {0}
  BY Calendar
<1>2. Elapsed = [k \in 0..N |-> IF k = 0 THEN 0 ELSE Elapsed[k - 1] + MonthDays[k]]
  BY ElapsedExists DEF Elapsed
<1> HIDE DEF N
<1>3. Elapsed[0] = 0 /\ \A m \in 1..N : Elapsed[m] = Elapsed[m - 1] + MonthDays[m]
  <2>1. 0 \in 0..N /\ \A m \in 1..N : m \in 0..N /\ m # 0
    BY <1>1
  <2> QED
    BY <2>1, <1>2
<1> DEFINE T == {m \in 0..N : \A k \in 0..m : Elapsed[k] \in Nat /\ Elapsed[k] <= Elapsed[m]}
<1>4. 0 \in T
  BY <1>1, <1>3
<1>5. ASSUME NEW m \in 0..N - 1, m \in T PROVE m + 1 \in T
  <2>1. m + 1 \in 1..N /\ m + 1 \in 0..N /\ (m + 1) - 1 = m
    BY <1>1
  <2>2. Elapsed[m + 1] = Elapsed[m] + MonthDays[m + 1] /\ MonthDays[m + 1] \in Nat \ {0} /\ Elapsed[m] \in Nat
    <3>1. m \in 0..m
      OBVIOUS
    <3> QED
      BY <3>1, <2>1, <1>1, <1>3, <1>5
  <2>3. Elapsed[m + 1] \in Nat /\ Elapsed[m] <= Elapsed[m + 1]
    BY <2>2
  <2>4. ASSUME NEW k \in 0..m + 1 PROVE Elapsed[k] \in Nat /\ Elapsed[k] <= Elapsed[m + 1]
    <3>1. CASE k = m + 1
      BY <3>1, <2>3
    <3>2. CASE k \in 0..m
      <4>1. Elapsed[k] \in Nat /\ Elapsed[k] <= Elapsed[m]
        BY <3>2, <1>5
      <4> QED
        BY <4>1, <2>2
    <3> QED
      BY <3>1, <3>2
  <2> QED
    BY <2>1, <2>3, <2>4
<1> HIDE DEF T
<1>6. 0..N \subseteq T
  BY <1>1, <1>4, <1>5, UpTo
<1>7. \A m \in 0..N : \A k \in 0..m : Elapsed[k] \in Nat /\ Elapsed[k] <= Elapsed[m]
  BY <1>6 DEF T
<1>8. \A m \in 0..N : m \in 0..m
  BY <1>1
<1> QED
  BY <1>3, <1>7, <1>8 DEF N

\* the next of the numbers below m
Succeeding(v, m) == IF v + 1 < m THEN v + 1 ELSE 0

LEMMA SucceedingIs ==
  ASSUME NEW m \in Nat \ {0}, NEW v \in 0..m - 1
  PROVE  Succeeding(v, m) = (v + 1) % m /\ Succeeding(v, m) \in 0..m - 1
BY DEF Succeeding

(* a digit that wraps carries into the number above it *)
LEMMA DigitCarries ==
  ASSUME NEW base \in Nat \ {0}, NEW range \in Nat \ {0}, NEW x \in 0..base - 1, NEW y \in 0..range - 1
  PROVE  /\ base * range \in Nat \ {0} /\ x + base * y \in 0..base * range - 1
         /\ (IF x + 1 < base THEN x + 1 ELSE 0) + base * (IF x + 1 < base THEN y ELSE Succeeding(y, range))
              = Succeeding(x + base * y, base * range)
<1>1. y + 1 <= range /\ y + 1 \in Nat
  OBVIOUS
<1>2. base * (y + 1) = base * y + base /\ base * y \in Nat /\ base * range \in Nat
  OBVIOUS
<1>3. base * (y + 1) <= base * range
  <2>1. PICK d \in Nat : range = y + 1 + d
    <3>1. range - (y + 1) \in Nat /\ range = y + 1 + (range - (y + 1))
      BY <1>1
    <3> QED
      BY <3>1
  <2>2. base * range = base * (y + 1) + base * d /\ base * d \in Nat
    BY <2>1
  <2> QED
    BY <2>2, <1>1
<1>4. y + 1 = range => base * range = base * y + base
  BY <1>2
<1>5. y + 1 < range => base * (y + 1) + base <= base * range
  <2> SUFFICES ASSUME y + 1 < range PROVE base * (y + 1) + base <= base * range
    OBVIOUS
  <2>1. PICK d \in Nat : range = y + 2 + d
    <3>1. range - (y + 2) \in Nat /\ range = y + 2 + (range - (y + 2))
      OBVIOUS
    <3> QED
      BY <3>1
  <2>2. base * range = base * (y + 1) + base + base * d /\ base * d \in Nat
    BY <2>1
  <2> QED
    BY <2>2, <1>1
<1> PICK by \in Nat, br \in Nat, by1 \in Nat : by = base * y /\ br = base * range /\ by1 = base * (y + 1)
  BY <1>1, <1>2
<1>6. by1 = by + base /\ by1 <= br /\ (y + 1 = range => br = by + base) /\ (y + 1 < range => by1 + base <= br)
  BY <1>2, <1>3, <1>4, <1>5
<1>7. base * 0 = 0
  OBVIOUS
<1>8. br \in Nat \ {0} /\ x + by \in 0..br - 1
  BY <1>6
<1>9. CASE x + 1 < base
  <2>1. Succeeding(x + by, br) = x + 1 + by
    BY <1>6, <1>9 DEF Succeeding
  <2> QED
    BY <1>8, <1>9, <2>1
<1>10. CASE ~(x + 1 < base)
  <2>1. x + 1 = base
    BY <1>10
  <2>2. Succeeding(x + by, br) = IF y + 1 < range THEN by1 ELSE 0
    BY <1>6, <2>1 DEF Succeeding
  <2>3. base * Succeeding(y, range) = IF y + 1 < range THEN by1 ELSE 0
    BY <1>7 DEF Succeeding
  <2>4. 0 + base * Succeeding(y, range) = Succeeding(x + by, br)
    BY <2>2, <2>3
  <2> QED
    BY <1>8, <1>10, <2>4
<1> QED
  BY <1>9, <1>10

(* a day of a month that has it is a day of the year, and the day after is the next one *)
LEMMA DayAdvances ==
  ASSUME NEW m \in 1..Len(MonthDays), NEW day \in 1..MonthDays[m]
  PROVE  LET days == Elapsed[Len(MonthDays)]
             next == IF day + 1 > MonthDays[m] THEN Elapsed[Wrap(m, Len(MonthDays), 1) - 1]
                     ELSE day + Elapsed[m - 1]
         IN /\ days \in Nat \ {0} /\ day - 1 + Elapsed[m - 1] \in 0..days - 1
            /\ next = Succeeding(day - 1 + Elapsed[m - 1], days)
<1> PICK n \in Nat \ {0} : n = Len(MonthDays)
  BY Calendar
<1>1. m - 1 \in 0..n /\ m \in 0..n /\ n \in 0..n /\ m \in 0..n /\ m \in 1..n
  OBVIOUS
<1>2. PICK len \in Nat \ {0} : len = MonthDays[m] /\ day \in 1..len
  BY Calendar
<1>3. PICK before \in Nat, days \in Nat : before = Elapsed[m - 1] /\ days = Elapsed[n]
  BY <1>1, MonthsFollow
<1>4. before + len = Elapsed[m] /\ before + len <= days
  BY <1>1, <1>2, <1>3, MonthsFollow
<1> PICK d \in Nat : d = day - 1 + before
  BY <1>2, <1>3
<1>5. days \in Nat \ {0} /\ d \in 0..days - 1 /\ d + 1 = day + before
  BY <1>2, <1>4
<1>6. CASE ~(day + 1 > len)
  <2>1. d + 1 < days
    BY <1>2, <1>4, <1>5, <1>6
  <2>2. day + before = Succeeding(d, days)
    BY <1>5, <2>1 DEF Succeeding
  <2> QED
    BY <1>2, <1>3, <1>5, <1>6, <2>2
<1>7. CASE day + 1 > len /\ m < n
  <2>1. Wrap(m, n, 1) - 1 = m
    BY <1>7 DEF Wrap
  <2>2. before + len < days
    <3>1. m + 1 \in 1..n /\ m + 1 \in 0..n /\ (m + 1) - 1 = m
      BY <1>7
    <3>2. PICK then \in Nat \ {0} : then = MonthDays[m + 1]
      BY <3>1, Calendar
    <3>3. before + len + then = Elapsed[m + 1] /\ Elapsed[m + 1] <= days
      BY <3>1, <3>2, <1>1, <1>3, <1>4, MonthsFollow
    <3> QED
      BY <3>2, <3>3
  <2>3. d + 1 = before + len
    BY <1>2, <1>5, <1>7
  <2>4. before + len = Succeeding(d, days)
    BY <2>2, <2>3 DEF Succeeding
  <2> QED
    BY <1>2, <1>3, <1>4, <1>5, <1>7, <2>1, <2>4
<1>8. CASE day + 1 > len /\ m = n
  <2>1. Wrap(m, n, 1) - 1 = 0 /\ Elapsed[0] = 0
    BY <1>8, MonthsFollow DEF Wrap
  <2>2. d + 1 = days
    BY <1>2, <1>3, <1>4, <1>5, <1>8
  <2>3. 0 = Succeeding(d, days)
    BY <2>2 DEF Succeeding
  <2> QED
    BY <1>2, <1>3, <1>5, <1>8, <2>1, <2>3
<1> QED
  BY <1>2, <1>6, <1>7, <1>8

(* a second more in days, hours, minutes and seconds is one more in the number they make *)
OneMore(S, M, H, D, s, min, h, d) ==
  LET s1 == IF s + 1 < S THEN s + 1 ELSE 0
      min1 == IF s + 1 < S THEN min ELSE IF min + 1 < M THEN min + 1 ELSE 0
      h1 == IF s + 1 < S \/ min + 1 < M THEN h ELSE IF h + 1 < H THEN h + 1 ELSE 0
      d1 == IF s + 1 < S \/ min + 1 < M \/ h + 1 < H THEN d ELSE Succeeding(d, D)
  IN s1 + S * (min1 + M * (h1 + H * d1)) = (s + S * (min + M * (h + H * d)) + 1) % (S * (M * (H * D)))

LEMMA CarriesThrough ==
  ASSUME NEW S \in Nat \ {0}, NEW M \in Nat \ {0}, NEW H \in Nat \ {0}, NEW D \in Nat \ {0},
         NEW s \in 0..S - 1, NEW min \in 0..M - 1, NEW h \in 0..H - 1, NEW d \in 0..D - 1
  PROVE  OneMore(S, M, H, D, s, min, h, d)
<1> DEFINE s1 == IF s + 1 < S THEN s + 1 ELSE 0
           min1 == IF s + 1 < S THEN min ELSE IF min + 1 < M THEN min + 1 ELSE 0
           h1 == IF s + 1 < S \/ min + 1 < M THEN h ELSE IF h + 1 < H THEN h + 1 ELSE 0
           d1 == IF s + 1 < S \/ min + 1 < M \/ h + 1 < H THEN d ELSE Succeeding(d, D)
<1>1. /\ H * D \in Nat \ {0} /\ h + H * d \in 0..H * D - 1
      /\ (IF h + 1 < H THEN h + 1 ELSE 0) + H * (IF h + 1 < H THEN d ELSE Succeeding(d, D))
           = Succeeding(h + H * d, H * D)
  BY DigitCarries
<1>2. PICK days \in Nat \ {0} : days = H * D
  BY <1>1
<1>3. PICK hours \in 0..days - 1 : hours = h + H * d
  BY <1>1, <1>2
<1>4. h1 + H * d1 = IF s + 1 < S \/ min + 1 < M THEN hours ELSE Succeeding(hours, days)
  BY <1>1, <1>2, <1>3, Zenon
<1>5. /\ M * days \in Nat \ {0} /\ min + M * hours \in 0..M * days - 1
      /\ (IF min + 1 < M THEN min + 1 ELSE 0) + M * (IF min + 1 < M THEN hours ELSE Succeeding(hours, days))
           = Succeeding(min + M * hours, M * days)
  BY DigitCarries
<1>6. PICK all \in Nat \ {0} : all = M * days
  BY <1>5
<1>7. PICK mins \in 0..all - 1 : mins = min + M * hours
  BY <1>5, <1>6
<1>8. min1 + M * (h1 + H * d1) = IF s + 1 < S THEN mins ELSE Succeeding(mins, all)
  <2>1. CASE s + 1 < S
    BY <2>1, <1>4, <1>7, Zenon
  <2>2. CASE ~(s + 1 < S)
    BY <2>2, <1>4, <1>5, <1>6, <1>7, Zenon
  <2> QED
    BY <2>1, <2>2
<1>9. /\ S * all \in Nat \ {0} /\ s + S * mins \in 0..S * all - 1
      /\ (IF s + 1 < S THEN s + 1 ELSE 0) + S * (IF s + 1 < S THEN mins ELSE Succeeding(mins, all))
           = Succeeding(s + S * mins, S * all)
  BY DigitCarries
<1>10. s1 + S * (min1 + M * (h1 + H * d1)) = Succeeding(s + S * mins, S * all)
  BY <1>8, <1>9, Zenon
<1>11. Succeeding(s + S * mins, S * all) = (s + S * mins + 1) % (S * all)
  BY <1>9, SucceedingIs
<1>12. s1 + S * (min1 + M * (h1 + H * d1)) = (s + S * (min + M * (h + H * d)) + 1) % (S * (M * (H * D)))
  BY <1>2, <1>3, <1>6, <1>7, <1>10, <1>11, Zenon
<1> QED
  BY <1>12, Zenon DEF OneMore

(* a tick moves the second of the year on *)
LEMMA AdvanceCounts ==
  ASSUME NEW c \in Clocks, c.day <= MonthDays[c.month]
  PROVE  SecondOfYear(Advance(c, MonthDays[c.month])) = (SecondOfYear(c) + 1) % Year
<1>1. c.month \in 1..Len(MonthDays) /\ c.day \in 1..MonthDays[c.month] /\ c.hour \in 0..MaxHour
      /\ c.minute \in 0..MaxMinute /\ c.second \in 0..MaxSecond
  <2>1. c.month \in DOMAIN MonthDays /\ c.day \in UNION {1..MonthDays[k] : k \in DOMAIN MonthDays}
        /\ c.hour \in 0..MaxHour /\ c.minute \in 0..MaxMinute /\ c.second \in 0..MaxSecond
    BY DEF Clocks
  <2>2. c.day \in Nat /\ 1 <= c.day
    BY <2>1, Calendar
  <2>3. MonthDays[c.month] \in Nat
    BY <2>1, Calendar
  <2> QED
    BY <2>1, <2>2, <2>3, Calendar
<1>2. /\ \E S \in Nat \ {0} : S = MaxSecond + 1 /\ \A x \in Nat : (x + 1 > MaxSecond) = ~(x + 1 < S)
      /\ \E M \in Nat \ {0} : M = MaxMinute + 1 /\ \A x \in Nat : (x + 1 > MaxMinute) = ~(x + 1 < M)
      /\ \E H \in Nat \ {0} : H = MaxHour + 1 /\ \A x \in Nat : (x + 1 > MaxHour) = ~(x + 1 < H)
  <2>1. ASSUME NEW n \in Nat PROVE n + 1 \in Nat \ {0} /\ \A x \in Nat : (x + 1 > n) = ~(x + 1 < n + 1)
    OBVIOUS
  <2> QED
    BY <2>1, MecloAssumption
<1>3. PICK S \in Nat \ {0} : S = MaxSecond + 1 /\ \A x \in Nat : (x + 1 > MaxSecond) = ~(x + 1 < S)
  BY <1>2
<1>4. PICK M \in Nat \ {0} : M = MaxMinute + 1 /\ \A x \in Nat : (x + 1 > MaxMinute) = ~(x + 1 < M)
  BY <1>2
<1>5. PICK H \in Nat \ {0} : H = MaxHour + 1 /\ \A x \in Nat : (x + 1 > MaxHour) = ~(x + 1 < H)
  BY <1>2
<1>6. PICK N \in Nat \ {0} : N = Len(MonthDays)
  BY Calendar
<1>7. PICK s \in 0..S - 1 : s = c.second
  BY <1>1, <1>3, MecloAssumption
<1>8. PICK min \in 0..M - 1 : min = c.minute
  BY <1>1, <1>4, MecloAssumption
<1>9. PICK h \in 0..H - 1 : h = c.hour
  BY <1>1, <1>5, MecloAssumption
<1>10. PICK m \in 1..N : m = c.month
  BY <1>1, <1>6
<1>11. PICK day \in 1..MonthDays[m] : day = c.day
  BY <1>1, <1>10
<1>12. /\ Elapsed[N] \in Nat \ {0} /\ day - 1 + Elapsed[m - 1] \in 0..Elapsed[N] - 1
       /\ (IF day + 1 > MonthDays[m] THEN Elapsed[Wrap(m, N, 1) - 1] ELSE day + Elapsed[m - 1])
            = Succeeding(day - 1 + Elapsed[m - 1], Elapsed[N])
  BY <1>6, DayAdvances
<1>13. PICK D \in Nat \ {0} : D = Elapsed[N]
  BY <1>12
<1>14. PICK d \in 0..D - 1 : d = day - 1 + Elapsed[m - 1]
  BY <1>12, <1>13
<1>15. Year = S * (M * (H * D)) /\ SecondOfYear(c) = s + S * (min + M * (h + H * d))
  BY <1>3, <1>4, <1>5, <1>6, <1>7, <1>8, <1>9, <1>10, <1>11, <1>13, <1>14, Zenon DEF Year, SecondOfYear, DayOfYear
<1> DEFINE a == Advance(c, MonthDays[m])
           month == day + 1 > MonthDays[m]
<1>16. /\ a.second = IF s + 1 < S THEN s + 1 ELSE 0
       /\ a.minute = IF s + 1 < S THEN min ELSE IF min + 1 < M THEN min + 1 ELSE 0
       /\ a.hour = IF s + 1 < S \/ min + 1 < M THEN h ELSE IF h + 1 < H THEN h + 1 ELSE 0
       /\ IF s + 1 < S \/ min + 1 < M \/ h + 1 < H THEN a.day = day /\ a.month = m
          ELSE IF month THEN a.day = 1 /\ a.month = Wrap(m, N, 1) ELSE a.day = day + 1 /\ a.month = m
  <2>1. /\ (s + 1 > MaxSecond) = ~(s + 1 < S) /\ (min + 1 > MaxMinute) = ~(min + 1 < M)
        /\ (h + 1 > MaxHour) = ~(h + 1 < H)
    <3>1. s \in Nat /\ min \in Nat /\ h \in Nat
      OBVIOUS
    <3> QED
      BY <3>1, <1>3, <1>4, <1>5, Zenon
  <2>2. a = [second |-> IF s + 1 > MaxSecond THEN 0 ELSE s + 1,
             minute |-> IF s + 1 > MaxSecond /\ min + 1 > MaxMinute THEN 0 ELSE IF s + 1 > MaxSecond THEN min + 1 ELSE min,
             hour |-> IF s + 1 > MaxSecond /\ min + 1 > MaxMinute /\ h + 1 > MaxHour THEN 0
                      ELSE IF s + 1 > MaxSecond /\ min + 1 > MaxMinute THEN h + 1 ELSE h,
             day |-> IF s + 1 > MaxSecond /\ min + 1 > MaxMinute /\ h + 1 > MaxHour /\ month THEN 1
                     ELSE IF s + 1 > MaxSecond /\ min + 1 > MaxMinute /\ h + 1 > MaxHour THEN day + 1 ELSE day,
             month |-> IF s + 1 > MaxSecond /\ min + 1 > MaxMinute /\ h + 1 > MaxHour /\ month THEN Wrap(m, N, 1) ELSE m]
    BY <1>6, <1>7, <1>8, <1>9, <1>10, <1>11, Zenon DEF Advance, DayCarries
  <2> HIDE DEF a, month
  <2> PICK ms, mm, mh : ms = (s + 1 > MaxSecond) /\ mm = (min + 1 > MaxMinute) /\ mh = (h + 1 > MaxHour)
    OBVIOUS
  <2> QED
    BY <2>1, <2>2
<1> HIDE DEF a
<1>17. Elapsed[m - 1] \in Nat /\ Elapsed[Wrap(m, N, 1) - 1] \in Nat
  <2>1. m - 1 \in 0..N
    OBVIOUS
  <2>2. Wrap(m, N, 1) - 1 \in 0..N
    BY DEF Wrap
  <2> QED
    BY <2>1, <2>2, <1>6, MonthsFollow
<1>18. DayOfYear(a) = IF s + 1 < S \/ min + 1 < M \/ h + 1 < H THEN d ELSE Succeeding(d, D)
  <2>1. CASE s + 1 < S \/ min + 1 < M \/ h + 1 < H
    <3>1. a.day = day /\ a.month = m
      BY <1>16, <2>1
    <3> QED
      BY <1>14, <2>1, <3>1 DEF DayOfYear
  <2>2. CASE ~(s + 1 < S \/ min + 1 < M \/ h + 1 < H) /\ month
    <3>1. a.day = 1 /\ a.month = Wrap(m, N, 1)
      BY <1>16, <2>2
    <3>2. DayOfYear(a) = Elapsed[Wrap(m, N, 1) - 1]
      BY <1>17, <3>1 DEF DayOfYear
    <3> QED
      BY <1>12, <1>13, <1>14, <2>2, <3>2
  <2>3. CASE ~(s + 1 < S \/ min + 1 < M \/ h + 1 < H) /\ ~month
    <3>1. a.day = day + 1 /\ a.month = m
      BY <1>16, <2>3
    <3>2. day \in Int
      OBVIOUS
    <3>3. DayOfYear(a) = day + Elapsed[m - 1]
      BY <1>17, <3>1, <3>2 DEF DayOfYear
    <3> QED
      BY <1>12, <1>13, <1>14, <2>3, <3>3
  <2> QED
    BY <2>1, <2>2, <2>3
<1>19. SecondOfYear(a) = a.second + S * (a.minute + M * (a.hour + H * DayOfYear(a)))
  BY <1>3, <1>4, <1>5, Zenon DEF SecondOfYear
<1>20. PICK s1, min1, h1, d1 : s1 = a.second /\ min1 = a.minute /\ h1 = a.hour /\ d1 = DayOfYear(a)
  OBVIOUS
<1>21. /\ s1 = IF s + 1 < S THEN s + 1 ELSE 0
       /\ min1 = IF s + 1 < S THEN min ELSE IF min + 1 < M THEN min + 1 ELSE 0
       /\ h1 = IF s + 1 < S \/ min + 1 < M THEN h ELSE IF h + 1 < H THEN h + 1 ELSE 0
       /\ d1 = IF s + 1 < S \/ min + 1 < M \/ h + 1 < H THEN d ELSE Succeeding(d, D)
  BY <1>16, <1>18, <1>20, Zenon
<1>22. s1 + S * (min1 + M * (h1 + H * d1)) = (s + S * (min + M * (h + H * d)) + 1) % (S * (M * (H * D)))
  <2> DEFINE s2 == IF s + 1 < S THEN s + 1 ELSE 0
             min2 == IF s + 1 < S THEN min ELSE IF min + 1 < M THEN min + 1 ELSE 0
             h2 == IF s + 1 < S \/ min + 1 < M THEN h ELSE IF h + 1 < H THEN h + 1 ELSE 0
             d2 == IF s + 1 < S \/ min + 1 < M \/ h + 1 < H THEN d ELSE Succeeding(d, D)
  <2>1. OneMore(S, M, H, D, s, min, h, d)
    BY CarriesThrough
  <2>2. s1 = s2 /\ min1 = min2 /\ h1 = h2 /\ d1 = d2
    BY <1>21, Zenon
  <2>3. s2 + S * (min2 + M * (h2 + H * d2)) = (s + S * (min + M * (h + H * d)) + 1) % (S * (M * (H * D)))
    BY <2>1, Zenon DEF OneMore
  <2> HIDE DEF s2, min2, h2, d2
  <2> QED
    BY <2>2, <2>3, Zenon
<1>23. SecondOfYear(a) = (SecondOfYear(c) + 1) % Year
  BY <1>15, <1>19, <1>20, <1>22, Zenon
<1> QED
  BY <1>10, <1>23, Zenon DEF a

(* Only a tick and a key of the panel touch the calendar; a tick with no key that sets it *)
(* moves it by a second, in any calendar.                                                  *)
LEMMA CountsStep ==
  ASSUME clock \in Clocks, [MecloNext]_mecloVars, clock' # clock, pressed \cap {"hs", "ms"} = {},
         pressed' = pressed, clock.day <= MDays
  PROVE  SecondOfYear(clock') = (SecondOfYear(clock) + 1) % Year
<1>1. Tick
  <2>1. ASSUME NEW keys \in Keys, ClockOp(keys) PROVE FALSE
    <3>1. "ms" \notin keys
      BY <2>1 DEF ClockOp
    <3> QED
      BY <2>1, <3>1 DEF ClockOp
  <2> QED
    BY <2>1 DEF MecloNext, DisplayUpdate, SecondsSwitch, KeepDateEnds, OnAsync, Send, MecloIntSpec, MecloReset,
                mecloVars
<1>2. ClockSet(clock) = clock
  <2>1. "hs" \notin pressed /\ "ms" \notin pressed
    OBVIOUS
  <2>2. clock = [month |-> clock.month, day |-> clock.day, hour |-> clock.hour, minute |-> clock.minute, second |-> clock.second]
    BY ClocksOf
  <2>3. ClockSet(clock) = [clock EXCEPT !.day = clock.day, !.month = clock.month, !.hour = clock.hour, !.minute = clock.minute]
    BY <2>1 DEF ClockSet
  <2> QED
    BY <2>2, <2>3
<1>3. clock' = Advance(clock, MDays)
  BY <1>1, <1>2 DEF Tick
<1> QED
  BY <1>3, AdvanceCounts DEF MDays

-----------------------------------------------------------------------------
(* All of it. *)

allVars == <<part, ccharVars, uzdatVars, uzfxVars, mecloVars>>

LEMMA InvInit == Init => IInv
<1> SUFFICES ASSUME Init PROVE IInv
  OBVIOUS
<1> USE DEF Init
<1>1. ChannelInv
  <2>1. irq \in BOOLEAN /\ told \in BOOLEAN /\ resetting \in BOOLEAN
    <3>1. irq = FALSE /\ told = FALSE /\ resetting = FALSE
      BY DEF UzDatInit, CCharInit
    <3> QED
      BY <3>1, Zenon
  <2> QED
    BY <2>1, CCharAssumption
    DEF UzDatInit, CCharInit, ChannelInv, CCharTypeOK, ResetPlaced, NoneForgotten, HasInterrupt
<1>2. TerminalInv
  <2>1. /\ xfer_busy = FALSE /\ async_write = FALSE /\ async_switch = FALSE /\ timer_switch = FALSE
        /\ client = FALSE /\ timer_read = FALSE /\ sender_busy = FALSE /\ cut = FALSE /\ lost = FALSE
    BY DEF UzDatInit
  <2>2. /\ xfer_busy \in BOOLEAN /\ async_write \in BOOLEAN /\ async_switch \in BOOLEAN
        /\ timer_switch \in BOOLEAN /\ client \in BOOLEAN /\ timer_read \in BOOLEAN
        /\ sender_busy \in BOOLEAN /\ cut \in BOOLEAN /\ lost \in BOOLEAN
    BY <2>1, Zenon
  <2>3. TermTyped
    BY <2>2, UzDatAssumption DEF UzDatInit, TermTyped
  <2>4. Buffered
    BY UzDatAssumption DEF UzDatInit, Buffered
  <2> QED
    BY <2>1, <2>3, <2>4
    DEF UzDatInit, TerminalInv, SenderMoves, OneBehind, BusyMoves, EngagedAnswered, UnattendedLosesNothing
<1>3. FloppyInv
  <2>1. /\ pending_buf_write = FALSE /\ interrupt_required = FALSE /\ kick = FALSE /\ async_process = FALSE
        /\ timer_process = FALSE /\ doors_locked = FALSE /\ broken = FALSE /\ torn = FALSE
    BY DEF UzFxInit
  <2>2. /\ pending_buf_write \in BOOLEAN /\ interrupt_required \in BOOLEAN /\ kick \in BOOLEAN
        /\ async_process \in BOOLEAN /\ timer_process \in BOOLEAN /\ doors_locked \in BOOLEAN
        /\ broken \in BOOLEAN /\ torn \in BOOLEAN
    BY <2>1, Zenon
  <2>3. FloppyTyped
    BY <2>2 DEF UzFxInit, FloppyTyped, Waiting
  <2>4. Filled
    BY UzFxAssumption DEF UzFxInit, Filled, Filling, Disk
  <2> QED
    BY <2>1, <2>3, <2>4
    DEF UzFxInit, FloppyInv, DoorsKept, WorkIsScheduled, WriterIsAnswered, WriteRemembers, SectorsWhole, Waiting
<1>4. ClockTyped /\ DateEnds
  <2>1. /\ cycle_seconds = FALSE /\ seconds_read = FALSE /\ seconds_advance = FALSE
        /\ clock_stopped = FALSE /\ keep_date_read = FALSE /\ has_int = FALSE
    BY DEF MecloInit
  <2>2. /\ cycle_seconds \in BOOLEAN /\ seconds_read \in BOOLEAN /\ seconds_advance \in BOOLEAN
        /\ clock_stopped \in BOOLEAN /\ keep_date_read \in BOOLEAN /\ has_int \in BOOLEAN
    BY <2>1, Zenon
  <2> QED
    BY <2>1, <2>2 DEF MecloInit, ClockTyped, DateEnds
<1>5. Apart
  BY UnitsPlaced DEF UzDatInit, CCharInit, Apart
<1> QED
  BY <1>1, <1>2, <1>3, <1>4, <1>5 DEF IInv

LEMMA TerminalUnmoved ==
  ASSUME TerminalInv, UNCHANGED uzdatVars, lines'[Unit] = lines[Unit] \/ state = "OFF"
  PROVE  TerminalInv'
BY DEF TerminalInv, uzdatVars, TermTyped, Buffered, SenderMoves, OneBehind, BusyMoves, EngagedAnswered,
       UnattendedLosesNothing, HasInterrupt

LEMMA FloppyUnmoved ==
  ASSUME FloppyInv, UNCHANGED uzfxVars
  PROVE  FloppyInv'
BY DEF FloppyInv, uzfxVars, FloppyTyped, DoorsKept, WorkIsScheduled, WriterIsAnswered, WriteRemembers,
       Filled, SectorsWhole

LEMMA InvStep == IInv /\ [Next]_allVars => IInv'
<1> SUFFICES ASSUME IInv, [Next]_allVars PROVE IInv'
  OBVIOUS
<1> USE DEF IInv
<1>1. CASE Terminal
  <2>1. TerminalKept /\ FloppyInv'
    BY <1>1, TerminalStep, FloppyUnmoved DEF Terminal
  <2>2. ClockTyped' /\ DateEnds'
    BY <1>1 DEF Terminal, mecloVars, ClockTyped, DateEnds
  <2>3. Apart'
    BY <1>1, <2>1 DEF Terminal, TerminalKept, Apart, NoDiskEnd
  <2> QED
    BY <2>1, <2>2, <2>3 DEF TerminalKept
<1>2. CASE Floppy
  <2>1. FloppyInv' /\ FloppyReports
    BY <1>2, FloppyStep DEF Floppy
  <2>2. TerminalInv'
    BY <1>2, TerminalUnmoved DEF Floppy, Apart
  <2>3. ClockTyped' /\ DateEnds'
    BY <1>2 DEF Floppy, mecloVars, ClockTyped, DateEnds
  <2>4. Apart'
    BY <1>2 DEF Floppy, Apart, uzdatVars
  <2> QED
    BY <2>1, <2>2, <2>3, <2>4 DEF FloppyReports
<1>3. CASE Clock
  <2>1. ChannelInv' /\ FloppyInv'
    BY <1>3, ChannelQuiet, FloppyUnmoved DEF Clock
  <2>2. lines' = lines
    BY <1>3 DEF Clock, ccharVars
  <2>3. TerminalInv'
    BY <1>3, <2>2, TerminalUnmoved DEF Clock
  <2>4. ClockTyped' /\ DateEnds'
    BY <1>3, ClockStep DEF Clock
  <2>5. Apart'
    BY <1>3, <2>2 DEF Clock, Apart, uzdatVars
  <2> QED
    BY <2>1, <2>3, <2>4, <2>5
<1>4. CASE UNCHANGED allVars
  <2>1. ChannelInv' /\ FloppyInv'
    BY <1>4, ChannelQuiet, FloppyUnmoved DEF allVars
  <2>2. lines' = lines
    BY <1>4 DEF allVars, ccharVars
  <2>3. TerminalInv'
    BY <1>4, <2>2, TerminalUnmoved DEF allVars
  <2>4. ClockTyped' /\ DateEnds'
    BY <1>4 DEF allVars, mecloVars, ClockTyped, DateEnds
  <2>5. Apart'
    BY <1>4, <2>2 DEF allVars, Apart, uzdatVars
  <2> QED
    BY <2>1, <2>3, <2>4, <2>5
<1> QED
  BY <1>1, <1>2, <1>3, <1>4 DEF Next

LEMMA InvAlways == Spec => []IInv
<1>1. Init => IInv
  BY InvInit
<1>2. IInv /\ [Next]_allVars => IInv'
  BY InvStep
<1> QED
  BY <1>1, <1>2, PTL DEF Spec, allVars

-----------------------------------------------------------------------------
(* What was to be shown. *)

(* Every command that uzdat.c or uzfx.c answered EN is followed by an interrupt, *)
(* and cchar_int_trigger() has the channel report whatever its units have raised,*)
(* in any order of the loop's callbacks, commands, cancellations and resets.     *)
THEOREM CommandsAlwaysAnswered == Spec => []CommandsAnswered
<1>1. IInv => CommandsAnswered
  BY DEF IInv, ChannelInv, TerminalInv, FloppyInv, CommandsAnswered
<1> QED
  BY <1>1, InvAlways, PTL

(* What uzdat.c, uzfx.c and meclo.c have under way has its callback, wake-up or   *)
(* timer, so no controller is busy for good.                                     *)
THEOREM AlwaysMoving == Spec => []KeepsMoving
<1>1. IInv => KeepsMoving
  BY DEF IInv, TerminalInv, FloppyInv, KeepsMoving
<1> QED
  BY <1>1, InvAlways, PTL

LEMMA AppendIsPrefix ==
  ASSUME NEW S, NEW s \in Seq(S), NEW e \in S
  PROVE  IsPrefix(s, Append(s, e)) /\ IsPrefix(s, s)
<1>1. Append(s, e) \in Seq(S) /\ Len(Append(s, e)) = Len(s) + 1
      /\ \A i \in 1..Len(s) : Append(s, e)[i] = s[i]
  BY AppendProperties
<1>2. SubSeq(s, 1, Len(s)) = SubSeq(Append(s, e), 1, Len(s))
  BY <1>1
<1> QED
  BY <1>1, <1>2 DEF IsPrefix

LEMMA Bounded ==
  ASSUME NEW S, NEW n \in Nat, NEW s \in Seq(S), Len(s) <= n
  PROVE  s \in BoundedSeq(S, n)
<1>1. s \in [1..Len(s) -> S] /\ Len(s) \in 0..n
  OBVIOUS
<1> QED
  BY <1>1 DEF BoundedSeq, SeqOf

(* The terminal puts out what uzdat_write() accepted, unattended input is not     *)
(* overrun, and uzfx.c writes sectors as the program gave them; every variable    *)
(* of the channel and its units keeps within its type.                           *)
THEOREM DataAlwaysIntact == Spec => []DataIntact
<1>1. ASSUME IInv PROVE DataIntact
  <2> USE DEF IInv
  <2>1. UzTypeOK
    <3>1. rx \in BoundedSeq(Typeable \ {Nul}, FifoLen) /\ rdbuf \in BoundedSeq(Typeable, BufSize)
      BY <1>1, Bounded, UzDatAssumption DEF TerminalInv, Buffered
    <3> QED
      BY <1>1, <3>1 DEF UzTypeOK, ChannelInv, TerminalInv, TermTyped, Buffered
  <2>2. FxTypeOK
    BY <1>1 DEF FxTypeOK, ChannelInv, FloppyInv, FloppyTyped, Filled
  <2>3. MecloTypeOK
    BY <1>1 DEF MecloTypeOK, ClockTyped
  <2>4. OutputIntact
    <3>1. CASE ~cut /\ xfer_busy
      <4>1. accepted = Append(wire, buf_wr) /\ wire \in Seq(0..MaxWritten) /\ buf_wr \in 0..MaxWritten
        BY <1>1, <3>1 DEF TerminalInv, TermTyped, OneBehind
      <4>2. IsPrefix(wire, Append(wire, buf_wr)) /\ Len(Append(wire, buf_wr)) = Len(wire) + 1
        BY <4>1, AppendIsPrefix, AppendProperties
      <4>3. Len(wire) \in Nat
        BY <4>1
      <4> QED
        BY <4>1, <4>2, <4>3 DEF OutputIntact
    <3>2. CASE ~cut /\ ~xfer_busy
      <4>1. accepted = wire /\ wire \in Seq(0..MaxWritten) /\ 0 \in 0..MaxWritten
        BY <1>1, <3>2, UzDatAssumption DEF TerminalInv, TermTyped, OneBehind
      <4>2. IsPrefix(wire, wire)
        BY <4>1, AppendIsPrefix
      <4> QED
        BY <4>1, <4>2 DEF OutputIntact
    <3> QED
      BY <3>1, <3>2 DEF OutputIntact
  <2>5. UnattendedLosesNothing /\ SectorsWhole
    BY <1>1 DEF TerminalInv, FloppyInv
  <2> QED
    BY <2>1, <2>2, <2>3, <2>4, <2>5 DEF DataIntact
<1> QED
  BY <1>1, InvAlways, PTL

LEMMA MediaStep ==
  ASSUME FloppyInv, FxNext, image' # image
  PROVE  fx_state = "IDLE"
<1>1. ~ReplaceRefused
  BY DEF FxNext, FxLoop, OnAsyncProcess, ProcessStart, ProcessEnd, SectRd, BufRdCancel, BufWrStart, SectWr,
         FxLoopTrigger, Finish, ImageReplace, Start, ReadByte, WriteByte, DetachIdle, DetachCancel,
         Engaged, InMemory, Control, Kick, CmdReset, FxResetUnit, StateReset, SpecStart, FxIntSpec,
         FxCpuTrigger, FxChan, drive, uzfxVars
<1> QED
  BY <1>1 DEF FloppyInv, DoorsKept, FloppyTyped, ReplaceRefused

(* No step of the loop, the program or a reset of uzfx.c lets sp45de.c change the *)
(* medium under an operation, and only the channel's question and a reset take    *)
(* back the end of the disk.                                                     *)
THEOREM DriveAlwaysKept == Spec => DriveKept
<1>1. IInv /\ [Next]_allVars => [image' # image => fx_state = "IDLE"]_fxVars
  <2> SUFFICES ASSUME IInv, [Next]_allVars, image' # image PROVE fx_state = "IDLE"
    BY DEF fxVars
  <2>1. Floppy
    BY DEF Next, Terminal, Clock, allVars, uzfxVars
  <2> QED
    BY <2>1, MediaStep DEF Floppy, IInv
<1>2. IInv /\ [Next]_allVars =>
        [(DiskEnd \in lines[FxUnit] /\ DiskEnd \notin lines'[FxUnit])
           => (int_mutex = "cpu" \/ cpu_pc' = "cancel")]_fxVars
  <2> SUFFICES ASSUME IInv, [Next]_allVars, DiskEnd \in lines[FxUnit], DiskEnd \notin lines'[FxUnit]
               PROVE  int_mutex = "cpu" \/ cpu_pc' = "cancel"
    OBVIOUS
  <2>1. Floppy
    BY DEF Next, Terminal, Clock, allVars, ccharVars, IInv, Apart
  <2> QED
    BY <2>1, FloppyStep DEF Floppy, IInv, FloppyReports
<1>3. Spec => MediaStays
  BY <1>1, InvAlways, PTL DEF Spec, allVars, MediaStays
<1>4. Spec => EndReported
  BY <1>2, InvAlways, PTL DEF Spec, allVars, EndReported
<1> QED
  BY <1>3, <1>4 DEF DriveKept

(* The clock of meclo.c passes through every second of the year in order, over the *)
(* ends of minutes, hours, days and months of any calendar, unless a key sets it.  *)
THEOREM ClockAlwaysCounts == Spec => ClockCounts
<1>1. IInv /\ [Next]_allVars =>
        [(clock' # clock /\ pressed \cap {"hs", "ms"} = {} /\ pressed' = pressed /\ clock.day <= MDays)
           => SecondOfYear(clock') = (SecondOfYear(clock) + 1) % Year]_mecloVars
  <2> SUFFICES ASSUME IInv, [Next]_allVars, clock' # clock, pressed \cap {"hs", "ms"} = {}, pressed' = pressed,
                      clock.day <= MDays
               PROVE  SecondOfYear(clock') = (SecondOfYear(clock) + 1) % Year
    OBVIOUS
  <2>1. [MecloNext]_mecloVars
    BY DEF Next, Terminal, Floppy, Clock, allVars
  <2>2. clock \in Clocks
    BY DEF IInv, ClockTyped
  <2> QED
    BY <2>1, <2>2, CountsStep
<1> QED
  BY <1>1, InvAlways, PTL DEF Spec, allVars, ClockCounts
=============================================================================
