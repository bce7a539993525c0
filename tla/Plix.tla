-------------------------------- MODULE Plix --------------------------------
(***************************************************************************)
(* The PLIX channel (src/io/plix/plix.c): every command is answered at     *)
(* once, with an interrupt and a specification in a queue from which IN    *)
(* takes them one by one.  The CPU reads a specification with each         *)
(* interrupt it serves, all in one thread.                                 *)
(***************************************************************************)
EXTENDS Integers, Sequences

CONSTANTS
  PlixCap,    \* 64 specifications
  PlixLines,  \* 0..255
  MaxPlix     \* bound: commands

ASSUME PlixAssumption == PlixCap \in Nat \ {0} /\ MaxPlix \in Nat

VARIABLES
  intq,       \* specifications, the oldest first
  signalled,  \* the channel's interrupt is requested
  got,        \* what the last reading gave
  plixCmds

plixVars == <<intq, signalled, got, plixCmds>>

NoAnswer == [number |-> "none", line |-> 0]

\* enum plix_interrupt: the answer to a command; a line stands in that to a command of a line
PlixAnswers ==
  [general |-> [ou |-> "IWYTE", in |-> "none"], setcfg |-> [ou |-> "IUKON", in |-> "IUKON"],
   attach |-> [ou |-> "IDOLI", in |-> "IODLI"], status |-> [ou |-> "ISTRE", in |-> "IABTR"],
   xmit |-> [ou |-> "IETRA", in |-> "IZURZ"]]
OfLine == {"attach", "status", "xmit"}

\* plix_int_push(): nothing more gets into a full queue; the interrupt is requested all the same
Pushed(q, number, line) == IF Len(q) < PlixCap THEN Append(q, [number |-> number, line |-> line]) ELSE q

PlixInit == intq = <<>> /\ signalled = FALSE /\ got = NoAnswer /\ plixCmds = 0

PlixStep == plixCmds < MaxPlix /\ plixCmds' = plixCmds + 1

\* plix_cmd()
PlixCmd(op, dir, line) ==
  LET number == PlixAnswers[op][dir]
  IN /\ PlixStep
     /\ IF number = "none" THEN UNCHANGED <<intq, signalled>>
        ELSE intq' = Pushed(intq, number, IF op \in OfLine THEN line ELSE 0) /\ signalled' = TRUE
     /\ UNCHANGED got

\* Mutant of AfterReset: the interrupt is announced and not queued.
AfterResetNone == <<>>

\* plix_cmd_chan(): RESET
AfterReset == Pushed(<<>>, "IWYZE", 0)
PlixReset == PlixStep /\ intq' = AfterReset /\ signalled' = TRUE /\ UNCHANGED got

\* ISPEC, zeros when there is nothing: by the CPU for an interrupt that it serves, or by
\* a program that looks for more
AnswerTaken ==
  /\ got' = IF intq = <<>> THEN NoAnswer ELSE Head(intq)
  /\ intq' = IF intq = <<>> THEN <<>> ELSE Tail(intq)
  /\ UNCHANGED plixCmds
PlixServed == signalled /\ signalled' = FALSE /\ AnswerTaken
PlixAsked == ~signalled /\ AnswerTaken /\ UNCHANGED signalled

\* plix_reset(), by CLEAR, which drops the requests as well
PlixCleared == PlixStep /\ intq' = <<>> /\ signalled' = FALSE /\ UNCHANGED got

PlixNext ==
  \/ \E op \in DOMAIN PlixAnswers, dir \in {"ou", "in"}, line \in PlixLines : PlixCmd(op, dir, line)
  \/ PlixReset \/ PlixServed \/ PlixAsked \/ PlixCleared
PlixSpecification == PlixInit /\ [][PlixNext]_plixVars

-----------------------------------------------------------------------------
\* The interrupt that the CPU serves has a specification, whatever was queued, asked for
\* or reset before it (plix_cmd_chan(), plix_int_push(), plix_reset()).
ServedGets == [][PlixServed => got' # NoAnswer]_plixVars

\* An answer that waits is announced; it is not when two were queued for one interrupt.
AllAnnounced == intq # <<>> => signalled
=============================================================================
