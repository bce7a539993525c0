------------------------------- MODULE MxLines -------------------------------
(***************************************************************************)
(* What the lines of MULTIX do: how a program sets them up                 *)
(* (mx_cmd_setcfg() in src/io/mx/mx.c), how a line's thread carries out a  *)
(* command with its fields in memory (mx_line_process_cmd() in line.c),    *)
(* and the protocols: those that only attach and detach, the floppy, which *)
(* has no disc, the terminal, and the winchester with the drive            *)
(* (proto_winchester.c, dev/winchester.c).  Which commands get this far,   *)
(* and the threads, are in Multix.  Two words of memory are swapped bytes  *)
(* of each other when one is the negative of the other.                    *)
(***************************************************************************)
EXTENDS Integers, SequencesExt, FiniteSets

CONSTANTS
  MX_LINE_CNT,      \* lines, in groups that share a board
  Group,
  Setups,           \* configurations the program asks for
  Fields,           \* parameters of the program's TRANSMIT commands
  Words,            \* size of memory, and number of values of a word
  Page,             \* words in a page of memory
  SectorWords, SPT, \* 256 and 16
  CYLS, HEADS,      \* of the drive
  MaxCmds           \* bound: commands, and a word that the program changes meanwhile

ASSUME MxLinesAssumption ==
  /\ {MX_LINE_CNT, Group, Words, Page, SectorWords, SPT, CYLS, HEADS} \subseteq Nat \ {0}
  /\ MX_LINE_CNT % Group = 0 /\ MaxCmds \in Nat
  /\ Fields \subseteq [op : STRING, addr : 0..Words - 1, n : 0..Words - 1, sector : Nat]
  /\ \A s \in Setups : /\ s.log \in Seq([phy : 0..MX_LINE_CNT - 1, proto : STRING, param : Nat])
                       /\ \A l \in DOMAIN s.log : s.log[l].proto = "winchester" => s.log[l].param > 0

Phys == 0..MX_LINE_CNT - 1
Unused == [used |-> FALSE, dir |-> {}, type |-> "async", proto |-> "none"]
NoPhy == -1

VARIABLES
  plines, llines,        \* physical lines, and that of each logical one
  setcfg,                \* the last answer to SETCFG
  attached,
  pc, cmd, field,        \* of the thread of each physical line
  data,                  \* [op, addr, len, sector, heads, ret_len, ret_status]: proto_data
  chs, buf,              \* in the middle of a transfer; the buffer of the line
  mem,
  disk, ready,           \* the winchester
  answer, results,       \* the last interrupt, and what the program finds in its fields
  moved,                 \* history: words carried over by the command
  cmds

confs == <<plines, llines, setcfg>>
transfers == <<data, chs, buf, mem, disk, moved>>
linesVars == <<confs, attached, pc, cmd, field, transfers, ready, answer, results, cmds>>

-----------------------------------------------------------------------------
(* The protocols that line.c knows; mx_proto_get().                        *)
Protocols ==
  [punchreader |-> [dir |-> {"in"}, types |-> {"async", "8255"}],
   puncher     |-> [dir |-> {"out"}, types |-> {"async", "8255"}],
   terminal    |-> [dir |-> {"in", "out"}, types |-> {"async", "8255"}],
   winchester  |-> [dir |-> {}, types |-> {"winchester"}],
   tape        |-> [dir |-> {}, types |-> {"tape"}],
   floppy      |-> [dir |-> {}, types |-> {"floppy"}]]

\* commands that a protocol has functions for: TRANSMIT of some, ABORT of one
Runs(proto) ==
  {"attach", "detach"} \cup (IF proto \in {"winchester", "floppy", "terminal"} THEN {"transmit"} ELSE {})
    \cup IF proto = "floppy" THEN {"abort"} ELSE {}

\* what is wrong with a physical line; "on" stands in the low bit of full duplex
Types == {"async", "8255", "sync", "winchester", "tape", "floppy"}
DirOK(p) ==
  CASE p.type \in {"async", "sync"} -> p.dir \in {{"out"}, {"in"}, {"in", "out"}, {"in", "out", "on"}}
                                       \/ (~p.used /\ p.dir = {})
    [] p.type = "8255" -> p.dir \in {{"out"}, {"in"}}
    [] OTHER -> p.dir = {}
PhyError(p) == IF p.type \notin Types THEN "DEVTYPE" ELSE IF ~DirOK(p) THEN "DIR" ELSE "OK"

-----------------------------------------------------------------------------
(* SETCFG.                                                                 *)

\* mx_line_conf_phy() on the lines that a list of descriptions is for, in turn
Described(s) == FlattenSeq([i \in DOMAIN s.phy |-> [k \in 1..s.phy[i].count |-> s.phy[i].line]])

\* the physical lines so described; those beyond are not used
LinesLaid(phys) ==
  [p \in Phys |-> IF p < Len(phys) THEN [used |-> phys[p + 1].used, dir |-> phys[p + 1].dir, type |-> phys[p + 1].type, proto |-> "none"]
                 ELSE Unused]

\* the lines of a board are of one type, and one board is for tapes
Complete(lines) ==
  /\ \A p \in Phys : lines[p].type = lines[p - (p % Group)].type
  /\ Cardinality({p \in Phys : p % Group = 0 /\ lines[p].type = "tape"}) <= 1

\* Mutant of LogTaken: a physical line may stand for several logical ones.
LogTakenNever(logs, p) == FALSE

LogTaken(logs, p) == \E l \in DOMAIN logs : logs[l] = p

\* mx_line_conf_log()
LogError(lines, logs, d) ==
  LET p == lines[d.phy]
  IN CASE ~p.used -> "PHY_UNUSED"
       [] p.used /\ LogTaken(logs, d.phy) -> "PHY_USED"
       [] p.used /\ ~LogTaken(logs, d.phy) /\ d.proto \notin DOMAIN Protocols -> "PROTO_MISSING"
       [] OTHER -> IF ~(Protocols[d.proto].dir \subseteq p.dir) THEN "DIR_MISMATCH"
                   ELSE IF p.type \notin Protocols[d.proto].types THEN "PROTO_MISMATCH"
                   ELSE IF d.proto = "floppy" /\ d.param > 2 THEN "PROTO_PARAMS" ELSE "OK"

\* each description of a logical line is looked at after those before it are set up
LogErrors(s) ==
  LET lines == LinesLaid(Described(s))
  IN [i \in DOMAIN s.log |-> LogError(lines, [l \in 0..i - 2 |-> s.log[l + 1].phy], s.log[i])]

\* the first mistake, or "OK"
SetupError(s) ==
  LET phys == Described(s)
      bad == SelectInSeq(phys, LAMBDA p : PhyError(p) # "OK")
      errors == LogErrors(s)
      wrong == SelectInSeq(errors, LAMBDA e : e # "OK")
  IN IF s.phy = <<>> \/ s.log = <<>> \/ Len(s.phy) > MX_LINE_CNT \/ Len(s.log) > MX_LINE_CNT THEN "NUMLINES"
     ELSE IF bad \in 1..MX_LINE_CNT THEN PhyError(phys[bad])
     ELSE IF Len(phys) > MX_LINE_CNT THEN "NUMLINES"
     ELSE IF ~Complete(LinesLaid(phys)) THEN "PHY_INCOMPLETE"
     ELSE IF wrong # 0 THEN errors[wrong] ELSE "OK"

\* mx_cmd_setcfg(); mx_lines_deinit() undoes all of it when there is a mistake (bound:
\* which the program makes before its first command)
SetCfg(s) ==
  /\ llines = <<>> /\ setcfg' = SetupError(s) /\ (setcfg' = "OK" \/ cmds = 0)
  /\ IF setcfg' # "OK" THEN UNCHANGED <<plines, llines, data>>
     ELSE LET lines == LinesLaid(Described(s))
              of(p) == {i \in DOMAIN s.log : s.log[i].phy = p}
          IN /\ llines' = [i \in DOMAIN s.log |-> s.log[i].phy]
             /\ plines' = [p \in Phys |->
                  IF of(p) = {} THEN lines[p]
                  ELSE [lines[p] EXCEPT !.proto = s.log[CHOOSE i \in of(p) : TRUE].proto]]
             /\ data' = [p \in Phys |-> IF of(p) = {} THEN data[p]
                                        ELSE [data[p] EXCEPT !.heads = s.log[CHOOSE i \in of(p) : TRUE].param]]
  /\ UNCHANGED <<attached, pc, cmd, field, chs, buf, mem, disk, moved, ready, answer, results, cmds>>

\* mx_lines_deinit() for a reset waits for the threads of the lines
LinesDeinit ==
  /\ llines # <<>> /\ \A p \in Phys : pc[p] = "idle"
  /\ llines' = <<>> /\ plines' = [p \in Phys |-> Unused] /\ setcfg' = "none"
  /\ attached' = {} /\ answer' = [p \in Phys |-> "none"]
  /\ UNCHANGED <<pc, cmd, field, transfers, ready, results, cmds>>

-----------------------------------------------------------------------------
(* Commands.                                                               *)

NoField == [op |-> "read", addr |-> 0, n |-> 0, sector |-> 0]
NoData == [op |-> "read", addr |-> 0, len |-> 0, sector |-> 0, heads |-> 1, ret_len |-> 0, ret_status |-> {}]

\* the program stores the fields of a command and gives it; MULTIX takes one TRANSMIT
\* of a line that is attached
Give(l, c, f) ==
  LET p == llines[l]
  IN /\ cmds < MaxCmds /\ cmds' = cmds + 1
     /\ pc[p] = "idle" /\ c \in Runs(plines[p].proto) /\ (c = "transmit" => p \in attached)
     /\ pc' = [pc EXCEPT ![p] = "decode"] /\ cmd' = [cmd EXCEPT ![p] = c]
     /\ field' = [field EXCEPT ![p] = f] /\ moved' = [moved EXCEPT ![p] = 0]
     /\ results' = [results EXCEPT ![p] = [len |-> "old", status |-> {"old"}]]
     /\ answer' = [answer EXCEPT ![p] = "none"]
     /\ UNCHANGED <<confs, attached, data, chs, buf, mem, disk, ready>>

\* the program, or another channel, changes a word of memory
Poke(a, w) ==
  /\ cmds < MaxCmds /\ cmds' = cmds + 1 /\ mem' = [mem EXCEPT ![a] = w]
  /\ UNCHANGED <<confs, attached, pc, cmd, field, data, chs, buf, disk, ready, answer, results, moved>>

\* mx_line_process_cmd(): the end, with the results stored unless memory refused before
\* or refuses them; the length is that of reading and writing only
Encodes(p) == cmd[p] = "transmit" /\ plines[p].proto \in {"winchester", "floppy"}
Ended(p, d, irq) ==
  /\ pc' = [pc EXCEPT ![p] = "idle"]
  /\ \/ /\ ~Encodes(p) \/ irq = "INPAO"
        /\ answer' = [answer EXCEPT ![p] = irq] /\ UNCHANGED results
     \/ /\ Encodes(p) /\ irq # "INPAO"
        /\ \E written \in BOOLEAN :
             /\ answer' = [answer EXCEPT ![p] = IF written THEN irq ELSE "INPAO"]
             /\ results' = IF ~written THEN results
                           ELSE [results EXCEPT ![p] = [len |-> IF d.op \in {"read", "write"} THEN d.ret_len ELSE "leftover",
                                                        status |-> d.ret_status]]

\* attach and detach
Attach(p) ==
  /\ pc[p] = "decode" /\ cmd[p] = "attach"
  /\ attached' = attached \cup {p} /\ Ended(p, data[p], "IDOLI")
  /\ UNCHANGED <<confs, cmd, field, transfers, ready, cmds>>
Detach(p) ==
  /\ pc[p] = "decode" /\ cmd[p] = "detach"
  /\ attached' = attached \ {p} /\ Ended(p, data[p], "IODLI")
  /\ UNCHANGED <<confs, cmd, field, transfers, ready, cmds>>

\* parameters of a terminal are read whether there is one or not; those of ATTACH too
Refused(p) ==
  /\ pc[p] = "decode"
  /\ cmd[p] = "transmit" \/ (cmd[p] = "attach" /\ plines[p].proto = "terminal")
  /\ Ended(p, data[p], "INPAO")
  /\ UNCHANGED <<confs, attached, cmd, field, transfers, ready, cmds>>
Terminal(p) ==
  /\ pc[p] = "decode" /\ cmd[p] = "transmit" /\ plines[p].proto = "terminal"
  /\ \E there \in BOOLEAN : Ended(p, data[p], IF there THEN "IETRA" ELSE "INTRA")
  /\ UNCHANGED <<confs, attached, cmd, field, transfers, ready, cmds>>

\* mx_floppy_transmit() never finds a disc; a command that is none leaves the results
\* of the one before
Floppy(p) ==
  LET known == field[p].op \in {"format", "read", "write", "errsect"}
      d == [data[p] EXCEPT !.op = field[p].op, !.ret_len = IF known THEN 0 ELSE @,
                           !.ret_status = IF known THEN {"NO_DISC"} ELSE @]
  IN /\ pc[p] = "decode" /\ plines[p].proto = "floppy"
     /\ \/ /\ cmd[p] = "transmit" /\ data' = [data EXCEPT ![p] = d]
           /\ Ended(p, d, IF known THEN "ITRER" ELSE "INTRA")
        \/ cmd[p] = "abort" /\ Ended(p, data[p], "INABT") /\ UNCHANGED data
     /\ UNCHANGED <<confs, attached, cmd, field, chs, buf, mem, disk, moved, ready, cmds>>

-----------------------------------------------------------------------------
(* The winchester.                                                         *)

\* lba2chs(), on from the first cylinder, which is for sectors moved elsewhere
Chs(lba, heads) == [c |-> lba \div (heads * SPT) + 1, h |-> (lba \div SPT) % heads, s |-> lba % SPT]

\* Mutant of ChsNext: the next cylinder comes after each track.
ChsNextCylinder(at, heads) == IF at.s + 1 < SPT THEN [at EXCEPT !.s = @ + 1] ELSE [c |-> at.c + 1, h |-> 0, s |-> 0]

\* chs_next()
ChsNext(at, heads) ==
  IF at.s + 1 < SPT THEN [at EXCEPT !.s = @ + 1]
  ELSE IF at.h + 1 < heads THEN [c |-> at.c, h |-> at.h + 1, s |-> 0]
  ELSE [c |-> at.c + 1, h |-> 0, s |-> 0]

\* winchester_offset(), in sectors; reading or writing may fail all the same
Offset(at) == at.s + at.h * SPT + at.c * HEADS * SPT
OnDisk(at) == at.c < CYLS /\ at.h < HEADS /\ at.s < SPT

Swap(w) == -w
LeastOf(a, b) == IF a < b THEN a ELSE b
Failed(d) == [d EXCEPT !.ret_status = {"ERR", "NO_SECTOR"}]

\* mx_winch_trans_decode() and the start of mx_winch_transmit(): a word less one is
\* the length, so the longest is none at all
Winchester(p) ==
  LET f == field[p]
      d == [data[p] EXCEPT !.op = f.op, !.addr = f.addr, !.len = (f.n + 1) % Words, !.sector = f.sector,
                           !.ret_len = 0, !.ret_status = {}]
      first == Chs(f.sector, d.heads)
  IN /\ pc[p] = "decode" /\ cmd[p] = "transmit" /\ plines[p].proto = "winchester"
     /\ IF ~ready
        THEN LET no == [d EXCEPT !.ret_status = {"NOT_READY"}]
             IN data' = [data EXCEPT ![p] = no] /\ Ended(p, no, "ITRER") /\ UNCHANGED <<chs, buf>>
        ELSE IF f.op \in {"read", "write", "format"}
        THEN /\ data' = [data EXCEPT ![p] = d] /\ chs' = [chs EXCEPT ![p] = [at |-> first, left |-> SPT]]
             /\ buf' = IF f.op = "format" THEN [buf EXCEPT ![p] = [k \in 1..SectorWords |-> 0]] ELSE buf
             /\ pc' = [pc EXCEPT ![p] = f.op] /\ UNCHANGED <<answer, results>>
        ELSE /\ data' = [data EXCEPT ![p] = d]
             /\ Ended(p, d, IF f.op \in {"spare", "park"} THEN "IETRA" ELSE "INTRA") /\ UNCHANGED <<chs, buf>>
     /\ UNCHANGED <<confs, attached, cmd, field, mem, disk, moved, ready, cmds>>

\* Mutant of Count: the last sector counts whole.
CountWhole(d) == SectorWords

\* the words of the sector in hand, in memory
Count(d) == LeastOf(d.len - d.ret_len, SectorWords)
At(d, k) == (d.addr + d.ret_len + k - 1) % Words

\* memory refuses the words from the start of a page on
Until(d) == {k \in 0..Count(d) - 1 : k = 0 \/ At(d, k + 1) % Page = 0}
SectorLoaded(d, words, n) ==
  [a \in DOMAIN mem |-> IF \E k \in 1..n : At(d, k) = a
                        THEN words[CHOOSE k \in 1..n : At(d, k) = a /\ \A j \in k + 1..n : At(d, j) # a] ELSE mem[a]]

Further(p, d) ==
  /\ data' = [data EXCEPT ![p] = [d EXCEPT !.ret_len = @ + Count(d)]]
  /\ chs' = [chs EXCEPT ![p].at = ChsNext(@, d.heads)]
  /\ moved' = [moved EXCEPT ![p] = @ + Count(d)]
  /\ UNCHANGED <<pc, answer, results>>

\* mx_winch_read(): one sector
WinchRead(p) ==
  LET d == data[p]
      at == chs[p].at
      sector == disk[Offset(at)]
      read == [k \in 1..SectorWords |-> IF k <= Count(d) THEN Swap(sector[k]) ELSE sector[k]]
  IN /\ pc[p] = "read"
     /\ \/ /\ d.ret_len >= d.len /\ Ended(p, d, "IETRA") /\ UNCHANGED <<data, chs, buf, mem, moved>>
        \/ /\ d.ret_len < d.len
           /\ data' = [data EXCEPT ![p] = Failed(d)] /\ Ended(p, Failed(d), "ITRER")
           /\ UNCHANGED <<chs, buf, mem, moved>>
        \/ /\ d.ret_len < d.len /\ OnDisk(at) /\ buf' = [buf EXCEPT ![p] = read]
           /\ \/ mem' = SectorLoaded(d, read, Count(d)) /\ Further(p, d)
              \/ \E k \in Until(d) : mem' = SectorLoaded(d, read, k) /\ Ended(p, d, "INPAO") /\ UNCHANGED <<data, chs, moved>>
     /\ UNCHANGED <<confs, attached, cmd, field, disk, ready, cmds>>

\* mx_winch_write(): one sector, its end left over in the buffer
WinchWrite(p) ==
  LET d == data[p]
      at == chs[p].at
      from(n) == [k \in 1..SectorWords |-> IF k <= n THEN mem[At(d, k)] ELSE buf[p][k]]
      out == [k \in 1..SectorWords |-> IF k <= Count(d) THEN Swap(from(Count(d))[k]) ELSE buf[p][k]]
  IN /\ pc[p] = "write"
     /\ \/ /\ d.ret_len >= d.len /\ Ended(p, d, "IETRA") /\ UNCHANGED <<data, chs, buf, disk, moved>>
        \/ /\ d.ret_len < d.len /\ \E k \in Until(d) : buf' = [buf EXCEPT ![p] = from(k)]
           /\ Ended(p, d, "INPAO") /\ UNCHANGED <<data, chs, disk, moved>>
        \/ /\ d.ret_len < d.len /\ buf' = [buf EXCEPT ![p] = out]
           /\ data' = [data EXCEPT ![p] = Failed(d)] /\ Ended(p, Failed(d), "ITRER")
           /\ UNCHANGED <<chs, disk, moved>>
        \/ /\ d.ret_len < d.len /\ OnDisk(at) /\ buf' = [buf EXCEPT ![p] = out]
           /\ disk' = [disk EXCEPT ![Offset(at)] = out] /\ Further(p, d)
     /\ UNCHANGED <<confs, attached, cmd, field, mem, ready, cmds>>

\* mx_winch_format(): a track of zeros
WinchFormat(p) ==
  LET at == chs[p].at
  IN /\ pc[p] = "format"
     /\ \/ /\ chs[p].left = 0 /\ Ended(p, data[p], "IETRA") /\ UNCHANGED <<data, chs, disk>>
        \/ /\ chs[p].left > 0 /\ data' = [data EXCEPT ![p] = Failed(@)]
           /\ Ended(p, Failed(data[p]), "ITRER") /\ UNCHANGED <<chs, disk>>
        \/ /\ chs[p].left > 0 /\ OnDisk(at) /\ disk' = [disk EXCEPT ![Offset(at)] = buf[p]]
           /\ chs' = [chs EXCEPT ![p] = [at |-> ChsNext(at, data[p].heads), left |-> @.left - 1]]
           /\ UNCHANGED <<data, pc, answer, results>>
     /\ UNCHANGED <<confs, attached, cmd, field, buf, mem, moved, ready, cmds>>

-----------------------------------------------------------------------------
LinesInit ==
  /\ plines = [p \in Phys |-> Unused] /\ llines = <<>> /\ setcfg = "none" /\ attached = {}
  /\ pc = [p \in Phys |-> "idle"] /\ cmd = [p \in Phys |-> "attach"] /\ field = [p \in Phys |-> NoField]
  /\ data = [p \in Phys |-> NoData] /\ chs = [p \in Phys |-> [at |-> Chs(0, 1), left |-> 0]]
  /\ buf = [p \in Phys |-> [k \in 1..SectorWords |-> 0]]
  /\ mem = [a \in 0..Words - 1 |-> a + 1]
  /\ disk = [o \in 0..CYLS * HEADS * SPT - 1 |-> [k \in 1..SectorWords |-> -(10 + o * SectorWords + k)]]
  /\ ready \in BOOLEAN
  /\ answer = [p \in Phys |-> "none"] /\ results = [p \in Phys |-> [len |-> "old", status |-> {"old"}]]
  /\ moved = [p \in Phys |-> 0] /\ cmds = 0

LineStep(p) == \/ Attach(p) \/ Detach(p) \/ Refused(p) \/ Terminal(p) \/ Floppy(p) \/ Winchester(p)
               \/ WinchRead(p) \/ WinchWrite(p) \/ WinchFormat(p)
LinesNext ==
  \/ \E s \in Setups : SetCfg(s)
  \/ LinesDeinit
  \/ \E l \in DOMAIN llines : \/ \E c \in {"attach", "detach", "abort"} : Give(l, c, NoField)
                              \/ \E f \in Fields : Give(l, "transmit", f)
  \/ \E a \in {0} : Poke(a, 9)
  \/ \E p \in Phys : LineStep(p)
LinesSpec == LinesInit /\ [][LinesNext]_linesVars

-----------------------------------------------------------------------------
\* Lines are set up whole or not at all: each logical line has a physical one to itself
\* that is used and of a type and direction its protocol can do with, boards are of one
\* kind, and after a rejection nothing is set up (mx_cmd_setcfg(), mx_lines_deinit()).
LinesSetUp ==
  /\ IsInjective(llines) /\ Complete(plines)
  /\ \A l \in DOMAIN llines :
       LET p == plines[llines[l]]
       IN p.used /\ p.proto \in DOMAIN Protocols /\ p.type \in Protocols[p.proto].types
          /\ Protocols[p.proto].dir \subseteq p.dir
  /\ \A p \in Phys : plines[p].proto # "none" <=> p \in ToSet(llines)
  /\ setcfg \notin {"OK", "none"} => llines = <<>> /\ \A p \in Phys : ~plines[p].used

\* What a program reads in its fields is what has happened: as many words as it is told
\* have been carried over, all of them when the transmission is said to have ended well,
\* and an error when not (mx_winch_read(), mx_winch_write(), mx_winch_transmit_encode()).
ResultsTell ==
  \A p \in Phys : answer[p] \in {"IETRA", "ITRER"} /\ plines[p].proto = "winchester" /\ data[p].op \in {"read", "write"} =>
    /\ results[p].len = moved[p]
    /\ answer[p] = "IETRA" => moved[p] = data[p].len /\ results[p].status = {}
    /\ answer[p] = "ITRER" => results[p].status # {}

\* A logical sector is one place on the disk, whether a transfer begins there or comes to
\* it from the sector before, over the end of a track or of a cylinder: a step of a line
\* touches the sector that the words done so far lead to, and no other
\* (lba2chs(), chs_next(), winchester_offset()).
Reached(p) == data[p].sector + data[p].ret_len \div SectorWords
SectorsStay ==
  [][\A o \in DOMAIN disk : disk'[o] # disk[o] =>
       \E p \in Phys : \/ pc[p] = "write" /\ o = Offset(Chs(Reached(p), data[p].heads))
                       \/ pc[p] = "format" /\ o = Offset(Chs(data[p].sector + SPT - chs[p].left, data[p].heads))]_linesVars
ReadsAsAddressed ==
  [][\A p \in Phys : pc[p] = "read" /\ moved'[p] > moved[p] =>
       \A k \in 1..Count(data[p]) :
         At(data[p], k) \notin {At(data[p], j) : j \in k + 1..Count(data[p])} =>
           mem'[At(data[p], k)] = Swap(disk[Offset(Chs(Reached(p), data[p].heads))][k])]_linesVars

\* A line does for a program what it was told: it is set up so, works on the sectors it was
\* given, and says what came of it (mx.c, proto_winchester.c).
LinesSafe == [](LinesSetUp /\ ResultsTell) /\ SectorsStay /\ ReadsAsAddressed

\* A transfer touches only the words it is for: what follows them in the last sector
\* stays; it does not, the buffer's contents are written there (mx_winch_write()).
TailKept ==
  [][\A p \in Phys : pc[p] = "write" /\ moved'[p] > moved[p] =>
       \A k \in Count(data[p]) + 1..SectorWords :
         disk'[Offset(chs[p].at)][k] = disk[Offset(chs[p].at)][k]]_linesVars
=============================================================================
