------------------------------- MODULE MCHost -------------------------------
(* The parts of the program around the machine for TLC, one beside the other: a *)
(* behaviour is one of a list, of a channel that has no units, of the watches of *)
(* directories, of the machine built and taken down, of the debugger's watches,  *)
(* of the configuration and its dialog, of a winchester: as a disk of            *)
(* directories, as an image, and as a MULTIX line works on it; or of a floppy    *)
(* drive with a directory in it: as a diskette, as a CROOK area, or with a disk  *)
(* that is made up.                                                              *)
EXTENDS Services, MxLines, Watches, WinchDir, Sp45deDir, Crook5fs, CrkDir

VARIABLE part

-----------------------------------------------------------------------------
(* Machines: every kind of channel, devices that stand where they may, and *)
(* some that do not.                                                       *)
OfType(c, d0, d1) == [type |-> c, dev |-> [d \in Devs |-> IF d = 0 THEN d0 ELSE d1]]
MCMachines == {[c \in Chans |-> IF c = 0 THEN a ELSE b] : a \in {OfType("char", "terminal", "sp45de"), OfType("mx", "winchester", "terminal"), OfType("none", "none", "none")},
                                                        b \in {OfType("char", "rtclock", "none"), OfType("mx", "flop5", "sp45de"), OfType("plix", "none", "none")}}

(* Expressions: every operator on operands of every kind, and nested ones  *)
(* that fail where it may not matter.                                      *)
StateOf(r0, ic, qb, blk) ==
  [reg |-> [r \in Regs |-> IF r = 0 THEN r0 ELSE IF r = IC THEN ic ELSE 3], rz |-> {0, 5},
   cell |-> [c \in {"q", "nb", "alarm", "mc"} |-> IF c = "q" THEN qb ELSE IF c = "nb" THEN blk ELSE 1],
   mem |-> [x \in {0, 1} \X {0, 1, 2, 3, 6} |-> x[2] + x[1]]]
MCStates == {StateOf(5, 2, 1, 1), StateOf(7, 1, 0, 1)}
Val0 == Leaf("val", 0)
Val1 == Leaf("val", 1)
MCLeaves == {Val0, Leaf("val", 2), Leaf("val", 6), Leaf("val", 9), Leaf("reg", 0), Leaf("reg", 9), Leaf("flag", 0),
           Leaf("rzbit", 5), Leaf("rzbit", 7), Leaf("cell", "nb"), Loc(1, 2)}
MCSingle == {Op(o, a, b) : o \in Logicals \cup Compares \cup Arithmetics, a \in MCLeaves, b \in MCLeaves}
           \cup {Unary(o, a) : o \in Unaries, a \in MCLeaves}
           \cup {Mem(a, b) : a \in {Leaf("val", -1), Val0, Val1, Leaf("val", 3)}, b \in MCLeaves}
MCNested == {Op(o, a, b) : o \in {"&&", "||", "/", "<<"}, a \in {Val0, Val1, Op("/", Val1, Val0), Unary("neg", Val1)},
                         b \in {x \in MCSingle : x.type # "op" \/ x.val \in {"/", "-", "<<"}}}
MCAsked == MCLeaves \cup MCSingle \cup MCNested
MCWatched == {Leaf("val", 2), Op("+", Leaf("reg", 0), Leaf("reg", IC))}

(* Configurations: two machines, one of them not active; none that is      *)
(* active; none at all, with an old one or not.                            *)
MCMaxDevices == [char |-> 2, multix |-> 2, iotester |-> 0, plix |-> 0]
LabMachine == [Machine(<<"a", 1>>) EXCEPT !.chan[0] = "char", !.dev[<<0, 0>>] = [Device("sp45de") EXCEPT !.path = "p"]]
OsMachine == [Machine(<<"b", 1>>) EXCEPT !.setting = "os", !.chan[0] = "char", !.chan[1] = "plix", !.dev[<<0, 0>>] = Device("sp45de")]
MCFiles == {NoFile, Written([machines |-> <<LabMachine, OsMachine>>, active |-> LabMachine.id]), Written([machines |-> <<LabMachine>>, active |-> NoId])}
MCLegacies == {NoFile, File(NoId, <<>>, Section(OsMachine).keys)}

MCAreaName == [d \in Subdirs |-> d]
MCRawName == [n \in Names |-> IF n = "a" THEN "b" ELSE "c"]
MCSources == {<<1, 2>>, <<3>>}

(* What a program asks MULTIX for: configurations that are right, and each *)
(* kind of error; then commands on the lines.                              *)
PhyLines(n, used, dir, type) == [count |-> n, line |-> [used |-> used, dir |-> dir, type |-> type, proto |-> "none"]]
LogLine(phy, proto, param) == [phy |-> phy, proto |-> proto, param |-> param]
SetupOf(phy, log) == [phy |-> phy, log |-> log]
MCSetups == {
  SetupOf(<<PhyLines(2, TRUE, {}, "winchester"), PhyLines(2, TRUE, {}, "floppy")>>, <<LogLine(0, "winchester", 2), LogLine(2, "floppy", 1)>>),
  SetupOf(<<PhyLines(2, TRUE, {"in", "out", "on"}, "async"), PhyLines(2, TRUE, {"out"}, "8255")>>,
       <<LogLine(0, "terminal", 0), LogLine(2, "puncher", 0), LogLine(1, "punchreader", 0)>>),
  SetupOf(<<PhyLines(4, TRUE, {}, "winchester")>>, <<LogLine(0, "winchester", 3)>>),
  SetupOf(<<PhyLines(1, TRUE, {}, "winchester"), PhyLines(1, TRUE, {}, "floppy")>>, <<LogLine(0, "winchester", 1)>>),
  SetupOf(<<PhyLines(2, TRUE, {}, "tape"), PhyLines(2, TRUE, {}, "tape")>>, <<LogLine(0, "tape", 1)>>),
  SetupOf(<<PhyLines(2, TRUE, {}, "tape")>>, <<LogLine(0, "tape", 1), LogLine(0, "tape", 1)>>),
  SetupOf(<<PhyLines(3, TRUE, {}, "tape"), PhyLines(2, TRUE, {}, "floppy")>>, <<LogLine(0, "tape", 1)>>),
  SetupOf(<<PhyLines(2, TRUE, {"in"}, "async")>>, <<LogLine(0, "terminal", 1)>>),
  SetupOf(<<PhyLines(2, TRUE, {}, "floppy")>>, <<LogLine(0, "floppy", 3)>>),
  SetupOf(<<PhyLines(2, TRUE, {}, "floppy")>>, <<LogLine(1, "winchester", 3)>>),
  SetupOf(<<PhyLines(2, FALSE, {}, "async")>>, <<LogLine(1, "terminal", 3)>>),
  SetupOf(<<PhyLines(2, TRUE, {"in"}, "floppy")>>, <<LogLine(1, "som", 3)>>),
  SetupOf(<<PhyLines(2, TRUE, {}, "floppy")>>, <<LogLine(1, "som", 3)>>),
  SetupOf(<<PhyLines(2, TRUE, {}, "drum")>>, <<LogLine(1, "som", 3)>>),
  SetupOf(<<>>, <<LogLine(1, "som", 3)>>)}
FieldOf(op, addr, n, sector) == [op |-> op, addr |-> addr, n |-> n, sector |-> sector]
MCFields == {FieldOf(op, 4, n, 3 - n) : op \in {"read", "write"}, n \in {0, 2}}
              \cup {FieldOf("write", 4, Words - 1, 1), FieldOf("format", 0, 0, 3), FieldOf("park", 0, 0, 0), FieldOf("op4", 0, 0, 0)}

MCDatas == {<<1>>, <<1, LF>>}
MCGuestDatas == {<<5, CR, LF>>}
MCSplit == [r \in Raws |-> [name |-> IF r = "F.A" THEN "F" ELSE "G", ext |-> "A"]]
MCHash == [n \in {"F", "G"} |-> IF n = "F" THEN 0 ELSE 1]
MCBase == [rel \in 0..FildicSectors - 1 |->
             IF rel = 0 THEN <<[name |-> "GLOBAL", ext |-> "DAT", user |-> "BOSS", start |-> 0, nsec |-> AK, p1 |-> 0, p2 |-> 0, access |-> "AW"]>>
             ELSE <<>>]
MCName8 == [r \in Raws |-> r]
MCFlpHash == [n \in {"FILDIC", "CDIREC", "GLOBAL", "MAP", "NDIREC", "LABEL", "DICDIC", "LOADER"} \cup FlpFiles |->
                IF n \in {"FILDIC", "CDIREC"} \cup FlpFiles THEN 0 ELSE IF n \in {"GLOBAL", "MAP", "NDIREC"} THEN 1 ELSE 2]

-----------------------------------------------------------------------------
HostParts == {"list", "plix", "tester", "watch", "power", "expressions", "config", "areas", "drive", "lines",
               "diskette", "area", "disk"}
Init == /\ part \in HostParts
        /\ ElstInit /\ PlixInit /\ WatchInit /\ E4Init
        /\ TesterInit /\ (part # "tester" => copy = [a \in TestAddrs |-> 0])
        /\ PowerInit /\ (part # "power" => machine = CHOOSE m \in Machines : TRUE)
        /\ WatchesInit /\ (part # "expressions" => state = CHOOSE s \in MachineStates : TRUE)
        /\ ConfigInit /\ (part # "config" => file = NoFile /\ legacy = NoFile)
        /\ WdInit /\ (part # "areas" => there = {})
        /\ (part # "drive" => conf = "a")
        /\ LinesInit /\ (part # "lines" => ready)
        /\ FloppyInit /\ (part \notin {"diskette", "area"} => host = [r \in Raws |-> Gone])
        /\ (part = "diskette" => Cardinality(Files) <= 1)
        /\ watch = (part = "diskette")   \* bound: the directory of the area is polled
        /\ C5fsInit /\ CrkInit

OnList == part = "list" /\ ElstNext
  /\ UNCHANGED <<part, plixVars, testerVars, watchVars, powerVars, watchesVars, cfgVars, wdVars, e4Vars, linesVars, hostVars, floppyVars, c5fsVars, crkVars>>
OnPlix == part = "plix" /\ PlixNext
  /\ UNCHANGED <<part, elstVars, testerVars, watchVars, powerVars, watchesVars, cfgVars, wdVars, e4Vars, linesVars, hostVars, floppyVars, c5fsVars, crkVars>>
OnTester == part = "tester" /\ TesterNext
  /\ UNCHANGED <<part, elstVars, plixVars, watchVars, powerVars, watchesVars, cfgVars, wdVars, e4Vars, linesVars, hostVars, floppyVars, c5fsVars, crkVars>>
OnWatch == part = "watch" /\ WatchNext
  /\ UNCHANGED <<part, elstVars, plixVars, testerVars, powerVars, watchesVars, cfgVars, wdVars, e4Vars, linesVars, hostVars, floppyVars, c5fsVars, crkVars>>
OnPower == part = "power" /\ PowerNext
  /\ UNCHANGED <<part, elstVars, plixVars, testerVars, watchVars, watchesVars, cfgVars, wdVars, e4Vars, linesVars, hostVars, floppyVars, c5fsVars, crkVars>>
OnExpressions == part = "expressions" /\ WatchesNext
  /\ UNCHANGED <<part, elstVars, plixVars, testerVars, watchVars, powerVars, cfgVars, wdVars, e4Vars, linesVars, hostVars, floppyVars, c5fsVars, crkVars>>
OnConfig == part = "config" /\ ConfigNext
  /\ UNCHANGED <<part, elstVars, plixVars, testerVars, watchVars, powerVars, watchesVars, wdVars, e4Vars, linesVars, hostVars, floppyVars, c5fsVars, crkVars>>
OnAreas == part = "areas" /\ WdNext
  /\ UNCHANGED <<part, elstVars, plixVars, testerVars, watchVars, powerVars, watchesVars, cfgVars, e4Vars, linesVars, hostVars, floppyVars, c5fsVars, crkVars>>
OnDrive == part = "drive" /\ E4Next
  /\ UNCHANGED <<part, elstVars, plixVars, testerVars, watchVars, powerVars, watchesVars, cfgVars, wdVars, linesVars, hostVars, floppyVars, c5fsVars, crkVars>>
OnLines == part = "lines" /\ LinesNext
  /\ UNCHANGED <<part, elstVars, plixVars, testerVars, watchVars, powerVars, watchesVars, cfgVars, wdVars, e4Vars, hostVars, floppyVars, c5fsVars, crkVars>>
OnDiskette == part = "diskette" /\ FloppyNext
  /\ UNCHANGED <<part, elstVars, plixVars, testerVars, watchVars, powerVars, watchesVars, cfgVars, wdVars, e4Vars, linesVars, c5fsVars, crkVars>>
OnArea == part = "area" /\ C5fsNext
  /\ UNCHANGED <<part, elstVars, plixVars, testerVars, watchVars, powerVars, watchesVars, cfgVars, wdVars, e4Vars, linesVars, floppyVars, crkVars>>
OnMadeUp == part = "disk" /\ CrkNext
  /\ UNCHANGED <<part, elstVars, plixVars, testerVars, watchVars, powerVars, watchesVars, cfgVars, wdVars, e4Vars, linesVars, hostVars, floppyVars, c5fsVars>>
Next == OnList \/ OnPlix \/ OnTester \/ OnWatch \/ OnPower \/ OnExpressions \/ OnConfig \/ OnAreas \/ OnDrive \/ OnLines
        \/ OnDiskette \/ OnArea \/ OnMadeUp
Spec == Init /\ [][Next]_<<part, elstVars, plixVars, testerVars, watchVars, powerVars, watchesVars, cfgVars, wdVars, e4Vars, linesVars, hostVars, floppyVars, c5fsVars, crkVars>>

-----------------------------------------------------------------------------
\* The debugger's watches and the value of their expressions are what was asked for
\* (watch.c and eval.c).
HostSound == part = "expressions" => WatchesListed /\ MeansIt

\* The areas of a winchester do not overlap and have their structures (winchester_dir.c).
AreasSound == part = "areas" => AreasApart /\ SynthSound

\* A directory behind a floppy drive makes a disk whose structures agree and whose
\* sectors belong to one file each, and with nothing left to carry over the files are
\* the same on both sides (sp45de_dir.c, crook5fs.c, sp45de_crkdir.c).
FloppySound == IndexSound /\ (part = "area" => AreaSound /\ InStep) /\ CrkSound

\* Directories as disks are sound at every moment, and what a step does on one side leaves the
\* other side's alone: areas of a winchester when the host's files change, files on the
\* host when the guest's do (winchester_dir.c, crook5fs.c).
DisksSafe == [](AreasSound /\ FloppySound) /\ AreasKept /\ HostKept
=============================================================================
