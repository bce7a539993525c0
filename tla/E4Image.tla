------------------------------ MODULE E4Image ------------------------------
(***************************************************************************)
(* Disk images with a header (io/dev/e4image.c), the tool that makes them  *)
(* (emitool.c), and what becomes of one that a hard disk still uses: at    *)
(* the start of the emulator it is exported to a raw image once            *)
(* (appcfg_migrate_images()), and the drive uses that (winchester.c).      *)
(* Contents are counted in sectors and identifiers of sectors, so a block  *)
(* is one unit, or two when it has an identifier.                          *)
(***************************************************************************)
EXTENDS Integers, Sequences

CONSTANTS
  Names,            \* files
  RawName,          \* raw_image_name() of each
  Sources,          \* contents of files that are not images: sequences of units
  E4_CYLS, E4_HEADS, E4_SPT, \* the geometry of the winchester
  MaxSteps          \* bound: what the user does

ASSUME E4ImageAssumption ==
  /\ RawName \in [Names -> Names] /\ MaxSteps \in Nat
  /\ E4_CYLS \in Nat \ {0} /\ E4_HEADS \in Nat \ {0} /\ E4_SPT \in Nat \ {0}
  /\ \A s \in Sources : s \in Seq({s[k] : k \in DOMAIN s})

None == [kind |-> "none", data |-> <<>>]
Raw(data) == [kind |-> "raw", data |-> data]
Settable == {"ro", "master", "removable"}       \* known_flags of the tool
Modes == {"lba", "chs", "seq"}
NoSource == "none"

VARIABLES
  e4file,         \* the files
  conf,         \* the image in the saved configuration
  e4pc,           \* the emulator: "off", "export", "save", "up"
  image,        \* the image in its own copy of the configuration
  driveReady,        \* the drive has opened it
  truth,        \* history: what the drive's disk holds
  steps

e4Vars == <<e4file, conf, e4pc, image, driveReady, truth, steps>>

-----------------------------------------------------------------------------
(* e4image.c                                                               *)
Units(e) == e.id + 1
Total == E4_CYLS * E4_HEADS * E4_SPT

\* __e4i_create(): images are not destroyed; the geometry is in the flags too
Created(mode, id, append) ==
  [kind |-> "e4i", id |-> id, data |-> <<>>,
   blocks |-> IF mode = "seq" THEN 0 ELSE Total,
   flags |-> CASE mode = "chs" -> {"chs", "lba"}
               [] mode = "lba" -> {"lba"} \cup IF append THEN {"append"} ELSE {}
               [] mode = "seq" -> {"append"}]

\* e4i_import(): whole blocks; media of a fixed size must be filled
ImportFits(e, src) == "append" \in e.flags \/ Len(src) = e.blocks * Units(e)
E4Imported(e, src) ==
  [e EXCEPT !.data = SubSeq(src, 1, (Len(src) \div Units(e)) * Units(e)),
            !.flags = @ \cup {"formatted", "master"}]

\* e4i_init(): identifiers from the generator of the preset, m9425_idgenf()
Identifier(e, block) ==
  LET rem == block % (E4_HEADS * E4_SPT)
  IN <<block \div (E4_HEADS * E4_SPT), IF rem \div E4_SPT # 0 \/ "removable" \in e.flags THEN 4 ELSE 0, rem \div E4_SPT>>
InitFits(e, gen) == "append" \in e.flags \/ (e.id > 0) = gen
Initialised(e) ==
  [e EXCEPT !.flags = @ \cup {"formatted"},
            !.data = IF "append" \in e.flags THEN <<>>
                     ELSE [k \in 1..e.blocks * Units(e) |->
                             IF e.id > 0 /\ k % 2 = 1 THEN Identifier(e, (k - 1) \div 2) ELSE 0]]

-----------------------------------------------------------------------------
(* emitool.c *)
Step == steps < MaxSteps /\ steps' = steps + 1

\* the tool creates an image, fills it and then sets the flags; when filling fails the
\* image stays behind, not formatted
EmiCreate(n, mode, id, append, src, gen, flags) ==
  LET e == Created(mode, id, append)
      fits == IF src = NoSource THEN InitFits(e, gen)
              ELSE e4file[src].kind # "none" /\ ImportFits(e, e4file[src].data)
      full == IF src = NoSource THEN Initialised(e) ELSE E4Imported(e, e4file[src].data)
  IN /\ Step /\ e4pc = "off" /\ e4file[n] = None /\ src # n
     /\ e4file' = [e4file EXCEPT ![n] = IF fits THEN [full EXCEPT !.flags = @ \cup flags] ELSE e]
     /\ truth' = IF n = conf THEN e4file'[n].data ELSE truth
     /\ UNCHANGED <<conf, e4pc, image, driveReady>>

\* e4i_flag_set() and e4i_flag_clear()
EmiFlags(n, set, clear) ==
  /\ Step /\ e4pc = "off" /\ e4file[n].kind = "e4i"
  /\ e4file' = [e4file EXCEPT ![n].flags = (@ \cup set) \ clear]
  /\ UNCHANGED <<conf, e4pc, image, driveReady, truth>>

\* e4i_export(), over whatever the other file was
EmiExtract(n, dst) ==
  /\ Step /\ e4pc = "off" /\ e4file[n].kind = "e4i" /\ dst # n /\ dst # conf
  /\ e4file' = [e4file EXCEPT ![dst] = Raw(e4file[n].data)]
  /\ UNCHANGED <<conf, e4pc, image, driveReady, truth>>

-----------------------------------------------------------------------------
(* The emulator.                                                           *)
\* Mutant of MustExport: the raw image is made again, though it has been used.
MustExportAgain(n) == e4file[n].kind = "e4i"

\* e4i_migrate_to_raw()
MustExport(n) == e4file[n].kind = "e4i" /\ e4file[RawName[n]].kind = "none"

\* winchester_create(): a raw image of the right size, or the drive is not ready
Opens(n) == e4file[n].kind = "raw" /\ Len(e4file[n].data) = Total

Launch ==
  /\ e4pc = "off" /\ image' = conf
  /\ IF MustExport(conf)
     THEN e4pc' = "export" /\ e4file' = [e4file EXCEPT ![RawName[conf]] = Raw(<<>>)] /\ UNCHANGED driveReady
     ELSE e4pc' = "up" /\ driveReady' = Opens(conf) /\ UNCHANGED e4file
  /\ UNCHANGED <<conf, truth, steps>>
Export ==
  LET to == RawName[image]
      done == Len(e4file[to].data)
  IN /\ e4pc = "export"
     /\ IF done < Len(e4file[image].data)
        THEN e4file' = [e4file EXCEPT ![to].data = Append(@, e4file[image].data[done + 1])] /\ UNCHANGED <<e4pc, image>>
        ELSE e4pc' = "save" /\ image' = to /\ UNCHANGED e4file
     /\ UNCHANGED <<conf, driveReady, truth, steps>>
ExportFails ==
  /\ e4pc = "export" /\ e4file' = [e4file EXCEPT ![RawName[image]] = None]
  /\ e4pc' = "up" /\ driveReady' = FALSE /\ UNCHANGED <<conf, image, truth, steps>>

\* appcfg_migrate_images(): saving may fail, and the drive uses the raw image all the same
E4Save ==
  /\ e4pc = "save" /\ conf' \in {conf, image}
  /\ e4pc' = "up" /\ driveReady' = Opens(image) /\ UNCHANGED <<e4file, image, truth, steps>>

\* winchester_sector_wr()
SectorWr(s) ==
  /\ e4pc = "up" /\ driveReady /\ e4file' = [e4file EXCEPT ![image].data[s] = 9]
  /\ truth' = [truth EXCEPT ![s] = 9] /\ UNCHANGED <<conf, e4pc, image, driveReady, steps>>

\* the emulator ends, or is killed at any point
Ends == e4pc # "off" /\ e4pc' = "off" /\ driveReady' = FALSE /\ UNCHANGED <<e4file, conf, image, truth, steps>>

\* the user sets another image, or puts a raw image where there is none
UserSets(n) ==
  /\ Step /\ e4pc = "off" /\ conf' = n /\ truth' = e4file[n].data /\ UNCHANGED <<e4file, e4pc, image, driveReady>>
UserPuts(n, data) ==
  /\ Step /\ e4pc = "off" /\ e4file[n] = None /\ e4file' = [e4file EXCEPT ![n] = Raw(data)]
  /\ truth' = (IF n = conf THEN data ELSE truth) /\ UNCHANGED <<conf, e4pc, image, driveReady>>

E4Init == /\ e4file = [n \in Names |-> None] /\ conf \in Names /\ e4pc = "off" /\ image = conf
          /\ driveReady = FALSE /\ truth = <<>> /\ steps = 0
E4Next ==
  \/ \E n \in Names :
       \/ UserSets(n) \/ \E d \in Sources : UserPuts(n, d)
       \/ \E mode \in Modes, src \in Names \cup {NoSource}, id \in {0, 1}, gen \in BOOLEAN, append \in BOOLEAN,
             flags \in {{}, {"removable"}} : EmiCreate(n, mode, id, append, src, gen, flags)
       \/ \E f \in Settable : EmiFlags(n, {f}, {}) \/ EmiFlags(n, {}, {f})
       \/ \E dst \in Names : EmiExtract(n, dst)
  \/ Launch \/ Export \/ ExportFails \/ E4Save \/ Ends \/ \E s \in 1..Total : SectorWr(s)
E4Spec == E4Init /\ [][E4Next]_e4Vars

-----------------------------------------------------------------------------
\* A drive that is ready shows what its disk holds, the machine's own writes in former
\* sessions included, however an export or the saving of the configuration ended
\* (e4i_migrate_to_raw(), appcfg_migrate_images(), winchester_create()).
DriveTrue == driveReady => e4file[image].data = truth

\* An image of a fixed size that is formatted has all its blocks (e4i_import(), e4i_init(),
\* the flags the tool may change).
FormattedWhole ==
  \A n \in Names : e4file[n].kind = "e4i" /\ "formatted" \in e4file[n].flags /\ "append" \notin e4file[n].flags =>
    Len(e4file[n].data) = e4file[n].blocks * Units(e4file[n])

\* The identifier of a sector is its own (m9425_idgenf()); it is not: the sector in it is
\* that of the head.
IdentifiersDiffer ==
  \A n \in Names : e4file[n].kind = "e4i" /\ e4file[n].id > 0 /\ "master" \notin e4file[n].flags =>
    \A i, j \in {k \in DOMAIN e4file[n].data : k % 2 = 1} : i # j => e4file[n].data[i] # e4file[n].data[j]
=============================================================================
