------------------------------- MODULE CrkDir -------------------------------
(***************************************************************************)
(* A floppy made of a directory of the host, as CROOK-5 formats one        *)
(* (src/io/dev/sp45de_crkdir.c): its structures, the two ways of laying    *)
(* them down, and what files that come and go leave of them.  The contents *)
(* of the files are the matter of Crook5fs.                                *)
(***************************************************************************)
EXTENDS Integers, Sequences

CONSTANTS
  FlpSlots,     \* entries in a sector of the dictionary
  FlpHash,      \* c5fs_fildic_hash() of names: 0..3
  FlpFiles,     \* files of the host, names of FlpHash
  FlpLens,      \* their sectors
  MaxFlpSteps   \* bound

FLP_A0 == 8
FLP_A1 == 17
FLP_A2 == 24
FLP_A3 == 25
FLP_AK == 480
FLP_STRUCT_END == 59
FLP_LOADER_LO == 1
FLP_CDIREC_LO == 25
FLP_CDIREC_HI == 42
FLP_NDIREC_HI == 59

\* SP45DE_TRACK_CNT, SP45DE_SECTOR_PER_TRACK, blocks of 128 bytes in a sector of 512
FlpTracks == 77
SectorsOfTrack == 26
BlocksOfSector == 4

ASSUME CrkDirAssumption == FlpSlots \in Nat \ {0} /\ MaxFlpSteps \in Nat /\ FlpFiles \subseteq DOMAIN FlpHash

VARIABLES
  crk,      \* the image: [variant, fildic, map, image], or Unmade
  block,    \* the sector of the last transfer, -1 for none of the floppy
  flpSteps

crkVars == <<crk, block, flpSteps>>
Unmade == [variant |-> "none"]
FlpRels == 0..FLP_A2 - FLP_A1 - 1

-----------------------------------------------------------------------------
(* synth_flop8()                                                           *)

\* the pseudo-files of the system, in the order BOSS makes them
Pseudo(name, start, end) == [name |-> name, start |-> start, end |-> end]
SystemEntries(variant) ==
  SelectSeq(<<Pseudo("FILDIC", FLP_A1, FLP_A2), Pseudo("CDIREC", FLP_CDIREC_LO, FLP_CDIREC_HI),
              Pseudo("GLOBAL", 0, FLP_AK), Pseudo("MAP", FLP_A2, FLP_A3), Pseudo("NDIREC", FLP_CDIREC_HI, FLP_NDIREC_HI),
              Pseudo("LABEL", 0, 1), Pseudo("DICDIC", FLP_A0, FLP_A1), Pseudo("LOADER", FLP_LOADER_LO, FLP_A0)>>,
            LAMBDA e : variant = "T" \/ e.name \notin {"CDIREC", "MAP", "NDIREC", "LOADER"})

\* the sector of the dictionary that CROOK looks in after this one; -1 at the last
FlpLink(rel) == IF rel < 4 THEN 4 + (rel % 2) ELSE IF rel < 6 THEN 6 ELSE -1

\* c5fs_fildic_insert() goes on in the next sector instead
FlpInsertAt(fildic, name) ==
  {rel \in FlpRels : rel >= FlpHash[name] /\ Len(fildic[rel]) < FlpSlots /\
     \A r \in FlpHash[name]..rel - 1 : Len(fildic[r]) >= FlpSlots}
FlpInserted(fildic, e) == [rel \in FlpRels |-> IF rel \in FlpInsertAt(fildic, e.name) THEN Append(fildic[rel], e) ELSE fildic[rel]]

\* each in the sector of its hash, where there is room for all of them
SystemFildic(variant) ==
  [rel \in FlpRels |-> SelectSeq(SystemEntries(variant), LAMBDA e : FlpHash[e.name] = rel)]
ASSUME RoomAssumption == \A rel \in FlpRels : Len(SystemFildic("T")[rel]) <= FlpSlots

\* MAP.FLP: the sectors taken
SystemMap(variant) == IF variant = "T" THEN 0..FLP_STRUCT_END - 1 ELSE {}

\* what stands in each sector: the copy has one of each of A0 to A3
Structure(variant, s) ==
  CASE s = 0 -> "LABEL" [] s \in FLP_A0..FLP_A1 - 1 -> "DICDIC" [] s \in FLP_A1..FLP_A2 - 1 -> "FILDIC"
    [] s = FLP_A2 -> "MAP"
    [] variant = "T" /\ s \in FLP_CDIREC_LO..FLP_CDIREC_HI - 1 -> <<"copy of", s - FLP_CDIREC_LO + FLP_A0>>
    [] variant = "T" /\ s \in FLP_CDIREC_HI..FLP_NDIREC_HI - 1 -> "NDIREC"
    [] variant = "T" /\ s \in FLP_LOADER_LO..FLP_A0 - 1 -> "LOADER"
    [] OTHER -> "zeros"

Synthesized(variant) ==
  [variant |-> variant, fildic |-> SystemFildic(variant), map |-> SystemMap(variant),
   image |-> [s \in 0..FLP_AK - 1 |-> Structure(variant, s)]]

-----------------------------------------------------------------------------
FlpCounted == flpSteps < MaxFlpSteps /\ flpSteps' = flpSteps + 1

\* sp45de_crkdir_create(), sp45de_crkdir_destroy()
CrkCreate(variant) ==
  /\ crk = Unmade /\ FlpCounted /\ crk' = Synthesized(variant) /\ UNCHANGED block
CrkDestroy == crk # Unmade /\ crk' = Unmade /\ UNCHANGED <<block, flpSteps>>

\* blk_offset(), as the sector of CROOK's in which the block is
BlockSector(track, sector) ==
  IF track \in 0..FlpTracks - 1 /\ sector \in 1..SectorsOfTrack
  THEN (track * SectorsOfTrack + sector - 1) \div BlocksOfSector ELSE -1

\* sp45de_crkdir_blk_rd(), sp45de_crkdir_blk_wr()
CrkTransfer(track, sector) ==
  crk # Unmade /\ FlpCounted /\ block' = BlockSector(track, sector) /\ UNCHANGED crk

\* a file of the host is laid over the area, or one of CROOK's is written: c5fs_mount_dir(), overlay_one();
\* in the highest run of free sectors above A3 (map_find_run())
FlpEntries == UNION {{crk.fildic[rel][k] : k \in DOMAIN crk.fildic[rel]} : rel \in FlpRels}
TopRun(len) ==
  LET runs == {s \in FLP_A3 + 1..FLP_AK - len : \A t \in crk.map : t < s \/ t >= s + len}
  IN {s \in runs : \A t \in runs : t <= s}
FileIn(name, len) ==
  /\ crk # Unmade /\ FlpCounted
  /\ (\A o \in FlpEntries : o.name # name) /\ FlpInsertAt(crk.fildic, name) # {}
  /\ \E start \in TopRun(len) :
       crk' = [crk EXCEPT !.fildic = FlpInserted(@, Pseudo(name, start, start + len)),
                          !.map = @ \cup start..start + len - 1,
                          !.image = [s \in DOMAIN @ |-> IF s \in start..start + len - 1 THEN name ELSE @[s]]]
  /\ UNCHANGED block
FileOut(name) ==
  /\ crk # Unmade /\ FlpCounted
  /\ \E e \in FlpEntries :
       /\ e.name = name
       /\ crk' = [crk EXCEPT !.map = @ \ (e.start..e.end - 1),
                             !.fildic = [rel \in FlpRels |-> SelectSeq(crk.fildic[rel], LAMBDA o : o # e)]]
  /\ UNCHANGED block

CrkInit == crk = Unmade /\ block = -1 /\ flpSteps = 0
CrkNext ==
  \/ \E v \in {"N", "T"} : CrkCreate(v)
  \/ CrkDestroy
  \/ \E t \in {0, FlpTracks - 1, FlpTracks}, s \in {0, 1, SectorsOfTrack, SectorsOfTrack + 1} : CrkTransfer(t, s)
  \/ \E n \in FlpFiles : FileOut(n) \/ \E len \in FlpLens : FileIn(n, len)
CrkSpec == CrkInit /\ [][CrkNext]_crkVars

-----------------------------------------------------------------------------
\* Whatever files come and go, the structures stand where they were laid, the recovery
\* copy of the T kind with them, each file has the sectors that its entry says, and
\* a block is one of the image (synth_flop8(), c5fs_mount_dir(), blk_offset()).
CrkSound ==
  /\ crk # Unmade =>
       /\ \A s \in 0..FLP_AK - 1 : Structure(crk.variant, s) # "zeros" => crk.image[s] = Structure(crk.variant, s)
       /\ \A e \in FlpEntries : e.name \in FlpFiles => \A s \in e.start..e.end - 1 : crk.image[s] = e.name
       /\ \A i \in DOMAIN SystemEntries(crk.variant) : SystemEntries(crk.variant)[i] \in FlpEntries
  /\ block >= 0 => block * BlocksOfSector < FlpTracks * SectorsOfTrack

\* "4/2/1 hash cascade" (sp45de_crkdir.c:35): an entry is where the links lead from the
\* sector of its hash; one that does not fit there goes to the next sector.
ByLinks ==
  crk # Unmade =>
    \A rel \in FlpRels : \A k \in DOMAIN crk.fildic[rel] :
      LET home == FlpHash[crk.fildic[rel][k].name]
      IN rel \in {home, FlpLink(home), 6}
=============================================================================
