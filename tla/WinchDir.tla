----------------------------- MODULE WinchDir ------------------------------
(***************************************************************************)
(* A hard disk made of a directory of the host (io/dev/winchester_dir.c):  *)
(* which area each subdirectory gets, the layout that is kept beside the   *)
(* files, and the structures of an empty area.  The files in an area are   *)
(* the matter of Crook5fs.                                                 *)
(***************************************************************************)
EXTENDS Integers, SequencesExt, FiniteSets

CONSTANTS
  Subdirs,          \* directories there may be in the root
  AreaName,         \* area_name_from() of each
  WD_MAX_AREAS,
  TotalQuanta       \* of the disk

ASSUME WinchDirAssumption ==
  /\ WD_MAX_AREAS \in Nat \ {0} /\ TotalQuanta \in Nat \ {0}
  /\ "root" \notin Subdirs /\ "file" \notin Subdirs

WINCH_QUANT == 4912
SYNTH_A1 == 9
SYNTH_FILDIC_PER_QUANT == 20
NoPath == "none"

VARIABLES
  there,         \* what is in the root: subdirectories, and "file" for the files
  layout,        \* the line "areas" beside the files: empty when there is none
  mounted,       \* the disk is in use
  areas          \* the areas it got

wdVars == <<there, layout, mounted, areas>>

Least(a, b) == IF a < b THEN a ELSE b
Span(q) == IF q = 0 THEN 1 ELSE q

-----------------------------------------------------------------------------
(* wd_collect_areas(): what readdir() gives, until the table is full; files  *)
(* in the root make an area of their own if there is room for it             *)
Collected(listing) ==
  LET subs == SelectSeq(listing, LAMBDA d : d # "file")
      found == SubSeq(subs, 1, Least(Len(subs), WD_MAX_AREAS))
      \* a file is seen if it comes before the entry that fills the table
      full == SelectInSeq([i \in DOMAIN listing |-> Len(SelectSeq(SubSeq(listing, 1, i), LAMBDA d : d # "file"))],
                          LAMBDA n : n = WD_MAX_AREAS)
      files == \E i \in DOMAIN listing : listing[i] = "file" /\ (full = 0 \/ i < full)
      own == [i \in DOMAIN found |-> [name |-> AreaName[found[i]], path |-> found[i]]]
  IN IF (files \/ found = <<>>) /\ Len(found) < WD_MAX_AREAS
     THEN <<[name |-> "DAT", path |-> "root"]>> \o own
     ELSE own

\* the line says how many quanta; without it they are shared out evenly
Derived(sub) ==
  [i \in DOMAIN sub |-> [name |-> sub[i].name, path |-> sub[i].path, quanta |-> TotalQuanta \div Len(sub)]]

\* Mutant of Resolved: the directories are taken in the order they are read in.
ResolvedInOrder(spec, sub) ==
  [i \in DOMAIN spec |-> [name |-> spec[i].name, quanta |-> spec[i].quanta,
                          path |-> IF i \in DOMAIN sub THEN sub[i].path ELSE NoPath]]

\* the directory of an area of the line: the first subdirectory of that name
Resolved(spec, sub) ==
  [i \in DOMAIN spec |->
     LET at == SelectInSeq(sub, LAMBDA s : s.name = spec[i].name)
     IN [name |-> spec[i].name, quanta |-> spec[i].quanta,
         path |-> IF at # 0 THEN sub[at].path ELSE IF spec[i].name = "DAT" THEN "root" ELSE NoPath]]

Used(spec, n) == FoldLeft(LAMBDA sum, a : sum + Span(a.quanta), 0, SubSeq(spec, 1, n))

\* Mutant of Laid: an area starts after as many quanta as were asked for.
LaidShort(spec) ==
  [i \in DOMAIN spec |-> [name |-> spec[i].name, path |-> spec[i].path, quanta |-> Span(spec[i].quanta),
                          base |-> WINCH_QUANT * (IF i = 1 THEN 0 ELSE Used(spec, i - 2) + spec[i - 1].quanta - 1)]]

Laid(spec) ==
  [i \in DOMAIN spec |-> [name |-> spec[i].name, path |-> spec[i].path, quanta |-> Span(spec[i].quanta),
                          base |-> WINCH_QUANT * Used(spec, i - 1)]]

(* winchester_dir_create() without a base image.  The layout is written      *)
(* before it is known to fit.                                                *)
WdMount ==
  /\ ~mounted
  /\ \E listing \in SetToSeqs(there) :
       LET sub == Collected(listing)
           spec == IF layout = <<>> THEN Derived(sub)
                   ELSE Resolved([i \in DOMAIN layout |-> layout[i]], sub)
       IN /\ layout' = IF layout = <<>> THEN [i \in DOMAIN spec |-> [name |-> spec[i].name, quanta |-> spec[i].quanta]]
                       ELSE layout
          /\ IF Used(spec, Len(spec)) > TotalQuanta THEN UNCHANGED <<areas, mounted>>
             ELSE areas' = Laid(spec) /\ mounted' = TRUE
  /\ UNCHANGED there

(* winchester_dir_destroy() *)
WdUnmount == mounted /\ mounted' = FALSE /\ areas' = <<>> /\ UNCHANGED <<there, layout>>

(* the user, who changes what the next mount reads *)
WdHost(d) == /\ ~mounted /\ there' = IF d \in there THEN there \ {d} ELSE there \cup {d}
             /\ UNCHANGED <<layout, mounted, areas>>
WdEdits(a, q) == /\ ~mounted /\ a \in DOMAIN layout /\ layout' = [layout EXCEPT ![a].quanta = q]
                 /\ UNCHANGED <<there, mounted, areas>>

WdInit == there \in SUBSET (Subdirs \cup {"file"}) /\ layout = <<>> /\ mounted = FALSE /\ areas = <<>>
WdNext == \/ WdMount \/ WdUnmount
          \/ \E d \in Subdirs \cup {"file"} : WdHost(d)
          \/ \E a \in 1..WD_MAX_AREAS, q \in 1..TotalQuanta : WdEdits(a, q)
WdSpec == WdInit /\ [][WdNext]_wdVars

-----------------------------------------------------------------------------
(* synth_one_area(): where the structures of an area of q quanta lie         *)
AreaOf(q, ssize, t) ==
  LET A2 == SYNTH_A1 + SYNTH_FILDIC_PER_QUANT * q
      DiskEnd == q * WINCH_QUANT
      mapsec == (DiskEnd + ssize * 8 - 1) \div (ssize * 8)
  IN [DiskEnd |-> DiskEnd, A2 |-> A2, A3 |-> A2 + mapsec, mapsec |-> mapsec,
      end |-> A2 + mapsec + (IF t THEN 2 ELSE 1) * (A2 + mapsec)]

\* the pseudo-files of the system: first sector, sector behind the last
SystemFiles(q, ssize, t) ==
  LET a == AreaOf(q, ssize, t)
      ndirec == IF t THEN 2 * a.A3 ELSE a.A3
  IN {<<"MAP", a.A2, a.A3>>, <<"DICDIC", 0, SYNTH_A1>>, <<"FILDIC", SYNTH_A1, a.A2>>,
      <<"NDIREC", ndirec, ndirec + a.A3>>} \cup IF t THEN {<<"CDIREC", a.A3, 2 * a.A3>>} ELSE {}

\* synth_cascade(): n as falling powers of two, and the start of each level
PowerBelow(n) == CHOOSE k \in {2 ^ i : i \in 0..15} : k <= n /\ n < 2 * k
Levels(n) ==
  LET Share(s, i) == IF s.rem = 0 THEN s
                     ELSE LET k == PowerBelow(s.rem) IN [sizes |-> Append(s.sizes, k), rem |-> s.rem - k]
  IN FoldLeft(Share, [sizes |-> <<>>, rem |-> n], [i \in 1..16 |-> i]).sizes
Starts(levels) == [i \in 1..Len(levels) + 1 |-> FoldLeft(LAMBDA sum, k : sum + k, 0, SubSeq(levels, 1, i - 1))]

\* the level of each sector, and the sector it leads on to
LevelOf(start, rel) == Cardinality({i \in DOMAIN start : start[i] <= rel})
Link(levels, start, rel) ==
  LET i == LevelOf(start, rel)
  IN IF i = Len(levels) THEN -1 ELSE start[i + 1] + ((rel - start[i]) % levels[i + 1])

-----------------------------------------------------------------------------
\* The areas of a disk lie one behind the other on it, whatever the directory and the line
\* say, and each directory is behind one area: as long as there are no more subdirectories
\* than areas, and they have names of their own, that of an area of the line does not
\* depend on the order readdir() gives (wd_collect_areas(), winchester_dir_create()).
AreasApart ==
  /\ \A i \in DOMAIN areas :
       /\ areas[i].base = IF i = 1 THEN 0 ELSE areas[i - 1].base + areas[i - 1].quanta * WINCH_QUANT
       /\ areas[i].base + areas[i].quanta * WINCH_QUANT <= TotalQuanta * WINCH_QUANT
  /\ \A i, j \in DOMAIN areas : i # j => areas[i].path # areas[j].path \/ areas[i].path = NoPath
AreasKept ==
  [][mounted' /\ ~mounted /\ layout # <<>> /\ Cardinality(there) <= WD_MAX_AREAS =>
       /\ Len(areas') = Len(layout)
       /\ \A i \in DOMAIN layout : \A d \in there \cap Subdirs :
            AreaName[d] = layout[i].name => areas'[i].path = d]_wdVars

\* The structures of an empty area follow each other, fit before its files and within the
\* 16 bits of a dictionary entry, the map has a bit for each sector, and every dictionary
\* sector leads on into the next level (synth_one_area(), synth_cascade()).
SynthSound ==
  \A i \in DOMAIN areas : \A t \in BOOLEAN :
    LET q == areas[i].quanta
        a == AreaOf(q, 512, t)
        n == a.A2 - SYNTH_A1
        levels == Levels(n)
        start == Starts(levels)
    IN /\ \A f, g \in SystemFiles(q, 512, t) : f # g => f[3] <= g[2] \/ g[3] <= f[2]
       /\ \A f \in SystemFiles(q, 512, t) : f[3] <= a.end
       /\ a.end < a.DiskEnd /\ a.DiskEnd < 2 ^ 16 /\ a.mapsec * 512 * 8 >= a.DiskEnd
       /\ start[Len(start)] = n
       /\ \A rel \in 0..n - 1 :
            LET to == Link(levels, start, rel)
            IN to = -1 \/ LevelOf(start, to) = LevelOf(start, rel) + 1
=============================================================================
