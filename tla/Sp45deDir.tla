----------------------------- MODULE Sp45deDir -----------------------------
(***************************************************************************)
(* A directory served as an IBM 3740 diskette (src/io/dev/sp45de_dir.c):   *)
(* an index of headers, one per file, and contiguous extents.  Sectors of  *)
(* the data area are numbered through; how a header is put into EBCDIC is  *)
(* left out.  CRCs are taken for what they are of.                         *)
(***************************************************************************)
EXTENDS HostDir

CONSTANTS
  Name8,         \* host_name8(): name on the diskette of each name on the host
  Blk,           \* bytes in a sector
  DataSectors, MAX_FILES

ASSUME Sp45deDirAssumption ==
  /\ Blk \in Nat \ {0} /\ DataSectors \in Nat \ {0} /\ MAX_FILES \in Nat \ {0}
  /\ Name8 \in [Raws -> Raws] /\ \A r \in Raws : Name8[Name8[r]] = Name8[r]

Slots == 1..MAX_FILES
Empty == [k \in 1..Blk |-> 0]
NoHdr == [name |-> "", boe |-> 0, eod |-> 0]

VARIABLES
  index,         \* HDR1 records
  sectors,       \* the data area
  files,         \* sd->files
  rewritten        \* history: names the machine wrote under since the last transfer

dirImage == <<index, sectors>>
floppyVars == <<index, sectors, files, rewritten>>

SectorsOf(data) == [k \in 1..((Len(data) + Blk - 1) \div Blk) |->
                     [i \in 1..Blk |-> IF (k - 1) * Blk + i <= Len(data) THEN data[(k - 1) * Blk + i] ELSE 0]]
Extent(secs, lin, n) == [k \in 1..n |-> secs[lin + k - 1]]
Held(fs) == FoldLeft(LAMBDA sum, f : sum + f.nsec, 0, fs)

\* tf_find()
Tracked(fs, name) == SelectInSeq(fs, LAMBDA f : f.name = name)

Packed(fs) == [i \in DOMAIN fs |-> [fs[i] EXCEPT !.boe = Held(SubSeq(fs, 1, i - 1))]]

\* rebuild(): extents back to back in the order of the table, and a new index
Rebuilt(fs) ==
  [files |-> Packed(fs),
   index |-> [s \in Slots |-> IF s \in DOMAIN fs
                              THEN [name |-> fs[s].name, boe |-> Packed(fs)[s].boe,
                                    eod |-> Packed(fs)[s].boe + fs[s].nsec]
                              ELSE NoHdr]]

\* overlay_one() on a disk; a file that does not fit leaves the disk as it is
Overlaid(disk, r) ==
  LET data == host[r].data
      new == SectorsOf(data)
      at == Tracked(disk.files, Name8[r])
      others == Held(disk.files) - IF at = 0 THEN 0 ELSE disk.files[at].nsec
      entry == [name |-> Name8[r], boe |-> 0, nsec |-> Len(new), crc |-> new,
                size |-> Len(data), mtime |-> host[r].mtime]
      table == IF at = 0 THEN Append(disk.files, entry) ELSE [disk.files EXCEPT ![at] = entry]
      built == Rebuilt(table)
      boe == built.files[IF at = 0 THEN Len(table) ELSE at].boe
  IN IF others + Len(new) > DataSectors \/ (at = 0 /\ Len(disk.files) >= MAX_FILES) THEN disk
     ELSE [files |-> built.files, index |-> built.index,
           sectors |-> [s \in DOMAIN disk.sectors |->
                          IF s - boe + 1 \in DOMAIN new THEN new[s - boe + 1] ELSE disk.sectors[s]]]

DirDisk == [files |-> files, index |-> index, sectors |-> sectors]
Become(disk) == files' = disk.files /\ index' = disk.index /\ sectors' = disk.sectors

(* sp45de_dir_create() *)
FloppyMount ==
  /\ ~sync /\ Mounted
  /\ \E order \in Listings :
       Become(FoldLeft(Overlaid, [files |-> <<>>, index |-> [s \in Slots |-> NoHdr],
                                  sectors |-> [s \in 0..DataSectors - 1 |-> Empty]], order))
  /\ rewritten' = {}

\* what is no longer on the host leaves the table: the last entry takes its place
Dropped(disk) ==
  LET D[k \in 0..MAX_FILES] ==
        IF k = 0 THEN [disk |-> disk, i |-> 1]
        ELSE LET d == D[k - 1]
             IN IF d.i > Len(d.disk.files) THEN d
                ELSE IF \E r \in Files : Name8[r] = d.disk.files[d.i].name THEN [d EXCEPT !.i = @ + 1]
                ELSE LET left == Front([d.disk.files EXCEPT ![d.i] = Last(d.disk.files)])
                     IN [d EXCEPT !.disk = [files |-> Rebuilt(left).files, index |-> Rebuilt(left).index, sectors |-> @.sectors]]
  IN D[MAX_FILES].disk

(* host_to_guest() *)
FloppyRefreshed(disk, r) ==
  LET at == Tracked(disk.files, Name8[r])
  IN IF at # 0 /\ disk.files[at].mtime = host[r].mtime /\ disk.files[at].size = Len(host[r].data)
     THEN disk ELSE Overlaid(disk, r)
HostToFloppy ==
  /\ \E order \in Listings : Become(FoldLeft(FloppyRefreshed, Dropped(DirDisk), order))
  /\ UNCHANGED <<host, noticed, rewritten>>

(* guest_to_host(): what an index entry holds is written to the file of that *)
(* name unless it is what was there at the last transfer                     *)
Stored(to, slot) ==
  LET h == index[slot]
      n == IF h.eod > h.boe THEN h.eod - h.boe ELSE 0
      cur == Extent(sectors, h.boe, n)
      data == FlattenSeq(cur)
      at == Tracked(to.files, h.name)
      seen == [name |-> h.name, boe |-> IF at = 0 THEN 0 ELSE to.files[at].boe,
               nsec |-> IF n = 0 THEN 1 ELSE n, crc |-> cur, size |-> Len(data), mtime |-> now]
  IN IF h = NoHdr \/ (at # 0 /\ to.files[at].crc = cur) THEN to
     ELSE [host |-> [to.host EXCEPT ![h.name] = [data |-> data, mtime |-> now]],
           files |-> IF at # 0 THEN [to.files EXCEPT ![at] = seen]
                     ELSE IF Len(to.files) < MAX_FILES THEN Append(to.files, seen) ELSE to.files]
FloppyToHost ==
  LET to == FoldLeft(Stored, [host |-> host, files |-> files], [s \in Slots |-> s])
  IN /\ host' = to.host /\ files' = to.files
     /\ noticed' = (noticed \/ (watch /\ to.host # host))
     /\ rewritten' = {} /\ UNCHANGED dirImage

(* sp45de_dir_blk_rd(): what it copies is the image after the transfer    *)
FloppyRead == MaybeSync(FloppyToHost, HostToFloppy, UNCHANGED <<host, noticed, floppyVars>>)

(* sp45de_dir_blk_wr() of a sector of a file, and of the index: the machine   *)
(* rewrites what it has just read, in space that the index shows free         *)
SectorsTaken == UNION {index[s].boe..index[s].eod - 1 : s \in Slots}
FloppyWrites(s, x) ==
  /\ sync /\ s \in SectorsTaken /\ sectors' = [sectors EXCEPT ![s] = [k \in 1..Blk |-> x]]
  /\ Dirtied /\ UNCHANGED <<index, files>>
  /\ rewritten' = rewritten \cup {index[i].name : i \in {i \in Slots : s \in index[i].boe..index[i].eod - 1}}
FloppyAdds(slot, name, s) ==
  /\ sync /\ index[slot] = NoHdr /\ s \in DOMAIN sectors \ SectorsTaken
  /\ \A i \in Slots : index[i].name # name
  /\ index' = [index EXCEPT ![slot] = [name |-> name, boe |-> s, eod |-> s + 1]]
  /\ Dirtied /\ rewritten' = rewritten \cup {name} /\ UNCHANGED <<sectors, files>>
FloppyErases(slot) ==
  /\ sync /\ index[slot] # NoHdr /\ index' = [index EXCEPT ![slot] = NoHdr]
  /\ Dirtied /\ rewritten' = rewritten \cup {index[slot].name} /\ UNCHANGED <<sectors, files>>

(* sp45de_dir_destroy() *)
FloppyUnmount == sync /\ FloppyToHost /\ Unmounted

FloppyInit == /\ HostDirInit /\ files = <<>> /\ rewritten = {}
              /\ index = [s \in Slots |-> NoHdr] /\ sectors = [s \in 0..DataSectors - 1 |-> Empty]
FloppyNext ==
  \/ HostMoves /\ UNCHANGED floppyVars
  \/ FloppyMount \/ FloppyUnmount \/ FloppyRead
  \/ \E s \in 0..DataSectors - 1 : FloppyWrites(s, 7)
  \/ \E slot \in Slots : FloppyErases(slot)
       \/ \E name \in Raws, s \in 0..DataSectors - 1 : Name8[name] = name /\ FloppyAdds(slot, name, s)
FloppySpec == FloppyInit /\ [][FloppyNext]_<<hostVars, floppyVars>>

-----------------------------------------------------------------------------
\* The index names each file once, and no sector belongs to two files, whatever either
\* side adds, changes and removes (rebuild(), overlay_one(), guest_to_host()).
IndexSound ==
  /\ \A i, j \in Slots : i # j /\ index[i] # NoHdr /\ index[j] # NoHdr =>
       /\ index[i].name # index[j].name
       /\ index[i].eod <= index[j].boe \/ index[j].eod <= index[i].boe
  /\ SectorsTaken \subseteq DOMAIN sectors
  /\ \A i, j \in DOMAIN files : i # j => files[i].name # files[j].name

\* A file of the host changes only by the host or because the machine wrote under its
\* name: "Changes flow both ways" (sp45de_dir.h).
UntouchedStays ==
  [][FloppyToHost => \A r \in Raws : r \notin rewritten => host'[r] = host[r]]_<<hostVars, floppyVars>>
=============================================================================
