------------------------------ MODULE Crook5fs ------------------------------
(***************************************************************************)
(* A directory served as a CROOK-5 area (src/io/dev/crook5fs.c, with       *)
(* the attributes of fsmeta.c): an image in memory with a dictionary of    *)
(* files (FILDIC), a map of sectors (MAPA) and the sectors; the host's     *)
(* files are laid over it, and what CROOK writes goes back to the host.    *)
(* CRCs are taken for what they are of.  CROOK itself is not in src/: it   *)
(* is taken to change whole files, each in one go.                         *)
(***************************************************************************)
EXTENDS HostDir

CONSTANTS
  Split,             \* split_name(): the name and extension of each name on the host
  SSIZE,             \* bytes in a sector
  A3, AK,            \* files lie in the sectors between
  FildicSectors, FILDIC_SLOTS,
  Hash,              \* fildic_hash() of each name
  Base,              \* the dictionary of an empty area
  GuestDatas,        \* what CROOK may write
  Rights             \* access attributes; one is the default

C5_ACCESS_DEFAULT == "AW"
LF == 10
CR == 13

ASSUME Crook5fsAssumption ==
  /\ SSIZE \in Nat \ {0} /\ A3 \in Nat /\ AK \in Nat /\ A3 < AK
  /\ FildicSectors \in Nat \ {0} /\ FILDIC_SLOTS \in Nat \ {0, 1}
  /\ C5_ACCESS_DEFAULT \in Rights

Hole == [name |-> "", ext |-> "", user |-> "", start |-> 0, nsec |-> 0, p1 |-> 0, p2 |-> 0,
         access |-> C5_ACCESS_DEFAULT]
Rels == 0..FildicSectors - 1
FileSectors == A3 + 1..AK - 1

VARIABLES
  c5disk,        \* [fildic, map, data, files, meta]: the image, fs->files and fs->meta
  sidecar,     \* the attributes on the host
  touched,     \* history: files CROOK changed since the last transfer
  unread       \* history: files the host changed since then

c5fsVars == <<c5disk, sidecar, touched, unread>>

-----------------------------------------------------------------------------
(* Contents.                                                               *)
Bytes(d, start, nsec) == FlattenSeq([k \in 1..nsec |-> d.data[start + k - 1]])
Sects(bytes) == IF bytes = <<>> THEN 1 ELSE (Len(bytes) + SSIZE - 1) \div SSIZE

\* load_host_file(): text without CR gets one before each LF
IsText(bytes) == LF \in ToSet(bytes) /\ {0, CR} \cap ToSet(bytes) = {}
ToGuest(bytes) ==
  IF IsText(bytes) THEN FlattenSeq([i \in DOMAIN bytes |-> IF bytes[i] = LF THEN <<CR, LF>> ELSE <<bytes[i]>>])
  ELSE bytes

\* write_host_file() of text: zeros at the end go, and each CR before an LF
Unpadded(bytes) ==
  SubSeq(bytes, 1, SelectLastInSeq(bytes, LAMBDA b : b # 0))
ToHost(bytes) ==
  FlattenSeq([i \in DOMAIN bytes |->
    IF bytes[i] = CR /\ i < Len(bytes) /\ bytes[i + 1] = LF THEN <<>> ELSE <<bytes[i]>>])

\* how much of a file's sectors is the file: parameter 1 is negative
Length(e) == e.nsec * SSIZE + IF e.p1 < 0 /\ -e.p1 < e.nsec * SSIZE THEN e.p1 ELSE 0
Holds(d, e) == SubSeq(Bytes(d, e.start, e.nsec), 1, Length(e))

-----------------------------------------------------------------------------
(* FILDIC and MAPA.                                                        *)
EntriesAt(fildic) == {<<rel, k>> : rel \in Rels, k \in 1..FILDIC_SLOTS} \cap
                  UNION {{rel} \X DOMAIN fildic[rel] : rel \in Rels}
Before(a, b) == a[1] < b[1] \/ (a[1] = b[1] /\ a[2] <= b[2])

\* fildic_find() and fildic_remove() go by the name without the extension
FindAt(fildic, name) == {p \in EntriesAt(fildic) : fildic[p[1]][p[2]] # Hole /\ fildic[p[1]][p[2]].name = name}
First(places) == CHOOSE p \in places : \A o \in places : Before(p, o)
Entry(fildic, name) == LET p == First(FindAt(fildic, name)) IN fildic[p[1]][p[2]]
Sectors(e) == e.start..e.start + e.nsec - 1

\* Mutant of Removed: the sectors of a removed file stay taken.
RemovedKeeps(d, name) ==
  LET at == First(FindAt(d.fildic, name))
  IN IF FindAt(d.fildic, name) = {} THEN d
     ELSE [d EXCEPT !.fildic[at[1]][at[2]] = Hole]

Removed(d, name) ==
  LET at == First(FindAt(d.fildic, name))
  IN IF FindAt(d.fildic, name) = {} THEN d
     ELSE [d EXCEPT !.fildic[at[1]][at[2]] = Hole, !.map = @ \ Sectors(Entry(d.fildic, name))]

\* fildic_insert(): from the sector of the hash on, in a hole or behind the last
Room(fildic, name) ==
  {<<rel, k>> \in Rels \X (1..FILDIC_SLOTS - 1) :
     rel >= Hash[name] /\ (k = Len(fildic[rel]) + 1 \/ (k \in DOMAIN fildic[rel] /\ fildic[rel][k] = Hole))}
Inserted(fildic, e) ==
  LET at == First(Room(fildic, e.name))
  IN [fildic EXCEPT ![at[1]] = IF at[2] \in DOMAIN @ THEN [@ EXCEPT ![at[2]] = e] ELSE Append(@, e)]

\* map_find_run(): the highest run that is free
FreeRuns(map, len) == {s \in FileSectors : s + len <= AK /\ (s..s + len - 1) \cap map = {}}
FindRun(map, len) == CHOOSE s \in FreeRuns(map, len) : \A o \in FreeRuns(map, len) : o <= s
HasRun(map, len) == AK > A3 + len /\ FreeRuns(map, len) # {}

WithBytes(data, start, bytes) ==
  [s \in DOMAIN data |->
     IF s \in start..start + Sects(bytes) - 1
     THEN [i \in 1..SSIZE |-> LET at == (s - start) * SSIZE + i IN IF at <= Len(bytes) THEN bytes[at] ELSE 0]
     ELSE data[s]]

\* fildic_snapshot_base(), is_base_file()
IsBase(e) == \E rel \in Rels : \E k \in DOMAIN Base[rel] :
               Base[rel][k].name = e.name /\ Base[rel][k].ext = e.ext

\* track_find() and track_del()
TrackAt(files, id) == SelectInSeq(files, LAMBDA t : t.id = id)
Untracked(files, at) ==
  IF at = 0 THEN files ELSE Front([files EXCEPT ![at] = Last(files)])

\* host_basename(), of files whose names are as CROOK writes them
Known(id) == \E r \in Raws : Split[r] = id
RawOf(id) == CHOOSE r \in Raws : Split[r] = id

-----------------------------------------------------------------------------
(* Attributes of the host's files, kept beside them: "" and 0 are not there. *)
NoAttr == [access |-> "", param2 |-> 0]

\* meta_capture(): the second parameter is set when it is not 0, and never taken back
Captured(meta, r, e) ==
  [meta EXCEPT ![r] = [access |-> e.access, param2 |-> IF e.p2 = 0 THEN @.param2 ELSE e.p2]]

\* meta_apply(): what is kept goes before what the file says
Applied(meta, r, e) ==
  [e EXCEPT !.access = IF meta[r].access = "" THEN @ ELSE meta[r].access,
            !.p2 = IF meta[r].param2 = 0 THEN @ ELSE meta[r].param2]

\* fsmeta_forget()
Forgotten(meta, r) == [meta EXCEPT ![r] = NoAttr]

-----------------------------------------------------------------------------
(* overlay_file(): what is there under the name goes first, room is sought   *)
(* and a place in the dictionary; a file that gets neither is dropped        *)
Overlay(d, r) ==
  LET bytes == ToGuest(host[r].data)
      nsec == Sects(bytes)
      id == Split[r]
      old == TrackAt(d.files, id)
      gone == Removed(d, id.name)
      start == FindRun(gone.map, nsec)
      e == Applied(d.meta, r, [name |-> id.name, ext |-> id.ext, user |-> "LIBRAR", start |-> start, nsec |-> nsec,
                               p1 |-> Len(bytes) - nsec * SSIZE, p2 |-> nsec - 1, access |-> C5_ACCESS_DEFAULT])
      data == WithBytes(d.data, start, bytes)
      t == [id |-> id, size |-> Len(host[r].data), mtime |-> host[r].mtime, text |-> IsText(host[r].data),
            crc |-> Bytes([data |-> data], start, nsec)]
  IN IF ~HasRun(gone.map, nsec) THEN [gone EXCEPT !.files = Untracked(@, old)]
     ELSE IF Room(gone.fildic, id.name) = {} THEN [gone EXCEPT !.files = Untracked(@, old), !.data = data]
     ELSE [fildic |-> Inserted(gone.fildic, e), map |-> gone.map \cup Sectors(e), data |-> data,
           files |-> IF old = 0 THEN Append(d.files, t) ELSE [d.files EXCEPT ![old] = t],
           meta |-> Captured(d.meta, r, e)]

(* host_to_guest(): what left the host is removed, what is new or looks new  *)
(* is laid over                                                              *)
Cleared(d0) ==
  LET D[k \in 0..Len(d0.files)] ==
        IF k = 0 THEN [d |-> d0, i |-> 1]
        ELSE LET s == D[k - 1]
                 t == s.d.files[s.i]
             IN IF \E r \in Files : Split[r] = t.id THEN [s EXCEPT !.i = @ + 1]
                ELSE [s EXCEPT !.d = [Removed(s.d, t.id.name) EXCEPT !.files = Untracked(@, s.i),
                                                                    !.meta = Forgotten(@, RawOf(t.id))]]
  IN D[Len(d0.files)].d
Refreshed(d, r) ==
  LET at == TrackAt(d.files, Split[r])
  IN IF at # 0 /\ d.files[at].mtime = host[r].mtime /\ d.files[at].size = Len(host[r].data) THEN d
     ELSE Overlay(d, r)
HostToGuest ==
  /\ \E order \in Listings : c5disk' = FoldLeft(Refreshed, Cleared(c5disk), order)
  /\ sidecar' = c5disk'.meta /\ unread' = {}
  /\ UNCHANGED <<host, noticed, touched>>

(* write_host_file() *)
WriteHost(s, at, e) ==
  LET t == s.d.files[at]
      len == Holds(s.d, e)
      r == RawOf(t.id)
      bytes == IF t.text THEN ToHost(Unpadded(len)) ELSE len
      size == Len(IF t.text THEN Unpadded(len) ELSE len)
  IN [host |-> [s.host EXCEPT ![r] = [data |-> bytes, mtime |-> now]],
      d |-> [s.d EXCEPT !.files[at] = [t EXCEPT !.crc = Bytes(s.d, e.start, e.nsec), !.size = size, !.mtime = now],
                        !.meta = Captured(@, r, e)]]

(* guest_to_host(): the files known are deleted from the host or written if  *)
(* they changed; then come those in the dictionary that are not known        *)
TakenBack(s0) ==
  LET S[k \in 0..Len(s0.d.files)] ==
        IF k = 0 THEN s0 @@ [i |-> 1]
        ELSE LET s == S[k - 1]
                 t == s.d.files[s.i]
                 r == RawOf(t.id)
                 e == Entry(s.d.fildic, t.id.name)
             IN IF FindAt(s.d.fildic, t.id.name) = {}
                THEN [s EXCEPT !.host[r] = Gone, !.d.files = Untracked(@, s.i), !.d.meta = Forgotten(@, r)]
                ELSE IF Bytes(s.d, e.start, e.nsec) # t.crc
                     THEN WriteHost(s, s.i, e) @@ [i |-> s.i + 1]
                     ELSE [s EXCEPT !.i = @ + 1]
  IN S[Len(s0.d.files)]
Fresh == [id |-> [name |-> "", ext |-> ""], size |-> 0, mtime |-> 0, text |-> FALSE, crc |-> <<>>]
Discovered(s, p) ==
  LET e == s.d.fildic[p[1]][p[2]]
      id == [name |-> e.name, ext |-> e.ext]
      more == [s EXCEPT !.d.files = Append(@, [Fresh EXCEPT !.id = id])]
  IN IF e = Hole \/ e.user # "LIBRAR" \/ IsBase(e) \/ TrackAt(s.d.files, id) # 0 THEN s
     ELSE WriteHost(more, Len(more.d.files), e)
GuestToHost ==
  LET places == SetToSortSeq(EntriesAt(c5disk.fildic), Before)
      s == FoldLeft(Discovered, TakenBack([host |-> host, d |-> c5disk]), places)
  IN /\ host' = s.host /\ c5disk' = s.d /\ sidecar' = s.d.meta
     /\ noticed' = (noticed \/ (watch /\ s.host # host))
     /\ touched' = {} /\ UNCHANGED unread

-----------------------------------------------------------------------------
(* c5fs_mount_dir() over an empty one *)
Area == [fildic |-> Base, map |-> 0..A3, data |-> [s \in FileSectors |-> [i \in 1..SSIZE |-> 0]],
         files |-> <<>>, meta |-> sidecar]
C5fsMount ==
  /\ ~sync /\ Mounted
  /\ \E order \in Listings : c5disk' = FoldLeft(Overlay, Area, order)
  /\ sidecar' = c5disk'.meta /\ touched' = {} /\ unread' = {}

(* c5fs_flush() *)
C5fsUnmount == sync /\ GuestToHost /\ Unmounted

(* c5fs_on_read() *)
C5fsRead == MaybeSync(GuestToHost, HostToGuest, UNCHANGED <<host, noticed, c5fsVars>>)

(* CROOK saves, deletes or protects a file and c5fs_on_write() is called *)
Named(id) == {p \in EntriesAt(c5disk.fildic) : c5disk.fildic[p[1]][p[2]].name = id.name /\ c5disk.fildic[p[1]][p[2]].ext = id.ext}
Saves(id, bytes) ==
  LET at == First(Named(id))
      old == c5disk.fildic[at[1]][at[2]]
      fildic == IF Named(id) = {} THEN c5disk.fildic ELSE [c5disk.fildic EXCEPT ![at[1]][at[2]] = Hole]
      map == IF Named(id) = {} THEN c5disk.map ELSE c5disk.map \ Sectors(old)
      n == Sects(bytes)
      e == [name |-> id.name, ext |-> id.ext, user |-> "LIBRAR", start |-> FindRun(map, n), nsec |-> n,
            p1 |-> Len(bytes) - n * SSIZE, p2 |-> n - 1,
            access |-> IF Named(id) = {} THEN C5_ACCESS_DEFAULT ELSE old.access]
  IN /\ sync /\ HasRun(map, n) /\ Room(fildic, id.name) # {}
     /\ c5disk' = [c5disk EXCEPT !.fildic = Inserted(fildic, e), !.map = map \cup Sectors(e),
                             !.data = WithBytes(@, e.start, bytes)]
     /\ Dirtied /\ touched' = touched \cup {RawOf(id)} /\ UNCHANGED <<sidecar, unread>>
Deletes(id) ==
  LET at == First(Named(id))
  IN /\ sync /\ Named(id) # {}
     /\ c5disk' = [c5disk EXCEPT !.fildic[at[1]][at[2]] = Hole,
                             !.map = @ \ Sectors(c5disk.fildic[at[1]][at[2]])]
     /\ Dirtied /\ touched' = touched \cup {RawOf(id)} /\ UNCHANGED <<sidecar, unread>>
Protects(id, access) ==
  LET at == First(Named(id))
  IN /\ sync /\ Named(id) # {}
     /\ c5disk' = [c5disk EXCEPT !.fildic[at[1]][at[2]].access = access]
     /\ Dirtied /\ UNCHANGED <<sidecar, touched, unread>>

(* A change by the host shows: the time or the size is not the one recorded *)
(* when the file was last carried over.                                     *)
Shows(r) ==
  host'[r] # host[r] =>
    \A i \in DOMAIN c5disk.files : c5disk.files[i].id = Split[r] =>
      host'[r].mtime # c5disk.files[i].mtime \/ Len(host'[r].data) # c5disk.files[i].size
HostChanges ==
  /\ HostMoves
  /\ \A r \in Raws : Shows(r)
  /\ unread' = unread \cup {r \in Raws : host'[r] # host[r]}
  /\ UNCHANGED <<c5disk, sidecar, touched>>

C5fsInit ==
  /\ HostDirInit /\ sidecar = [r \in Raws |-> NoAttr] /\ c5disk = Area
  /\ touched = {} /\ unread = {}
C5fsNext ==
  \/ HostChanges \/ C5fsMount \/ C5fsUnmount \/ C5fsRead
  \/ \E r \in Raws : Deletes(Split[r]) \/ (\E b \in GuestDatas : Saves(Split[r], b))
                       \/ \E a \in Rights : Protects(Split[r], a)
C5fsSpec == C5fsInit /\ [][C5fsNext]_<<hostVars, c5fsVars>>

-----------------------------------------------------------------------------
\* The files of it: not those of the system.
OwnEntries == {c5disk.fildic[p[1]][p[2]] : p \in {p \in EntriesAt(c5disk.fildic) :
                 LET e == c5disk.fildic[p[1]][p[2]] IN e # Hole /\ ~IsBase(e)}}

\* Sectors belong to one file, are taken in the map as long as they do and free after,
\* whatever either side adds, changes and removes, and with room for not all of it
\* (overlay_file(), fildic_remove(), map_find_run()).
AreaSound ==
  /\ \A e, f \in OwnEntries : e # f => Sectors(e) \cap Sectors(f) = {} /\ e.name # f.name
  /\ c5disk.map \cap FileSectors = UNION {Sectors(e) : e \in OwnEntries}
  /\ \A rel \in Rels : \A k \in DOMAIN Base[rel] : c5disk.fildic[rel][k] = Base[rel][k]

\* With nothing left to carry over, a file that is on both sides is the same on both.
InStep ==
  sync /\ ~guest_dirty =>
    \A i \in DOMAIN c5disk.files :
      LET t == c5disk.files[i]
          r == RawOf(t.id)
      IN r \notin unread => /\ FindAt(c5disk.fildic, t.id.name) # {} /\ host[r] # Gone
                            /\ Holds(c5disk, Entry(c5disk.fildic, t.id.name)) = ToGuest(host[r].data)

\* The second parameter of a file is the number of its last sector: with the first it
\* pins "the byte-exact end of file for CROOK's character I/O layer" (overlay_file()).
EndPinned == \A e \in OwnEntries : e.p2 = e.nsec - 1

\* A file of the host is changed or deleted only by the host or for CROOK, who changed
\* or deleted its own ("changed/created/deleted files under LIBRAR ... are written back").
HostKept ==
  [][GuestToHost => \A r \in Raws : r \notin touched => host'[r] = host[r]]_<<hostVars, c5fsVars>>
=============================================================================
