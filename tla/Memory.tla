------------------------------- MODULE Memory -------------------------------
(***************************************************************************)
(* The memory of the machine (src/mem/mem.c, elwro.c, mega.c): frames on   *)
(* the heap, the two kinds of memory module that say which page of which   *)
(* segment they answer, and the maps of pointers that mem.c keeps so that  *)
(* an access needs no look at the modules.                                 *)
(*                                                                         *)
(* A frame is a block of the heap; it has the number of the power-on that  *)
(* allocated it in its name, so that a pointer that outlives its block     *)
(* shows.  What words hold, logging and the text of a PROM image are left  *)
(* out.                                                                    *)
(***************************************************************************)
EXTENDS Integers, Sequences, FiniteSets

CONSTANTS
  NModules,      \* MEM_MODULES
  NSegments,     \* MEM_SEGMENTS
  NPages,        \* MEM_PAGES
  MegaFrames,    \* MEM_MEGA_FRAMES
  ElwroFrames,   \* MEM_ELWRO_FRAMES
  InCommands,         \* bound: modules and frames that programs name in commands
  Configs,       \* the memories the machine may be configured with
  PageSize,      \* MEM_PAGE_SIZE
  MaxPower       \* bound: times the machine is switched on

ASSUME MemoryAssumption ==
  /\ {NModules, NSegments, NPages, MegaFrames, ElwroFrames, PageSize, MaxPower} \subseteq Nat \ {0}
  /\ NPages >= 2 /\ ElwroFrames >= 2    \* 16 and 8; mem_elwro_init() hardwires up to two frames
  /\ InCommands \subseteq (0..NModules - 1) \X (0..MegaFrames - 1)
  /\ Configs \subseteq [elwro : Nat, mega : Nat, os : Nat, prom : {"default", "custom", "bad"}]

Modules == 0..NModules - 1
Places == (0..NSegments - 1) \X (0..NPages - 1)    \* segment and page

VARIABLES
  mem_initialized,
  config,                  \* elwro_modules, mega_modules, mem_elwro_os_frames and the image
  ral,                  \* mem_elwro_ral: the page each Elwro frame answers
  mem_mega,             \* the frame behind each place of each MEGA module
  mem_mega_map,
  mem_mega_prom_hidden, mem_mega_alloc_done,
  prom,                 \* whose program mem_mega_prom holds
  reads, writes,        \* mem_map_reads, mem_map_writes
  live,                 \* frames allocated and not freed
  power                 \* times the machine has been switched on

memVars == <<mem_initialized, config, ral, mem_mega, mem_mega_map, mem_mega_prom_hidden,
          mem_mega_alloc_done, prom, reads, writes, live, power>>

\* pointers: heap frames carry their owner and the power-on that allocated them
Null   == <<"null", 0, 0, 0>>
Prom   == <<"prom", 0, 0, 0>>           \* mem_mega_prom
Ones   == <<"ffff", 0, 0, 0>>           \* mem_mega_frame_ffff
DevNull == <<"devnull", 0, 0, 0>>       \* mem_mega_frame_devnull
Statics == {Prom, Ones, DevNull}
Elwro(m, f) == <<"elwro", power, m, f>>
Heap == {"elwro", "mega"} \X (1..MaxPower) \X Modules \X (0..MegaFrames + ElwroFrames - 1)
Ptrs == Heap \cup Statics \cup {Null}

ElwroPlaces == (0..config.elwro - 1) \X (0..ElwroFrames - 1)

\* mem_elwro_get_seg_ptrs(): the lowest frame that has the page in its RAL
ElwroFound(p) == {e \in ElwroPlaces : ral[e] = p}
Lowest(es) == CHOOSE e \in es : \A d \in es : e[1] < d[1] \/ (e[1] = d[1] /\ e[2] <= d[2])

\* mem_mega_get_seg_ptrs(): TRUE when MEGA answers the page
PromShown(p) == p = <<0, NPages - 1>> /\ ~mem_mega_prom_hidden
MegaAnswers(p) == PromShown(p) \/ mem_mega_alloc_done
MegaReads(p) == IF PromShown(p) THEN Prom ELSE mem_mega_map[p]
\* Mutant of MegaWrites: the PROM is not told from a missing module.
MegaWritesProm(p) == IF MegaReads(p) = Ones THEN DevNull ELSE MegaReads(p)

MegaWrites(p) == IF MegaReads(p) \in {Prom, Ones} THEN DevNull ELSE MegaReads(p)

\* the maps that the configuration of the modules calls for
ReadPtr(p) ==
  IF ElwroFound(p) # {} THEN Elwro(Lowest(ElwroFound(p))[1], Lowest(ElwroFound(p))[2])
  ELSE IF config.mega > 0 /\ MegaAnswers(p) THEN MegaReads(p) ELSE Null
WritePtr(p) ==
  IF ElwroFound(p) # {} THEN ReadPtr(p)
  ELSE IF config.mega > 0 /\ MegaAnswers(p) THEN MegaWrites(p) ELSE Null

\* mem_update_map()
UpdateMap == /\ reads' = [p \in Places |-> ReadPtr(p)']
             /\ writes' = [p \in Places |-> WritePtr(p)']

\* mem_elwro_reset(): all frames answer page 0 of segment 0 but for those of the OS
ElwroReset(c) ==
  [e \in Modules \X (0..ElwroFrames - 1) |->
     IF e[1] = 0 /\ e[2] < c.os THEN <<0, e[2]>>
     ELSE IF e[1] < c.elwro THEN <<0, 0>> ELSE ral[e]]

\* mem_elwro_init() and mem_mega_init() accept this
ElwroOK(c) == c.elwro > 0 => c.elwro <= NModules /\ c.os \in 1..2
MegaOK(c) == c.mega > 0 => c.mega <= NModules /\ c.prom # "bad"

FramesOf(c, n) ==
  ({"elwro"} \X {n} \X (0..c.elwro - 1) \X (0..ElwroFrames - 1))
    \cup ({"mega"} \X {n} \X (NModules - c.mega..NModules - 1) \X (0..MegaFrames - 1))

MemoryInit ==
  /\ mem_initialized = FALSE
  /\ config = [elwro |-> 0, mega |-> 0, os |-> 0, prom |-> "default"]
  /\ ral = [e \in Modules \X (0..ElwroFrames - 1) |-> <<0, 0>>]
  /\ mem_mega = [e \in Modules \X (0..MegaFrames - 1) |-> Null]
  /\ mem_mega_map = [p \in Places |-> Null]
  /\ mem_mega_prom_hidden = FALSE /\ mem_mega_alloc_done = FALSE
  /\ prom = "default"
  /\ reads = [p \in Places |-> Null] /\ writes = [p \in Places |-> Null]
  /\ live = {} /\ power = 0

(* mem_init(): a failure of either kind leaves nothing allocated. *)
MemInit(c) ==
  /\ ~mem_initialized /\ power < MaxPower
  /\ power' = power + 1
  /\ config' = [c EXCEPT !.os = IF c.elwro > 0 /\ ElwroOK(c) THEN c.os ELSE config.os]
  /\ ral' = IF c.elwro > 0 /\ ElwroOK(c) THEN ElwroReset(c) ELSE ral
  /\ IF ElwroOK(c) /\ MegaOK(c)
     THEN /\ mem_initialized' = TRUE
          /\ live' = FramesOf(c, power')
          /\ mem_mega' = IF c.mega = 0 THEN mem_mega
                         ELSE [e \in DOMAIN mem_mega |->
                                 IF e[1] < NModules - c.mega THEN Ones ELSE <<"mega", power', e[1], e[2]>>]
          /\ mem_mega_prom_hidden' = (mem_mega_prom_hidden /\ c.mega = 0)
          /\ mem_mega_alloc_done' = (mem_mega_alloc_done /\ c.mega = 0)
          /\ prom' = IF c.mega > 0 /\ c.prom = "custom" THEN "custom" ELSE prom
          /\ UNCHANGED mem_mega_map
          /\ UpdateMap
     ELSE UNCHANGED <<mem_initialized, live, mem_mega, mem_mega_map, mem_mega_prom_hidden,
                      mem_mega_alloc_done, prom, reads, writes>>

(* mem_shutdown() *)
MemShutdown ==
  /\ mem_initialized
  /\ mem_initialized' = FALSE
  /\ reads' = [p \in Places |-> Null] /\ writes' = [p \in Places |-> Null]
  /\ live' = {}
  /\ mem_mega' = IF config.mega = 0 THEN mem_mega
                 ELSE [e \in DOMAIN mem_mega |->
                         IF e[1] >= NModules - config.mega THEN Null ELSE mem_mega[e]]
  /\ UNCHANGED <<config, ral, mem_mega_map, mem_mega_prom_hidden, mem_mega_alloc_done, prom, power>>

(* mem_mega_cmd() *)
MegaCmd(p, m, f, flags) ==
  /\ mem_initialized /\ config.mega > 0
  /\ mem_mega_prom_hidden' =
       (\/ mem_mega_prom_hidden /\ "prom_show" \notin flags
        \/ ~mem_mega_prom_hidden /\ "prom_hide" \in flags)
  /\ mem_mega_map' = [mem_mega_map EXCEPT ![p] = IF "dealloc" \in flags THEN Null ELSE mem_mega[<<m, f>>]]
  /\ mem_mega_alloc_done' = (mem_mega_alloc_done \/ "alloc_done" \in flags)
  /\ UNCHANGED <<mem_initialized, config, ral, mem_mega, prom, live, power>>
  /\ UpdateMap

Hardwired(m, f) == m = 0 /\ f < config.os

\* RAL: segment and page
Ral(p) == p

(* mem_elwro_cmd(), reached through the handler of the module: frames out of   *)
(* range fold onto those there are, hardwired ones refuse.                    *)
ElwroCmd(p, m, f) ==
  LET e == <<m, f % ElwroFrames>>
  IN /\ mem_initialized
     /\ m < config.elwro
     /\ ~Hardwired(m, e[2])
     /\ ral' = [ral EXCEPT ![e] = Ral(p)]
     /\ UNCHANGED <<mem_initialized, config, mem_mega, mem_mega_map, mem_mega_prom_hidden,
                    mem_mega_alloc_done, prom, live, power>>
     /\ UpdateMap

\* Mutant of Cleared: the flip-flops have no reset.
ClearedNever(long) == FALSE

\* mem_mega_reset()
Cleared(long) == long /\ config.mega > 0

Remapped(long) == UpdateMap

(* mem_reset(): CLEAR is long, MCL is not. *)
MemReset(long) ==
  /\ mem_initialized
  /\ ral' = IF config.elwro > 0 THEN ElwroReset(config) ELSE ral
  /\ mem_mega_alloc_done' = (mem_mega_alloc_done /\ ~Cleared(long))
  /\ mem_mega_prom_hidden' = (mem_mega_prom_hidden /\ ~Cleared(long))
  /\ UNCHANGED <<mem_initialized, config, mem_mega, mem_mega_map, prom, live, power>>
  /\ Remapped(long)

MegaFlags == SUBSET {"dealloc", "prom_show", "prom_hide", "alloc_done"}

MemoryNext ==
  \/ \E c \in Configs : MemInit(c)
  \/ MemShutdown
  \/ \E p \in Places, e \in InCommands, flags \in MegaFlags : MegaCmd(p, e[1], e[2], flags)
  \/ \E p \in Places, e \in InCommands : ElwroCmd(p, e[1], e[2])
  \/ \E long \in BOOLEAN : MemReset(long)

MemorySpec == MemoryInit /\ [][MemoryNext]_memVars

(***************************************************************************)
(* Accesses.  They change words of frames and nothing above.               *)
(***************************************************************************)
\* mem_read_1() and mem_write_1() with a map: does the address have memory?
Answered(map, seg, addr) == map[<<seg, addr \div PageSize>>] # Null

\* Mutant of Room: a run is a whole page long wherever it starts.
RoomWhole(s) == PageSize

\* words left in the page
Room(s) == PageSize - (s % PageSize)

\* the loop of mem_read_n() and mem_write_n(): the words that count of them from
\* saddr on are cut into, a page at a time, up to the first page that is missing
Bulk(map, seg) ==
  LET B[w \in (0..NPages * PageSize - 1) \X (0..NPages * PageSize)] ==
        LET s == w[1]
            n == w[2]
            run == IF Room(s) > n THEN n ELSE Room(s)
        IN IF n = 0 \/ ~Answered(map, seg, s) THEN <<>>
           ELSE [i \in 1..run |-> s + i - 1] \o B[<<(s + run) % (NPages * PageSize), n - run>>]
  IN B

\* mem_get_map()
MemGetMap(seg) == {page \in 0..NPages - 1 : reads[<<seg, page>>] # Null}

(***************************************************************************)
(* Properties                                                              *)
(***************************************************************************)
MemTypeOK ==
  /\ mem_initialized \in BOOLEAN /\ mem_mega_prom_hidden \in BOOLEAN /\ mem_mega_alloc_done \in BOOLEAN
  /\ ral \in [Modules \X (0..ElwroFrames - 1) -> Places]
  /\ mem_mega \in [Modules \X (0..MegaFrames - 1) -> Ptrs]
  /\ mem_mega_map \in [Places -> Ptrs]
  /\ reads \in [Places -> Ptrs] /\ writes \in [Places -> Ptrs]
  /\ live \subseteq Heap
  /\ prom \in {"default", "custom"} /\ power \in 0..MaxPower

\* The maps of pointers are a cache of what the modules say (mem_update_map()):
\* no sequence of commands, resets, failed and successful power-ons leaves an
\* entry behind, and with the power off there is none.
MapsFollowModules ==
  IF mem_initialized THEN /\ \A p \in Places : reads[p] = ReadPtr(p)
                          /\ \A p \in Places : writes[p] = WritePtr(p)
  ELSE \A p \in Places : reads[p] = Null /\ writes[p] = Null

\* Nothing a program writes reaches the PROM or the frame that missing MEGA
\* modules read as (mem_mega_get_seg_ptrs()), and a page that is written reads
\* back the same frame otherwise.
ReadOnlyStaysSo ==
  \A p \in Places : /\ writes[p] \notin {Prom, Ones}
                    /\ writes[p] \in {reads[p], DevNull}

\* A transfer in bulk (mem_read_n(), mem_write_n(), runs of whole pages) does what
\* as many transfers of a word would do (with the power on), wrapping at the end of the segment, and
\* stops where the first of them would fail.
BulkIsWordByWord ==
  mem_initialized => \A map \in {reads, writes}, seg \in 0..NSegments - 1 :
    LET bulk == Bulk(map, seg)
        size == NPages * PageSize
    IN \A s \in 0..size - 1, n \in 1..size :
         LET single == {k \in 0..n : \A i \in 0..k - 1 : Answered(map, seg, (s + i) % size)}
             most == CHOOSE k \in single : \A j \in single : j <= k
         IN bulk[<<s, n>>] = [i \in 1..most |-> (s + i - 1) % size]

\* On a machine with Elwro memory the pages of the operating system are there,
\* in the frames hardwired for them, whatever the program configures or resets
\* (mem_elwro_cmd(), mem_elwro_reset()).
OsPagesFixed ==
  mem_initialized /\ config.elwro > 0 =>
    \A i \in 0..config.os - 1 : reads[<<0, i>>] = Elwro(0, i)

\* CLEAR makes the PROM of MEGA readable where the machine starts (0xf000),
\* unless Elwro memory answers there, and takes all other MEGA pages away.
ClearShowsProm ==
  [][\A long \in BOOLEAN :
       MemReset(long) /\ long /\ config.mega > 0 =>
         \A pg \in Places : reads'[pg][1] # "elwro" =>
           reads'[pg] = IF pg = <<0, NPages - 1>> THEN Prom ELSE Null]_memVars

\* A software reset (MCL) leaves MEGA's pages and PROM as they are: the program
\* that configures the memory runs through it (comment in mem_mega_reset()).
MclKeepsMega ==
  [][MemReset(FALSE) => \A pg \in Places :
       reads[pg][1] # "elwro" /\ reads'[pg][1] # "elwro" => reads'[pg] = reads[pg]]_memVars

\* The maps of memory are what the modules say, at any time: the cache follows
\* them, nothing can be written that is read-only, the pages of the operating
\* system stay, and a transfer in bulk is that of single words (mem.c).
MemorySound == MemTypeOK /\ MapsFollowModules /\ ReadOnlyStaysSo /\ OsPagesFixed /\ BulkIsWordByWord

\* The two resets of memory do what the start of the machine, and a program that
\* configures memory, count on (mem_mega_reset()).
ResetsKept == ClearShowsProm /\ MclKeepsMega

\* A dangling map entry would be a use after free (comment in mem_shutdown()):
\* every entry is a static frame or one that is allocated.
MapsLive == \A p \in Places : {reads[p], writes[p]} \subseteq live \cup Statics \cup {Null}

\* The machine starts with the program in its PROM that it is configured with
\* ("Using default MEGA PROM", mem_mega_init()).
PromAsConfigured ==
  mem_initialized /\ config.mega > 0 => prom = config.prom
=============================================================================
