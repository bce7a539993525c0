------------------------------- MODULE AppCfg -------------------------------
(***************************************************************************)
(* The configuration (src/appcfg.c): machines with their channels and      *)
(* devices, the file they are written to and read from in the present and  *)
(* in the old form, and the operations that its users are built from.      *)
(***************************************************************************)
EXTENDS Integers, FiniteSets, Sequences

CONSTANTS
  CfgChans, CfgDevs,\* EM400_IO_MAX_CHAN, EM400_CHAN_MAX_DEV
  Texts,            \* what a file may have for values: identifiers, settings, paths
  MaxDevices        \* of a channel, by its type: em400_channel_max_devices()

Nothing == "none" \* NULL, or no channel or device
NoId == <<"none", 0>>
ChanTypes == {"char", "multix", "iotester", "plix"}
Places == CfgChans \X CfgDevs
Speeds == {150, 300, 600, 1200, 2400, 4800, 9600}
NoDevice == [type |-> Nothing, path |-> Nothing, speed |-> 0]
Device(type) == [NoDevice EXCEPT !.type = type]

\* types of devices in the order of the enumeration; paths stand for all that a device has
DeviceTypes == <<"terminal", "winchester", "floppy", "sp45de", "rtclock">>
WithImage == {"winchester", "sp45de"}
WithPath == WithImage \cup {"rtclock"}

\* em400_channel_dev_compatible()
MayHold(ctype) ==
  CASE ctype = "char" -> {"terminal", "sp45de", "rtclock"}
    [] ctype = "multix" -> {"terminal", "winchester", "floppy"}
    [] OTHER -> {}

\* a channel that takes no devices has no place for one (io/chan.c)
ASSUME AppCfgAssumption ==
  /\ CfgChans \cup CfgDevs \subseteq Nat
  /\ {Nothing, "default", "os", "imported"} \subseteq Texts
  /\ MaxDevices \in [ChanTypes -> Nat] /\ \A t \in ChanTypes : MayHold(t) = {} => MaxDevices[t] = 0

\* one setting stands for those of the CPU, of memory and the name
Machine(id) == [id |-> id, setting |-> "default", chan |-> [c \in CfgChans |-> Nothing],
                dev |-> [p \in Places |-> NoDevice]]

-----------------------------------------------------------------------------
(* The file: keys of each machine's section.                               *)

\* write_machine(), write_device(): values that stand by default are left out
WrittenKeys(m) ==
  LET devs == {p \in Places : m.chan[p[1]] # Nothing /\ m.dev[p].type # Nothing}
  IN {<<"setting">> : s \in {m.setting} \ {"default"}}
       \cup {<<"channel", c>> : c \in {c \in CfgChans : m.chan[c] # Nothing}}
       \cup {<<"type", p>> : p \in devs}
       \cup {<<"path", p>> : p \in {p \in devs : m.dev[p].path # Nothing /\ m.dev[p].type \in WithPath}}
       \cup {<<"speed", p>> : p \in {p \in devs : m.dev[p].speed # 9600 /\ m.dev[p].type = "terminal"}}
Section(m) ==
  [id |-> m.id,
   keys |-> [k \in WrittenKeys(m) |->
               CASE k[1] = "setting" -> m.setting [] k[1] = "channel" -> m.chan[k[2]]
                 [] k[1] = "type" -> m.dev[k[2]].type [] k[1] = "path" -> m.dev[k[2]].path
                 [] OTHER -> m.dev[k[2]].speed]]

\* appcfg_write(); active stands in [general], old for what the form of one machine has
File(active, sections, old) == [active |-> active, sections |-> sections, old |-> old]
NoKeys == [k \in {} |-> Nothing]
NoFile == File(<<"missing", 0>>, <<>>, NoKeys)
Written(c) == File(c.active, [i \in DOMAIN c.machines |-> Section(c.machines[i])], NoKeys)

\* what is left of a file when its writing, which begins by emptying it, is not finished
Cuts(f) == {File(NoId, <<>>, NoKeys)} \cup {File(f.active, SubSeq(f.sections, 1, n), NoKeys) : n \in 0..Len(f.sections) - 1}

KeyOr(keys, k, default) == IF k \in DOMAIN keys THEN keys[k] ELSE default

\* build_machine_new(), build_io_new(), build_device_new(); build_machine(), build_io(),
\* build_device() of the old form
Built(sec) ==
  [id |-> sec.id, setting |-> KeyOr(sec.keys, <<"setting">>, "default"),
   chan |-> [c \in CfgChans |-> KeyOr(sec.keys, <<"channel", c>>, Nothing)],
   dev |-> [p \in Places |->
     LET type == IF <<"channel", p[1]>> \in DOMAIN sec.keys THEN KeyOr(sec.keys, <<"type", p>>, Nothing) ELSE Nothing
     IN [type |-> type,
         path |-> IF type \in WithPath THEN KeyOr(sec.keys, <<"path", p>>, Nothing) ELSE Nothing,
         speed |-> IF type = "terminal" THEN KeyOr(sec.keys, <<"speed", p>>, 9600) ELSE 0]]]

\* check_dev_compat()
Accepted(m) == \A p \in Places : m.dev[p].type # Nothing => m.dev[p].type \in MayHold(m.chan[p[1]])

\* appcfg_build_from_ini(): a file without sections of machines is of the old form
Imported == <<"imported", 1>>
Loaded(f) ==
  IF f.sections = <<>> THEN [machines |-> <<Built([id |-> Imported, keys |-> f.old])>>, active |-> Imported]
  ELSE [machines |-> [i \in DOMAIN f.sections |-> Built(f.sections[i])], active |-> f.active]
Loadable(f) == \A i \in DOMAIN Loaded(f).machines : Accepted(Loaded(f).machines[i])

-----------------------------------------------------------------------------
\* appcfg_machine_find(), appcfg_active_machine(): the first machine stands in for one
\* that is not there
Found(c, id) == {i \in DOMAIN c.machines : c.machines[i].id = id}
ActiveAt(c) == IF Found(c, c.active) = {} THEN 1 ELSE CHOOSE i \in Found(c, c.active) : TRUE
Active(c) == c.machines[ActiveAt(c)]

\* an identifier is what a name comes to, and the first number that makes it unlike the others
UniqueId(c, base) ==
  <<base, CHOOSE n \in 1..Len(c.machines) + 1 :
            Found(c, <<base, n>>) = {} /\ \A k \in 1..n - 1 : Found(c, <<base, k>>) # {}>>

\* appcfg_machine_add_default(), appcfg_machine_clone(), appcfg_machine_delete()
Added(c, m) == [c EXCEPT !.machines = Append(@, m)]
Without(c, id) ==
  LET at == CHOOSE i \in Found(c, id) : TRUE
      rest == [i \in 1..Len(c.machines) - 1 |-> c.machines[IF i < at THEN i ELSE i + 1]]
  IN [machines |-> rest,
      active |-> IF c.active # id THEN c.active ELSE IF rest = <<>> THEN NoId ELSE rest[1].id]

\* appcfg_import_legacy_machine(): what the file had stays, and is not active
WithLegacy(c, f) ==
  LET m == Built([id |-> UniqueId(c, "imported"), keys |-> f.old])
  IN [Added(c, m) EXCEPT !.active = m.id]

\* appcfg_set_image(): only of devices with images, and only another one
SetsImage(m, p, path) == m.dev[p].type \in WithImage /\ m.dev[p].path # path
ImageSet(m, p, path) == IF SetsImage(m, p, path) THEN [m EXCEPT !.dev[p].path = path] ELSE m

NoConfig == [machines |-> <<>>, active |-> NoId]

\* What is built from a file, whatever it says: its values are of their types, a device has
\* what its type has, and a name stands for one section (iniparser).
CfgDevices ==
  {d \in [type : {DeviceTypes[i] : i \in DOMAIN DeviceTypes} \cup {Nothing}, path : Texts, speed : Int] :
     (d.type \notin WithPath => d.path = Nothing) /\ (d.type # "terminal" => d.speed = 0)}
CfgMachines == [id : Texts \X Nat, setting : Texts, chan : [CfgChans -> ChanTypes \cup {Nothing}],
                dev : [Places -> CfgDevices]]
WellFormed(c) ==
  /\ c \in [machines : Seq(CfgMachines), active : Texts \X Nat] /\ c.machines # <<>>
  /\ \A i, j \in DOMAIN c.machines : c.machines[i].id = c.machines[j].id => i = j
=============================================================================
