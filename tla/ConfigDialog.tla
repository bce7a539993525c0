----------------------------- MODULE ConfigDialog -----------------------------
(***************************************************************************)
(* The configuration in use: the program's start (src/em400.c), its main   *)
(* window (ui/qt6/app/mainwindow.cpp, configcontroller.cpp, emumodel.cpp)  *)
(* and the dialog that edits a copy of it (configdialog.cpp) while the     *)
(* window goes on: the machine is turned on and off, images are changed,   *)
(* another machine is chosen.                                              *)
(***************************************************************************)
EXTENDS AppCfg

CONSTANTS
  Images,         \* paths
  ConfigFiles, Legacies,  \* what the program may find at its first start: files, and old ones or NoFile
  MaxCfgSteps     \* bound: steps of the user

Bases == {"lab"}
ASSUME ConfigAssumption ==
  /\ Images \cup Bases \cup {"mera400"} \subseteq Texts /\ MaxCfgSteps \in Nat
  /\ \A f \in ConfigFiles : WellFormed(Loaded(f))
  /\ \A l \in Legacies : Built([id |-> Imported, keys |-> l.old]) \in CfgMachines

VARIABLES
  file, legacy,
  program,    \* "down", "loading", "up"
  importing,  \* the old configuration is to be brought over
  cfg,        \* appcfg
  saved,      \* history: what the file was last written from, NoConfig when it was cut
  running,    \* the machine turned on, with the images its drives have, or NotRunning
  work,       \* the dialog's copy, or NoConfig when it is closed
  current,    \* identifier of the dialog's machine
  sel,        \* <<io_sel_chan, io_sel_dev>>, -1 for none
  cfgSteps

cfgVars == <<file, legacy, program, importing, cfg, saved, running, work, current, sel, cfgSteps>>
NoSelection == <<-1, -1>>
Edited == <<work, current, sel>>
NotRunning == Machine(NoId)
Off == running = NotRunning
Open == program = "up" /\ work # NoConfig
UserStep == cfgSteps < MaxCfgSteps /\ cfgSteps' = cfgSteps + 1

\* the file given with em400: one machine with a terminal and a floppy drive
Mera400 == [Machine(<<"mera400", 1>>) EXCEPT !.setting = "os", !.chan = [c \in CfgChans |-> IF c = 0 THEN "char" ELSE Nothing],
              !.dev[<<0, 0>>] = [Device("terminal") EXCEPT !.speed = 9600]]
DefaultFile == Written([machines |-> <<Mera400>>, active |-> Mera400.id])

\* an old file matters only where there is no new one
ConfigInit ==
  /\ file \in ConfigFiles /\ legacy \in Legacies /\ (legacy # NoFile => file = NoFile) /\ program = "down" /\ importing = FALSE
  /\ cfg = NoConfig /\ saved = NoConfig /\ running = NotRunning
  /\ work = NoConfig /\ current = NoId /\ sel = NoSelection /\ cfgSteps = 0

\* appcfg_write(): the file may be refused; once it is open nothing is an error, and the
\* disk may fill up
Save(c) == file' = Written(c) /\ saved' = c
SaveCut(c) == file' \in Cuts(Written(c)) /\ saved' = NoConfig
SaveRefused == UNCHANGED <<file, saved>>

-----------------------------------------------------------------------------
(* main(), em400_top_init(), and the program's end at any time.            *)
WriteDefault ==
  /\ program = "down" /\ file = NoFile /\ UserStep
  /\ \/ file' = DefaultFile /\ program' = "loading" /\ importing' = (legacy # NoFile)
     \/ file' \in Cuts(DefaultFile) /\ UNCHANGED <<program, importing>>
  /\ UNCHANGED <<legacy, cfg, saved, running>> /\ UNCHANGED Edited
Begin ==
  /\ program = "down" /\ file # NoFile /\ UserStep /\ program' = "loading"
  /\ UNCHANGED <<file, legacy, importing, cfg, saved, running>> /\ UNCHANGED Edited

\* -m names the machine to be active from now on, or there is no such one
Override(c) ==
  {c} \cup {[c EXCEPT !.active = id] : id \in {c.machines[i].id : i \in DOMAIN c.machines}}
LoadFails ==
  /\ program = "loading" /\ program' = "down" /\ importing' = FALSE
  /\ UNCHANGED <<file, legacy, cfg, saved, running, cfgSteps>> /\ UNCHANGED Edited
LoadConfig ==
  /\ program = "loading" /\ Loadable(file) /\ (importing => Accepted(Built([id |-> Imported, keys |-> legacy.old])))
  /\ \E c \in Override(IF importing THEN WithLegacy(Loaded(file), legacy) ELSE Loaded(file)) :
       \/ cfg' = c /\ program' = "up" /\ IF importing THEN Save(c) ELSE SaveRefused
       \/ importing /\ SaveRefused /\ program' = "down" /\ UNCHANGED cfg
       \/ importing /\ SaveCut(c) /\ program' = "up" /\ cfg' = c
  /\ importing' = FALSE /\ UNCHANGED <<legacy, running, cfgSteps>> /\ UNCHANGED Edited
Quit ==
  /\ program # "down" /\ program' = "down" /\ cfg' = NoConfig /\ running' = NotRunning /\ importing' = FALSE
  /\ work' = NoConfig /\ current' = NoId /\ sel' = NoSelection /\ UNCHANGED <<file, legacy, saved, cfgSteps>>

-----------------------------------------------------------------------------
(* The main window.  A drive lets go of its image while it is not in use.  *)
Ejectable(p) == running.dev[p].type = "sp45de"

\* slot_power(): em400_init() refuses speeds that terminals do not have
PowerOnOff ==
  /\ program = "up" /\ UserStep
  /\ IF Off THEN running' = IF \A p \in Places : Active(cfg).dev[p].type = "terminal" => Active(cfg).dev[p].speed \in Speeds
                            THEN Active(cfg) ELSE NotRunning
     ELSE running' = NotRunning
  /\ UNCHANGED <<file, legacy, program, importing, cfg, saved>> /\ UNCHANGED Edited

\* set_disk_image(), on_media_changed(): of the machine that the configuration has as
\* active, then of the drive that stands there, if it can, and of the dialog's copy
SetDiskImage(p, path) ==
  /\ program = "up" /\ Found(cfg, cfg.active) # {} /\ SetsImage(Active(cfg), p, path) /\ UserStep
  /\ \E can \in BOOLEAN :
       /\ Off \/ can
       /\ can => ~Off /\ Ejectable(p)
       /\ running' = IF can THEN [running EXCEPT !.dev[p].path = path] ELSE running
  /\ cfg' = [cfg EXCEPT !.machines[ActiveAt(cfg)] = ImageSet(@, p, path)]
  /\ (Save(cfg') \/ SaveRefused \/ SaveCut(cfg'))
  /\ work' = IF work = NoConfig THEN work
             ELSE [work EXCEPT !.machines = [i \in DOMAIN @ |-> IF @[i].id = cfg.active THEN ImageSet(@[i], p, path) ELSE @[i]]]
  /\ UNCHANGED <<legacy, program, importing, current, sel>>

\* slot_active_machine_changed(): the dialog shows another machine
Shown(c, id) == work' = [c EXCEPT !.active = id] /\ current' = id /\ sel' = NoSelection

\* set_active_machine(), on_active_machine_changed(): the dialog's list moves along
SetActiveMachine(id) ==
  /\ program = "up" /\ Off /\ id # cfg.active /\ UserStep
  /\ cfg' = [cfg EXCEPT !.active = id] /\ (Save(cfg') \/ SaveRefused \/ SaveCut(cfg'))
  /\ IF work # NoConfig /\ Found(work, id) # {} /\ current # id THEN Shown(work, id) ELSE UNCHANGED Edited
  /\ UNCHANGED <<legacy, program, importing, running>>

OpenConfig ==
  /\ program = "up" /\ work = NoConfig /\ UserStep
  /\ work' = cfg /\ current' = Active(cfg).id /\ sel' = NoSelection
  /\ UNCHANGED <<file, legacy, program, importing, cfg, saved, running>>

-----------------------------------------------------------------------------
(* The dialog; most of it can be used only with the machine turned off.    *)
Outside == <<file, legacy, program, importing, cfg, saved, running>>
Cold == Open /\ Off /\ UserStep /\ UNCHANGED Outside
CurrentAt == CHOOSE i \in Found(work, current) : TRUE
Mine == work.machines[CurrentAt]
Edit(m, s) == work' = [work EXCEPT !.machines[CurrentAt] = m] /\ sel' = s /\ UNCHANGED current
Chan == sel[1]

SelectMachine(id) == Cold /\ Found(work, id) # {} /\ id # current /\ Shown(work, id)
MachineAdd(base) ==
  Cold /\ LET id == UniqueId(work, base) IN Shown(Added(work, Machine(id)), id)
MachineDuplicate(base) ==
  Cold /\ LET id == UniqueId(work, base) IN Shown(Added(work, [Mine EXCEPT !.id = id]), id)
\* the list then moves to one that is left
MachineDelete ==
  /\ Cold /\ Len(work.machines) > 1
  /\ LET rest == Without(work, current) IN \E i \in DOMAIN rest.machines : Shown(rest, rest.machines[i].id)

\* build_machine_page(): what the settings stand for
Settings == Cold /\ \E s \in {"default", "os"} : s # Mine.setting /\ Edit([Mine EXCEPT !.setting = s], sel)

\* io_selection_changed(): something of the tree
SelectItem(c, d) ==
  /\ Open /\ UserStep /\ <<c, d>> # sel /\ Mine.chan[c] # Nothing /\ (d >= 0 => Mine.dev[<<c, d>>].type # Nothing)
  /\ sel' = <<c, d>> /\ UNCHANGED <<work, current>> /\ UNCHANGED Outside

Lowest(S) == CHOOSE x \in S : \A y \in S : x <= y
FreeChans == {c \in CfgChans : Mine.chan[c] = Nothing}
FreeDevs == {d \in CfgDevs : d < MaxDevices[Mine.chan[Chan]] /\ Mine.dev[<<Chan, d>>].type = Nothing}

AddChannel ==
  Cold /\ FreeChans # {} /\ LET c == Lowest(FreeChans) IN Edit([Mine EXCEPT !.chan[c] = "char"], <<c, -1>>)
\* the first type of devices that the channel takes
AddDevice ==
  /\ Cold /\ Chan >= 0 /\ FreeDevs # {}
  /\ LET type == DeviceTypes[Lowest({i \in DOMAIN DeviceTypes : DeviceTypes[i] \in MayHold(Mine.chan[Chan])})]
         d == Lowest(FreeDevs)
     IN Edit([Mine EXCEPT !.dev[<<Chan, d>>] = [Device(type) EXCEPT !.speed = IF type = "terminal" THEN 9600 ELSE 0]], <<Chan, d>>)

WithoutDevice(m) == Edit([m EXCEPT !.dev[sel] = NoDevice], <<Chan, -1>>)
Emptied(devs, c) == [p \in Places |-> IF p[1] = c THEN NoDevice ELSE devs[p]]
RemoveSelected ==
  /\ Cold /\ Chan >= 0
  /\ IF sel[2] >= 0 THEN WithoutDevice(Mine)
     ELSE Edit([Mine EXCEPT !.chan[Chan] = Nothing, !.dev = Emptied(@, Chan)], NoSelection)

\* io_set_channel_number(), io_set_device_number(): to a free one
SetChannelNumber(c) ==
  /\ Cold /\ Chan >= 0 /\ sel[2] < 0 /\ c \in FreeChans
  /\ Edit([Mine EXCEPT !.chan = [@ EXCEPT ![c] = Mine.chan[Chan], ![Chan] = Nothing],
                       !.dev = [p \in Places |-> IF p[1] = c THEN Mine.dev[<<Chan, p[2]>>] ELSE Emptied(Mine.dev, Chan)[p]]],
          <<c, -1>>)
SetDeviceNumber(d) ==
  /\ Cold /\ Chan >= 0 /\ sel[2] >= 0 /\ d \in FreeDevs
  /\ Edit([Mine EXCEPT !.dev = [@ EXCEPT ![<<Chan, d>>] = Mine.dev[sel], ![sel] = NoDevice]], <<Chan, d>>)

\* Mutant of Fitting: all devices stay.
FittingKept(m, c, type) == m.dev

\* devices that another type of the channel has no place for are dropped
Fitting(m, c, type) ==
  [p \in Places |-> IF p[1] = c /\ ~(p[2] < MaxDevices[type] /\ m.dev[p].type \in MayHold(type)) THEN NoDevice ELSE m.dev[p]]
SetChannelType(type) ==
  /\ Cold /\ Chan >= 0 /\ sel[2] < 0 /\ Mine.chan[Chan] # type
  /\ Edit([Mine EXCEPT !.chan[Chan] = type, !.dev = Fitting(Mine, Chan, type)], sel)

\* io_build_page()'s io_dev_type: a terminal made so has no speed, and is shown with 9600
SetDeviceType(type) ==
  /\ Cold /\ Chan >= 0 /\ sel[2] >= 0 /\ type \in MayHold(Mine.chan[Chan]) \ {Mine.dev[sel].type}
  /\ Edit([Mine EXCEPT !.dev[sel] = Device(type)], sel)

\* io_rebuild_dev_params(): images also while a drive lets go of them
SetSpeed(s) ==
  Cold /\ Chan >= 0 /\ sel[2] >= 0 /\ Mine.dev[sel].type = "terminal" /\ Edit([Mine EXCEPT !.dev[sel].speed = s], sel)
SetPath(path) ==
  /\ Open /\ Chan >= 0 /\ sel[2] >= 0 /\ Mine.dev[sel].type \in WithPath /\ path # Mine.dev[sel].path
  /\ Off \/ (Mine.dev[sel].type \in WithImage /\ Ejectable(sel))
  /\ UserStep /\ Edit([Mine EXCEPT !.dev[sel].path = path], sel) /\ UNCHANGED Outside

\* accept_config(), apply_and_save(), apply_media_diff(): drives that let go of their images
\* get those of the machine that was active, as it now is
MediaApplied(old, new, some) ==
  [running EXCEPT !.dev = [p \in Places |-> IF p \in some THEN [@[p] EXCEPT !.path = new.dev[p].path] ELSE @[p]]]
AcceptConfig ==
  /\ Open /\ UserStep /\ (Save(work) \/ SaveCut(work))
  /\ cfg' = work /\ work' = NoConfig /\ current' = NoId /\ sel' = NoSelection
  /\ IF Off \/ Found(work, cfg.active) = {} THEN UNCHANGED running
     ELSE LET old == Active(cfg)
              new == work.machines[CHOOSE i \in Found(work, cfg.active) : TRUE]
              differ == {p \in Places : old.dev[p].type = new.dev[p].type /\ new.dev[p].type \in WithImage
                                          /\ old.dev[p].path # new.dev[p].path /\ Ejectable(p)}
          IN \E some \in SUBSET differ : running' = MediaApplied(old, new, some)
  /\ UNCHANGED <<legacy, program, importing>>
Reject ==
  /\ Open /\ work' = NoConfig /\ current' = NoId /\ sel' = NoSelection /\ UNCHANGED <<cfgSteps>> /\ UNCHANGED Outside

Ids(c) == {c.machines[i].id : i \in DOMAIN c.machines}
ConfigNext ==
  \/ WriteDefault \/ Begin \/ LoadFails \/ LoadConfig \/ Quit \/ PowerOnOff \/ OpenConfig
  \/ \E p \in Places, path \in Images \cup {Nothing} : SetDiskImage(p, path)
  \/ program = "up" /\ \E id \in Ids(cfg) : SetActiveMachine(id)
  \/ Open /\ \E id \in Ids(work) : SelectMachine(id)
  \/ \E b \in Bases : MachineAdd(b) \/ MachineDuplicate(b)
  \/ MachineDelete \/ Settings \/ AddChannel \/ AddDevice \/ RemoveSelected \/ AcceptConfig \/ Reject
  \/ \E c \in CfgChans : SetChannelNumber(c) \/ SelectItem(c, -1) \/ \E d \in CfgDevs : SelectItem(c, d)
  \/ \E d \in CfgDevs : SetDeviceNumber(d)
  \/ \E t \in {"char", "multix", "iotester"} : SetChannelType(t)
  \/ \E i \in DOMAIN DeviceTypes : SetDeviceType(DeviceTypes[i])
  \/ \E s \in {300} : SetSpeed(s)
  \/ \E path \in Images \cup {Nothing} : SetPath(path)
ConfigSpec == ConfigInit /\ [][ConfigNext]_cfgVars

-----------------------------------------------------------------------------
\* Whatever is edited, in the dialog and beside it, the file that is written is one that
\* the next start loads, with the same machines and the same one active (appcfg_write(),
\* appcfg_build_from_ini(), check_dev_compat()).
LoadedIsSaved == saved # NoConfig => Loadable(file) /\ Loaded(file) = saved

\* The dialog edits what is there: its machine is in its copy, once, and what is selected is
\* a channel of it or a device of that channel (io_selection_changed(), machine_delete()).
EditsStand ==
  work # NoConfig => /\ Cardinality(Found(work, current)) = 1 /\ Cardinality(Ids(work)) = Len(work.machines)
                    /\ (Chan >= 0 => Mine.chan[Chan] # Nothing)
                    /\ (sel[2] >= 0 => Mine.dev[sel].type # Nothing)
ConfigSound == LoadedIsSaved /\ EditsStand

\* "the active machine cannot change while powered" (configcontroller.cpp:79): the machine
\* that is turned on is the one that is active.  It is not when another one was chosen in the
\* dialog before, and OK comes after.
RunningIsActive == ~Off => running.id = Active(cfg).id

\* "the user is not left booting on a config that did not get saved" (em400.c:369): the old
\* machine is there once the program is up; not if bringing it over failed the first time.
LegacyImported == program = "up" /\ legacy # NoFile /\ saved = NoConfig => \E id \in Ids(cfg) : id[1] = "imported"

\* A terminal has a speed that the dialog can show (configdialog.cpp:1183).
ShownIsStored == work # NoConfig => \A p \in Places : Mine.dev[p].type = "terminal" => Mine.dev[p].speed \in Speeds

\* The file always names its machines: no crash and no full disk leaves one without
\* (appcfg_write() truncates it first, and looks at no error after that).
NeverCut == program = "down" /\ file # NoFile => file.sections # <<>>
=============================================================================
