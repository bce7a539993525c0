------------------------------ MODULE Services ------------------------------
(***************************************************************************)
(* The services around the machine side by side: lists, PLIX, the tester,  *)
(* watches of directories, building and taking down of a machine, images   *)
(* of disks, and the configuration.  They share no state, so each goes its *)
(* own way and together they do what the conjunction of their              *)
(* specifications allows.                                                  *)
(***************************************************************************)
EXTENDS DirWatch, PowerOn, Plix, IoTester, Elst, E4Image, ConfigDialog

ServicesSpec == WatchSpec /\ PowerSpec /\ PlixSpecification /\ TesterSpec /\ ElstSpec /\ E4Spec /\ ConfigSpec

-----------------------------------------------------------------------------
\* At every moment the cells of a list are in one of its rings and no sleeper is passed over
\* (elst.c), no drive is called that has ended its watch (dirwatch.c), a machine that is off
\* has left nothing (libem400.c), a drive shows what its disk holds, whole (e4image.c), and a
\* configuration is read back as it was written, whatever was edited (appcfg.c).
ServicesSound == CellsSound /\ NoLateCall /\ OffIsClean /\ DriveTrue /\ FormattedWhole /\ ConfigSound

\* That, and no step serves an interrupt of PLIX that has nothing to tell (plix.c) or moves
\* other words than the tester was told to (iotester.c).
ServicesSafe == []ServicesSound /\ ServedGets /\ TransfersKeep
=============================================================================
