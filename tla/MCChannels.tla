----------------------------- MODULE MCChannels -----------------------------
(* The units of a character channel for TLC, one beside the other: a behaviour *)
(* runs a terminal or a floppy controller, each on the same channel with the   *)
(* other idle, or the clock.                                                   *)
EXTENDS UzDat, UzFx, Meclo

VARIABLE part

MCAddresses == {<<1, 0>>}
MCMonthDays == <<2, 1>>
MCKeys == {{}, {"tr"}, {"dr"}, {"hs", "irq"}, {"ms"}, {"hs", "dr"}, {"hs", "dr", "tr"}}

Init == /\ part \in {"terminal", "floppy", "clock"}
        /\ UzDatInit /\ UzFxInit /\ MecloInit
        /\ part # "terminal" => ~unattended
        /\ part # "floppy" => ~image
        /\ part # "clock" => clock.month = 1 /\ clock.day = 1 /\ clock.hour = 0 /\ clock.minute = 0 /\ clock.second = 0

Terminal == part = "terminal" /\ UzNext /\ UNCHANGED <<part, uzfxVars, mecloVars>>
Floppy == part = "floppy" /\ FxNext /\ UNCHANGED <<part, uzdatVars, mecloVars>>
Clock == part = "clock" /\ MecloNext /\ UNCHANGED <<part, ccharVars, uzdatVars, uzfxVars>>

Next == Terminal \/ Floppy \/ Clock

Spec == Init /\ [][Next]_<<part, ccharVars, uzdatVars, uzfxVars, mecloVars>>

-----------------------------------------------------------------------------
\* Every command that was told to wait is answered by an interrupt of the unit, and
\* the channel passes it on (EN of uzdat.c and uzfx.c, cchar_int_trigger()).
CommandsAnswered == EngagedAnswered /\ WriterIsAnswered /\ NoneForgotten

\* While a unit is busy, a sector is in work or a display is kept, a callback of the
\* loop is on its way that moves it on.
KeepsMoving == BusyMoves /\ WorkIsScheduled /\ DateEnds

\* Nothing gets stuck: what is under way moves on, and loop and CPU do not wait for
\* each other's mutex.
NothingStalls == KeepsMoving /\ NoCircularWait

\* Characters out are those accepted, in order; characters in are not lost by an
\* unattended receiver; sectors are written with what the program gave.
DataIntact == /\ UzTypeOK /\ FxTypeOK /\ MecloTypeOK
              /\ OutputIntact /\ UnattendedLosesNothing /\ SectorsWhole

\* The medium stays while an operation is under way, and the end of the disk is
\* reported whatever is read or given up meanwhile (sp45de_image_replace(),
\* uzfx_cmd_read(), uzfx_cmd_detach()).
DriveKept == MediaStays /\ EndReported
=============================================================================
