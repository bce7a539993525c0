------------------------------ MODULE Mailbox ------------------------------
(***************************************************************************)
(* What MULTIX promises the program of its interrupts: they are queued in  *)
(* the order they were raised, each is handed over at most once, and none  *)
(* disappears, unless the machine is reset or the mailbox overflows.       *)
(***************************************************************************)
EXTENDS Naturals, Sequences

CONSTANTS
  Messages,
  Nothing,    \* what a program gets that asks when nothing is offered
  Capacity

VARIABLES
  mail,       \* raised and not handed over
  handed,     \* what the program is being given
  due         \* a reset has been asked for

vars == <<mail, handed, due>>

Init == mail = <<>> /\ handed = Nothing /\ due = FALSE

Post ==
  /\ \E m \in Messages : mail' = Append(mail, m)
  /\ UNCHANGED <<handed, due>>

Take ==
  /\ mail # <<>>
  /\ handed' = Head(mail) /\ mail' = Tail(mail)
  /\ UNCHANGED due

\* asking too early gives nothing, and takes nothing
TakeNothing == handed' = Nothing /\ UNCHANGED <<mail, due>>

\* a full mailbox may lose the message that is handed back to it
Overflow ==
  /\ Len(mail) > Capacity
  /\ mail' = Tail(mail)
  /\ UNCHANGED <<handed, due>>

AskReset == due' = TRUE /\ UNCHANGED <<mail, handed>>

\* another one may have been asked for meanwhile
Reset ==
  /\ due /\ due' \in BOOLEAN
  /\ mail' = <<>>
  /\ UNCHANGED handed

Next == Post \/ Take \/ TakeNothing \/ Overflow \/ AskReset \/ Reset

Spec == Init /\ [][Next]_vars
=============================================================================
