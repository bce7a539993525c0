----------------------------- MODULE PrioQueue -----------------------------
(* What a list of src/utils/elst.c promises to those who share it: a queue of  *)
(* bounded length, ordered by priority and by age within a priority for those  *)
(* who insert, with both ends open for those who append and prepend.           *)
EXTENDS SequencesExt

CONSTANTS Payloads, Priorities, Limit

VARIABLE queue       \* pairs of what was put and its priority

QueueInit == queue = <<>>

\* the place behind everything, from the head on, that is at least as urgent
Behind(q, prio) ==
  CHOOSE i \in 1..Len(q) + 1 : /\ i > Len(q) \/ q[i][2] < prio
                               /\ \A j \in 1..i - 1 : q[j][2] >= prio

\* what q may be after one operation
Appended(q) == {Append(q, <<x, 0>>) : x \in Payloads}
Prepended(q) == {<<<<x, 0>>>> \o q : x \in Payloads}
Inserted(q) == {InsertAt(q, Behind(q, prio), <<x, prio>>) : x \in Payloads, prio \in Priorities}
Taken(q) == IF q = <<>> THEN q ELSE Tail(q)

After(q) ==
  {r \in Appended(q) \cup Prepended(q) \cup Inserted(q) : Len(r) <= Limit} \cup {Taken(q), <<>>}

QueueNext == queue' \in After(queue)

QueueSpec == QueueInit /\ [][QueueNext]_queue
=============================================================================
