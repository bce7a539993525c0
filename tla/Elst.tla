-------------------------------- MODULE Elst --------------------------------
(***************************************************************************)
(* The list that threads share (src/utils/elst.c): an array of cells       *)
(* linked into two rings, one of those in use and one of those free, with  *)
(* cells never used yet above a high-water mark; a mutex, under which each *)
(* operation is one step here, and a condition variable for the consumers. *)
(* Allocation and destruction are left out.                                *)
(***************************************************************************)
EXTENDS Integers, SequencesExt, FiniteSets

CONSTANTS
  Capacity,
  Payloads,       \* pointers that callers put
  Priorities,
  Consumers       \* threads in elst_wait_pop()

ASSUME ElstAssumption == Capacity \in Nat \ {0} /\ Priorities \subseteq Int /\ IsFiniteSet(Consumers)

USED == 0
FREE == 1
Cells == 0..Capacity + 1
NoPtr == "NULL"

VARIABLES
  nxt, prv,        \* d[i].n, d[i].p
  ptr, prio,
  count, hwm,
  consumer         \* "out", "waiting" on cond, "awake": signalled, timed out or not yet waiting

rings == <<nxt, prv>>
elstVars == <<nxt, prv, ptr, prio, count, hwm, consumer>>

(* elst_create(); a cell not used yet holds anything *)
ElstInit ==
  /\ nxt = [i \in Cells |-> i] /\ prv = [i \in Cells |-> i]
  /\ ptr = [i \in Cells |-> NoPtr] /\ prio = [i \in Cells |-> 0]
  /\ count = 0 /\ hwm = 2
  /\ consumer = [c \in Consumers |-> "out"]

-----------------------------------------------------------------------------
\* __unlink() and __link() on a pair of maps
Unlinked(d, i) == [n |-> [d.n EXCEPT ![d.p[i]] = d.n[i]], p |-> [d.p EXCEPT ![d.n[i]] = d.p[i]]]
LinkedIn(d, i, before, after) ==
  [n |-> [d.n EXCEPT ![i] = after, ![before] = i], p |-> [d.p EXCEPT ![i] = before, ![after] = i]]
Rings == [n |-> nxt, p |-> prv]

\* __get_free(): a cell that was freed, or the first never used
FromFree == nxt[FREE] # FREE
GetFree == IF FromFree THEN nxt[FREE] ELSE hwm
Taken == IF FromFree THEN Unlinked(Rings, GetFree) ELSE Rings

\* Mutant of Wakes: only the first of a list is signalled.
WakesFirst == count = 0

Wakes == TRUE

\* pthread_cond_signal(): one of those who wait, if any
Signal == IF Wakes /\ \E c \in Consumers : consumer[c] = "waiting"
          THEN \E c \in Consumers : consumer[c] = "waiting" /\ consumer' = [consumer EXCEPT ![c] = "awake"]
          ELSE UNCHANGED consumer

\* __put() between two cells of the ring in use; -2 when the list is full
PutBetween(x, pr, before, after) ==
  IF count >= Capacity THEN UNCHANGED <<nxt, prv, ptr, prio, count, hwm>>
  ELSE LET d == LinkedIn(Taken, GetFree, before, after)
       IN /\ nxt' = d.n /\ prv' = d.p
          /\ ptr' = [ptr EXCEPT ![GetFree] = x] /\ prio' = [prio EXCEPT ![GetFree] = pr]
          /\ hwm' = IF FromFree THEN hwm ELSE hwm + 1
          /\ count' = count + 1

\* a ring from its head on
Walk(from) == LET At[k \in 0..Capacity + 1] == IF k = 0 THEN from ELSE nxt[At[k - 1]] IN At
Ring(from) ==
  LET at == Walk(from)
      len == CHOOSE k \in 0..Capacity + 1 : /\ k > Capacity \/ nxt[at[k]] = from
                                            /\ \A j \in 0..k - 1 : nxt[at[j]] # from
  IN [k \in 1..len |-> at[k]]

\* Mutant of PassesOver: equal priorities go before those there.
PassesOverMore(i, pr) == prio[i] > pr

PassesOver(i, pr) == prio[i] >= pr

ElstAppend(x) == PutBetween(x, 0, prv[USED], USED) /\ Signal
ElstPrepend(x) == PutBetween(x, 0, USED, nxt[USED]) /\ Signal

(* elst_insert() walks over what is at least as urgent *)
ElstInsert(x, pr) ==
  LET cells == Ring(USED) \o <<USED>>
      at == CHOOSE k \in DOMAIN cells : /\ cells[k] = USED \/ ~PassesOver(cells[k], pr)
                                        /\ \A j \in 1..k - 1 : PassesOver(cells[j], pr)
  IN PutBetween(x, pr, prv[cells[at]], cells[at]) /\ Signal

\* the first cell in use goes to the end of the free ring
FirstFreed(d) ==
  LET u == Unlinked(d, d.n[USED]) IN LinkedIn(u, d.n[USED], u.p[FREE], FREE)
Popped == FirstFreed(Rings)
Pop == /\ nxt' = Popped.n /\ prv' = Popped.p /\ count' = count - 1
       /\ UNCHANGED <<ptr, prio, hwm>>

(* elst_pop(): NULL, which the head of the ring holds, when there is nothing *)
ElstPop == nxt[USED] # USED /\ Pop /\ UNCHANGED consumer

(* elst_clear() pops until there is nothing *)
AllFreed ==
  LET C[k \in 0..Capacity] == IF k = 0 THEN Rings
                              ELSE IF C[k - 1].n[USED] = USED THEN C[k - 1] ELSE FirstFreed(C[k - 1])
  IN C[Capacity]
ElstClear ==
  /\ nxt' = AllFreed.n /\ prv' = AllFreed.p /\ count' = 0
  /\ UNCHANGED <<ptr, prio, hwm, consumer>>

(* elst_wait_pop(): waits while there is nothing, and may time out *)
WaitPop(c) ==
  /\ consumer[c] # "waiting"
  /\ IF nxt[USED] = USED
     THEN consumer' = [consumer EXCEPT ![c] = "waiting"] /\ UNCHANGED <<nxt, prv, ptr, prio, count, hwm>>
     ELSE consumer' = [consumer EXCEPT ![c] = "out"] /\ Pop
TimedOut(c) ==
  /\ consumer[c] = "waiting" /\ consumer' = [consumer EXCEPT ![c] = "out"]
  /\ UNCHANGED <<nxt, prv, ptr, prio, count, hwm>>

ElstNext ==
  \/ \E x \in Payloads : ElstAppend(x) \/ ElstPrepend(x) \/ \E pr \in Priorities : ElstInsert(x, pr)
  \/ ElstPop \/ ElstClear
  \/ \E c \in Consumers : WaitPop(c) \/ TimedOut(c)

ElstSpec == ElstInit /\ [][ElstNext]_elstVars

-----------------------------------------------------------------------------
(* The queue behind the cells. *)
Queue == LET cells == Ring(USED) IN [k \in DOMAIN cells |-> <<ptr[cells[k]], prio[cells[k]]>>]
Behaves == INSTANCE PrioQueue WITH queue <- Queue, Limit <- Capacity

\* The rings are a queue: every operation, from any thread, does to what is linked
\* what PrioQueue says, and a full list stays as it is.
ImplementsQueue == Behaves!QueueSpec

\* Each cell below the high-water mark is in one ring or the other and once, the rings
\* agree in both directions, and count tells the length of the one in use: no cell is
\* lost or handed out twice.  As long as a consumer sleeps there is one awake for
\* everything in the list (elst_append(), elst_insert(): signal under the mutex).
CellsSound ==
  LET used == Ring(USED)
      free == Ring(FREE)
  IN /\ Len(used) = count /\ hwm \in 2..Capacity + 2
     /\ \A i \in Cells : nxt[prv[i]] = i /\ prv[nxt[i]] = i
     /\ IsInjective(used \o free) /\ ToSet(used \o free) = 2..hwm - 1
     /\ \A c \in Consumers : consumer[c] = "waiting" =>
          Cardinality({d \in Consumers : consumer[d] = "awake"}) >= count
=============================================================================
