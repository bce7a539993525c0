---------------------------- MODULE Breakpoints ----------------------------
(***************************************************************************)
(* The list of breakpoints (src/cp/brk.c): one writer, the front-end's     *)
(* thread, and one lock-free reader, brk_check() in the CPU thread.        *)
(*                                                                         *)
(* A node and the expression tree it points to are blocks of memory that   *)
(* are allocated, published, swapped, retired and freed while the reader   *)
(* may be walking them; a freed block may be allocated again.  Each access *)
(* the two threads share is a step.  A reader that touches a block nobody  *)
(* owns is "wild": what the CPU thread does from there on is undefined and *)
(* not modelled.                                                           *)
(*                                                                         *)
(* Of the state machine of the CPU there is what the list depends on:      *)
(* cpu_state, and whether the CPU thread is inside brk_check().            *)
(***************************************************************************)
EXTENDS Integers, FiniteSets

CONSTANTS
  Nodes,    \* addresses malloc() returns for a struct brk_point
  Trees,    \* and the parser for an expression tree
  Null,
  MaxId     \* bound: identifiers handed out before the list is empty again

ASSUME BreakpointsAssumption ==
  /\ IsFiniteSet(Nodes) /\ IsFiniteSet(Trees)
  /\ Null \notin Nodes \cup Trees
  /\ MaxId \in Nat \ {0}

VARIABLES
  cpu_state,
  brk_list,                   \* the head of the list
  node,                       \* struct brk_point at each address
  nodes, trees,               \* blocks allocated and not freed
  brk_garbage,                \* trees retired by brk_edit()
  brk_id, brk_hit,
  cpu_pc, cpu_node, cpu_tree, \* the reader
  ui_pc, ui_node, ui_prev,    \* the writer inside brk_delete() and brk_edit()
  ui_tree,
  was_hit,                    \* history: nodes that stopped the CPU
  due                         \* history: nodes the check under way must look at

list == <<brk_list, node, nodes, trees>>
reader == <<cpu_pc, cpu_node, cpu_tree>>
writer == <<ui_pc, ui_node, ui_prev, ui_tree>>
history == <<was_hit, due>>
vars == <<cpu_state, brk_list, node, nodes, trees, brk_garbage, brk_id, brk_hit,
          cpu_pc, cpu_node, cpu_tree, ui_pc, ui_node, ui_prev, ui_tree, was_hit, due>>

Points == [id : 0..MaxId - 1, tree : Trees \cup {Null}, next : Nodes \cup {Null},
           deleted : BOOLEAN, enabled : BOOLEAN]

\* what nobody owns holds nothing that is kept
Blank == [id |-> 0, tree |-> Null, next |-> Null, deleted |-> FALSE, enabled |-> FALSE]

Links == [n \in Nodes |-> node[n].next]

\* no link leads out of S
Closed(next, S) == \A n \in S : next[n] # Null => next[n] \in S

\* the nodes a walk from start on meets: those no set can do without that start
\* is in and that no link leaves
Reachable(next, start) ==
  {n \in Nodes : \A S \in SUBSET Nodes :
                   Closed(next, S) /\ (start # Null => start \in S) => n \in S}

Linked == Reachable(Links, brk_list)

\* what the operator can see
Shown == {n \in Linked : ~node[n].deleted}

-----------------------------------------------------------------------------
(* CPU thread.                                                             *)

\* RUN, or CYCLE, which goes back to STOP before the instruction is executed
Execute ==
  /\ cpu_pc = "idle" /\ cpu_pc' = "check"
  /\ \/ cpu_state = "RUN" /\ UNCHANGED cpu_state
     \/ cpu_state = "CYCLE" /\ cpu_state' = "STOP"
  /\ UNCHANGED <<list, brk_garbage, brk_id, brk_hit, cpu_node, cpu_tree, writer, history>>

Visit(n) ==
  /\ cpu_node' = n
  /\ cpu_pc' = IF n = Null THEN "idle" ELSE "node"

\* brk_check() begins at the head
CheckHead ==
  /\ cpu_pc = "check"
  /\ Visit(brk_list)
  /\ due' = {n \in Shown : node[n].enabled}
  /\ UNCHANGED <<cpu_state, list, brk_garbage, brk_id, brk_hit, cpu_tree, writer, was_hit>>

Wild ==
  /\ cpu_pc' = "wild" /\ cpu_node' = Null /\ cpu_tree' = Null
  /\ UNCHANGED <<brk_hit, history>>

\* Mutant of PassOver: the check ends at a node that is not in use.
PassOverNone(n) == Null

\* deleted and disabled nodes may sit anywhere in the list
PassOver(n) == node[n].next

\* the flags are looked at and the tree is loaded
CheckNode ==
  /\ cpu_pc = "node"
  /\ IF cpu_node \notin nodes THEN Wild
     ELSE /\ IF node[cpu_node].deleted \/ ~node[cpu_node].enabled
             THEN Visit(PassOver(cpu_node)) /\ UNCHANGED cpu_tree
             ELSE /\ cpu_pc' = "eval" /\ cpu_tree' = node[cpu_node].tree
                  /\ UNCHANGED cpu_node
          /\ due' = due \ {cpu_node}
          /\ UNCHANGED <<brk_hit, was_hit>>
  /\ UNCHANGED <<cpu_state, list, brk_garbage, brk_id, writer>>

\* the expression is walked; then its breakpoint is hit, or the next one read
CheckEval ==
  /\ cpu_pc = "eval"
  /\ IF cpu_tree \notin trees \/ cpu_node \notin nodes THEN Wild
     ELSE /\ \/ Visit(node[cpu_node].next) /\ UNCHANGED <<brk_hit, history>>
             \/ /\ brk_hit' = node[cpu_node].id
                /\ cpu_pc' = "hit" /\ UNCHANGED cpu_node
                /\ was_hit' = was_hit \cup {cpu_node}
                /\ due' = {}
          /\ cpu_tree' = Null
  /\ UNCHANGED <<cpu_state, list, brk_garbage, brk_id, writer>>

\* cpu_state_change(STOP, ANY)
CheckHit ==
  /\ cpu_pc = "hit" /\ cpu_pc' = "idle" /\ cpu_node' = Null
  /\ cpu_state' = "STOP"
  /\ UNCHANGED <<list, brk_garbage, brk_id, brk_hit, cpu_tree, writer, history>>

Reader == Execute \/ CheckHead \/ CheckNode \/ CheckEval \/ CheckHit

-----------------------------------------------------------------------------
(* Front-end's thread: the panel.                                          *)

Ready == ui_pc = "idle"

\* cp_start(true), cp_cycle(): the last hit is forgotten
CpRun ==
  /\ Ready /\ cpu_state = "STOP"
  /\ cpu_state' \in {"RUN", "CYCLE"} /\ brk_hit' = -1
  /\ UNCHANGED <<list, brk_garbage, brk_id, reader, writer, history>>

\* cp_start(false)
CpStop ==
  /\ Ready /\ cpu_state \in {"RUN", "CYCLE"}
  /\ cpu_state' = "STOP"
  /\ UNCHANGED <<list, brk_garbage, brk_id, brk_hit, reader, writer, history>>

\* em400_shutdown(): the CPU thread is joined, then brk_del_all()
PowerOff ==
  /\ Ready /\ cpu_state # "OFF" /\ cpu_pc = "idle"
  /\ cpu_state' = "OFF"
  /\ brk_list' = Null
  /\ nodes' = nodes \ Linked
  /\ node' = [n \in Nodes |-> IF n \in Linked THEN Blank ELSE node[n]]
  /\ trees' = (trees \ {node[n].tree : n \in Linked}) \ brk_garbage
  /\ brk_garbage' = {} /\ brk_id' = 0 /\ brk_hit' = -1
  /\ was_hit' = {} /\ due' = {}
  /\ UNCHANGED <<reader, writer>>

\* em400_init()
PowerOn ==
  /\ Ready /\ cpu_state = "OFF"
  /\ cpu_state' = "STOP"
  /\ UNCHANGED <<list, brk_garbage, brk_id, brk_hit, reader, writer, history>>

-----------------------------------------------------------------------------
(* Front-end's thread: the list.                                           *)

NewId == brk_id

\* brk_insert(): a node is built, then published at the head
BrkAdd ==
  /\ Ready /\ brk_id < MaxId
  /\ \E n \in Nodes \ nodes, t \in Trees \ trees :
       /\ nodes' = nodes \cup {n} /\ trees' = trees \cup {t}
       /\ node' = [node EXCEPT ![n] = [id |-> NewId, tree |-> t, next |-> brk_list,
                                      deleted |-> FALSE, enabled |-> TRUE]]
       /\ brk_list' = n
       /\ due' = due \ {n}
  /\ brk_id' = brk_id + 1
  /\ UNCHANGED <<cpu_state, brk_garbage, brk_hit, reader, writer, was_hit>>

\* brk_enable()
BrkEnable ==
  /\ Ready
  /\ \E n \in Shown, on \in BOOLEAN :
       /\ node' = [node EXCEPT ![n].enabled = on]
       /\ due' = due \ {n}
  /\ UNCHANGED <<cpu_state, brk_list, nodes, trees, brk_garbage, brk_id, brk_hit,
                 reader, writer, was_hit>>

\* brk_delete(): the node is flagged, if there is one by that number
BrkDelete ==
  /\ Ready /\ ui_pc' = "del"
  /\ \/ \E n \in Linked : node' = [node EXCEPT ![n].deleted = TRUE] /\ due' = due \ {n}
     \/ UNCHANGED <<node, due>>
  /\ UNCHANGED <<cpu_state, brk_list, nodes, trees, brk_garbage, brk_id, brk_hit,
                 reader, ui_node, ui_prev, ui_tree, was_hit>>

\* then the state of the CPU decides whether to clean up
BrkDeleteState ==
  /\ ui_pc = "del"
  /\ IF cpu_state = "STOP"
     THEN ui_pc' = "clean" /\ ui_node' = brk_list /\ ui_prev' = Null
     ELSE ui_pc' = "idle" /\ UNCHANGED <<ui_node, ui_prev>>
  /\ UNCHANGED <<cpu_state, list, brk_garbage, brk_id, brk_hit, reader, ui_tree, history>>

\* Mutant of Unlink: the predecessor is forgotten, so the head is moved.
UnlinkHead(n) == brk_list' = node[n].next /\ node' = [node EXCEPT ![n] = Blank]

\* n leaves the list and is freed
Unlink(n) ==
  IF ui_prev = Null
  THEN brk_list' = node[n].next /\ node' = [node EXCEPT ![n] = Blank]
  ELSE /\ node' = [node EXCEPT ![ui_prev].next = node[n].next, ![n] = Blank]
       /\ UNCHANGED brk_list

\* brk_cleanup() at one node: a flagged one is unlinked and freed
BrkCleanNode ==
  /\ ui_pc = "clean" /\ ui_node # Null
  /\ ui_node' = node[ui_node].next
  /\ IF node[ui_node].deleted
     THEN /\ Unlink(ui_node)
          /\ nodes' = nodes \ {ui_node} /\ trees' = trees \ {node[ui_node].tree}
          /\ was_hit' = was_hit \ {ui_node}
          /\ UNCHANGED ui_prev
     ELSE ui_prev' = ui_node /\ UNCHANGED <<list, was_hit>>
  /\ UNCHANGED <<cpu_state, brk_garbage, brk_id, brk_hit, reader, ui_pc, ui_tree, due>>

\* numbering starts over when the list is empty
ResetId == brk_list = Null

\* brk_garbage_free() and the end of brk_cleanup()
BrkCleanEnd ==
  /\ ui_pc = "clean" /\ ui_node = Null
  /\ ui_pc' = "idle" /\ ui_prev' = Null
  /\ trees' = trees \ brk_garbage /\ brk_garbage' = {}
  /\ brk_id' = IF ResetId THEN 0 ELSE brk_id
  /\ UNCHANGED <<cpu_state, brk_list, node, nodes, brk_hit, reader, ui_node, ui_tree,
                 history>>

\* brk_edit(): the new tree takes the place of the old one
BrkEdit ==
  /\ Ready /\ ui_pc' = "edit"
  /\ \E n \in Shown, t \in Trees \ trees :
       /\ node' = [node EXCEPT ![n].tree = t] /\ trees' = trees \cup {t}
       /\ ui_tree' = node[n].tree
  /\ UNCHANGED <<cpu_state, brk_list, nodes, brk_garbage, brk_id, brk_hit, reader,
                 ui_node, ui_prev, history>>

\* the tree is kept for a later clean-up
Retired(t) == brk_garbage' = brk_garbage \cup {t} /\ UNCHANGED trees

\* which is freed, or retired while the CPU may be using it
BrkEditState ==
  /\ ui_pc = "edit" /\ ui_pc' = "idle" /\ ui_tree' = Null
  /\ IF cpu_state = "STOP"
     THEN trees' = trees \ {ui_tree} /\ UNCHANGED brk_garbage
     ELSE Retired(ui_tree)
  /\ UNCHANGED <<cpu_state, brk_list, node, nodes, brk_id, brk_hit, reader, ui_node,
                 ui_prev, history>>

Writer ==
  \/ BrkAdd \/ BrkEnable \/ BrkDelete \/ BrkDeleteState \/ BrkCleanNode
  \/ BrkCleanEnd \/ BrkEdit \/ BrkEditState

-----------------------------------------------------------------------------
Init ==
  /\ cpu_state = "OFF"
  /\ brk_list = Null /\ node = [n \in Nodes |-> Blank]
  /\ nodes = {} /\ trees = {} /\ brk_garbage = {}
  /\ brk_id = 0 /\ brk_hit = -1
  /\ cpu_pc = "idle" /\ cpu_node = Null /\ cpu_tree = Null
  /\ ui_pc = "idle" /\ ui_node = Null /\ ui_prev = Null /\ ui_tree = Null
  /\ was_hit = {} /\ due = {}

Next == Reader \/ Writer \/ CpRun \/ CpStop \/ PowerOff \/ PowerOn

Spec == Init /\ [][Next]_vars

-----------------------------------------------------------------------------
(* Properties.                                                             *)

TypeOK ==
  /\ cpu_state \in {"OFF", "STOP", "RUN", "CYCLE"}
  /\ brk_list \in Nodes \cup {Null} /\ node \in [Nodes -> Points]
  /\ nodes \subseteq Nodes /\ trees \subseteq Trees /\ brk_garbage \subseteq Trees
  /\ brk_id \in 0..MaxId /\ brk_hit \in -1..MaxId - 1
  /\ cpu_pc \in {"idle", "check", "node", "eval", "hit", "wild"}
  /\ cpu_node \in Nodes \cup {Null} /\ cpu_tree \in Trees \cup {Null}
  /\ ui_pc \in {"idle", "del", "clean", "edit"}
  /\ ui_node \in Nodes \cup {Null} /\ ui_prev \in Nodes \cup {Null}
  /\ ui_tree \in Trees \cup {Null}
  /\ was_hit \subseteq Nodes /\ due \subseteq Nodes

\* Every block has exactly one owner through every order of adding, editing,
\* deleting, cleaning up and powering off: nothing is leaked, nothing is freed
\* twice or kept by two (brk_insert, brk_edit, brk_cleanup, brk_del_all).
OneOwner ==
  /\ nodes = Linked
  /\ trees = {node[n].tree : n \in nodes} \cup brk_garbage \cup ({ui_tree} \ {Null})
  /\ \A n \in nodes : node[n].tree \notin brk_garbage \cup {ui_tree}
  /\ \A m, n \in nodes : node[m].tree = node[n].tree => m = n
  /\ ui_tree \notin brk_garbage

\* An identifier names one breakpoint: deleting and adding in any order never
\* gives a new breakpoint the number of one that is still in the list (brk_id).
IdsUnique ==
  \A m, n \in Linked :
    node[m].id < brk_id /\ (node[m].id = node[n].id => m = n)

\* Blocks have one owner each and are freed once, and a breakpoint is named by an
\* identifier no other has (brk_add(), brk_delete(), brk_edit(), clean-up).
ListSound == TypeOK /\ OneOwner /\ IdsUnique

\* A check passes over no breakpoint that was set and enabled when it began and
\* still is: whatever is added, unlinked or edited under it, the reader meets
\* every node once it has started at the head (brk_check against brk_cleanup).
NonePassedOver == cpu_pc = "idle" => due \cap {n \in Shown : node[n].enabled} = {}

\* "Deletion is two-phase so the reader never trips over freed memory"
\* (doc/atomics_usage.txt:54).
ReaderSafe == cpu_pc # "wild"

\* "the last breakpoint hit is valid only while stopped on it" (cpu.c:242): the
\* breakpoint it names, if there is one by that number, is one that was hit.
HitNamesTheHit == \A n \in Shown : node[n].id = brk_hit => n \in was_hit
=============================================================================
