------------------------- MODULE BreakpointsProofs -------------------------
(***************************************************************************)
(* What the list of breakpoints guarantees for any number of nodes and     *)
(* trees and any interleaving of its writer and its reader.                *)
(***************************************************************************)
EXTENDS Breakpoints, TLAPS

-----------------------------------------------------------------------------
(* The inductive invariant. *)

\* The nodes form one list: no two links lead to the same node, none to the
\* head, and a block that is not in use links nowhere.
OneChain ==
  /\ \A m, n \in nodes : Links[m] = Links[n] /\ Links[m] # Null => m = n
  /\ \A n \in nodes : Links[n] # Null => Links[n] # brk_list
  /\ \A n \in Nodes \ nodes : node[n] = Blank

\* A clean-up is at the head, or right behind the node it keeps.
WriterPlaced ==
  /\ ui_pc = "clean" =>
       \/ ui_prev = Null /\ ui_node = brk_list
       \/ ui_prev \in nodes /\ ui_node = Links[ui_prev]
  /\ ui_pc = "edit" <=> ui_tree # Null

Live == {n \in nodes : ~node[n].deleted /\ node[n].enabled}

\* What a check must still look at is ahead of it, unless it stands on a block
\* that has been freed.
DueAhead ==
  /\ due \subseteq Live
  /\ cpu_pc \in {"idle", "check", "hit"} => due = {}
  /\ cpu_pc \in {"node", "eval"} => cpu_node # Null
  /\ cpu_pc = "node" /\ cpu_node \in nodes => due \subseteq Reachable(Links, cpu_node)
  /\ cpu_pc = "eval" /\ cpu_node \in nodes => due \subseteq Reachable(Links, Links[cpu_node])

IInv == ListSound /\ OneChain /\ WriterPlaced /\ DueAhead

-----------------------------------------------------------------------------
(* Walks. *)

LinkFunctions == [Nodes -> Nodes \cup {Null}]

LEMMA ReachableClosed ==
  ASSUME NEW f \in LinkFunctions, NEW s \in Nodes \cup {Null}
  PROVE  /\ Reachable(f, s) \subseteq Nodes /\ Closed(f, Reachable(f, s))
         /\ s # Null => s \in Reachable(f, s)
<1>1. ASSUME NEW n \in Reachable(f, s), f[n] # Null PROVE f[n] \in Reachable(f, s)
  <2>1. n \in Nodes /\ f[n] \in Nodes
    BY <1>1 DEF Reachable, LinkFunctions
  <2>2. \A S \in SUBSET Nodes : Closed(f, S) /\ (s # Null => s \in S) => f[n] \in S
    BY <1>1 DEF Reachable, Closed
  <2> QED
    BY <2>1, <2>2 DEF Reachable
<1> QED
  BY <1>1 DEF Reachable, Closed

LEMMA ReachableLeast ==
  ASSUME NEW f, NEW s, NEW S \in SUBSET Nodes, Closed(f, S), s # Null => s \in S
  PROVE  Reachable(f, s) \subseteq S
BY DEF Reachable

\* A walk from a node meets that node and those a walk from the next one meets.
LEMMA ReachableStep ==
  ASSUME NEW f \in LinkFunctions, NEW s \in Nodes
  PROVE  Reachable(f, s) = {s} \cup Reachable(f, f[s])
<1>1. f[s] \in Nodes \cup {Null}
  BY DEF LinkFunctions
<1>2. Reachable(f, s) \subseteq Nodes /\ Closed(f, Reachable(f, s)) /\ (s # Null => s \in Reachable(f, s))
  BY ReachableClosed
<1>3. s # Null
  BY BreakpointsAssumption
<1>4. Reachable(f, f[s]) \subseteq Reachable(f, s)
  <2>1. f[s] # Null => f[s] \in Reachable(f, s)
    BY <1>2, <1>3 DEF Closed
  <2> QED
    BY <1>2, <2>1, ReachableLeast
<1>5. Reachable(f, s) \subseteq {s} \cup Reachable(f, f[s])
  <2>1. /\ Reachable(f, f[s]) \subseteq Nodes /\ Closed(f, Reachable(f, f[s]))
        /\ f[s] # Null => f[s] \in Reachable(f, f[s])
    BY <1>1, ReachableClosed
  <2>2. Closed(f, {s} \cup Reachable(f, f[s]))
    BY <2>1 DEF Closed
  <2> QED
    BY <2>1, <2>2, ReachableLeast
<1> QED
  BY <1>2, <1>3, <1>4, <1>5

LEMMA ReachableNull == ASSUME NEW f PROVE Reachable(f, Null) = {}
<1>1. Closed(f, {})
  BY DEF Closed
<1> QED
  BY <1>1, ReachableLeast

\* A change of links that a walk does not meet does not change the walk.
LEMMA ReachableSame ==
  ASSUME NEW f \in LinkFunctions, NEW g \in LinkFunctions, NEW s \in Nodes \cup {Null},
         \A n \in Reachable(f, s) : g[n] = f[n]
  PROVE  Reachable(g, s) = Reachable(f, s)
<1> DEFINE R == Reachable(f, s)
           Q == Reachable(g, s)
<1>1. R \subseteq Nodes /\ Closed(f, R) /\ (s # Null => s \in R)
  BY ReachableClosed
<1>2. Q \subseteq Nodes /\ Closed(g, Q) /\ (s # Null => s \in Q)
  BY ReachableClosed
<1>3. Closed(g, R) /\ Closed(f, R \cap Q)
  BY <1>1, <1>2 DEF Closed
<1>4. Q \subseteq R
  BY <1>1, <1>3, ReachableLeast
<1>5. R \subseteq R \cap Q
  <2>1. R \cap Q \subseteq Nodes /\ (s # Null => s \in R \cap Q)
    BY <1>1, <1>2
  <2> HIDE DEF R, Q
  <2>2. Reachable(f, s) \subseteq R \cap Q
    BY <1>3, <2>1, ReachableLeast
  <2> QED
    BY <2>2 DEF R
<1> QED
  BY <1>4, <1>5

\* Where a link leads once node n has been taken out.
Skip(f, n, s) == IF s = n THEN f[n] ELSE s

\* A list with one node taken out has all the others.
LEMMA ReachableWithout ==
  ASSUME NEW f \in LinkFunctions, NEW g \in LinkFunctions, NEW s \in Nodes \cup {Null},
         NEW n \in Nodes, f[n] # n, g[n] = Null,
         \A m \in Nodes \ {n} : g[m] = Skip(f, n, f[m])
  PROVE  Reachable(g, Skip(f, n, s)) = Reachable(f, s) \ {n}
<1> DEFINE t == Skip(f, n, s)
           R == Reachable(f, s)
           Q == Reachable(g, t)
<1>0. t \in Nodes \cup {Null} /\ n # Null
  BY BreakpointsAssumption DEF Skip, LinkFunctions
<1>1. R \subseteq Nodes /\ Closed(f, R) /\ (s # Null => s \in R)
  BY ReachableClosed
<1>2. Q \subseteq Nodes /\ Closed(g, Q) /\ (t # Null => t \in Q)
  <2> HIDE DEF t
  <2> QED
    BY <1>0, ReachableClosed
<1>3. Q \subseteq R \ {n}
  <2>1. Closed(g, R \ {n})
    BY <1>0, <1>1 DEF Closed, Skip
  <2>2. t # Null => t \in R \ {n}
    BY <1>0, <1>1 DEF Closed, Skip
  <2> HIDE DEF t, R
  <2>3. R \ {n} \subseteq Nodes
    BY <1>1
  <2> QED
    BY <2>1, <2>2, <2>3, ReachableLeast
<1>4. R \ {n} \subseteq Q
  <2>1. CASE s = n \/ \E m \in Q : f[m] = n
    <3>1. f[n] # Null => f[n] \in Q
      <4>1. CASE s = n
        BY <4>1, <1>2 DEF Skip
      <4>2. CASE \E m \in Q : f[m] = n
        <5>1. PICK m \in Q : f[m] = n
          BY <4>2
        <5>2. g[m] = f[n]
          BY <1>2, <1>3, <5>1 DEF Skip
        <5> QED
          BY <1>2, <5>1, <5>2 DEF Closed
      <4> QED
        BY <2>1, <4>1, <4>2
    <3>2. Closed(f, Q \cup {n})
      <4> SUFFICES ASSUME NEW m \in Q, f[m] # Null PROVE f[m] \in Q \cup {n}
        BY <3>1 DEF Closed
      <4>1. m \in Nodes \ {n}
        BY <1>2, <1>3
      <4>2. f[m] = n \/ g[m] = f[m]
        BY <4>1 DEF Skip
      <4> QED
        BY <1>2, <4>2 DEF Closed
    <3>3. s # Null => s \in Q \cup {n}
      BY <1>2 DEF Skip
    <3> HIDE DEF Q, R
    <3>4. Reachable(f, s) \subseteq Q \cup {n}
      <4>1. Q \cup {n} \subseteq Nodes
        BY <1>2
      <4> QED
        BY <4>1, <3>2, <3>3, ReachableLeast
    <3> QED
      BY <3>4 DEF R
  <2>2. CASE s # n /\ \A m \in Q : f[m] # n
    <3>1. Closed(f, Q)
      <4> SUFFICES ASSUME NEW m \in Q, f[m] # Null PROVE f[m] \in Q
        BY DEF Closed
      <4>1. m \in Nodes \ {n}
        BY <1>2, <1>3
      <4>2. g[m] = f[m]
        BY <2>2, <4>1 DEF Skip
      <4> QED
        BY <1>2, <4>2 DEF Closed
    <3>2. s # Null => s \in Q
      BY <1>2, <2>2 DEF Skip
    <3> HIDE DEF Q, R
    <3>3. Reachable(f, s) \subseteq Q
      BY <1>2, <3>1, <3>2, ReachableLeast
    <3> QED
      BY <3>3 DEF R
  <2> QED
    BY <2>1, <2>2
<1> QED
  BY <1>3, <1>4

-----------------------------------------------------------------------------
(* Types. *)

LEMMA LinksType == TypeOK => Links \in LinkFunctions
BY DEF TypeOK, Links, LinkFunctions, Points

LEMMA BlankType == Blank \in Points
BY BreakpointsAssumption DEF Blank, Points

LEMMA LinkedType == ASSUME TypeOK PROVE Linked \subseteq Nodes
BY DEF Linked, Reachable

LEMMA StepType == ListSound /\ WriterPlaced /\ [Next]_vars => TypeOK'
<1> SUFFICES ASSUME ListSound, WriterPlaced, [Next]_vars PROVE TypeOK'
  OBVIOUS
<1> USE DEF list, reader, writer, history
<1>1. TypeOK /\ nodes = Linked /\ nodes \subseteq Nodes
  BY DEF ListSound, OneOwner, TypeOK
<1>2. CASE Execute
  BY <1>1, <1>2 DEF Execute, TypeOK
<1>3. CASE CheckHead
  BY <1>1, <1>3 DEF CheckHead, Visit, Shown, TypeOK
<1>4. CASE CheckNode
  <2>1. CASE cpu_node \notin nodes
    BY <1>1, <1>4, <2>1 DEF CheckNode, Wild, TypeOK
  <2>2. CASE cpu_node \in nodes
    <3>1. node[cpu_node].next \in Nodes \cup {Null} /\ node[cpu_node].tree \in Trees \cup {Null}
      BY <1>1, <2>2 DEF TypeOK, Points
    <3> QED
      BY <1>1, <1>4, <2>2, <3>1 DEF CheckNode, Visit, PassOver, TypeOK
  <2> QED
    BY <2>1, <2>2
<1>5. CASE CheckEval
  <2>1. CASE cpu_tree \notin trees \/ cpu_node \notin nodes
    BY <1>1, <1>5, <2>1 DEF CheckEval, Wild, TypeOK
  <2>2. CASE cpu_tree \in trees /\ cpu_node \in nodes
    <3>1. node[cpu_node].next \in Nodes \cup {Null} /\ node[cpu_node].id \in 0..MaxId - 1
      BY <1>1, <2>2 DEF TypeOK, Points
    <3>2. node[cpu_node].id \in -1..MaxId - 1
      BY <3>1, BreakpointsAssumption
    <3> QED
      BY <1>1, <1>5, <2>2, <3>1, <3>2 DEF CheckEval, Visit, TypeOK
  <2> QED
    BY <2>1, <2>2
<1>6. CASE CheckHit
  BY <1>1, <1>6 DEF CheckHit, TypeOK
<1>7. CASE CpRun
  BY <1>1, <1>7, BreakpointsAssumption DEF CpRun, TypeOK
<1>8. CASE CpStop \/ PowerOn
  BY <1>1, <1>8 DEF CpStop, PowerOn, TypeOK
<1>9. CASE PowerOff
  BY <1>1, <1>9, BlankType, BreakpointsAssumption DEF PowerOff, TypeOK
<1>10. CASE BrkAdd
  <2>1. PICK n \in Nodes \ nodes, t \in Trees \ trees :
          /\ nodes' = nodes \cup {n} /\ trees' = trees \cup {t}
          /\ node' = [node EXCEPT ![n] = [id |-> NewId, tree |-> t, next |-> brk_list,
                                         deleted |-> FALSE, enabled |-> TRUE]]
          /\ brk_list' = n
          /\ due' = due \ {n}
    BY <1>10 DEF BrkAdd
  <2> DEFINE p == [id |-> NewId, tree |-> t, next |-> brk_list, deleted |-> FALSE, enabled |-> TRUE]
  <2>2. brk_id \in 0..MaxId - 1
    BY <1>1, <1>10, BreakpointsAssumption DEF BrkAdd, TypeOK
  <2>3. p \in Points
    BY <1>1, <2>2 DEF TypeOK, NewId, Points
  <2>4. node' = [node EXCEPT ![n] = p]
    BY <2>1
  <2> HIDE DEF p
  <2>5. node' \in [Nodes -> Points]
    BY <1>1, <2>3, <2>4 DEF TypeOK
  <2>6. brk_id' \in 0..MaxId
    BY <1>10, <2>2, BreakpointsAssumption DEF BrkAdd
  <2> QED
    BY <1>1, <1>10, <2>1, <2>5, <2>6 DEF BrkAdd, TypeOK
<1>11. CASE BrkEnable
  <2>1. PICK n \in Shown, on \in BOOLEAN :
          node' = [node EXCEPT ![n] = [@ EXCEPT !.enabled = on]] /\ due' = due \ {n}
    BY <1>11 DEF BrkEnable
  <2>2. [node[n] EXCEPT !.enabled = on] \in Points
    BY <1>1, <2>1 DEF Shown, TypeOK, Points
  <2>3. node' \in [Nodes -> Points]
    BY <1>1, <2>1, <2>2 DEF TypeOK
  <2> QED
    BY <1>1, <1>11, <2>1, <2>3 DEF BrkEnable, TypeOK
<1>12. CASE BrkDelete
  <2>1. node' \in [Nodes -> Points] /\ due' \subseteq due
    <3>1. CASE UNCHANGED <<node, due>>
      BY <1>1, <3>1 DEF TypeOK
    <3>2. CASE \E n \in Linked : node' = [node EXCEPT ![n].deleted = TRUE] /\ due' = due \ {n}
      <4>1. PICK n \in Linked :
              node' = [node EXCEPT ![n] = [@ EXCEPT !.deleted = TRUE]] /\ due' = due \ {n}
        BY <3>2
      <4> QED
        <5>1. [node[n] EXCEPT !.deleted = TRUE] \in Points
          <6>1. node[n] \in Points
            BY <1>1, <4>1 DEF TypeOK
          <6> QED
            BY <6>1 DEF Points
        <5> QED
          BY <1>1, <4>1, <5>1 DEF TypeOK
    <3> QED
      BY <1>12, <3>1, <3>2 DEF BrkDelete
  <2> QED
    BY <1>1, <1>12, <2>1 DEF BrkDelete, TypeOK
<1>13. CASE BrkDeleteState
  BY <1>1, <1>13 DEF BrkDeleteState, TypeOK
<1>14. CASE BrkCleanNode
  <2>1. ui_node \in Nodes /\ node[ui_node].next \in Nodes \cup {Null}
    BY <1>1, <1>14 DEF BrkCleanNode, TypeOK, Points
  <2>2. brk_list' \in Nodes \cup {Null} /\ node' \in [Nodes -> Points]
    <3>1. CASE ~node[ui_node].deleted
      BY <1>1, <1>14, <3>1 DEF BrkCleanNode, TypeOK
    <3>2. CASE node[ui_node].deleted /\ ui_prev = Null
      BY <1>1, <1>14, <2>1, <3>2, BlankType DEF BrkCleanNode, Unlink, TypeOK
    <3>3. CASE node[ui_node].deleted /\ ui_prev # Null
      <4> DEFINE p == [node[ui_prev] EXCEPT !.next = node[ui_node].next]
      <4>1. ui_prev \in Nodes /\ node[ui_prev] \in Points
        BY <1>1, <3>3 DEF TypeOK
      <4>2. p \in Points
        BY <2>1, <4>1 DEF Points
      <4>3. node' = [[node EXCEPT ![ui_prev] = p] EXCEPT ![ui_node] = Blank] /\ UNCHANGED brk_list
        BY <1>14, <3>3 DEF BrkCleanNode, Unlink
      <4> HIDE DEF p
      <4>4. [node EXCEPT ![ui_prev] = p] \in [Nodes -> Points]
        BY <1>1, <4>2 DEF TypeOK
      <4> QED
        BY <1>1, <4>3, <4>4, BlankType DEF TypeOK
    <3> QED
      BY <3>1, <3>2, <3>3
  <2>3. nodes' \subseteq Nodes /\ trees' \subseteq Trees /\ was_hit' \subseteq Nodes
        /\ ui_prev' \in Nodes \cup {Null}
    BY <1>1, <1>14 DEF BrkCleanNode, TypeOK
  <2> QED
    BY <1>1, <1>14, <2>1, <2>2, <2>3 DEF BrkCleanNode, TypeOK
<1>15. CASE BrkCleanEnd
  BY <1>1, <1>15, BreakpointsAssumption DEF BrkCleanEnd, TypeOK
<1>16. CASE BrkEdit
  <2>1. PICK n \in Shown, t \in Trees \ trees :
          /\ node' = [node EXCEPT ![n] = [@ EXCEPT !.tree = t]] /\ trees' = trees \cup {t}
          /\ ui_tree' = node[n].tree
    BY <1>16 DEF BrkEdit
  <2>2. n \in Nodes /\ node[n] \in Points
    BY <1>1, <2>1 DEF Shown, TypeOK
  <2>3. [node[n] EXCEPT !.tree = t] \in Points
    BY <2>2 DEF Points
  <2>4. node' \in [Nodes -> Points] /\ ui_tree' \in Trees \cup {Null}
    BY <1>1, <2>1, <2>2, <2>3 DEF TypeOK, Points
  <2> QED
    BY <1>1, <1>16, <2>1, <2>4 DEF BrkEdit, TypeOK
<1>17. CASE BrkEditState
  <2>1. ui_tree \in Trees
    BY <1>1, <1>17 DEF BrkEditState, WriterPlaced, TypeOK
  <2> QED
    BY <1>1, <1>17, <2>1 DEF BrkEditState, Retired, TypeOK
<1>18. CASE UNCHANGED vars
  BY <1>1, <1>18 DEF vars, TypeOK
<1> QED
  BY <1>2, <1>3, <1>4, <1>5, <1>6, <1>7, <1>8, <1>9, <1>10, <1>11, <1>12, <1>13, <1>14,
     <1>15, <1>16, <1>17, <1>18 DEF Next, Reader, Writer

-----------------------------------------------------------------------------
(* Owners of blocks. *)

Owned == OneOwner /\ IdsUnique /\ OneChain

\* The nodes of the list are closed under their links.
LEMMA NodesClosed ==
  ASSUME TypeOK, OneOwner
  PROVE  /\ Links \in LinkFunctions /\ nodes = Reachable(Links, brk_list) /\ nodes \subseteq Nodes
         /\ Closed(Links, nodes) /\ (brk_list # Null => brk_list \in nodes)
         /\ brk_list \in Nodes \cup {Null}
         /\ \A n \in nodes : node[n].tree \in trees /\ node[n].tree # Null
<1>1. Links \in LinkFunctions /\ brk_list \in Nodes \cup {Null} /\ nodes = Reachable(Links, brk_list)
  BY LinksType DEF TypeOK, OneOwner, Linked
<1>2. \A n \in nodes : node[n].tree \in trees /\ node[n].tree # Null
  BY BreakpointsAssumption DEF TypeOK, OneOwner
<1> QED
  BY <1>1, <1>2, ReachableClosed

\* No node links to itself.
LEMMA NoLoop ==
  ASSUME TypeOK, OneOwner, OneChain, NEW n \in nodes
  PROVE  Links[n] # n
<1> SUFFICES ASSUME Links[n] = n PROVE FALSE
  OBVIOUS
<1>1. /\ nodes = Reachable(Links, brk_list) /\ nodes \subseteq Nodes
      /\ Closed(Links, nodes) /\ (brk_list # Null => brk_list \in nodes)
  BY NodesClosed
<1>2. n # Null /\ n # brk_list
  BY <1>1, BreakpointsAssumption DEF OneChain
<1>3. Closed(Links, nodes \ {n})
  BY <1>1, <1>2 DEF Closed, OneChain
<1>4. nodes \ {n} \in SUBSET Nodes /\ (brk_list # Null => brk_list \in nodes \ {n})
  BY <1>1, <1>2
<1>5. Reachable(Links, brk_list) \subseteq nodes \ {n}
  BY <1>3, <1>4, ReachableLeast
<1> QED
  BY <1>1, <1>5

\* A step that changes no more than flags of nodes leaves the owners as they are.
LEMMA FlagsKeepOwners ==
  ASSUME TypeOK, Owned, UNCHANGED <<brk_list, nodes, trees, brk_garbage, brk_id, ui_tree>>,
         \A n \in Nodes : /\ node'[n].id = node[n].id /\ node'[n].tree = node[n].tree
                          /\ node'[n].next = node[n].next,
         \A n \in Nodes \ nodes : node'[n] = node[n]
  PROVE  Owned' /\ Links' = Links
<1>1. Links' = Links
  BY DEF Links
<1>2. Linked' = Linked
  BY <1>1 DEF Linked, Reachable, Closed
<1>3. nodes = Linked /\ nodes \subseteq Nodes
  BY DEF Owned, OneOwner, TypeOK
<1>4. \A n \in nodes : node'[n].id = node[n].id /\ node'[n].tree = node[n].tree
  BY <1>3
<1>5. {node'[n].tree : n \in nodes} = {node[n].tree : n \in nodes}
  BY <1>4
<1>6. OneOwner'
  BY <1>2, <1>3, <1>4, <1>5 DEF Owned, OneOwner
<1>7. IdsUnique'
  BY <1>2, <1>3, <1>4 DEF Owned, IdsUnique
<1>8. OneChain'
  BY <1>1, <1>3 DEF Owned, OneChain
<1> QED
  BY <1>1, <1>6, <1>7, <1>8 DEF Owned

\* brk_insert() puts a new node before all the others.
LEMMA AddKeepsOwners ==
  ASSUME TypeOK, Owned, BrkAdd
  PROVE  /\ Owned' /\ nodes' = Linked'
         /\ \E n \in Nodes \ nodes :
              /\ nodes' = nodes \cup {n} /\ due' = due \ {n}
              /\ Links'[n] = brk_list /\ \A m \in nodes : node'[m] = node[m]
              /\ Links' \in LinkFunctions
              /\ Reachable(Links', n) = nodes \cup {n}
<1>1. PICK n \in Nodes \ nodes, t \in Trees \ trees :
        /\ nodes' = nodes \cup {n} /\ trees' = trees \cup {t}
        /\ node' = [node EXCEPT ![n] = [id |-> NewId, tree |-> t, next |-> brk_list,
                                       deleted |-> FALSE, enabled |-> TRUE]]
        /\ brk_list' = n
        /\ due' = due \ {n}
  BY DEF BrkAdd
<1>2. /\ Links \in LinkFunctions /\ nodes = Reachable(Links, brk_list) /\ nodes \subseteq Nodes
      /\ Closed(Links, nodes) /\ (brk_list # Null => brk_list \in nodes)
      /\ brk_list \in Nodes \cup {Null}
      /\ \A m \in nodes : node[m].tree \in trees /\ node[m].tree # Null
  BY NodesClosed DEF Owned
<1>3. node'[n].tree = t /\ node'[n].next = brk_list /\ node'[n].id = brk_id
  BY <1>1 DEF TypeOK, NewId
<1>4. \A m \in Nodes \ {n} : node'[m] = node[m]
  BY <1>1 DEF TypeOK
<1>5. \A m \in nodes : node'[m] = node[m]
  BY <1>1, <1>2, <1>4
<1>6. Links' \in LinkFunctions /\ Links'[n] = brk_list /\ \A m \in nodes : Links'[m] = Links[m]
  <2>1. \A m \in Nodes : node'[m].next \in Nodes \cup {Null}
    BY <1>2, <1>3, <1>4 DEF TypeOK, Points
  <2> QED
    BY <1>2, <1>3, <1>5, <2>1 DEF Links, LinkFunctions
<1>7. Reachable(Links', brk_list) = nodes
  BY <1>2, <1>6, ReachableSame
<1>8. Reachable(Links', n) = nodes \cup {n}
  BY <1>6, <1>7, ReachableStep
<1>9. Linked' = nodes'
  BY <1>1, <1>8 DEF Linked
<1>10. t # Null /\ n # Null /\ ui_tree' = ui_tree /\ brk_garbage' = brk_garbage /\ brk_id' = brk_id + 1
  BY <1>1, BreakpointsAssumption DEF BrkAdd, writer
<1>11. OneOwner'
  <2>1. {node'[m].tree : m \in nodes'} = {node[m].tree : m \in nodes} \cup {t}
    BY <1>1, <1>3, <1>5
  <2>2. trees' = {node'[m].tree : m \in nodes'} \cup brk_garbage' \cup ({ui_tree'} \ {Null})
    BY <1>1, <1>10, <2>1 DEF Owned, OneOwner
  <2>3. \A m \in nodes' : node'[m].tree \notin brk_garbage' \cup {ui_tree'}
    <3>1. t \notin brk_garbage \cup {ui_tree}
      BY <1>1, <1>10 DEF Owned, OneOwner
    <3> QED
      BY <1>1, <1>3, <1>5, <1>10, <3>1 DEF Owned, OneOwner
  <2>4. \A m, k \in nodes' : node'[m].tree = node'[k].tree => m = k
    <3>1. \A m \in nodes : node'[m].tree = node[m].tree /\ node'[m].tree # t
      BY <1>1, <1>2, <1>5
    <3> QED
      BY <1>1, <1>3, <3>1 DEF Owned, OneOwner
  <2> QED
    BY <1>9, <1>10, <2>2, <2>3, <2>4 DEF Owned, OneOwner
<1>12. IdsUnique'
  <2>1. \A m \in nodes : node'[m].id = node[m].id /\ node[m].id < brk_id /\ node[m].id \in Nat
        /\ brk_id \in Nat
    BY <1>2, <1>5, BreakpointsAssumption DEF Owned, OneOwner, IdsUnique, TypeOK, Points
  <2>2. brk_id \in Nat
    BY BreakpointsAssumption DEF TypeOK
  <2>3. \A m \in nodes : node'[m].id < brk_id' /\ node'[m].id # node'[n].id
    BY <1>3, <1>10, <2>1
  <2>4. node'[n].id < brk_id'
    BY <1>3, <1>10, <2>2
  <2>5. \A m, k \in nodes : node'[m].id = node'[k].id => m = k
    BY <2>1 DEF Owned, OneOwner, IdsUnique
  <2>6. Linked' = nodes \cup {n}
    BY <1>1, <1>9
  <2> QED
    BY <2>3, <2>4, <2>5, <2>6 DEF IdsUnique
<1>13. OneChain'
  <2>1. \A m \in nodes : Links[m] # n
    BY <1>1, <1>2, <1>10 DEF Closed
  <2>2. brk_list # n
    BY <1>1, <1>2, <1>10
  <2>3. \A m \in nodes : Links[m] = brk_list => brk_list = Null
    BY DEF Owned, OneChain
  <2>4. \A m \in Nodes \ nodes' : node'[m] = Blank
    BY <1>1, <1>4 DEF Owned, OneChain
  <2>5. \A m, k \in nodes' : Links'[m] = Links'[k] /\ Links'[m] # Null => m = k
    BY <1>1, <1>6, <2>3 DEF Owned, OneChain
  <2>6. \A m \in nodes' : Links'[m] # Null => Links'[m] # brk_list'
    BY <1>1, <1>6, <2>1, <2>2
  <2> QED
    BY <2>4, <2>5, <2>6 DEF OneChain
<1> QED
  BY <1>1, <1>5, <1>6, <1>8, <1>9, <1>11, <1>12, <1>13 DEF Owned

\* brk_cleanup() takes a flagged node out of the list: the links that led to it
\* lead past it.
LEMMA CleanKeepsOwners ==
  ASSUME TypeOK, Owned, WriterPlaced, BrkCleanNode, node[ui_node].deleted
  PROVE  /\ Owned' /\ ui_node \in nodes
         /\ nodes' = nodes \ {ui_node}
         /\ Links \in LinkFunctions /\ Links' \in LinkFunctions
         /\ Links[ui_node] # ui_node /\ Links'[ui_node] = Null
         /\ \A m \in Nodes \ {ui_node} : Links'[m] = Skip(Links, ui_node, Links[m])
         /\ \A m \in nodes' : /\ node'[m].deleted = node[m].deleted
                              /\ node'[m].enabled = node[m].enabled
         /\ IF ui_prev = Null THEN brk_list' = Links[ui_node]
                              ELSE brk_list' = brk_list /\ ui_prev \in nodes'
                                   /\ Links'[ui_prev] = Links[ui_node]
<1> DEFINE n == ui_node
<1>1. /\ Links \in LinkFunctions /\ nodes = Reachable(Links, brk_list) /\ nodes \subseteq Nodes
      /\ Closed(Links, nodes) /\ (brk_list # Null => brk_list \in nodes)
      /\ brk_list \in Nodes \cup {Null}
      /\ \A m \in nodes : node[m].tree \in trees /\ node[m].tree # Null
  BY NodesClosed DEF Owned
<1>2. /\ n # Null /\ ui_pc = "clean" /\ Unlink(n)
      /\ nodes' = nodes \ {n} /\ trees' = trees \ {node[n].tree}
      /\ UNCHANGED <<ui_prev, brk_garbage, brk_id, ui_tree>>
  BY DEF BrkCleanNode
<1>3. n \in nodes
  BY <1>1, <1>2 DEF WriterPlaced, Closed
<1>4. Links[n] # n /\ \A m \in Nodes : Links[m] = node[m].next
  BY <1>3, NoLoop DEF Owned, Links
\* only the node before it links to it
<1>5. \A m \in nodes : Links[m] = n <=> (m = ui_prev /\ ui_prev # Null)
  BY <1>1, <1>2, <1>3, BreakpointsAssumption DEF WriterPlaced, Owned, OneChain
<1>6. ui_prev # Null => ui_prev \in nodes /\ ui_prev # n /\ n # brk_list
  BY <1>1, <1>2, <1>3, <1>4 DEF WriterPlaced, Owned, OneChain
<1>7. ui_prev = Null => n = brk_list
  BY <1>1, <1>2, <1>3, BreakpointsAssumption DEF WriterPlaced
<1>8. node'[n] = Blank /\ n \in Nodes
  BY <1>1, <1>2, <1>3 DEF Unlink, TypeOK
<1>9. \A m \in Nodes \ {n} :
        /\ node'[m].next = IF m = ui_prev THEN node[n].next ELSE node[m].next
        /\ node'[m].tree = node[m].tree /\ node'[m].id = node[m].id
        /\ node'[m].deleted = node[m].deleted /\ node'[m].enabled = node[m].enabled
        /\ m # ui_prev => node'[m] = node[m]
  <2>1. CASE ui_prev = Null
    BY <1>2, <2>1, BreakpointsAssumption DEF Unlink, TypeOK
  <2>2. CASE ui_prev # Null
    <3> DEFINE p == [node[ui_prev] EXCEPT !.next = node[n].next]
    <3>1. ui_prev \in Nodes /\ node[ui_prev] \in Points
      BY <1>1, <1>6, <2>2 DEF TypeOK
    <3>2. /\ p.next = node[n].next /\ p.tree = node[ui_prev].tree /\ p.id = node[ui_prev].id
          /\ p.deleted = node[ui_prev].deleted /\ p.enabled = node[ui_prev].enabled
      BY <3>1 DEF Points
    <3>3. node' = [[node EXCEPT ![ui_prev] = p] EXCEPT ![n] = Blank]
      BY <1>2, <2>2 DEF Unlink
    <3> HIDE DEF p
    <3> QED
      BY <3>1, <3>2, <3>3 DEF TypeOK
  <2> QED
    BY <2>1, <2>2
<1>10. Links'[n] = Null
  BY <1>8 DEF Links, Blank
<1>11. \A m \in Nodes \ {n} : Links'[m] = Skip(Links, n, Links[m])
  <2> SUFFICES ASSUME NEW m \in Nodes \ {n} PROVE Links'[m] = Skip(Links, n, Links[m])
    OBVIOUS
  <2>1. Links'[m] = IF m = ui_prev THEN Links[n] ELSE Links[m]
    BY <1>4, <1>8, <1>9 DEF Links
  <2>2. CASE m \in nodes
    BY <1>1, <1>5, <2>1, <2>2, BreakpointsAssumption DEF Skip
  <2>3. CASE m \notin nodes
    <3>1. Links[m] = Null /\ m # ui_prev
      BY <1>4, <1>6, <2>3, BreakpointsAssumption DEF Owned, OneChain, Blank
    <3> QED
      BY <1>2, <2>1, <3>1 DEF Skip
  <2> QED
    BY <2>2, <2>3
<1>12. Links' \in LinkFunctions
  BY <1>1, <1>4, <1>8, <1>10, <1>11 DEF Links, LinkFunctions, Skip
<1>13. brk_list' = Skip(Links, n, brk_list)
  BY <1>2, <1>4, <1>6, <1>7, <1>8 DEF Unlink, Skip
<1>14. Linked' = nodes'
  BY <1>1, <1>2, <1>4, <1>8, <1>10, <1>11, <1>12, <1>13, ReachableWithout DEF Linked
<1>15. \A m \in nodes' : m \in nodes /\ node'[m].tree = node[m].tree /\ node'[m].id = node[m].id
  BY <1>1, <1>2, <1>9
<1>16. OneOwner'
  <2>1. \A m \in nodes' : node[m].tree # node[n].tree
    BY <1>2, <1>3, <1>15 DEF Owned, OneOwner
  <2>2. {node'[m].tree : m \in nodes'} = {node[m].tree : m \in nodes} \ {node[n].tree}
    BY <1>2, <1>15, <2>1
  <2>3. node[n].tree \notin brk_garbage \cup {ui_tree}
    BY <1>3 DEF Owned, OneOwner
  <2>4. trees' = {node'[m].tree : m \in nodes'} \cup brk_garbage' \cup ({ui_tree'} \ {Null})
    BY <1>2, <2>2, <2>3 DEF Owned, OneOwner
  <2> QED
    BY <1>2, <1>14, <1>15, <2>4 DEF Owned, OneOwner
<1>17. IdsUnique'
  BY <1>2, <1>14, <1>15 DEF Owned, OneOwner, IdsUnique
<1>18. OneChain'
  <2>1. \A m \in Nodes \ nodes' : node'[m] = Blank
    BY <1>2, <1>6, <1>8, <1>9, BreakpointsAssumption DEF Owned, OneChain
  <2>2. \A m, k \in nodes' : Links'[m] = Links'[k] /\ Links'[m] # Null => m = k
    <3> SUFFICES ASSUME NEW m \in nodes', NEW k \in nodes', Links'[m] = Links'[k],
                        Links'[m] # Null
                 PROVE  m = k
      OBVIOUS
    <3>1. m \in nodes /\ k \in nodes /\ m # n /\ k # n /\ m \in Nodes /\ k \in Nodes
      BY <1>1, <1>2
    <3>2. \A x, y \in nodes : Links[x] = Links[y] /\ Links[x] # Null => x = y
      BY DEF Owned, OneChain
    <3>3. /\ Links'[m] = IF Links[m] = n THEN Links[n] ELSE Links[m]
          /\ Links'[k] = IF Links[k] = n THEN Links[n] ELSE Links[k]
      BY <1>11, <3>1 DEF Skip
    <3> HIDE DEF n
    <3> QED
      BY <1>2, <1>3, <3>1, <3>2, <3>3
  <2>3. \A m \in nodes' : Links'[m] # Null => Links'[m] # brk_list'
    <3> SUFFICES ASSUME NEW m \in nodes', Links'[m] # Null PROVE Links'[m] # brk_list'
      OBVIOUS
    <3>1. m \in nodes /\ m # n /\ m \in Nodes
      BY <1>1, <1>2
    <3>2. /\ \A x, y \in nodes : Links[x] = Links[y] /\ Links[x] # Null => x = y
          /\ \A x \in nodes : Links[x] # Null => Links[x] # brk_list
      BY DEF Owned, OneChain
    <3>3. /\ Links'[m] = IF Links[m] = n THEN Links[n] ELSE Links[m]
          /\ brk_list' = IF brk_list = n THEN Links[n] ELSE brk_list
      BY <1>11, <1>13, <3>1 DEF Skip
    <3> HIDE DEF n
    <3> QED
      BY <1>2, <1>3, <3>1, <3>2, <3>3
  <2> QED
    BY <2>1, <2>2, <2>3 DEF OneChain
<1>19. \A m \in nodes' : node'[m].deleted = node[m].deleted /\ node'[m].enabled = node[m].enabled
  BY <1>1, <1>2, <1>9
<1>20. IF ui_prev = Null THEN brk_list' = Links[n]
       ELSE brk_list' = brk_list /\ ui_prev \in nodes' /\ Links'[ui_prev] = Links[n]
  BY <1>1, <1>2, <1>5, <1>6, <1>7, <1>11, <1>13 DEF Skip
<1> QED
  BY <1>2, <1>3, <1>1, <1>4, <1>10, <1>11, <1>12, <1>16, <1>17, <1>18, <1>19, <1>20 DEF Owned

\* Steps that neither the list nor its blocks take part in.
LEMMA OwnersUntouched ==
  ASSUME Owned, UNCHANGED <<brk_list, node, nodes, trees, brk_garbage, brk_id, ui_tree>>
  PROVE  Owned'
<1>1. Links' = Links
  BY DEF Links
<1>2. Linked' = Linked
  BY <1>1 DEF Linked, Reachable, Closed
<1> QED
  BY <1>1, <1>2 DEF Owned, OneOwner, IdsUnique, OneChain

LEMMA EditKeepsOwners ==
  ASSUME TypeOK, Owned, WriterPlaced, BrkEdit
  PROVE  Owned' /\ ui_tree' # Null /\ Links' = Links
         /\ \A m \in Nodes : /\ node'[m].deleted = node[m].deleted
                             /\ node'[m].enabled = node[m].enabled
<1>1. PICK n \in Shown, t \in Trees \ trees :
        /\ node' = [node EXCEPT ![n] = [@ EXCEPT !.tree = t]] /\ trees' = trees \cup {t}
        /\ ui_tree' = node[n].tree
  BY DEF BrkEdit
<1>2. /\ nodes = Linked /\ nodes \subseteq Nodes /\ n \in nodes /\ ui_tree = Null
      /\ UNCHANGED <<nodes, brk_list, brk_garbage, brk_id>>
  BY <1>1 DEF BrkEdit, Ready, WriterPlaced, Shown, Owned, OneOwner, TypeOK
<1>3. /\ \A m \in Nodes : /\ node'[m].id = node[m].id /\ node'[m].next = node[m].next
                          /\ node'[m].deleted = node[m].deleted
                          /\ node'[m].enabled = node[m].enabled
      /\ \A m \in Nodes \ {n} : node'[m] = node[m]
      /\ node'[n].tree = t
  <2>1. node[n] \in Points
    BY <1>2 DEF TypeOK
  <2>2. LET p == [node[n] EXCEPT !.tree = t]
        IN  /\ p.id = node[n].id /\ p.next = node[n].next /\ p.deleted = node[n].deleted
            /\ p.enabled = node[n].enabled /\ p.tree = t
    BY <2>1 DEF Points
  <2> QED
    BY <1>1, <1>2, <2>2 DEF TypeOK
<1>4. Links' = Links /\ Linked' = Linked
  <2>1. Links' = Links
    BY <1>3 DEF Links
  <2> QED
    BY <1>2, <2>1 DEF Linked, Reachable, Closed
<1>5. \A m \in nodes : node[m].tree \in trees /\ node[m].tree # Null /\ node[m].tree # t
  BY <1>1, NodesClosed DEF Owned
<1>6. t # Null
  BY <1>1, BreakpointsAssumption
<1>7. OneOwner'
  <2>1. {node'[m].tree : m \in nodes'} = ({node[m].tree : m \in nodes} \ {node[n].tree}) \cup {t}
    <3>1. \A m \in nodes \ {n} : node'[m].tree = node[m].tree /\ node[m].tree # node[n].tree
      BY <1>2, <1>3 DEF Owned, OneOwner
    <3> QED
      BY <1>2, <1>3, <3>1
  <2>2. trees' = {node'[m].tree : m \in nodes'} \cup brk_garbage' \cup ({ui_tree'} \ {Null})
    BY <1>1, <1>2, <1>5, <2>1 DEF Owned, OneOwner
  <2>3. t \notin brk_garbage \cup {node[n].tree}
    BY <1>1, <1>2, <1>5 DEF Owned, OneOwner
  <2>4. \A m \in nodes' : node'[m].tree \notin brk_garbage' \cup {ui_tree'}
    BY <1>1, <1>2, <1>3, <2>3 DEF Owned, OneOwner
  <2>5. \A m, k \in nodes' : node'[m].tree = node'[k].tree => m = k
    BY <1>2, <1>3, <1>5 DEF Owned, OneOwner
  <2>6. ui_tree' \notin brk_garbage'
    BY <1>1, <1>2 DEF Owned, OneOwner
  <2> QED
    BY <1>2, <1>4, <2>2, <2>4, <2>5, <2>6 DEF OneOwner
<1>8. IdsUnique' /\ OneChain'
  BY <1>2, <1>3, <1>4 DEF Owned, IdsUnique, OneChain
<1> QED
  BY <1>1, <1>2, <1>3, <1>4, <1>5, <1>7, <1>8 DEF Owned

LEMMA StepOwners == TypeOK /\ Owned /\ WriterPlaced /\ [Next]_vars => Owned' /\ WriterPlaced'
<1> SUFFICES ASSUME TypeOK, Owned, WriterPlaced, [Next]_vars PROVE Owned' /\ WriterPlaced'
  OBVIOUS
<1> USE DEF list, reader, writer, history
<1>1. UNCHANGED <<list, writer>> => WriterPlaced'
  BY DEF WriterPlaced, Links
<1>2. ui_pc' \in {"idle", "del"} /\ ui_tree' = Null => WriterPlaced'
  BY DEF WriterPlaced
<1>3. CASE Reader \/ CpRun \/ CpStop \/ PowerOn \/ UNCHANGED vars
  <2>1. UNCHANGED <<list, writer, brk_garbage, brk_id>>
    BY <1>3 DEF Reader, Execute, CheckHead, CheckNode, CheckEval, CheckHit, CpRun, CpStop,
                PowerOn, vars
  <2> QED
    BY <1>1, <2>1, OwnersUntouched
<1>4. CASE PowerOff
  <2>1. ui_tree' = Null /\ ui_tree = Null /\ ui_pc' = "idle" /\ brk_list' = Null
    BY <1>4 DEF PowerOff, Ready, WriterPlaced
  <2>2. nodes' = {} /\ brk_garbage' = {} /\ trees' = {}
    BY <1>4, <2>1 DEF PowerOff, Owned, OneOwner
  <2>3. Linked' = {}
    BY <2>1, ReachableNull DEF Linked
  <2>4. \A n \in Nodes : node'[n] = Blank
    BY <1>4 DEF PowerOff, Owned, OneOwner, OneChain
  <2> QED
    BY <1>2, <2>1, <2>2, <2>3, <2>4 DEF Owned, OneOwner, IdsUnique, OneChain
<1>5. CASE BrkAdd
  <2>1. ui_pc' = "idle" /\ ui_tree' = Null
    BY <1>5 DEF BrkAdd, Ready, WriterPlaced
  <2> QED
    BY <1>2, <1>5, <2>1, AddKeepsOwners
<1>6. CASE BrkEnable
  <2>1. PICK n \in Shown, on \in BOOLEAN : node' = [node EXCEPT ![n] = [@ EXCEPT !.enabled = on]]
    BY <1>6 DEF BrkEnable
  <2>2. n \in nodes /\ node[n] \in Points /\ nodes \subseteq Nodes
    BY <2>1 DEF Shown, Owned, OneOwner, TypeOK
  <2>3. LET p == [node[n] EXCEPT !.enabled = on]
        IN  p.id = node[n].id /\ p.next = node[n].next /\ p.tree = node[n].tree
    BY <2>2 DEF Points
  <2>4. /\ \A m \in Nodes : /\ node'[m].id = node[m].id /\ node'[m].tree = node[m].tree
                            /\ node'[m].next = node[m].next
        /\ \A m \in Nodes \ nodes : node'[m] = node[m]
    BY <2>1, <2>2, <2>3 DEF TypeOK
  <2>5. ui_pc' = "idle" /\ ui_tree' = Null
        /\ UNCHANGED <<brk_list, nodes, trees, brk_garbage, brk_id, ui_tree>>
    BY <1>6 DEF BrkEnable, Ready, WriterPlaced
  <2> QED
    BY <1>2, <2>4, <2>5, FlagsKeepOwners
<1>7. CASE BrkDelete
  <2>1. ui_pc' = "del" /\ ui_tree' = Null
        /\ UNCHANGED <<brk_list, nodes, trees, brk_garbage, brk_id, ui_tree>>
    BY <1>7 DEF BrkDelete, Ready, WriterPlaced
  <2>2. CASE UNCHANGED node
    BY <1>2, <2>1, <2>2, OwnersUntouched
  <2>3. CASE \E n \in Linked : node' = [node EXCEPT ![n].deleted = TRUE]
    <3>1. PICK n \in Linked : node' = [node EXCEPT ![n] = [@ EXCEPT !.deleted = TRUE]]
      BY <2>3
    <3>2. n \in nodes /\ node[n] \in Points /\ nodes \subseteq Nodes
      BY <3>1 DEF Owned, OneOwner, TypeOK
    <3>3. LET p == [node[n] EXCEPT !.deleted = TRUE]
          IN  p.id = node[n].id /\ p.next = node[n].next /\ p.tree = node[n].tree
      BY <3>2 DEF Points
    <3>4. /\ \A m \in Nodes : /\ node'[m].id = node[m].id /\ node'[m].tree = node[m].tree
                              /\ node'[m].next = node[m].next
          /\ \A m \in Nodes \ nodes : node'[m] = node[m]
      BY <3>1, <3>2, <3>3 DEF TypeOK
    <3> QED
      BY <1>2, <2>1, <3>4, FlagsKeepOwners
  <2> QED
    BY <1>7, <2>2, <2>3 DEF BrkDelete
<1>8. CASE BrkDeleteState
  <2>1. ui_tree' = Null /\ UNCHANGED <<list, brk_garbage, brk_id, ui_tree>>
    BY <1>8 DEF BrkDeleteState, WriterPlaced
  <2>2. WriterPlaced'
    BY <1>8, <2>1 DEF BrkDeleteState, WriterPlaced
  <2> QED
    BY <2>1, <2>2, OwnersUntouched
<1>9. CASE BrkCleanNode
  <2>1. ui_pc' = "clean" /\ ui_pc = "clean" /\ ui_tree' = Null
        /\ UNCHANGED <<brk_garbage, brk_id, ui_tree>>
        /\ ui_node # Null /\ ui_node' = node[ui_node].next
    BY <1>9 DEF BrkCleanNode, WriterPlaced
  <2>2. ui_node \in Nodes /\ Links[ui_node] = node[ui_node].next
    BY <2>1 DEF TypeOK, Links
  <2>3. CASE node[ui_node].deleted
    <3>1. /\ Owned' /\ ui_node \in nodes
          /\ IF ui_prev = Null THEN brk_list' = Links[ui_node]
                               ELSE brk_list' = brk_list /\ ui_prev \in nodes'
                                    /\ Links'[ui_prev] = Links[ui_node]
      BY <1>9, <2>3, CleanKeepsOwners
    <3>2. ui_prev' = ui_prev
      BY <1>9, <2>3 DEF BrkCleanNode
    <3> QED
      BY <2>1, <2>2, <3>1, <3>2 DEF WriterPlaced
  <2>4. CASE ~node[ui_node].deleted
    <3>1. ui_prev' = ui_node /\ UNCHANGED list
      BY <1>9, <2>4 DEF BrkCleanNode
    <3>2. ui_node \in nodes
      BY <2>1, BreakpointsAssumption, NodesClosed DEF WriterPlaced, Owned, Closed
    <3>3. Links' = Links
      BY <3>1 DEF Links
    <3> QED
      BY <2>1, <2>2, <3>1, <3>2, <3>3, OwnersUntouched DEF WriterPlaced
  <2> QED
    BY <2>3, <2>4
<1>10. CASE BrkCleanEnd
  <2>1. /\ ui_pc' = "idle" /\ ui_tree' = Null /\ ui_tree = Null
        /\ UNCHANGED <<brk_list, node, nodes>>
        /\ trees' = trees \ brk_garbage /\ brk_garbage' = {}
        /\ brk_id' = IF ResetId THEN 0 ELSE brk_id
    BY <1>10 DEF BrkCleanEnd, WriterPlaced
  <2>2. Links' = Links /\ Linked' = Linked
    BY <2>1 DEF Links, Linked, Reachable, Closed
  <2>3. OneOwner' /\ OneChain'
    BY <2>1, <2>2 DEF Owned, OneOwner, OneChain
  <2>4. ResetId => Linked = {}
    BY ReachableNull DEF ResetId, Linked
  <2>5. IdsUnique'
    BY <2>1, <2>2, <2>4 DEF Owned, IdsUnique
  <2> QED
    BY <1>2, <2>1, <2>3, <2>5 DEF Owned
<1>11. CASE BrkEdit
  <2>1. ui_pc' = "edit"
    BY <1>11 DEF BrkEdit
  <2> QED
    BY <1>11, <2>1, EditKeepsOwners DEF WriterPlaced
<1>12. CASE BrkEditState
  <2>1. /\ ui_pc' = "idle" /\ ui_tree' = Null /\ ui_tree # Null
        /\ UNCHANGED <<brk_list, node, nodes, brk_id>>
        /\ \/ trees' = trees \ {ui_tree} /\ brk_garbage' = brk_garbage
           \/ trees' = trees /\ brk_garbage' = brk_garbage \cup {ui_tree}
    BY <1>12 DEF BrkEditState, Retired, WriterPlaced
  <2>2. Links' = Links /\ Linked' = Linked
    BY <2>1 DEF Links, Linked, Reachable, Closed
  <2>3. Null \notin trees /\ \A m \in nodes : node[m].tree \in trees
    BY BreakpointsAssumption DEF TypeOK, Owned, OneOwner
  <2>4. OneOwner'
    BY <2>1, <2>2, <2>3 DEF Owned, OneOwner
  <2>5. IdsUnique' /\ OneChain'
    BY <2>1, <2>2 DEF Owned, IdsUnique, OneChain
  <2> QED
    BY <1>2, <2>1, <2>4, <2>5 DEF Owned
<1> QED
  BY <1>3, <1>4, <1>5, <1>6, <1>7, <1>8, <1>9, <1>10, <1>11, <1>12 DEF Next, Writer

-----------------------------------------------------------------------------
(* The reader. *)

\* Nothing that a check depends on has changed.
LEMMA DueUntouched ==
  ASSUME TypeOK, DueAhead, UNCHANGED <<Links, nodes, cpu_pc, cpu_node>>, due' \subseteq due,
         \A n \in due' : node'[n].deleted = node[n].deleted /\ node'[n].enabled = node[n].enabled
  PROVE  DueAhead'
<1>1. \A s : Reachable(Links, s)' = Reachable(Links, s)
  BY DEF Reachable, Closed
<1>2. due' \subseteq Live'
  BY DEF DueAhead, Live
<1> QED
  BY <1>2 DEF DueAhead, Reachable, Closed

LEMMA StepDue ==
  TypeOK /\ Owned /\ WriterPlaced /\ DueAhead /\ [Next]_vars => DueAhead'
<1> SUFFICES ASSUME TypeOK, Owned, WriterPlaced, DueAhead, [Next]_vars PROVE DueAhead'
  OBVIOUS
<1> USE DEF list, reader, writer, history
<1>1. /\ Links \in LinkFunctions /\ nodes = Reachable(Links, brk_list) /\ nodes \subseteq Nodes
      /\ Closed(Links, nodes) /\ (brk_list # Null => brk_list \in nodes)
      /\ brk_list \in Nodes \cup {Null} /\ nodes = Linked
  BY NodesClosed DEF Owned, OneOwner
<1>2. UNCHANGED node => UNCHANGED Links
  BY DEF Links
<1>3. UNCHANGED <<nodes, node, cpu_pc, cpu_node, due>> => DueAhead'
  BY <1>2, DueUntouched
<1>4. CASE Execute
  BY <1>4 DEF Execute, DueAhead, Live
<1>5. CASE CheckHead
  <2>1. UNCHANGED <<Links, nodes, node>> /\ due' = Live
    BY <1>1, <1>2, <1>5 DEF CheckHead, Shown, Live
  <2>2. CASE brk_list = Null
    <3>1. due' = {} /\ cpu_pc' = "idle"
      BY <1>1, <1>5, <2>1, <2>2, ReachableNull DEF CheckHead, Visit, Live
    <3> QED
      BY <3>1 DEF DueAhead
  <2>3. CASE brk_list # Null
    <3>1. cpu_pc' = "node" /\ cpu_node' = brk_list
      BY <1>5, <2>3 DEF CheckHead, Visit
    <3>2. due' \subseteq Live' /\ due' \subseteq Reachable(Links, brk_list)
      BY <1>1, <2>1 DEF Live
    <3> QED
      BY <2>1, <2>3, <3>1, <3>2 DEF DueAhead
  <2> QED
    BY <2>2, <2>3
<1>6. CASE CheckNode
  <2>1. UNCHANGED <<Links, nodes, node>> /\ cpu_pc = "node" /\ cpu_node # Null
    BY <1>2, <1>6 DEF CheckNode, DueAhead
  <2>2. CASE cpu_node \notin nodes
    BY <1>6, <2>1, <2>2 DEF CheckNode, Wild, DueAhead, Live
  <2>3. CASE cpu_node \in nodes
    <3>1. cpu_node \in Nodes /\ Links[cpu_node] = node[cpu_node].next
      BY <1>1, <2>3 DEF Links
    <3>2. Reachable(Links, cpu_node) = {cpu_node} \cup Reachable(Links, Links[cpu_node])
      BY <1>1, <3>1, ReachableStep
    <3>3. due' = due \ {cpu_node}
      BY <1>6, <2>3 DEF CheckNode
    <3>4. due' \subseteq Reachable(Links, Links[cpu_node]) /\ due' \subseteq Live'
      BY <2>1, <2>3, <3>2, <3>3 DEF DueAhead, Live
    <3>5. CASE node[cpu_node].deleted \/ ~node[cpu_node].enabled
      <4>1. CASE node[cpu_node].next = Null
        <5>1. cpu_pc' = "idle" /\ due' = {}
          BY <1>6, <2>3, <3>1, <3>4, <3>5, <4>1, ReachableNull DEF CheckNode, Visit, PassOver
        <5> QED
          BY <5>1 DEF DueAhead
      <4>2. CASE node[cpu_node].next # Null
        <5>1. cpu_pc' = "node" /\ cpu_node' = Links[cpu_node] /\ cpu_node' # Null
          BY <1>6, <2>3, <3>1, <3>5, <4>2 DEF CheckNode, Visit, PassOver
        <5> QED
          BY <2>1, <3>4, <5>1 DEF DueAhead
      <4> QED
        BY <4>1, <4>2
    <3>6. CASE ~(node[cpu_node].deleted \/ ~node[cpu_node].enabled)
      <4>1. cpu_pc' = "eval" /\ cpu_node' = cpu_node
        BY <1>6, <2>3, <3>6 DEF CheckNode
      <4> QED
        BY <2>1, <3>4, <4>1 DEF DueAhead
    <3> QED
      BY <3>5, <3>6
  <2> QED
    BY <2>2, <2>3
<1>7. CASE CheckEval
  <2>1. UNCHANGED <<Links, nodes, node>> /\ cpu_pc = "eval" /\ cpu_node # Null
    BY <1>2, <1>7 DEF CheckEval, DueAhead
  <2>2. CASE cpu_tree \notin trees \/ cpu_node \notin nodes
    BY <1>7, <2>1, <2>2 DEF CheckEval, Wild, DueAhead, Live
  <2>3. CASE cpu_tree \in trees /\ cpu_node \in nodes /\ cpu_pc' = "hit"
    <3>1. due' = {}
      BY <1>7, <2>3 DEF CheckEval, Visit
    <3> QED
      BY <2>3, <3>1 DEF DueAhead
  <2>4. CASE cpu_tree \in trees /\ cpu_node \in nodes /\ cpu_pc' # "hit"
    <3>1. Links[cpu_node] = node[cpu_node].next
      BY <1>1, <2>4 DEF Links
    <3>2. Visit(Links[cpu_node]) /\ due' = due
      BY <1>7, <2>4, <3>1 DEF CheckEval
    <3>3. due \subseteq Reachable(Links, Links[cpu_node]) /\ due' \subseteq Live'
      BY <2>1, <2>4, <3>2 DEF DueAhead, Live
    <3>4. CASE Links[cpu_node] = Null
      BY <3>2, <3>3, <3>4, ReachableNull DEF Visit, DueAhead
    <3>5. CASE Links[cpu_node] # Null
      BY <2>1, <3>2, <3>3, <3>5 DEF Visit, DueAhead
    <3> QED
      BY <3>4, <3>5
  <2> QED
    BY <2>2, <2>3, <2>4
<1>8. CASE CheckHit
  BY <1>8 DEF CheckHit, DueAhead, Live
<1>9. CASE CpRun \/ CpStop \/ PowerOn \/ UNCHANGED vars
  BY <1>3, <1>9 DEF CpRun, CpStop, PowerOn, vars
<1>10. CASE PowerOff
  BY <1>10 DEF PowerOff, DueAhead
<1>11. CASE BrkAdd
  <2>1. PICK n \in Nodes \ nodes :
          /\ nodes' = nodes \cup {n} /\ due' = due \ {n}
          /\ Links'[n] = brk_list /\ \A m \in nodes : node'[m] = node[m]
          /\ Links' \in LinkFunctions
          /\ Reachable(Links', n) = nodes \cup {n}
    BY <1>11, AddKeepsOwners
  <2>2. /\ due \subseteq nodes /\ due' = due
        /\ n # Null /\ UNCHANGED <<cpu_pc, cpu_node>>
    BY <1>11, <2>1, BreakpointsAssumption DEF BrkAdd, DueAhead, Live
  <2>3. due' \subseteq Live'
    BY <2>1, <2>2 DEF DueAhead, Live
  <2>4. \A m \in nodes : Links'[m] = Links[m]
    BY <1>1, <2>1 DEF Links
  \* a walk within the list is what it was
  <2>5. ASSUME NEW m \in nodes \cup {Null} PROVE Reachable(Links', m) = Reachable(Links, m)
    <3>1. m # Null => m \in nodes
      OBVIOUS
    <3>2. Reachable(Links, m) \subseteq nodes
      BY <1>1, <3>1, ReachableLeast
    <3> QED
      BY <1>1, <2>1, <2>4, <3>2, ReachableSame
  <2>6. CASE cpu_node = n
    <3>1. Reachable(Links', brk_list) = nodes
      BY <1>1, <2>5
    <3> QED
      BY <2>1, <2>2, <2>3, <2>6, <3>1 DEF DueAhead
  <2>7. CASE cpu_node \in nodes
    <3>1. Links[cpu_node] \in nodes \cup {Null} /\ Links'[cpu_node] = Links[cpu_node]
      BY <1>1, <2>4, <2>7 DEF Closed
    <3>2. /\ Reachable(Links', cpu_node) = Reachable(Links, cpu_node)
          /\ Reachable(Links', Links'[cpu_node]) = Reachable(Links, Links[cpu_node])
      BY <2>5, <2>7, <3>1
    <3> QED
      BY <2>2, <2>3, <2>7, <3>2 DEF DueAhead
  <2>8. CASE cpu_node \notin nodes \cup {n}
    BY <2>1, <2>2, <2>3, <2>8 DEF DueAhead
  <2> QED
    BY <2>6, <2>7, <2>8
<1>12. CASE BrkEnable
  <2>1. PICK n \in Shown, on \in BOOLEAN :
          node' = [node EXCEPT ![n] = [@ EXCEPT !.enabled = on]] /\ due' = due \ {n}
    BY <1>12 DEF BrkEnable
  <2>2. n \in Nodes /\ node[n] \in Points
    BY <1>1, <2>1 DEF Shown, TypeOK
  <2>3. [node[n] EXCEPT !.enabled = on].next = node[n].next
    BY <2>2 DEF Points
  <2>4. \A m \in Nodes : node'[m].next = node[m].next /\ (m # n => node'[m] = node[m])
    BY <2>1, <2>2, <2>3 DEF TypeOK
  <2>5. UNCHANGED Links /\ due \subseteq Nodes
    BY <1>1, <2>4 DEF Links, TypeOK
  <2>6. UNCHANGED <<nodes, cpu_pc, cpu_node>>
    BY <1>12 DEF BrkEnable
  <2> QED
    BY <2>1, <2>4, <2>5, <2>6, DueUntouched
<1>13. CASE BrkDelete
  <2>1. UNCHANGED <<nodes, cpu_pc, cpu_node>>
    BY <1>13 DEF BrkDelete
  <2>2. CASE UNCHANGED <<node, due>>
    BY <1>3, <2>1, <2>2
  <2>3. CASE \E n \in Linked : node' = [node EXCEPT ![n].deleted = TRUE] /\ due' = due \ {n}
    <3>1. PICK n \in Linked :
            node' = [node EXCEPT ![n] = [@ EXCEPT !.deleted = TRUE]] /\ due' = due \ {n}
      BY <2>3
    <3>2. n \in Nodes /\ node[n] \in Points
      BY <1>1, <3>1 DEF TypeOK
    <3>3. [node[n] EXCEPT !.deleted = TRUE].next = node[n].next
      BY <3>2 DEF Points
    <3>4. \A m \in Nodes : node'[m].next = node[m].next /\ (m # n => node'[m] = node[m])
      BY <3>1, <3>2, <3>3 DEF TypeOK
    <3>5. UNCHANGED Links /\ due \subseteq Nodes
      BY <1>1, <3>4 DEF Links, TypeOK
    <3> QED
      BY <2>1, <3>1, <3>4, <3>5, DueUntouched
  <2> QED
    BY <1>13, <2>2, <2>3 DEF BrkDelete
<1>14. CASE BrkDeleteState \/ BrkCleanEnd \/ BrkEditState
  BY <1>3, <1>14 DEF BrkDeleteState, BrkCleanEnd, BrkEditState
<1>15. CASE BrkCleanNode
  <2>1. UNCHANGED <<cpu_pc, cpu_node, due>>
    BY <1>15 DEF BrkCleanNode
  <2>2. CASE ~node[ui_node].deleted
    BY <1>3, <1>15, <2>1, <2>2 DEF BrkCleanNode
  <2>3. CASE node[ui_node].deleted
    <3> DEFINE n == ui_node
    <3>1. /\ n \in nodes /\ nodes' = nodes \ {n}
          /\ Links \in LinkFunctions /\ Links' \in LinkFunctions
          /\ Links[n] # n /\ Links'[n] = Null
          /\ \A m \in Nodes \ {n} : Links'[m] = Skip(Links, n, Links[m])
          /\ \A m \in nodes' : node'[m].deleted = node[m].deleted /\ node'[m].enabled = node[m].enabled
      BY <1>15, <2>3, CleanKeepsOwners
    <3>2. n \notin due /\ due' = due /\ due \subseteq Live
      BY <2>1, <2>3 DEF DueAhead, Live
    <3>3. due' \subseteq Live'
      BY <3>1, <3>2 DEF Live
    <3>4. ASSUME NEW m \in Nodes \cup {Null}
          PROVE  Reachable(Links', Skip(Links, n, m)) = Reachable(Links, m) \ {n}
      BY <1>1, <3>1, ReachableWithout
    <3>5. CASE cpu_node \in nodes'
      <4>1. cpu_node \in nodes /\ cpu_node \in Nodes /\ cpu_node # n /\ Links[cpu_node] \in Nodes \cup {Null}
        BY <1>1, <3>1, <3>5 DEF Closed
      <4>2. Reachable(Links', cpu_node) = Reachable(Links, cpu_node) \ {n}
        BY <3>4, <4>1 DEF Skip
      <4>3. Reachable(Links', Links'[cpu_node]) = Reachable(Links, Links[cpu_node]) \ {n}
        BY <3>1, <3>4, <4>1
      <4> QED
        BY <2>1, <3>2, <3>3, <4>1, <4>2, <4>3 DEF DueAhead
    <3>6. CASE cpu_node \notin nodes'
      BY <2>1, <3>3, <3>6 DEF DueAhead
    <3> QED
      BY <3>5, <3>6
  <2> QED
    BY <2>2, <2>3
<1>16. CASE BrkEdit
  <2>1. UNCHANGED <<nodes, cpu_pc, cpu_node, due>> /\ due \subseteq Nodes
    BY <1>16 DEF BrkEdit, TypeOK
  <2> QED
    BY <1>16, <2>1, EditKeepsOwners, DueUntouched
<1> QED
  BY <1>4, <1>5, <1>6, <1>7, <1>8, <1>9, <1>10, <1>11, <1>12, <1>13, <1>14, <1>15, <1>16
  DEF Next, Reader, Writer

-----------------------------------------------------------------------------
(* Theorems. *)

LEMMA Invariant == Spec => []IInv
<1>1. Init => IInv
  <2> SUFFICES ASSUME Init PROVE IInv
    OBVIOUS
  <2>1. TypeOK
    BY BlankType, BreakpointsAssumption DEF Init, TypeOK
  <2>2. Linked = {}
    BY ReachableNull DEF Init, Linked
  <2> QED
    BY <2>1, <2>2
    DEF Init, IInv, ListSound, OneOwner, IdsUnique, OneChain, WriterPlaced, DueAhead
<1>2. IInv /\ [Next]_vars => IInv'
  BY StepType, StepOwners, StepDue DEF IInv, ListSound, Owned
<1> QED
  BY <1>1, <1>2, PTL DEF Spec

\* Every node and every tree has exactly one owner, whatever the front-end does
\* and wherever the reader is: nothing leaks, nothing is freed twice, and no two
\* breakpoints share a number (brk_insert, brk_edit, brk_delete, brk_cleanup).
THEOREM ListAlwaysSound == Spec => []ListSound
BY Invariant, PTL DEF IInv

\* A check never passes over a breakpoint that was enabled when it began and
\* still is (brk_check against brk_cleanup and brk_insert).
THEOREM NoneEverPassedOver == Spec => []NonePassedOver
<1>1. IInv => NonePassedOver
  BY DEF IInv, DueAhead, NonePassedOver
<1> QED
  BY Invariant, <1>1, PTL
=============================================================================
