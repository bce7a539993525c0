------------------------------- MODULE Watches -------------------------------
(***************************************************************************)
(* Watches (src/cp/watch.c): expressions in a list that the user's thread  *)
(* alone works on, and the evaluation of expressions for it.               *)
(***************************************************************************)
EXTENDS Eval, Sequences

CONSTANTS
  WatchExprs,  \* expressions that are watched
  Asked,       \* expressions evaluated at once
  MachineStates,
  WatchCells,       \* memory of watches
  MaxWatchOps  \* bound

NoCell == "none"

VARIABLES
  node,        \* of each cell: [used, id, expr, next]
  head, tail,
  watch_id,
  state,       \* of the machine
  result,      \* of the last evaluation: [expr, v, err]
  wanted,      \* history: identifiers and expressions of the watches, in the order they were added
  watchOps

watchesVars == <<node, head, tail, watch_id, state, result, wanted, watchOps>>

Listed ==
  LET from[k \in 0..Cardinality(WatchCells)] ==
        IF k = 0 THEN <<>>
        ELSE LET before == from[k - 1]
                 c == IF before = <<>> THEN head ELSE node[before[Len(before)]].next
             IN IF c = NoCell \/ Len(before) # k - 1 THEN before ELSE Append(before, c)
  IN from[Cardinality(WatchCells)]

WatchesInit ==
  /\ node = [c \in WatchCells |-> [used |-> FALSE, id |-> 0, expr |-> CHOOSE e \in WatchExprs : TRUE, next |-> NoCell]]
  /\ head = NoCell /\ tail = NoCell /\ watch_id = 0 /\ state \in MachineStates
  /\ result = [expr |-> CHOOSE e \in WatchExprs : TRUE, v |-> -1, err |-> "none"] /\ wanted = <<>> /\ watchOps = 0

WatchStep == watchOps < MaxWatchOps /\ watchOps' = watchOps + 1

\* watch_add() of an expression the parser takes
WatchAdd(e) ==
  /\ WatchStep /\ \E c \in WatchCells : ~node[c].used
  /\ LET c == CHOOSE c \in WatchCells : ~node[c].used
         new == [node EXCEPT ![c] = [used |-> TRUE, id |-> watch_id, expr |-> e, next |-> NoCell]]
     IN /\ IF tail # NoCell THEN node' = [new EXCEPT ![tail].next = c] /\ UNCHANGED head
           ELSE node' = new /\ head' = c
        /\ tail' = c
  /\ watch_id' = watch_id + 1 /\ wanted' = Append(wanted, <<watch_id, e>>)
  /\ UNCHANGED <<state, result>>

\* Mutant of TailWithout: the watch before is not made the last.
LastKept(c, prev) == tail

TailWithout(c, prev) == IF c = tail THEN prev ELSE tail

\* watch_delete()
WatchDelete(id) ==
  LET at == {k \in DOMAIN Listed : node[Listed[k]].id = id}
      k == CHOOSE k \in at : \A j \in at : k <= j
      c == Listed[k]
      prev == IF k = 1 THEN NoCell ELSE Listed[k - 1]
  IN /\ WatchStep /\ at # {}
     /\ node' = [d \in WatchCells |-> IF d = c THEN [node[c] EXCEPT !.used = FALSE]
                                 ELSE IF d = prev THEN [node[d] EXCEPT !.next = node[c].next] ELSE node[d]]
     /\ head' = (IF k = 1 THEN node[c].next ELSE head)
     /\ tail' = TailWithout(c, prev)
     /\ watch_id' = IF head' = NoCell THEN 0 ELSE watch_id
     /\ wanted' = SelectSeq(wanted, LAMBDA w : w[1] # id)
     /\ UNCHANGED <<state, result>>

\* watch_del_all(), at power-off
WatchDelAll ==
  /\ WatchStep /\ head # NoCell /\ node' = [c \in WatchCells |-> [node[c] EXCEPT !.used = FALSE]]
  /\ head' = NoCell /\ tail' = NoCell /\ watch_id' = 0 /\ wanted' = <<>> /\ UNCHANGED <<state, result>>

\* watch_edit(), watch_eval()
FoundWatch(id) == {c \in WatchCells : \E k \in DOMAIN Listed : Listed[k] = c /\ node[c].id = id}
WatchEdit(id, e) ==
  /\ WatchStep /\ \E c \in FoundWatch(id) : node' = [node EXCEPT ![c].expr = e]
  /\ wanted' = [k \in DOMAIN wanted |-> IF wanted[k][1] = id THEN <<id, e>> ELSE wanted[k]]
  /\ UNCHANGED <<head, tail, watch_id, state, result>>
Show(e) == LET r == Evaluated(e, state) IN result' = [expr |-> e, v |-> r.v, err |-> r.err]
WatchEval(id) ==
  /\ WatchStep /\ \E c \in FoundWatch(id) : Show(node[c].expr)
  /\ UNCHANGED <<node, head, tail, watch_id, state, wanted>>

\* eval_str_eval(); bound: one expression, before there are watches
Ask == /\ watchOps = 0 /\ watchOps' = MaxWatchOps /\ \E e \in Asked : Show(e)
       /\ UNCHANGED <<node, head, tail, watch_id, state, wanted>>

WatchIds == {wanted[k][1] : k \in DOMAIN wanted}
WatchesNext ==
  \/ \E e \in WatchExprs : WatchAdd(e) \/ \E id \in WatchIds : WatchEdit(id, e)
  \/ \E id \in WatchIds : WatchDelete(id) \/ WatchEval(id)
  \/ WatchDelAll \/ Ask
WatchesSpec == WatchesInit /\ [][WatchesNext]_watchesVars

-----------------------------------------------------------------------------
\* The list is the watches that were added and not deleted, in that order, each with an
\* identifier of its own and the expression it was given last; its last one is where the
\* next one goes (watch_add(), watch_delete(), watch_edit()).
WatchesListed ==
  /\ [k \in DOMAIN Listed |-> <<node[Listed[k]].id, node[Listed[k]].expr>>] = wanted
  /\ Cardinality(WatchIds) = Len(wanted)
  /\ tail = IF Listed = <<>> THEN NoCell ELSE Listed[Len(Listed)]

\* An evaluation gives the word that the expression stands for, or fails with a message
\* where it stands for none (eval_est_eval(), eval_est_eval_op(), eval_est_eval_logical()).
MeansIt ==
  LET m == Meaning(result.expr, state)
  IN result.v >= 0 \/ result.err # "none" =>
       IF result.v >= 0 THEN m = {result.v} ELSE m = {} /\ result.err # "none"
=============================================================================
