-------------------------- MODULE InterruptsProofs --------------------------
(***************************************************************************)
(* What Interrupts guarantees for any channels, masks and requests, any    *)
(* depth of nesting, and memory that fails or not.                         *)
(***************************************************************************)
EXTENDS Interrupts, FiniteSetTheorems, SequenceTheorems, WellFoundedInduction, TLAPS

\* A set of numbers that is not empty has a least one.
LEMMA LeastExists ==
  ASSUME NEW S \in SUBSET Nat, S # {}
  PROVE  \E i \in S : \A j \in S : i <= j
<1> DEFINE T == {0..i : i \in S}
<1>1. T \subseteq FiniteSubsetsOf(Nat) /\ T # {}
  <2>1. \A i \in S : 0..i \in SUBSET Nat /\ IsFiniteSet(0..i)
    BY FS_Interval
  <2> QED
    BY <2>1 DEF FiniteSubsetsOf
<1>2. IsWellFoundedOn(StrictSubsetOrdering(Nat), FiniteSubsetsOf(Nat))
  BY FS_StrictSubsetOrderingWellFounded
<1>3. PICK x \in T : \A y \in T : ~(<<y, x>> \in StrictSubsetOrdering(Nat))
  <2> HIDE DEF T
  <2> QED
    BY <1>1, <1>2, WFMin, Zenon
<1>4. PICK i \in S : x = 0..i
  OBVIOUS
<1>5. ASSUME NEW j \in S PROVE i <= j
  <2> SUFFICES ASSUME j < i PROVE FALSE
    OBVIOUS
  <2>1. 0..j \in T /\ 0..j \in SUBSET Nat /\ 0..i \in SUBSET Nat
    OBVIOUS
  <2>2. 0..j \subseteq 0..i /\ i \in 0..i /\ i \notin 0..j
    OBVIOUS
  <2> HIDE DEF T
  <2> QED
    BY <1>3, <1>4, <2>1, <2>2 DEF StrictSubsetOrdering
<1> QED
  BY <1>5

-----------------------------------------------------------------------------
(* The inductive invariant. *)

\* The mask the CPU looks at is RM, and narrower than every handler that was
\* interrupted asks for; so is the mask of each context that was.
MasksNarrow ==
  /\ xmask = rm
  /\ pc \in {"ack", "switch"} => cur = 0 \/ Group(cur) \in rm
  /\ \A k \in 1..Len(saved) : rm \subseteq MaskAfter(saved[k].int)
  /\ \A j \in 1..Len(saved) : \A k \in 1..j - 1 : saved[j].sr.rm \subseteq MaskAfter(saved[k].int)

IInv == TypeOK /\ FramesIntact /\ MasksNarrow /\ NestingOrdered

-----------------------------------------------------------------------------
(* Operators. *)

\* An interrupt of a group that is enabled goes before all that the mask of a
\* handler keeps out.
LEMMA GroupOrder ==
  ASSUME NEW i \in 0..32, NEW k \in 0..32, i # 0, Group(i) \in MaskAfter(k)
  PROVE  k # 0 /\ Group(i) < Group(k)
BY DEF MaskAfter

LEMMA GroupType == \A i \in 0..32 : Group(i) \in -1..9 /\ (i # 0 => Group(i) \in Groups)
BY DEF Group, Groups

\* What a thread finds when it looks for requests.
LEMMA PendingType ==
  ASSUME rz \subseteq 0..31
  PROVE  Pending \subseteq 0..31 /\ \A i \in Pending : i = 0 \/ Group(i) \in xmask
BY DEF Pending

\* The words of a frame have the types of their places.
LEMMA WordsType ==
  ASSUME TypeOK, NEW spec \in 0..1, NEW a \in sp..sp + 3
  PROVE  Words(spec)[a - sp + 1] \in WordAt(a)
<1>1. a - sp \in 0..3 /\ a % 4 = a - sp /\ a \in Nat
  BY DEF TypeOK
<1>2. [rm |-> rm, q |-> q] \in SRs
  BY DEF SRs, TypeOK
<1>3. ic \in Locs /\ r0 \in 0..1
  BY DEF TypeOK
<1> DEFINE w == <<ic, r0, [rm |-> rm, q |-> q], spec>>
<1>4. w[1] \in Locs /\ w[2] \in 0..1 /\ w[3] \in SRs /\ w[4] \in 0..1
  BY <1>2, <1>3
<1>5. Words(spec) = w
  BY DEF Words
<1> HIDE DEF w
<1>6. CASE a - sp = 0
  <2>1. WordAt(a) = Locs
    BY <1>1, <1>6 DEF WordAt
  <2> QED
    BY <1>4, <1>5, <1>6, <2>1
<1>7. CASE a - sp = 1
  <2>1. WordAt(a) = 0..1
    BY <1>1, <1>7 DEF WordAt
  <2> QED
    BY <1>4, <1>5, <1>7, <2>1
<1>8. CASE a - sp = 2
  <2>1. WordAt(a) = SRs
    BY <1>1, <1>8 DEF WordAt
  <2> QED
    BY <1>4, <1>5, <1>8, <2>1
<1>9. CASE a - sp = 3
  <2>1. WordAt(a) = 0..1
    BY <1>1, <1>9 DEF WordAt
  <2> QED
    BY <1>4, <1>5, <1>9, <2>1
<1> QED
  BY <1>1, <1>6, <1>7, <1>8, <1>9

LEMMA BlankType == \A a \in Nat : Blank(a) \in WordAt(a)
<1> TAKE a \in Nat
<1>1. Handler \in Locs /\ 0 \in 0..1 /\ [rm |-> {}, q |-> FALSE] \in SRs
  BY InterruptsAssumption DEF SRs
<1>2. a % 4 \in 0..3
  OBVIOUS
<1>3. CASE a % 4 = 0
  BY <1>1, <1>3 DEF Blank, WordAt
<1>4. CASE a % 4 = 2
  BY <1>1, <1>4 DEF Blank, WordAt
<1>5. CASE a % 4 \in {1, 3}
  BY <1>1, <1>5 DEF Blank, WordAt
<1> QED
  BY <1>2, <1>3, <1>4, <1>5

\* What is kept of memory below the stack pointer, and what replaces the rest.
LEMMA ScratchedType ==
  ASSUME NEW f, NEW top, \A a \in Room : f[a] \in WordAt(a)
  PROVE  DOMAIN Scratched(f, top) = Room /\ \A a \in Room : Scratched(f, top)[a] \in WordAt(a)
BY BlankType, InterruptsAssumption DEF Scratched, Room

LEMMA ScratchedBelow ==
  ASSUME NEW f, NEW top \in Nat, NEW a \in Room, a < top
  PROVE  Scratched(f, top)[a] = f[a]
BY DEF Scratched

\* Pushing n words of a frame, the fifth being the stack pointer, keeps the
\* types and every frame there was.
LEMMA PushKeeps ==
  ASSUME TypeOK, FramesIntact, NEW spec \in 0..1, NEW int \in 0..32, NEW n \in 0..5,
         sp \in Room, Push(n, spec, int)
  PROVE  /\ DOMAIN stack' = Room /\ \A a \in Room : stack'[a] \in WordAt(a)
         /\ sp' \in Nat /\ sp' % 4 = 0 /\ sp' <= 4 * MaxDepth
         /\ saved' \in Seq(Contexts)
         /\ FramesIntact'
<1>1. sp \in Nat /\ sp % 4 = 0 /\ sp < 4 * MaxDepth /\ MaxDepth \in Nat
  BY InterruptsAssumption DEF TypeOK, Room
<1>2. sp' = (IF n = 5 THEN sp + 4 ELSE sp)
  BY DEF Push
<1>3. sp' \in Nat /\ sp' % 4 = 0 /\ sp' <= 4 * MaxDepth
  BY <1>1, <1>2
<1>4. stack' = Scratched(Pushed(n, spec), sp')
  BY DEF Push
<1>5. \A a \in Room : Pushed(n, spec)[a] \in WordAt(a)
  BY WordsType DEF Pushed, TypeOK
<1>6. DOMAIN stack' = Room /\ \A a \in Room : stack'[a] \in WordAt(a)
  BY <1>4, <1>5, ScratchedType
<1>7. Interrupted(spec, int) \in Contexts
  BY DEF Interrupted, Contexts, TypeOK, SRs
<1>8. saved' = (IF n = 5 THEN Append(saved, Interrupted(spec, int)) ELSE saved)
  BY DEF Push
<1>9. saved \in Seq(Contexts) /\ Len(saved) \in Nat
  BY DEF TypeOK
<1>10. saved' \in Seq(Contexts)
  BY <1>7, <1>8, <1>9
<1>11. \A a \in Room : a < sp => stack'[a] = stack[a]
  <2> SUFFICES ASSUME NEW a \in Room, a < sp PROVE stack'[a] = stack[a]
    OBVIOUS
  <2>1. a < sp' /\ a \notin sp .. sp + 3
    BY <1>1, <1>2 DEF Room
  <2>2. Pushed(n, spec)[a] = stack[a]
    BY <2>1 DEF Pushed
  <2> QED
    BY <1>3, <1>4, <2>1, <2>2, ScratchedBelow
<1>12. FramesIntact'
  <2>1. sp' = 4 * Len(saved')
    BY <1>1, <1>2, <1>8, <1>9, <1>7 DEF FramesIntact
  <2>2. ASSUME NEW k \in 1..Len(saved')
        PROVE  /\ stack'[4*k - 4] = saved'[k].ic /\ stack'[4*k - 3] = saved'[k].r0
               /\ stack'[4*k - 2] = saved'[k].sr /\ stack'[4*k - 1] = saved'[k].spec
    <3>1. CASE k <= Len(saved)
      <4>1. k \in 1..Len(saved) /\ saved'[k] = saved[k]
        BY <3>1, <1>8, <1>9, <1>7
      <4>2. \A i \in 1..4 : 4*k - i \in Room /\ 4*k - i < sp
        <5>1. sp = 4 * Len(saved)
          BY DEF FramesIntact
        <5>2. TAKE i \in 1..4
        <5>3. 4*k - i \in Nat /\ 4*k - i < sp
          BY <1>9, <4>1, <5>1
        <5> QED
          BY <1>1, <5>3 DEF Room
      <4>3. \A i \in 1..4 : stack'[4*k - i] = stack[4*k - i]
        BY <4>2, <1>11
      <4>4. /\ stack'[4*k - 1] = stack[4*k - 1] /\ stack'[4*k - 2] = stack[4*k - 2]
            /\ stack'[4*k - 3] = stack[4*k - 3] /\ stack'[4*k - 4] = stack[4*k - 4]
        BY <4>3
      <4> QED
        BY <4>1, <4>4 DEF FramesIntact
    <3>2. CASE k > Len(saved)
      <4>1. n = 5 /\ k = Len(saved) + 1 /\ saved'[k] = Interrupted(spec, int)
        BY <3>2, <1>7, <1>8, <1>9
      <4>2. 4*k - 4 = sp
        BY <4>1, <1>1, <1>9 DEF FramesIntact
      <4>3. \A i \in 0..3 : stack'[sp + i] = Words(spec)[i + 1]
        <5> TAKE i \in 0..3
        <5>1. sp + i \in Room /\ sp + i < sp' /\ sp + i \in sp .. sp + 3 /\ sp + i < sp + n
              /\ (sp + i) - sp + 1 = i + 1
          BY <1>1, <1>2, <4>1 DEF Room
        <5>2. Pushed(n, spec)[sp + i] = Words(spec)[i + 1]
          BY <5>1 DEF Pushed
        <5> QED
          BY <5>1, <5>2, <1>3, <1>4, ScratchedBelow
      <4>4. /\ stack'[sp] = Words(spec)[1] /\ stack'[sp + 1] = Words(spec)[2]
            /\ stack'[sp + 2] = Words(spec)[3] /\ stack'[sp + 3] = Words(spec)[4]
        BY <4>3, <1>1
      <4>5. 4*k - 3 = sp + 1 /\ 4*k - 2 = sp + 2 /\ 4*k - 1 = sp + 3
        BY <4>1, <4>2, <1>1, <1>9
      <4> QED
        BY <4>1, <4>2, <4>4, <4>5 DEF Words, Interrupted
    <3> QED
      BY <3>1, <3>2, <1>9
  <2> QED
    BY <2>1, <2>2 DEF FramesIntact
<1> QED
  BY <1>3, <1>6, <1>10, <1>12

\* Switching to a handler, completely or not, keeps the types and the frames.
LEMMA CtxSwitchKeeps ==
  ASSUME TypeOK, FramesIntact, NEW spec \in 0..1, NEW int \in 0..32, NEW mask,
         CtxSwitch(spec, mask, int)
  PROVE  /\ rz' \subseteq 0..31 /\ rm' \subseteq Groups /\ xmask' \subseteq Groups
         /\ q' \in BOOLEAN /\ ic' \in Locs /\ r0' \in 0..1
         /\ DOMAIN stack' = Room /\ \A a \in Room : stack'[a] \in WordAt(a)
         /\ sp' \in Nat /\ sp' % 4 = 0 /\ sp' <= 4 * MaxDepth
         /\ saved' \in Seq(Contexts)
         /\ FramesIntact'
<1>1. sp \in Room
  BY DEF CtxSwitch
<1>2. CASE /\ Push(5, spec, int)
           /\ r0' = 0 /\ ic' = Handler /\ q' = FALSE
           /\ LoadMask(rm \cap mask)
           /\ UNCHANGED rz
  <2>1. /\ DOMAIN stack' = Room /\ \A a \in Room : stack'[a] \in WordAt(a)
        /\ sp' \in Nat /\ sp' % 4 = 0 /\ sp' <= 4 * MaxDepth
        /\ saved' \in Seq(Contexts)
        /\ FramesIntact'
    <3>1. 5 \in 0..5 /\ Push(5, spec, int)
      BY <1>2
    <3> QED
      BY <1>1, <3>1, PushKeeps
  <2>2. rm' \subseteq Groups /\ xmask' \subseteq Groups
    BY <1>2 DEF LoadMask, TypeOK
  <2>3. q' \in BOOLEAN /\ ic' \in Locs /\ r0' \in 0..1
    <3>1. r0' = 0 /\ ic' = Handler /\ q' = FALSE
      BY <1>2
    <3>2. q' \in BOOLEAN
      BY <3>1, Zenon
    <3> QED
      BY <3>1, <3>2, InterruptsAssumption
  <2>4. rz' \subseteq 0..31
    BY <1>2 DEF TypeOK
  <2> QED
    BY <2>1, <2>2, <2>3, <2>4
<1>3. CASE /\ \E n \in 0..4 : Push(n, spec, int)
           /\ MemFail
           /\ UNCHANGED registers
  <2>1. PICK n \in 0..4 : Push(n, spec, int)
    BY <1>3
  <2>2. rz' \subseteq 0..31
    BY <1>3 DEF MemFail, TypeOK, INT_NO_MEM
  <2>3. UNCHANGED <<rm, q, xmask, ic, r0>>
    BY <1>3 DEF registers
  <2>4. n \in 0..5
    BY <2>1
  <2> QED
    BY <1>1, <2>1, <2>2, <2>3, <2>4, PushKeeps DEF TypeOK
<1> QED
  BY <1>2, <1>3 DEF CtxSwitch

\* Reading a frame back, completely or not, keeps the types.
LEMMA RestoreKeeps ==
  ASSUME TypeOK, NEW n \in 0..3, NEW frame, frame[1] \in Locs, frame[2] \in 0..1,
         frame[3] \in SRs, Restore(n, frame)
  PROVE  /\ rz' \subseteq 0..31 /\ rm' \subseteq Groups /\ xmask' \subseteq Groups
         /\ q' \in BOOLEAN /\ ic' \in Locs /\ r0' \in 0..1
<1>1. frame[3].rm \subseteq Groups /\ frame[3].q \in BOOLEAN
  BY DEF SRs
<1>2. ic' \in Locs /\ r0' \in 0..1
  BY DEF Restore, TypeOK
<1>3. CASE n = 3
  BY <1>1, <1>2, <1>3 DEF Restore, LoadMask, TypeOK
<1>4. CASE n # 3
  <2>1. rz' = rz \cup {2} /\ UNCHANGED <<rm, xmask, q>>
    BY <1>4 DEF Restore, MemFail, INT_NO_MEM
  <2> QED
    BY <1>2, <2>1 DEF TypeOK
<1> QED
  BY <1>3, <1>4

\* The beginning of a sequence.
LEMMA Shortened ==
  ASSUME NEW S, NEW s \in Seq(S), NEW m \in 0..Len(s)
  PROVE  /\ SubSeq(s, 1, m) \in Seq(S) /\ Len(SubSeq(s, 1, m)) = m
         /\ \A k \in 1..m : SubSeq(s, 1, m)[k] = s[k]
<1>1. m \in Int /\ 1 \in Int /\ \A i \in 1..m : s[i] \in S
  OBVIOUS
<1>2. /\ SubSeq(s, 1, m) \in Seq(S)
      /\ Len(SubSeq(s, 1, m)) = IF 1 <= m THEN m - 1 + 1 ELSE 0
      /\ \A i \in 1..m - 1 + 1 : SubSeq(s, 1, m)[i] = s[1 + i - 1]
  BY <1>1, SubSeqProperties
<1> QED
  BY <1>2

\* What LIP does to the stack: the topmost frame is gone, those under it stay.
LEMMA PopKeeps ==
  ASSUME TypeOK, FramesIntact, sp - 4 \in Room, sp' = sp - 4,
         stack' = Scratched(stack, sp'), saved' = SubSeq(saved, 1, Len(saved) - 1)
  PROVE  /\ DOMAIN stack' = Room /\ \A a \in Room : stack'[a] \in WordAt(a)
         /\ sp' \in Nat /\ sp' % 4 = 0 /\ sp' <= 4 * MaxDepth
         /\ saved' \in Seq(Contexts) /\ Len(saved) \in Nat \ {0}
         /\ Len(saved') = Len(saved) - 1
         /\ \A k \in 1..Len(saved') : saved'[k] = saved[k]
         /\ FramesIntact'
<1>1. sp \in Nat /\ sp % 4 = 0 /\ sp <= 4 * MaxDepth /\ MaxDepth \in Nat /\ sp >= 4
  BY InterruptsAssumption DEF TypeOK, Room
<1>2. sp' \in Nat /\ sp' % 4 = 0 /\ sp' <= 4 * MaxDepth
  BY <1>1
<1>3. DOMAIN stack' = Room /\ \A a \in Room : stack'[a] \in WordAt(a)
  BY ScratchedType DEF TypeOK
<1>4. saved \in Seq(Contexts) /\ Len(saved) \in Nat /\ sp = 4 * Len(saved)
  BY DEF TypeOK, FramesIntact
<1>5. Len(saved) \in Nat \ {0}
  BY <1>1, <1>4
<1>6. saved' \in Seq(Contexts) /\ Len(saved') = Len(saved) - 1
      /\ \A k \in 1..Len(saved') : saved'[k] = saved[k]
  <2>1. Len(saved) - 1 \in 0..Len(saved)
    BY <1>5
  <2>2. /\ SubSeq(saved, 1, Len(saved) - 1) \in Seq(Contexts)
        /\ Len(SubSeq(saved, 1, Len(saved) - 1)) = Len(saved) - 1
        /\ \A k \in 1..Len(saved) - 1 : SubSeq(saved, 1, Len(saved) - 1)[k] = saved[k]
    BY <1>4, <2>1, Shortened, Zenon
  <2> QED
    BY <2>2, Zenon
<1>7. ASSUME NEW k \in 1..Len(saved')
      PROVE  /\ stack'[4*k - 4] = saved'[k].ic /\ stack'[4*k - 3] = saved'[k].r0
             /\ stack'[4*k - 2] = saved'[k].sr /\ stack'[4*k - 1] = saved'[k].spec
  <2>1. k \in 1..Len(saved) /\ saved'[k] = saved[k]
    BY <1>4, <1>6
  <2>2. \A i \in 1..4 : 4*k - i \in Room /\ 4*k - i < sp'
    BY <1>1, <1>4, <1>6 DEF Room
  <2>3. \A i \in 1..4 : stack'[4*k - i] = stack[4*k - i]
    BY <2>2, <1>2, ScratchedBelow
  <2>4. /\ stack'[4*k - 1] = stack[4*k - 1] /\ stack'[4*k - 2] = stack[4*k - 2]
        /\ stack'[4*k - 3] = stack[4*k - 3] /\ stack'[4*k - 4] = stack[4*k - 4]
    BY <2>3
  <2> QED
    BY <2>1, <2>4 DEF FramesIntact
<1>8. FramesIntact'
  <2>1. sp' = 4 * Len(saved')
    BY <1>4, <1>5, <1>6
  <2> QED
    BY <2>1, <1>7 DEF FramesIntact
<1> QED
  BY <1>2, <1>3, <1>5, <1>6, <1>8

\* The frame LIP reads has the types of a context, and is the one saved last.
LEMMA TopFrame ==
  ASSUME TypeOK, FramesIntact, sp - 4 \in Room
  PROVE  LET frame == [k \in 1..3 |-> stack[sp - 5 + k]]
             c == saved[Len(saved)]
         IN  /\ frame[1] \in Locs /\ frame[2] \in 0..1 /\ frame[3] \in SRs
             /\ frame[1] = c.ic /\ frame[2] = c.r0 /\ frame[3] = c.sr
<1>1. sp \in Nat /\ sp = 4 * Len(saved) /\ sp >= 4 /\ saved \in Seq(Contexts)
  BY DEF TypeOK, FramesIntact, Room
<1>2. Len(saved) \in 1..Len(saved)
  BY <1>1
<1>3. saved[Len(saved)] \in Contexts
  BY <1>1, <1>2
<1>4. /\ stack[sp - 4] = saved[Len(saved)].ic /\ stack[sp - 3] = saved[Len(saved)].r0
      /\ stack[sp - 2] = saved[Len(saved)].sr
  BY <1>1, <1>2 DEF FramesIntact
<1>5. sp - 5 + 1 = sp - 4 /\ sp - 5 + 2 = sp - 3 /\ sp - 5 + 3 = sp - 2
  BY <1>1
<1> QED
  BY <1>3, <1>4, <1>5 DEF Contexts

-----------------------------------------------------------------------------
(* Every step keeps the types and the frames. *)

LEMMA InitFrames == Init => TypeOK /\ FramesIntact
<1> SUFFICES ASSUME Init PROVE TypeOK /\ FramesIntact
  OBVIOUS
<1>1. DOMAIN stack = Room /\ \A a \in Room : stack[a] \in WordAt(a)
  BY BlankType DEF Init, Room
<1>2. q \in BOOLEAN
  BY Zenon DEF Init
<1> QED
  BY <1>1, <1>2, InterruptsAssumption DEF Init, TypeOK, FramesIntact

LEMMA StepFrames == TypeOK /\ FramesIntact /\ [Next]_vars => TypeOK' /\ FramesIntact'
<1> SUFFICES ASSUME TypeOK, FramesIntact, [Next]_vars PROVE TypeOK' /\ FramesIntact'
  OBVIOUS
<1> USE DEF registers, frames, ui
\* all that an action leaves alone keeps its type
<1> DEFINE Frame == /\ DOMAIN stack' = Room /\ \A a \in Room : stack'[a] \in WordAt(a)
                    /\ sp' \in Nat /\ sp' % 4 = 0 /\ sp' <= 4 * MaxDepth
                    /\ saved' \in Seq(Contexts)
           Regs == /\ rm' \subseteq Groups /\ xmask' \subseteq Groups
                   /\ q' \in BOOLEAN /\ ic' \in Locs /\ r0' \in 0..1
           Pcs == /\ pc' \in {"run", "serve", "ack", "switch", "exec", "fi"}
                  /\ cur' \in 0..31 /\ old' \subseteq 0..31
           Uis == ui_pc' \in {"idle", "cas"} /\ ui_old' \subseteq 0..31 /\ ui_new' \subseteq NChan
<1>1. UNCHANGED <<sp, stack, saved>> => Frame /\ FramesIntact'
  BY DEF TypeOK, FramesIntact
<1>2. UNCHANGED <<rm, q, xmask, ic, r0>> => Regs
  BY DEF TypeOK
<1>3. UNCHANGED <<ui_pc, ui_old, ui_new>> => Uis
  BY DEF TypeOK
<1>4. UNCHANGED <<pc, cur, old>> => Pcs
  BY DEF TypeOK
<1>5. rz' \subseteq 0..31 /\ Frame /\ Regs /\ Pcs /\ Uis => TypeOK'
  BY DEF TypeOK
<1>6. UNCHANGED <<cur, old>> /\ pc' \in {"run", "serve", "ack", "switch", "exec", "fi"} => Pcs
  BY DEF TypeOK
<1>7. MemFail => rz' \subseteq 0..31
  BY DEF MemFail, INT_NO_MEM, TypeOK
<1> HIDE DEF Frame, Regs, Pcs, Uis
<1>8. CASE Boundary
  BY <1>1, <1>2, <1>3, <1>5, <1>6, <1>8 DEF Boundary, TypeOK
<1>9. CASE Serve
  <2>1. Pcs
    <3>1. CASE Pending = {}
      BY <1>6, <1>9, <3>1 DEF Serve
    <3>2. CASE Pending # {}
      <4>1. Pending \in SUBSET Nat /\ Pending \subseteq 0..31
        <5>1. rz \subseteq 0..31
          BY DEF TypeOK
        <5>2. Pending \subseteq 0..31
          BY <5>1, PendingType
        <5>3. 0..31 \subseteq Nat
          OBVIOUS
        <5> QED
          BY <5>2, <5>3, Zenon
      <4>2. cur' \in Pending
        BY <1>9, <3>2, <4>1, LeastExists DEF Serve
      <4> QED
        BY <1>9, <3>2, <4>1, <4>2 DEF Serve, TypeOK, Pcs
    <3> QED
      BY <3>1, <3>2
  <2> QED
    BY <1>1, <1>2, <1>3, <1>5, <1>9, <2>1 DEF Serve, TypeOK
<1>10. CASE Ack
  BY <1>1, <1>2, <1>3, <1>5, <1>6, <1>10 DEF Ack, TypeOK
<1>11. CASE Switch
  <2>1. Pcs
    BY <1>11 DEF Switch, TypeOK, Pcs
  <2>2. Uis /\ cur \in 0..32
    BY <1>3, <1>11 DEF Switch, TypeOK
  <2>3. CASE CtxSwitch(IF cur \in Chan THEN 1 ELSE 0, NewMask(cur), cur)
    <3>1. (IF cur \in Chan THEN 1 ELSE 0) \in 0..1
      OBVIOUS
    <3>2. rz' \subseteq 0..31 /\ Regs /\ Frame /\ FramesIntact'
      BY <2>2, <2>3, <3>1, CtxSwitchKeeps DEF Regs, Frame
    <3> QED
      BY <1>5, <2>1, <2>2, <3>2
  <2>4. CASE MemFail /\ UNCHANGED <<registers, frames>>
    BY <1>1, <1>2, <1>5, <1>7, <2>1, <2>2, <2>4
  <2> QED
    BY <1>11, <2>3, <2>4 DEF Switch
<1>12. CASE Compute
  <2>1. Regs
    BY <1>12 DEF Compute, TypeOK, Regs
  <2> QED
    BY <1>1, <1>3, <1>5, <1>6, <1>12, <2>1 DEF Compute, Exec, TypeOK
<1>13. CASE Illegal
  BY <1>1, <1>2, <1>3, <1>5, <1>6, <1>13 DEF Illegal, Exec, TypeOK, INT_ILLEGAL_INSTRUCTION
<1>14. CASE Exl
  <2>1. Pcs /\ Uis
    BY <1>3, <1>6, <1>14 DEF Exl, Exec
  <2>2. CASE CtxSwitch(1, MaskAfter(EXL), EXL)
    <3>1. 1 \in 0..1 /\ EXL \in 0..32
      BY DEF EXL
    <3>2. rz' \subseteq 0..31 /\ Regs /\ Frame /\ FramesIntact'
      BY <2>2, <3>1, CtxSwitchKeeps DEF Regs, Frame
    <3> QED
      BY <1>5, <2>1, <3>2
  <2>3. CASE MemFail /\ UNCHANGED <<registers, frames>>
    BY <1>1, <1>2, <1>5, <1>7, <2>1, <2>3
  <2> QED
    BY <1>14, <2>2, <2>3 DEF Exl
<1>15. CASE Lip
  <2>1. Pcs /\ Uis /\ sp - 4 \in Room
    BY <1>3, <1>6, <1>15 DEF Lip, Privileged, Exec
  <2>2. CASE /\ sp' = sp - 4 /\ stack' = Scratched(stack, sp')
             /\ saved' = SubSeq(saved, 1, Len(saved) - 1)
             /\ \E n \in 0..3 : Restore(n, [k \in 1..3 |-> stack[sp - 5 + k]])
    <3>1. Frame /\ FramesIntact'
      BY <2>1, <2>2, PopKeeps DEF Frame
    <3>2. PICK n \in 0..3 : Restore(n, [k \in 1..3 |-> stack[sp - 5 + k]])
      BY <2>2
    <3> DEFINE frame == [k \in 1..3 |-> stack[sp - 5 + k]]
    <3>3. frame[1] \in Locs /\ frame[2] \in 0..1 /\ frame[3] \in SRs
      BY <2>1, TopFrame
    <3>4. Restore(n, frame)
      BY <3>2
    <3> HIDE DEF frame
    <3>5. rz' \subseteq 0..31 /\ Regs
      BY <3>3, <3>4, RestoreKeeps DEF Regs
    <3> QED
      BY <1>5, <2>1, <3>1, <3>5
  <2>3. CASE MemFail /\ UNCHANGED <<registers, frames>>
    BY <1>1, <1>2, <1>5, <1>7, <2>1, <2>3
  <2> QED
    BY <1>15, <2>2, <2>3 DEF Lip
<1>16. CASE Sp
  <2>1. Pcs /\ Uis /\ Frame /\ FramesIntact'
    BY <1>1, <1>3, <1>6, <1>16 DEF Sp, Privileged, Exec
  <2>2. PICK l \in Locs, m \in Masks, u \in BOOLEAN, n \in 0..3 :
          Restore(n, <<l, 1, [rm |-> m, q |-> u]>>)
    BY <1>16 DEF Sp
  <2> DEFINE frame == <<l, 1, [rm |-> m, q |-> u]>>
  <2>3. m \subseteq Groups
    BY InterruptsAssumption DEF Groups
  <2>4. frame[1] \in Locs /\ frame[2] \in 0..1 /\ frame[3] \in SRs
    BY <2>3 DEF SRs
  <2>5. Restore(n, frame)
    BY <2>2
  <2> HIDE DEF frame
  <2>6. rz' \subseteq 0..31 /\ Regs
    BY <2>4, <2>5, RestoreKeeps DEF Regs
  <2> QED
    BY <1>5, <2>1, <2>6
<1>17. CASE ResetStack
  <2>1. DOMAIN stack' = Room /\ \A a \in Room : stack'[a] \in WordAt(a)
    BY <1>17, ScratchedType DEF ResetStack, TypeOK
  <2>2. sp' = 0 /\ saved' = <<>> /\ Len(saved') = 0
    BY <1>17 DEF ResetStack
  <2>3. Frame /\ FramesIntact'
    BY <2>1, <2>2, InterruptsAssumption DEF Frame, FramesIntact
  <2> QED
    BY <1>2, <1>3, <1>5, <1>6, <1>17, <2>3 DEF ResetStack, Privileged, Exec, TypeOK
<1>18. CASE Im
  <2>1. Regs
    BY <1>18, InterruptsAssumption DEF Im, LoadMask, TypeOK, Regs, Groups
  <2> QED
    BY <1>1, <1>3, <1>5, <1>6, <1>18, <2>1 DEF Im, Privileged, Exec, TypeOK
<1>19. CASE Fi
  <2>1. Pcs
    BY <1>19 DEF Fi, TypeOK, Pcs
  <2> QED
    BY <1>1, <1>2, <1>3, <1>5, <1>19, <2>1 DEF Fi, TypeOK
<1>20. CASE FiCas
  <2>1. Pcs
    BY <1>20 DEF FiCas, TypeOK, Pcs
  <2>2. rz' \subseteq 0..31
    BY <1>20, InterruptsAssumption DEF FiCas, PutNchan, TypeOK, NChan
  <2> QED
    BY <1>1, <1>2, <1>3, <1>5, <1>20, <2>1, <2>2 DEF FiCas
<1>21. CASE SoftInt
  <2>1. rz' \subseteq 0..31
    BY <1>21, InterruptsAssumption DEF SoftInt, TypeOK, INT_CLOCK, INT_SOFT_U, INT_SOFT_L
  <2> QED
    BY <1>1, <1>2, <1>3, <1>5, <1>6, <1>21, <2>1 DEF SoftInt, Privileged, Exec
<1>22. CASE Mcl
  <2>1. q' = FALSE /\ r0' = 0 /\ rm' = {} /\ xmask' = {} /\ UNCHANGED ic
    BY <1>22 DEF Mcl, LoadMask
  <2>2. q' \in BOOLEAN
    BY <2>1, Zenon
  <2>3. Regs
    BY <2>1, <2>2 DEF TypeOK, Regs
  <2> QED
    BY <1>1, <1>3, <1>5, <1>6, <1>22, <2>3 DEF Mcl, Privileged, Exec
<1>23. CASE DevSet
  <2>1. rz' \subseteq 0..31
    BY <1>23, InterruptsAssumption DEF DevSet, TypeOK, Chan
  <2> QED
    BY <1>1, <1>2, <1>3, <1>4, <1>5, <1>23, <2>1 DEF DevSet
<1>24. CASE PanelSet
  <2>1. rz' \subseteq 0..31
    BY <1>24, InterruptsAssumption DEF PanelSet, TypeOK, NChan
  <2> QED
    BY <1>1, <1>2, <1>3, <1>4, <1>5, <1>24, <2>1 DEF PanelSet
<1>25. CASE PanelLoad
  <2>1. Uis
    BY <1>25, InterruptsAssumption DEF PanelLoad, TypeOK, Uis
  <2> QED
    BY <1>1, <1>2, <1>4, <1>5, <1>25, <2>1 DEF PanelLoad, TypeOK
<1>26. CASE PanelCas
  <2>1. Uis
    BY <1>26 DEF PanelCas, TypeOK, Uis
  <2>2. rz' \subseteq 0..31
    BY <1>26 DEF PanelCas, PutNchan, TypeOK, NChan
  <2> QED
    BY <1>1, <1>2, <1>4, <1>5, <1>26, <2>1, <2>2 DEF PanelCas
<1>27. CASE UNCHANGED vars
  BY <1>1, <1>2, <1>3, <1>4, <1>5, <1>27 DEF vars, TypeOK
<1> QED
  BY <1>8, <1>9, <1>10, <1>11, <1>12, <1>13, <1>14, <1>15, <1>16, <1>17, <1>18, <1>19,
     <1>20, <1>21, <1>22, <1>23, <1>24, <1>25, <1>26, <1>27 DEF Next, CpuStep

\* The stack holds every context that was interrupted and not returned to, and
\* each word of it is what it is read as: int_ctx_switch() and int_ctx_restore()
\* agree, whichever access of either fails.
THEOREM FramesAlwaysSound == Spec => []FramesSound
<1>1. TypeOK /\ FramesIntact => FramesSound
  BY DEF FramesSound
<1> QED
  BY InitFrames, StepFrames, <1>1, PTL DEF Spec

-----------------------------------------------------------------------------
(* Returning.  A step of the whole relation that is a LIP puts back the        *)
(* context saved last.                                                        *)

LEMMA LipReturns ==
  ASSUME TypeOK, FramesIntact, Lip, ~MemFails
  PROVE  LET c == saved[Len(saved)]
         IN  ic' = c.ic /\ r0' = c.r0 /\ rm' = c.sr.rm /\ q' = c.sr.q
<1>1. sp - 4 \in Room
  BY DEF Lip
<1> DEFINE frame == [k \in 1..3 |-> stack[sp - 5 + k]]
<1>2. PICK n \in 0..3 : Restore(n, frame)
  BY DEF Lip, MemFail
<1>3. LET c == saved[Len(saved)]
      IN  frame[1] = c.ic /\ frame[2] = c.r0 /\ frame[3] = c.sr
  BY <1>1, TopFrame
<1> HIDE DEF frame
<1>4. n = 3 /\ rm' = frame[3].rm /\ q' = frame[3].q /\ ic' = frame[1] /\ r0' = frame[2]
  BY <1>2 DEF Restore, MemFail, LoadMask
<1> QED
  BY <1>3, <1>4

\* LIP returns to exactly what was interrupted, through any nesting of
\* interrupts, EXL and SP, as long as memory answers (op_73_lip).
THEOREM AlwaysReturnsExactly == Spec => ReturnsExactly
<1> DEFINE Exactly == Lip /\ ~MemFails =>
                        LET c == saved[Len(saved)]
                        IN ic' = c.ic /\ r0' = c.r0 /\ rm' = c.sr.rm /\ q' = c.sr.q
<1>1. TypeOK /\ FramesIntact /\ [Next]_vars => [Exactly]_vars
  <2> SUFFICES ASSUME TypeOK, FramesIntact PROVE Exactly
    OBVIOUS
  <2> QED
    BY LipReturns
<1> HIDE DEF Exactly
<1>2. Spec => [][Exactly]_vars
  BY InitFrames, StepFrames, <1>1, PTL DEF Spec
<1> QED
  BY <1>2 DEF ReturnsExactly, Exactly

-----------------------------------------------------------------------------
(* Masks and priorities. *)

\* Pushing keeps all contexts there were, and may add the one interrupted.
LEMMA PushSaves ==
  ASSUME TypeOK, NEW spec \in 0..1, NEW int \in 0..32, NEW n \in 0..5, Push(n, spec, int)
  PROVE  /\ n # 5 => saved' = saved
         /\ n = 5 => /\ Len(saved') = Len(saved) + 1 /\ Len(saved) \in Nat
                     /\ \A k \in 1..Len(saved) : saved'[k] = saved[k]
                     /\ saved'[Len(saved')].sr.rm = rm /\ saved'[Len(saved')].int = int
<1>1. Interrupted(spec, int) \in Contexts
  BY DEF Interrupted, Contexts, TypeOK, SRs
<1>2. Interrupted(spec, int).sr.rm = rm /\ Interrupted(spec, int).int = int
  BY DEF Interrupted
<1>3. saved \in Seq(Contexts)
  BY DEF TypeOK
<1> QED
  BY <1>1, <1>2, <1>3, AppendProperties DEF Push

\* A switch to a handler for an interrupt that the mask lets through, or for EXL.
LEMMA CtxSwitchNarrows ==
  ASSUME IInv, NEW spec \in 0..1, NEW int \in 0..32, NEW mask,
         mask \subseteq MaskAfter(int),
         int \in 1..31 => Group(int) \in rm,
         CtxSwitch(spec, mask, int)
  PROVE  /\ xmask' = rm'
         /\ \A k \in 1..Len(saved') : rm' \subseteq MaskAfter(saved'[k].int)
         /\ \A j \in 1..Len(saved') : \A k \in 1..j - 1 :
              saved'[j].sr.rm \subseteq MaskAfter(saved'[k].int)
         /\ NestingOrdered'
<1>1. CASE /\ Push(5, spec, int)
           /\ LoadMask(rm \cap mask)
  <2>1. /\ Len(saved') = Len(saved) + 1 /\ Len(saved) \in Nat
        /\ \A k \in 1..Len(saved) : saved'[k] = saved[k]
        /\ saved'[Len(saved')].sr.rm = rm /\ saved'[Len(saved')].int = int
    <3>1. 5 \in 0..5 /\ Push(5, spec, int) /\ TypeOK
      BY <1>1 DEF IInv
    <3> QED
      BY <3>1, PushSaves
  <2>2. xmask' = rm' /\ rm' = rm \cap mask
    BY <1>1 DEF LoadMask
  <2>3. \A k \in 1..Len(saved) : rm \subseteq MaskAfter(saved[k].int)
    BY DEF IInv, MasksNarrow
  <2>4. ASSUME NEW k \in 1..Len(saved') PROVE rm' \subseteq MaskAfter(saved'[k].int)
    <3>1. CASE k = Len(saved')
      BY <2>1, <2>2, <3>1
    <3>2. CASE k \in 1..Len(saved)
      BY <2>1, <2>2, <2>3, <3>2
    <3> QED
      BY <2>1, <3>1, <3>2
  <2>5. ASSUME NEW j \in 1..Len(saved'), NEW k \in 1..j - 1
        PROVE  saved'[j].sr.rm \subseteq MaskAfter(saved'[k].int)
    <3>1. k \in 1..Len(saved) /\ saved'[k] = saved[k]
      BY <2>1
    <3>2. CASE j = Len(saved')
      BY <2>1, <2>3, <3>1, <3>2
    <3>3. CASE j \in 1..Len(saved)
      BY <2>1, <3>1, <3>3 DEF IInv, MasksNarrow
    <3> QED
      BY <2>1, <3>2, <3>3
  <2>6. ASSUME NEW j \in 2..Len(saved'), saved'[j].int \in 1..31, NEW k \in 1..j - 1
        PROVE  Group(saved'[j].int) < Group(saved'[k].int)
    <3>1. k \in 1..Len(saved) /\ saved'[k] = saved[k]
      BY <2>1
    <3>2. CASE j = Len(saved')
      <4>1. saved[k].int \in 0..32
        <5>1. saved \in Seq(Contexts)
          BY DEF IInv, TypeOK
        <5>2. saved[k] \in Contexts
          BY <3>1, <5>1
        <5> QED
          BY <5>2 DEF Contexts
      <4>2. Group(int) \in MaskAfter(saved[k].int) /\ int # 0 /\ saved'[j].int = int
        <5>1. saved'[j].int = int /\ int \in 1..31 /\ int # 0
          <6>1. saved'[j].int = int
            BY <2>1, <3>2, Zenon
          <6>2. int \in 1..31
            BY <2>6, <6>1, Zenon
          <6>3. int # 0
            BY <6>2
          <6> QED
            BY <6>1, <6>2, <6>3, Zenon
        <5>2. rm \subseteq MaskAfter(saved[k].int)
          BY <2>3, <3>1
        <5> QED
          BY <5>1, <5>2
      <4> QED
        BY <3>1, <4>1, <4>2, GroupOrder
    <3>3. CASE j \in 2..Len(saved)
      <4>1. saved'[j] = saved[j]
        BY <2>1, <3>3
      <4>2. saved[j].int \in 1..31
        BY <2>6, <4>1, Zenon
      <4>3. Group(saved[j].int) < Group(saved[k].int)
        BY <2>6, <3>3, <4>2, Zenon DEF IInv, NestingOrdered
      <4> QED
        BY <3>1, <4>1, <4>3, Zenon
    <3> QED
      BY <2>1, <3>2, <3>3
  <2> QED
    BY <2>2, <2>4, <2>5, <2>6 DEF NestingOrdered
<1>2. CASE /\ \E n \in 0..4 : Push(n, spec, int)
           /\ UNCHANGED registers
  <2>1. saved' = saved /\ rm' = rm /\ xmask' = xmask
    BY <1>2 DEF Push, registers
  <2> QED
    BY <2>1 DEF IInv, MasksNarrow, NestingOrdered
<1> QED
  BY <1>1, <1>2 DEF CtxSwitch

\* A program's mask in a handler is narrower than the one it replaces.
LEMMA NarrowedKeeps ==
  ASSUME IInv, rm' = xmask', rm' = rm \/ MayLoad(rm'), UNCHANGED saved,
         pc' \notin {"ack", "switch"}
  PROVE  MasksNarrow' /\ NestingOrdered'
<1>1. \A k \in 1..Len(saved) : rm' \subseteq MaskAfter(saved[k].int)
  <2>1. CASE saved = <<>>
    BY <2>1
  <2>2. CASE rm' \subseteq rm
    BY <2>2 DEF IInv, MasksNarrow
  <2> QED
    BY <2>1, <2>2 DEF MayLoad
<1> QED
  BY <1>1 DEF IInv, MasksNarrow, NestingOrdered

LEMMA StepMasks == IInv /\ [Next]_vars => MasksNarrow' /\ NestingOrdered'
<1> SUFFICES ASSUME IInv, [Next]_vars PROVE MasksNarrow' /\ NestingOrdered'
  OBVIOUS
<1> USE DEF registers, frames
<1>1. xmask = rm
  BY DEF IInv, MasksNarrow
<1>2. UNCHANGED <<rm, xmask, saved>> /\ pc' \notin {"ack", "switch"} => MasksNarrow' /\ NestingOrdered'
  BY DEF IInv, MasksNarrow, NestingOrdered
<1>3. UNCHANGED <<rm, xmask, saved, pc, cur>> => MasksNarrow' /\ NestingOrdered'
  BY DEF IInv, MasksNarrow, NestingOrdered
<1>4. CASE Boundary
  BY <1>2, <1>4 DEF Boundary
<1>5. CASE Serve
  <2>1. CASE Pending = {}
    BY <1>2, <1>5, <2>1 DEF Serve
  <2>2. CASE Pending # {}
    <3>1. rz \subseteq 0..31
      BY DEF IInv, TypeOK
    <3>2. Pending \subseteq 0..31 /\ \A i \in Pending : i = 0 \/ Group(i) \in xmask
      BY <3>1, PendingType
    <3>3. Pending \in SUBSET Nat
      <4>1. 0..31 \subseteq Nat
        OBVIOUS
      <4> QED
        BY <3>2, <4>1, Zenon
    <3>4. cur' \in Pending
      BY <1>5, <2>2, <3>3, LeastExists DEF Serve
    <3> QED
      BY <1>1, <1>5, <3>2, <3>4 DEF Serve, IInv, MasksNarrow, NestingOrdered
  <2> QED
    BY <2>1, <2>2
<1>6. CASE Ack
  BY <1>6 DEF Ack, IInv, MasksNarrow, NestingOrdered
<1>7. CASE Switch
  <2>1. CASE CtxSwitch(IF cur \in Chan THEN 1 ELSE 0, NewMask(cur), cur)
    <3>1. (IF cur \in Chan THEN 1 ELSE 0) \in 0..1 /\ cur \in 0..32
      BY DEF IInv, TypeOK
    <3>2. NewMask(cur) \subseteq MaskAfter(cur)
      BY DEF NewMask
    <3>3. cur \in 1..31 => Group(cur) \in rm
      BY <1>7 DEF Switch, IInv, MasksNarrow
    <3> QED
      BY <1>7, <2>1, <3>1, <3>2, <3>3, CtxSwitchNarrows DEF Switch, MasksNarrow
  <2>2. CASE UNCHANGED <<registers, frames>>
    BY <1>2, <1>7, <2>2 DEF Switch
  <2> QED
    BY <1>7, <2>1, <2>2 DEF Switch
<1>8. CASE Compute
  BY <1>2, <1>8 DEF Compute, Exec
<1>9. CASE Illegal
  BY <1>2, <1>9 DEF Illegal, Exec
<1>10. CASE Exl
  <2>1. CASE CtxSwitch(1, MaskAfter(EXL), EXL)
    <3>1. 1 \in 0..1 /\ EXL \in 0..32 /\ EXL \notin 1..31
      BY DEF EXL
    <3> QED
      BY <1>10, <2>1, <3>1, CtxSwitchNarrows DEF Exl, Exec, MasksNarrow
  <2>2. CASE UNCHANGED <<registers, frames>>
    BY <1>2, <1>10, <2>2 DEF Exl, Exec
  <2> QED
    BY <1>10, <2>1, <2>2 DEF Exl
<1>11. CASE Lip
  <2>1. pc' = "run" /\ sp - 4 \in Room
    BY <1>11 DEF Lip, Privileged, Exec
  <2>2. CASE /\ sp' = sp - 4 /\ stack' = Scratched(stack, sp')
             /\ saved' = SubSeq(saved, 1, Len(saved) - 1)
             /\ \E n \in 0..3 : Restore(n, [k \in 1..3 |-> stack[sp - 5 + k]])
    <3>1. /\ Len(saved) \in Nat \ {0} /\ Len(saved') = Len(saved) - 1
          /\ \A k \in 1..Len(saved') : saved'[k] = saved[k]
      BY <2>1, <2>2, PopKeeps DEF IInv
    <3>2. \/ UNCHANGED <<rm, xmask>>
          \/ rm' = saved[Len(saved)].sr.rm /\ xmask' = rm'
      <4> DEFINE frame == [k \in 1..3 |-> stack[sp - 5 + k]]
      <4>1. frame[3] = saved[Len(saved)].sr
        BY <2>1, TopFrame DEF IInv
      <4>2. PICK n \in 0..3 : Restore(n, frame)
        BY <2>2
      <4> HIDE DEF frame
      <4> QED
        BY <4>1, <4>2 DEF Restore, LoadMask
    <3>3. \A k \in 1..Len(saved') : rm' \subseteq MaskAfter(saved'[k].int)
      <4> TAKE k \in 1..Len(saved')
      <4>1. k \in 1..Len(saved) /\ Len(saved) \in 1..Len(saved) /\ k \in 1..Len(saved) - 1
        BY <3>1
      <4>2. saved'[k] = saved[k]
        BY <3>1
      <4> QED
        BY <3>2, <4>1, <4>2 DEF IInv, MasksNarrow
    <3>4. \A j \in 1..Len(saved') : \A k \in 1..j - 1 :
            saved'[j].sr.rm \subseteq MaskAfter(saved'[k].int)
      BY <3>1 DEF IInv, MasksNarrow
    <3>5. NestingOrdered'
      <4> SUFFICES ASSUME NEW j \in 2..Len(saved'), saved'[j].int \in 1..31, NEW k \in 1..j - 1
                   PROVE  Group(saved'[j].int) < Group(saved'[k].int)
        BY DEF NestingOrdered
      <4>1. j \in 2..Len(saved) /\ saved'[j] = saved[j] /\ saved'[k] = saved[k]
        BY <3>1
      <4> QED
        BY <4>1 DEF IInv, NestingOrdered
    <3> QED
      BY <1>1, <2>1, <3>2, <3>3, <3>4, <3>5 DEF MasksNarrow
  <2>3. CASE UNCHANGED <<registers, frames>>
    BY <1>2, <2>1, <2>3
  <2> QED
    BY <1>11, <2>2, <2>3 DEF Lip
<1>12. CASE Sp
  <2>1. UNCHANGED saved /\ pc' = "run"
    BY <1>12 DEF Sp, Privileged, Exec
  <2>2. PICK l \in Locs, m \in Masks, u \in BOOLEAN, n \in 0..3 :
          MayLoad(m) /\ Restore(n, <<l, 1, [rm |-> m, q |-> u]>>)
    BY <1>12 DEF Sp
  <2>3. rm' = xmask' /\ (rm' = rm \/ rm' = m)
    BY <1>1, <2>2 DEF Restore, LoadMask
  <2> QED
    BY <2>1, <2>2, <2>3, NarrowedKeeps
<1>13. CASE ResetStack
  BY <1>1, <1>13 DEF ResetStack, Privileged, Exec, MasksNarrow, NestingOrdered
<1>14. CASE Im
  <2>1. PICK m \in Masks : MayLoad(m) /\ LoadMask(m)
    BY <1>14 DEF Im
  <2> QED
    BY <1>14, <2>1, NarrowedKeeps DEF Im, LoadMask, Privileged, Exec
<1>15. CASE Fi
  BY <1>2, <1>15 DEF Fi
<1>16. CASE FiCas
  BY <1>2, <1>16 DEF FiCas
<1>17. CASE SoftInt
  BY <1>2, <1>17 DEF SoftInt, Privileged, Exec
<1>18. CASE Mcl
  <2>1. MayLoad(rm')
    BY <1>18 DEF Mcl, MayLoad, LoadMask
  <2> QED
    BY <1>18, <2>1, NarrowedKeeps DEF Mcl, LoadMask, Privileged, Exec
<1>19. CASE DevSet \/ PanelSet \/ PanelLoad \/ PanelCas \/ UNCHANGED vars
  BY <1>3, <1>19 DEF DevSet, PanelSet, PanelLoad, PanelCas, vars
<1> QED
  BY <1>4, <1>5, <1>6, <1>7, <1>8, <1>9, <1>10, <1>11, <1>12, <1>13, <1>14, <1>15,
     <1>16, <1>17, <1>18, <1>19 DEF Next, CpuStep

LEMMA InitMasks == Init => MasksNarrow /\ NestingOrdered
BY DEF Init, MasksNarrow, NestingOrdered

\* The invariant is inductive.
LEMMA Invariant == Spec => []IInv
<1>1. Init => IInv
  BY InitFrames, InitMasks DEF IInv
<1>2. IInv /\ [Next]_vars => IInv'
  BY StepFrames, StepMasks DEF IInv
<1> QED
  BY <1>1, <1>2, PTL DEF Spec

\* Interrupts nest by priority, at any depth: whatever masks programs load and
\* whatever fails, a handler that does not widen its mask is only interrupted by
\* a group above every one under it (int_int2mask against int_rm2xmask).
THEOREM NestingAlwaysOrdered == Spec => []NestingOrdered
BY Invariant, PTL DEF IInv

-----------------------------------------------------------------------------
(* Requests of channels. *)

LEMMA StepChannels ==
  [Next]_vars => \A i \in (rz \ rz') \cap Chan : (pc = "ack" /\ cur = i) \/ Mcl
<1> SUFFICES ASSUME [Next]_vars, NEW i \in Chan, i \in rz, i \notin rz'
             PROVE  (pc = "ack" /\ cur = i) \/ Mcl
  OBVIOUS
<1> USE DEF registers, frames
<1>1. ~ rz \subseteq rz'
  OBVIOUS
<1>2. CASE Boundary \/ Serve \/ Compute \/ Illegal \/ Im \/ Fi \/ ResetStack
  BY <1>1, <1>2 DEF Boundary, Serve, Compute, Illegal, Im, Fi, ResetStack
<1>3. CASE Ack
  BY <1>3 DEF Ack
<1>4. CASE Switch \/ Exl
  <2>1. rz \subseteq rz'
    BY <1>4 DEF Switch, Exl, CtxSwitch, MemFail
  <2> QED
    BY <1>1, <2>1
<1>5. CASE Lip \/ Sp
  <2>1. rz \subseteq rz'
    BY <1>5 DEF Lip, Sp, Restore, MemFail
  <2> QED
    BY <1>1, <2>1
<1>6. CASE FiCas \/ PanelCas
  BY <1>1, <1>6 DEF FiCas, PanelCas, PutNchan
<1>7. CASE SoftInt
  BY <1>7 DEF SoftInt, INT_SOFT_U, INT_SOFT_L, Chan
<1>8. CASE DevSet \/ PanelLoad \/ UNCHANGED vars
  BY <1>1, <1>8 DEF DevSet, PanelLoad, vars
<1>9. CASE PanelSet
  BY <1>9, InterruptsAssumption DEF PanelSet, NChan
<1> QED
  BY <1>2, <1>3, <1>4, <1>5, <1>6, <1>7, <1>8, <1>9 DEF Next, CpuStep

\* No request of a channel is ever lost to a load of RZ by either thread: only
\* serving it or clearing the machine takes it out of RZ (int_put_nchan).
THEOREM ChannelRequestsAlwaysKept == Spec => ChannelRequestsKept
BY StepChannels, PTL DEF Spec, ChannelRequestsKept
=============================================================================
