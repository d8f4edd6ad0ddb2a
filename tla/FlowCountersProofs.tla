-------------------------- MODULE FlowCountersProofs --------------------------
(***************************************************************************)
(* Proofs about FlowCounters for every number of contexts, flows and map   *)
(* entries and every set of packet lengths.                                *)
(*                                                                         *)
(* The argument.  What makes a flow exact is that every pointer a context  *)
(* still holds reaches the flow's own entry, or else both the context's    *)
(* flow and whoever owns that slot now are marked as disturbed (Pointers). *)
(* With it the counter of an undisturbed flow is what was sent, never less *)
(* than the collector's baseline, so a difference is never mistaken for a  *)
(* reset.                                                                  *)
(*                                                                         *)
(* That nothing is charged twice is a statement about sums over all flows  *)
(* (Covered): what waits in the entries never grows by more than was sent, *)
(* because two flows never share an entry.                                 *)
(***************************************************************************)
EXTENDS FlowCounters, SumTheorems, TLAPS

(* Where the pointers held by handlers lead. *)
Pointers ==
    \A c \in Contexts :
        /\ pc[c] = "again" => flow[c] \in Live \cup disturbed
        /\ pc[c] = "add" =>
             \/ table[flow[c]] = stats[c]
             \/ /\ flow[c] \in disturbed
                /\ \A g \in Live : table[g] = stats[c] => g \in disturbed

(* The baseline of an undisturbed flow is behind its counter. *)
Behind == \A f \in Flows \ disturbed : last[f] <= sent[f]

IInv == TypeOK /\ OneSlotEach /\ Pointers /\ Behind /\ ExactUnlessDisturbed

(* Init establishes the inductive invariant. *)
LEMMA InitEstablishes == Init => IInv
<1> SUFFICES ASSUME Init PROVE IInv
  OBVIOUS
<1> USE FlowAssumption DEF Init
<1>1. TypeOK
  BY DEF TypeOK
<1>2. Live = {}
  BY DEF Live
<1>3. OneSlotEach /\ Pointers
  BY <1>2 DEF OneSlotEach, Pointers
<1>4. Behind /\ ExactUnlessDisturbed
  BY <1>2 DEF Behind, ExactUnlessDisturbed
<1>5. QED BY <1>1, <1>3, <1>4 DEF IInv

(* Every step keeps the types. *)
LEMMA TypeStep == TypeOK /\ [Next]_vars => TypeOK'
<1> SUFFICES ASSUME TypeOK, [Next]_vars PROVE TypeOK'
  OBVIOUS
<1> USE FlowAssumption DEF kernelVars, collectorVars, TypeOK
<1>1. CASE UNCHANGED vars
  BY <1>1 DEF vars
<1>2. ASSUME NEW c \in Contexts, Lookup(c) PROVE TypeOK'
  BY <1>2 DEF Lookup
<1>3. ASSUME NEW c \in Contexts, Create(c) PROVE TypeOK'
  BY <1>3 DEF Create, Displaced, Live
<1>4. ASSUME NEW c \in Contexts, LookupAgain(c) PROVE TypeOK'
  BY <1>4 DEF LookupAgain
<1>5. ASSUME NEW c \in Contexts, AddBytes(c) PROVE TypeOK'
  BY <1>5 DEF AddBytes
<1>6. CASE BeginWalk \/ EndWalk
  BY <1>6 DEF BeginWalk, EndWalk
<1>7. ASSUME NEW f \in Flows, Visit(f) PROVE TypeOK'
  <2>1. f \in known => Uncollected(f) \in Nat
    BY <1>7 DEF Visit, Uncollected, Diff, Live
  <2>2. charged' \in [Flows -> Nat] /\ last' \in [Flows -> Nat]
    BY <1>7, <2>1 DEF Visit, Live
  <2>3. QED BY <1>7, <2>2 DEF Visit, Live
<1>8. ASSUME NEW f \in Flows, PodsChange(f) PROVE TypeOK'
  BY <1>8 DEF PodsChange
<1>9. QED BY <1>1, <1>2, <1>3, <1>4, <1>5, <1>6, <1>7, <1>8 DEF Next, Handle

(* The facts of the invariant depend on these variables only. *)
LEMMA Unmoved ==
    IInv /\ TypeOK' /\ UNCHANGED <<table, bytes, pc, flow, stats, last, sent, charged, disturbed>> => IInv'
  BY DEF IInv, OneSlotEach, Pointers, Behind, ExactUnlessDisturbed, Live

(* A lookup hands the context the pointer to its own flow's entry. *)
LEMMA LookupStep ==
    ASSUME IInv, NEW c \in Contexts, Lookup(c), TypeOK'
    PROVE  IInv'
<1> USE DEF kernelVars, collectorVars
<1>1. PICK f \in Flows :
        /\ flow' = [flow EXCEPT ![c] = f] /\ stats' = [stats EXCEPT ![c] = table[f]]
        /\ pc' = [pc EXCEPT ![c] = IF table[f] = None THEN "create" ELSE "add"]
  BY DEF Lookup
<1>2. UNCHANGED <<table, bytes, sent, disturbed, last, charged>>
  BY DEF Lookup
<1>3. Pointers'
  <2>1. SUFFICES ASSUME NEW d \in Contexts
                 PROVE  /\ pc'[d] = "again" => flow'[d] \in Live \cup disturbed
                        /\ pc'[d] = "add" =>
                             \/ table[flow'[d]] = stats'[d]
                             \/ /\ flow'[d] \in disturbed
                                /\ \A g \in Live : table[g] = stats'[d] => g \in disturbed
    BY <1>2 DEF Pointers, Live
  <2>2. CASE d = c
    BY <2>2, <1>1 DEF IInv, TypeOK
  <2>3. CASE d # c
    BY <2>3, <1>1 DEF IInv, TypeOK, Pointers
  <2>4. QED BY <2>2, <2>3
<1>4. QED BY <1>2, <1>3 DEF IInv, OneSlotEach, Behind, ExactUnlessDisturbed, Live

(* Creating an entry disturbs every flow whose entry goes, and the flow itself
   when its new slot still has a writer. *)
LEMMA CreateStep ==
    ASSUME IInv, NEW c \in Contexts, Create(c), TypeOK'
    PROVE  IInv'
<1> USE DEF kernelVars, collectorVars
<1> DEFINE f == flow[c]
<1>1. PICK s \in Slots :
        /\ table' = [g \in Flows |-> IF g = f THEN s ELSE IF table[g] = s THEN None ELSE table[g]]
        /\ bytes' = [bytes EXCEPT ![s] = 0]
        /\ disturbed' = disturbed \cup Displaced(f, s) \cup (IF Writers(s) # {} THEN {f} ELSE {})
  BY DEF Create
<1>2. UNCHANGED <<flow, stats, sent, last, charged>> /\ pc' = [pc EXCEPT ![c] = "again"]
  BY DEF Create
<1>3. f \in Flows /\ s # None /\ pc[c] = "create"
  BY FlowAssumption DEF Create, IInv, TypeOK
<1>4. /\ table'[f] = s
      /\ \A g \in Flows \ {f} : table'[g] = IF table[g] = s THEN None ELSE table[g]
  BY <1>1, <1>3
<1>5. \A g \in Flows \ disturbed' : /\ g \notin disturbed
                                    /\ g = f => table[g] = None /\ Writers(s) = {}
                                    /\ table[g] # s
  BY <1>1, <1>3 DEF Displaced, Live
<1>6. \A g \in Flows : table'[g] = s => g = f
  BY <1>3, <1>4
<1>7. OneSlotEach'
  <2>1. ASSUME NEW g \in Flows, NEW h \in Flows, table'[g] # None, table'[h] # None, table'[g] = table'[h]
        PROVE  g = h
    <3>1. CASE table'[g] = s
      BY <3>1, <2>1, <1>6
    <3>2. CASE table'[g] # s
      <4>1. table'[g] = table[g] /\ table'[h] = table[h]
        BY <3>2, <2>1, <1>4
      <4>2. QED BY <4>1, <2>1 DEF IInv, OneSlotEach, Live
    <3>3. QED BY <3>1, <3>2
  <2>2. QED BY <2>1 DEF OneSlotEach, Live
<1>8. Pointers'
  <2>1. ASSUME NEW d \in Contexts, pc'[d] = "again"
        PROVE  flow[d] \in Live' \cup disturbed'
    <3>1. CASE d = c
      BY <3>1, <1>3, <1>4 DEF Live
    <3>2. CASE d # c
      <4>1. pc[d] = "again" /\ flow[d] \in Flows
        BY <2>1, <3>2, <1>2 DEF IInv, TypeOK
      <4>2. flow[d] \in Live \cup disturbed
        BY <4>1 DEF IInv, Pointers
      <4>3. QED BY <4>1, <4>2, <1>1, <1>4, <1>3 DEF Live, Displaced
    <3>3. QED BY <3>1, <3>2
  <2>2. ASSUME NEW d \in Contexts, pc'[d] = "add"
        PROVE  \/ table'[flow[d]] = stats[d]
               \/ /\ flow[d] \in disturbed'
                  /\ \A g \in Live' : table'[g] = stats[d] => g \in disturbed'
    <3>1. pc[d] = "add" /\ flow[d] \in Flows /\ stats[d] \in Slots
      <4>1. d # c
        BY <2>2, <1>2 DEF IInv, TypeOK
      <4>2. QED BY <4>1, <2>2, <1>2 DEF IInv, TypeOK
    <3>2. stats[d] = s => f \in disturbed'
      BY <3>1, <1>1 DEF Writers
    <3>3. stats[d] # None
      BY <3>1, FlowAssumption
    <3>4. CASE table[flow[d]] = stats[d]
      <4>1. CASE flow[d] # f /\ stats[d] # s
        BY <4>1, <3>1, <3>4, <1>4
      <4>2. CASE flow[d] = f \/ stats[d] = s
        <5>1. flow[d] \in disturbed'
          BY <4>2, <3>1, <3>3, <3>4, <1>1 DEF Displaced, Live
        <5>2. ASSUME NEW g \in Flows, table'[g] = stats[d]
              PROVE  g \in disturbed'
          <6>1. CASE stats[d] = s
            BY <6>1, <5>2, <3>2, <1>6
          <6>2. CASE stats[d] # s
            <7>1. g # f /\ table[g] = stats[d]
              BY <6>2, <5>2, <1>4, <3>3
            <7>2. g = flow[d]
              BY <7>1, <3>1, <3>3, <3>4 DEF IInv, OneSlotEach, Live
            <7>3. QED BY <7>2, <5>1
          <6>3. QED BY <6>1, <6>2
        <5>3. QED BY <5>1, <5>2 DEF Live
      <4>3. QED BY <4>1, <4>2
    <3>5. CASE /\ flow[d] \in disturbed
               /\ \A g \in Live : table[g] = stats[d] => g \in disturbed
      <4>1. ASSUME NEW g \in Flows, table'[g] = stats[d]
            PROVE  g \in disturbed'
        <5>1. CASE stats[d] = s
          BY <5>1, <4>1, <3>2, <1>6
        <5>2. CASE stats[d] # s
          BY <5>2, <4>1, <3>3, <3>5, <1>1, <1>4 DEF Live
        <5>3. QED BY <5>1, <5>2
      <4>2. flow[d] \in disturbed'
        BY <3>5, <1>1
      <4>3. QED BY <4>1, <4>2 DEF Live
    <3>6. QED BY <3>1, <3>4, <3>5 DEF IInv, Pointers
  <2>3. QED BY <2>1, <2>2, <1>2 DEF Pointers
<1>9. Behind'
  BY <1>2, <1>5 DEF IInv, Behind
<1>10. ExactUnlessDisturbed'
  <2>1. ASSUME NEW g \in Flows \ disturbed'
        PROVE  /\ charged[g] = last[g]
               /\ sent[g] = IF table'[g] # None THEN bytes'[table'[g]] ELSE 0
    <3>1. charged[g] = last[g] /\ sent[g] = IF table[g] # None THEN bytes[table[g]] ELSE 0
      BY <2>1, <1>5 DEF IInv, ExactUnlessDisturbed, Live
    <3>2. CASE g = f
      <4>1. table'[g] = s /\ bytes'[s] = 0 /\ table[g] = None
        BY <3>2, <2>1, <1>1, <1>4, <1>5 DEF IInv, TypeOK
      <4>2. QED BY <4>1, <3>1, <1>3
    <3>3. CASE g # f
      <4>1. table'[g] = table[g] /\ table[g] # s /\ table[g] \in Slots \cup {None}
        BY <3>3, <2>1, <1>4, <1>5 DEF IInv, TypeOK
      <4>2. table[g] # None => bytes'[table[g]] = bytes[table[g]]
        BY <4>1, <1>1 DEF IInv, TypeOK
      <4>3. QED BY <3>1, <4>1, <4>2
    <3>4. QED BY <3>2, <3>3
  <2>2. QED BY <2>1, <1>2 DEF ExactUnlessDisturbed, Live
<1>11. QED BY <1>7, <1>8, <1>9, <1>10 DEF IInv

(* The second lookup finds the flow's own entry, or the flow has been disturbed. *)
LEMMA LookupAgainStep ==
    ASSUME IInv, NEW c \in Contexts, LookupAgain(c), TypeOK'
    PROVE  IInv'
<1> USE DEF kernelVars, collectorVars
<1> DEFINE f == flow[c]
<1>1. /\ UNCHANGED <<table, bytes, flow, disturbed, last, charged>>
      /\ pc[c] = "again" /\ stats' = [stats EXCEPT ![c] = table[f]]
  BY DEF LookupAgain
<1>2. f \in Flows /\ f \in Live \cup disturbed
  BY <1>1 DEF IInv, TypeOK, Pointers
<1>3. /\ pc' = [pc EXCEPT ![c] = IF table[f] = None THEN "idle" ELSE "add"]
      /\ \A g \in Flows \ disturbed : sent'[g] = sent[g]
  <2>1. CASE table[f] = None
    <3>1. f \in disturbed
      BY <2>1, <1>2 DEF Live
    <3>2. PICK n \in Lengths : sent' = [sent EXCEPT ![f] = @ + n]
      BY <2>1 DEF LookupAgain
    <3>3. QED BY <2>1, <3>1, <3>2 DEF LookupAgain, IInv, TypeOK
  <2>2. CASE table[f] # None
    BY <2>2 DEF LookupAgain
  <2>3. QED BY <2>1, <2>2
<1>4. Pointers'
  <2>1. SUFFICES ASSUME NEW d \in Contexts
                 PROVE  /\ pc'[d] = "again" => flow[d] \in Live \cup disturbed
                        /\ pc'[d] = "add" =>
                             \/ table[flow[d]] = stats'[d]
                             \/ /\ flow[d] \in disturbed
                                /\ \A g \in Live : table[g] = stats'[d] => g \in disturbed
    BY <1>1 DEF Pointers, Live
  <2>2. CASE d = c
    BY <2>2, <1>1, <1>3 DEF IInv, TypeOK
  <2>3. CASE d # c
    BY <2>3, <1>1, <1>3 DEF IInv, TypeOK, Pointers
  <2>4. QED BY <2>2, <2>3
<1>5. Behind' /\ ExactUnlessDisturbed'
  BY <1>1, <1>3 DEF IInv, Behind, ExactUnlessDisturbed, Live
<1>6. OneSlotEach'
  BY <1>1 DEF IInv, OneSlotEach, Live
<1>7. QED BY <1>4, <1>5, <1>6 DEF IInv

(* An add reaches the flow's own counter, or only disturbed flows are concerned. *)
LEMMA AddStep ==
    ASSUME IInv, NEW c \in Contexts, AddBytes(c), TypeOK'
    PROVE  IInv'
<1> USE DEF kernelVars, collectorVars
<1> DEFINE f == flow[c]
<1>1. PICK n \in Lengths : /\ bytes' = [bytes EXCEPT ![stats[c]] = @ + n]
                           /\ sent' = [sent EXCEPT ![f] = @ + n]
  BY DEF AddBytes
<1>2. /\ UNCHANGED <<table, flow, stats, disturbed, last, charged>>
      /\ pc[c] = "add" /\ pc' = [pc EXCEPT ![c] = "idle"]
  BY DEF AddBytes
<1>3. f \in Flows /\ stats[c] \in Slots /\ n \in Nat /\ stats[c] # None
  BY <1>2, FlowAssumption DEF IInv, TypeOK
<1>4. /\ \A g \in Flows : sent'[g] = IF g = f THEN sent[g] + n ELSE sent[g]
      /\ \A s \in Slots : bytes'[s] = IF s = stats[c] THEN bytes[s] + n ELSE bytes[s]
  BY <1>1, <1>3 DEF IInv, TypeOK
<1>5. Pointers'
  BY <1>2 DEF IInv, TypeOK, Pointers, Live
<1>6. Behind'
  BY <1>2, <1>3, <1>4 DEF IInv, TypeOK, Behind
<1>7. ExactUnlessDisturbed'
  <2>1. SUFFICES ASSUME NEW g \in Flows \ disturbed
                 PROVE  sent'[g] = IF table[g] # None THEN bytes'[table[g]] ELSE 0
    BY <1>2 DEF IInv, ExactUnlessDisturbed, Live
  <2>2. sent[g] = IF table[g] # None THEN bytes[table[g]] ELSE 0
    BY DEF IInv, ExactUnlessDisturbed, Live
  <2>3. table[g] \in Slots \cup {None}
    BY DEF IInv, TypeOK
  <2>4. CASE g = f
    <3>1. table[g] = stats[c]
      BY <2>4, <1>2 DEF IInv, Pointers
    <3>2. QED BY <3>1, <2>2, <2>4, <1>3, <1>4
  <2>5. CASE g # f
    <3>1. table[g] # stats[c]
      <4>1. CASE table[f] = stats[c]
        BY <4>1, <2>5, <1>3 DEF IInv, OneSlotEach, Live
      <4>2. CASE table[f] # stats[c]
        BY <4>2, <2>1, <1>2, <1>3 DEF IInv, Pointers, Live
      <4>3. QED BY <4>1, <4>2
    <3>2. QED BY <3>1, <2>2, <2>3, <2>5, <1>4
  <2>6. QED BY <2>4, <2>5
<1>8. OneSlotEach'
  BY <1>2 DEF IInv, OneSlotEach, Live
<1>9. QED BY <1>5, <1>6, <1>7, <1>8 DEF IInv

(* A visit charges an undisturbed flow exactly what its counter gained. *)
LEMMA VisitStep ==
    ASSUME IInv, NEW f \in Flows, Visit(f), TypeOK'
    PROVE  IInv'
<1> USE DEF kernelVars, collectorVars
<1>1. UNCHANGED <<table, bytes, pc, flow, stats, sent, disturbed>> /\ f \in Live
  BY DEF Visit
<1>2. CASE f \notin known
  BY <1>2, Unmoved DEF Visit
<1>3. CASE f \in known
  <2>1. /\ charged' = [charged EXCEPT ![f] = @ + Uncollected(f)]
        /\ last' = [last EXCEPT ![f] = bytes[table[f]]]
    BY <1>3 DEF Visit
  <2>2. table[f] \in Slots /\ bytes[table[f]] \in Nat
    BY <1>1 DEF IInv, TypeOK, Live
  <2>3. ASSUME NEW g \in Flows \ disturbed
        PROVE  last'[g] <= sent[g] /\ charged'[g] = last'[g]
    <3>1. /\ last[g] <= sent[g] /\ charged[g] = last[g] /\ last[g] \in Nat
          /\ g \in Live => sent[g] = bytes[table[g]]
      BY DEF IInv, TypeOK, Behind, ExactUnlessDisturbed
    <3>2. CASE g = f
      <4>1. Uncollected(f) = bytes[table[f]] - last[f]
        BY <3>1, <3>2, <2>2, <1>1 DEF Uncollected, Diff
      <4>2. charged'[f] = charged[f] + Uncollected(f) /\ last'[f] = bytes[table[f]]
        BY <2>1 DEF IInv, TypeOK
      <4>3. QED BY <3>1, <3>2, <4>1, <4>2, <2>2, <1>1
    <3>3. CASE g # f
      BY <3>1, <3>3, <2>1 DEF IInv, TypeOK
    <3>4. QED BY <3>2, <3>3
  <2>4. Behind' /\ ExactUnlessDisturbed'
    BY <2>3, <1>1 DEF IInv, Behind, ExactUnlessDisturbed, Live
  <2>5. OneSlotEach' /\ Pointers'
    BY <1>1 DEF IInv, OneSlotEach, Pointers, Live
  <2>6. QED BY <2>4, <2>5 DEF IInv
<1>4. QED BY <1>2, <1>3

(* The invariant holds in every state. *)
THEOREM Invariance == Spec => []IInv
<1>1. IInv /\ [Next]_vars => IInv'
  <2> SUFFICES ASSUME IInv, [Next]_vars PROVE IInv'
    OBVIOUS
  <2>0. TypeOK'
    BY TypeStep DEF IInv
  <2>1. CASE UNCHANGED vars
    BY <2>0, <2>1, Unmoved DEF vars, kernelVars, collectorVars
  <2>2. CASE BeginWalk \/ EndWalk \/ \E f \in Flows : PodsChange(f)
    BY <2>0, <2>2, Unmoved DEF BeginWalk, EndWalk, PodsChange, kernelVars, collectorVars
  <2>3. CASE \E c \in Contexts : Lookup(c) \/ Handle(c)
    BY <2>0, <2>3, LookupStep, CreateStep, LookupAgainStep, AddStep DEF Handle
  <2>4. CASE \E f \in Flows : Visit(f)
    BY <2>0, <2>4, VisitStep
  <2>5. QED BY <2>1, <2>2, <2>3, <2>4 DEF Next
<1>2. QED BY <1>1, InitEstablishes, PTL DEF Spec

(* Types, and no handler adds through NULL. *)
THEOREM TypeCorrect == Spec => []TypeOK
<1>1. IInv => TypeOK
  BY DEF IInv
<1>2. QED BY <1>1, Invariance, PTL

(* A flow that keeps its first entry is counted and charged to the byte. *)
THEOREM UndisturbedExact == Spec => []ExactUnlessDisturbed
<1>1. IInv => ExactUnlessDisturbed
  BY DEF IInv
<1>2. QED BY <1>1, Invariance, PTL

-----------------------------------------------------------------------------
(* What is charged and what waits in the map *)

Waiting == [f \in Flows |-> IF f \in Live THEN Uncollected(f) ELSE 0]

Covered == SumOf(charged, Flows) + SumOf(Waiting, Flows) <= SumOf(sent, Flows)

(* All three are numbers for every flow. *)
Numbers ==
    /\ \A f \in Flows : charged[f] \in Int /\ sent[f] \in Int /\ Waiting[f] \in Nat /\ Waiting[f] \in Int
    /\ SumOf(charged, Flows) \in Int /\ SumOf(sent, Flows) \in Int /\ SumOf(Waiting, Flows) \in Int

(* The amounts are numbers. *)
LEMMA Amounts == TypeOK => Numbers
<1> SUFFICES ASSUME TypeOK PROVE Numbers
  OBVIOUS
<1>1. IsFiniteSet(Flows)
  BY FlowAssumption
<1>2. \A f \in Flows : charged[f] \in Int /\ sent[f] \in Int
  BY DEF TypeOK
<1>3. ASSUME NEW f \in Flows PROVE Waiting[f] \in Nat /\ Waiting[f] \in Int
  <2>1. f \in Live => table[f] \in Slots /\ bytes[table[f]] \in Nat /\ last[f] \in Nat
    BY DEF Live, TypeOK
  <2>2. f \in Live => Uncollected(f) \in Nat
    BY <2>1 DEF Uncollected, Diff
  <2> QED BY <2>2 DEF Waiting
<1>4. SumOf(charged, Flows) \in Int /\ SumOf(sent, Flows) \in Int
  BY <1>1, <1>2, SumInt
<1>5. SumOf(Waiting, Flows) \in Int
  BY <1>1, <1>3, SumInt
<1> QED BY <1>2, <1>3, <1>4, <1>5 DEF Numbers

(* Covered is NothingChargedTwice with every flow in both sums. *)
LEMMA CoveredSaysIt == TypeOK => (NothingChargedTwice <=> Covered)
<1> SUFFICES ASSUME TypeOK PROVE NothingChargedTwice <=> Covered
  OBVIOUS
<1>0. /\ IsFiniteSet(Flows) /\ Live \subseteq Flows
      /\ \A f \in Flows : Waiting[f] \in Int
  BY Amounts, FlowAssumption DEF Live, Numbers
<1>1. /\ MapThenSumSet(LAMBDA f : charged[f], Flows) = SumOf(charged, Flows)
      /\ MapThenSumSet(LAMBDA f : sent[f], Flows) = SumOf(sent, Flows)
  BY DEF SumOf
<1> DEFINE E(g) == g = [s \in SUBSET Live |-> IF s = {} THEN 0 ELSE Uncollected(Pick(s)) + g[s \ {Pick(s)}]]
<1>2. MapThenSumSet(Uncollected, Live) = (CHOOSE g : E(g))[Live]
  BY DEF MapThenSumSet, MapThenFoldSet, Pick
<1>3. IsFiniteSet(Live)
  BY <1>0, FS_Subset
<1>4. \A g : E(g) <=> SumEquation(Waiting, Live, g)
  <2>1. \A s \in SUBSET Live : s # {} => Pick(s) \in Live
    BY Picked
  <2>2. \A s \in SUBSET Live : s # {} => Waiting[Pick(s)] = Uncollected(Pick(s))
    BY <2>1, <1>0 DEF Waiting
  <2> QED BY <2>2 DEF SumEquation
<1>5. E(CHOOSE g : E(g))
  <2>1. SumEquation(Waiting, Live, Sums(Waiting, Live))
    BY <1>3, SumExists
  <2> HIDE DEF E
  <2> QED BY <1>4, <2>1
<1>6. MapThenSumSet(Uncollected, Live) = SumOf(Waiting, Live)
  <2> DEFINE k == CHOOSE g : E(g)
  <2>1. SumEquation(Waiting, Live, k)
    <3> HIDE DEF E
    <3> QED BY <1>4, <1>5
  <2> HIDE DEF k
  <2>2. k[Live] = SumOf(Waiting, Live)
    BY <1>3, <2>1, SumChosen
  <2> QED BY <1>2, <2>2 DEF k
<1>7. SumOf(Waiting, Flows) = SumOf(Waiting, Live)
  <2>1. \A f \in Flows \ Live : Waiting[f] = 0
    BY DEF Waiting
  <2> QED BY <1>0, <2>1, SumSupport
<1> QED BY <1>1, <1>6, <1>7 DEF NothingChargedTwice, Covered

(* A creation empties entries and fills none. *)
LEMMA CreateCovers ==
    ASSUME IInv, TypeOK', Covered, NEW c \in Contexts, Create(c)
    PROVE  Covered'
<1>0. TypeOK
  BY DEF IInv
<1>1. flow[c] \in Flows /\ UNCHANGED <<charged, sent, last>>
  BY <1>0 DEF TypeOK, Create, collectorVars
<1>2. PICK s \in Slots :
        /\ table' = [g \in Flows |-> IF g = flow[c] THEN s ELSE IF table[g] = s THEN None ELSE table[g]]
        /\ bytes' = [bytes EXCEPT ![s] = 0]
  BY DEF Create
<1>3. ASSUME NEW f \in Flows PROVE Waiting'[f] <= Waiting[f]
  <2>0. Waiting[f] \in Nat /\ last[f] \in Nat
    BY <1>0, Amounts DEF TypeOK, Numbers
  <2>1. CASE f = flow[c]
    <3>1. table'[f] = s /\ bytes'[s] = 0 /\ f \in Live'
      BY <1>0, <1>2, <2>1, FlowAssumption DEF TypeOK, Live
    <3>2. Waiting'[f] = Diff(0, last[f])
      BY <3>1, <1>1 DEF Waiting, Uncollected
    <3>3. Diff(0, last[f]) = 0
      BY <2>0 DEF Diff
    <3> QED BY <2>0, <3>2, <3>3
  <2>2. CASE f # flow[c] /\ table[f] = s
    <3>1. f \notin Live'
      BY <1>2, <2>2 DEF Live
    <3> QED BY <2>0, <3>1 DEF Waiting
  <2>3. CASE f # flow[c] /\ table[f] # s
    <3>1. table'[f] = table[f]
      BY <1>2, <2>3
    <3>2. f \in Live => table[f] \in Slots /\ bytes'[table[f]] = bytes[table[f]]
      BY <1>0, <1>2, <2>3 DEF TypeOK, Live
    <3>3. Waiting'[f] = Waiting[f]
      BY <1>1, <3>1, <3>2 DEF Waiting, Live, Uncollected
    <3> QED BY <2>0, <3>3
  <2> QED BY <2>1, <2>2, <2>3
<1>4. SumOf(Waiting, Flows)' <= SumOf(Waiting, Flows)
  <2>1. \A f \in Flows : Waiting'[f] \in Int /\ Waiting[f] \in Int
    <3>1. (TypeOK => Numbers)'
      BY Amounts, PTL
    <3> QED BY <1>0, <3>1, Amounts DEF Numbers
  <2>2. SumOf(Waiting', Flows) <= SumOf(Waiting, Flows)
    BY <1>3, <2>1, FlowAssumption, SumLeq
  <2> QED BY <2>2
<1>5. Numbers /\ Numbers'
  <2>1. (TypeOK => Numbers)'
    BY Amounts, PTL
  <2> QED BY <1>0, <2>1, Amounts
<1> QED BY <1>1, <1>4, <1>5 DEF Covered, Numbers

(* An add reaches at most one entry, and what it holds back grows by no more than
   was sent. *)
LEMMA AddCovers ==
    ASSUME IInv, TypeOK', Covered, NEW c \in Contexts, AddBytes(c)
    PROVE  Covered'
<1>0. TypeOK /\ OneSlotEach
  BY DEF IInv
<1>1. PICK n \in Lengths :
        /\ bytes' = [bytes EXCEPT ![stats[c]] = @ + n]
        /\ sent' = [sent EXCEPT ![flow[c]] = @ + n]
  BY DEF AddBytes
<1>2. /\ n \in Nat /\ stats[c] \in Slots /\ flow[c] \in Flows
      /\ UNCHANGED <<table, last, charged>>
  BY <1>0, FlowAssumption DEF TypeOK, AddBytes, collectorVars
<1>3. Numbers /\ Numbers'
  <2>1. (TypeOK => Numbers)'
    BY Amounts, PTL
  <2> QED BY <1>0, <2>1, Amounts
<1>4. SumOf(sent, Flows)' = SumOf(sent, Flows) + n
  <2>1. /\ \A f \in Flows : sent[f] \in Int /\ sent'[f] \in Int
        /\ \A f \in Flows \ {flow[c]} : sent[f] = sent'[f]
        /\ sent'[flow[c]] = sent[flow[c]] + n
    BY <1>0, <1>1, <1>2 DEF TypeOK
  <2>2. SumOf(sent', Flows) - SumOf(sent, Flows) = sent'[flow[c]] - sent[flow[c]]
        /\ SumOf(sent, Flows) \in Int /\ SumOf(sent', Flows) \in Int
    BY <1>2, <2>1, FlowAssumption, SumPoint
  <2>3. sent[flow[c]] \in Int
    BY <1>2, <2>1
  <2> QED BY <1>2, <2>1, <2>2, <2>3
<1>5. ASSUME NEW f \in Flows, f \notin Live \/ table[f] # stats[c] PROVE Waiting'[f] = Waiting[f]
  BY <1>0, <1>1, <1>2, <1>5 DEF Waiting, Live, Uncollected, TypeOK
<1>6. ASSUME NEW f \in Live, table[f] = stats[c] PROVE Waiting'[f] <= Waiting[f] + n
  <2>1. f \in Flows /\ bytes[stats[c]] \in Nat /\ bytes'[stats[c]] = bytes[stats[c]] + n /\ last[f] \in Nat
    BY <1>0, <1>1, <1>2 DEF Live, TypeOK
  <2>2. Waiting[f] = Diff(bytes[stats[c]], last[f]) /\ Waiting'[f] = Diff(bytes[stats[c]] + n, last[f])
    BY <1>2, <1>6, <2>1 DEF Waiting, Live, Uncollected
  <2>3. \A b, l \in Nat : Diff(b + n, l) <= Diff(b, l) + n
    BY <1>2 DEF Diff
  <2> QED BY <2>1, <2>2, <2>3
<1>7. SumOf(Waiting', Flows) <= SumOf(Waiting, Flows) + n
  <2>1. \A f \in Flows : Waiting[f] \in Int /\ Waiting'[f] \in Int
    BY <1>3 DEF Numbers
  <2>2. CASE \E f \in Live : table[f] = stats[c]
    <3>1. PICK f \in Live : table[f] = stats[c]
      BY <2>2
    <3>2. f \in Flows /\ \A g \in Flows \ {f} : Waiting[g] = Waiting'[g]
      BY <1>0, <1>5, <3>1 DEF Live, OneSlotEach
    <3>3. SumOf(Waiting', Flows) - SumOf(Waiting, Flows) = Waiting'[f] - Waiting[f]
          /\ SumOf(Waiting, Flows) \in Int /\ SumOf(Waiting', Flows) \in Int
      BY <2>1, <3>2, FlowAssumption, SumPoint
    <3>4. Waiting'[f] <= Waiting[f] + n /\ Waiting[f] \in Int /\ Waiting'[f] \in Int
      BY <1>6, <2>1, <3>1, <3>2
    <3> QED BY <1>2, <3>3, <3>4
  <2>3. CASE ~\E f \in Live : table[f] = stats[c]
    <3>1. \A f \in Flows : Waiting[f] = Waiting'[f]
      BY <1>5, <2>3
    <3>2. SumOf(Waiting, Flows) = SumOf(Waiting', Flows)
      BY <3>1, FlowAssumption, SumSame
    <3>3. SumOf(Waiting, Flows) \in Int
      BY <1>3 DEF Numbers
    <3> QED BY <1>2, <3>2, <3>3
  <2> QED BY <2>2, <2>3
<1> QED BY <1>2, <1>3, <1>4, <1>7 DEF Covered, Numbers

(* A visit moves what waits to what is charged. *)
LEMMA VisitCovers ==
    ASSUME IInv, TypeOK', Covered, NEW f \in Flows, Visit(f), f \in known
    PROVE  Covered'
<1>0. TypeOK
  BY DEF IInv
<1>1. /\ charged' = [charged EXCEPT ![f] = @ + Uncollected(f)]
      /\ last' = [last EXCEPT ![f] = bytes[table[f]]]
      /\ UNCHANGED <<table, bytes, sent>> /\ f \in Live
  BY DEF Visit, kernelVars
<1>2. Numbers /\ Numbers'
  <2>1. (TypeOK => Numbers)'
    BY Amounts, PTL
  <2> QED BY <1>0, <2>1, Amounts
<1>3. Waiting[f] = Uncollected(f)
  BY <1>1 DEF Waiting
<1>4. Waiting'[f] = 0
  <2>1. table[f] \in Slots /\ bytes[table[f]] \in Nat /\ last'[f] = bytes[table[f]] /\ f \in Live'
    BY <1>0, <1>1 DEF Live, TypeOK
  <2>2. Waiting'[f] = Diff(bytes[table[f]], bytes[table[f]])
    BY <1>1, <2>1 DEF Waiting, Uncollected
  <2> QED BY <2>1, <2>2 DEF Diff
<1>5. charged'[f] = charged[f] + Waiting[f]
  BY <1>0, <1>1, <1>3 DEF TypeOK
<1>6. SumOf(charged', Flows) - SumOf(charged, Flows) = charged'[f] - charged[f]
  <2>1. /\ \A g \in Flows : charged[g] \in Int /\ charged'[g] \in Int
        /\ \A g \in Flows \ {f} : charged[g] = charged'[g]
    BY <1>0, <1>1, <1>2 DEF Numbers, TypeOK
  <2> QED BY <2>1, FlowAssumption, SumPoint
<1>7. SumOf(Waiting', Flows) - SumOf(Waiting, Flows) = Waiting'[f] - Waiting[f]
  <2>1. \A g \in Flows : Waiting[g] \in Int /\ Waiting'[g] \in Int
    BY <1>2 DEF Numbers
  <2>2. ASSUME NEW g \in Flows \ {f} PROVE Waiting[g] = Waiting'[g]
    BY <1>0, <1>1, <2>2 DEF Waiting, Live, Uncollected, TypeOK
  <2> QED BY <2>1, <2>2, FlowAssumption, SumPoint
<1>8. /\ charged[f] \in Int /\ Waiting[f] \in Int
      /\ SumOf(charged, Flows) \in Int /\ SumOf(Waiting, Flows) \in Int /\ SumOf(sent, Flows) \in Int
      /\ SumOf(charged', Flows) \in Int /\ SumOf(Waiting', Flows) \in Int
  BY <1>2 DEF Numbers
<1>9. SumOf(charged', Flows) + SumOf(Waiting', Flows) = SumOf(charged, Flows) + SumOf(Waiting, Flows)
  BY <1>4, <1>5, <1>6, <1>7, <1>8
<1> QED BY <1>1, <1>9 DEF Covered

(* A second lookup that finds nothing gives bytes up. *)
LEMMA GiveUpCovers ==
    ASSUME IInv, TypeOK', Covered, NEW c \in Contexts, LookupAgain(c)
    PROVE  Covered'
<1>0. TypeOK
  BY DEF IInv
<1>1. UNCHANGED <<table, bytes, last, charged>> /\ flow[c] \in Flows
  BY <1>0 DEF LookupAgain, collectorVars, TypeOK
<1>2. Numbers /\ Numbers'
  <2>1. (TypeOK => Numbers)'
    BY Amounts, PTL
  <2> QED BY <1>0, <2>1, Amounts
<1>3. \A f \in Flows : sent[f] <= sent'[f]
  <2>1. CASE sent' = sent
    BY <2>1, <1>0 DEF TypeOK
  <2>2. CASE \E n \in Lengths : sent' = [sent EXCEPT ![flow[c]] = @ + n]
    BY <2>2, <1>0, <1>1, FlowAssumption DEF TypeOK
  <2> QED BY <2>1, <2>2 DEF LookupAgain
<1>4. \A f \in Flows : sent[f] \in Int /\ sent'[f] \in Int
  BY <1>2 DEF Numbers
<1>5. SumOf(sent, Flows) <= SumOf(sent', Flows)
  BY <1>3, <1>4, FlowAssumption, SumLeq
<1>6. Waiting' = Waiting
  BY <1>1 DEF Waiting, Live, Uncollected
<1> QED BY <1>1, <1>2, <1>5, <1>6 DEF Covered, Numbers

(* All flows together are never charged more than was sent: evictions, slots that
   change hands under a handler, resets that deltaStats guesses and repeated visits
   of an iteration lose bytes but never charge one twice. *)
THEOREM ChargedOnce == Spec => []NothingChargedTwice
<1>1. Init => Covered
  <2> SUFFICES ASSUME Init PROVE Covered
    OBVIOUS
  <2>1. \A f \in Flows : charged[f] = 0 /\ sent[f] = 0 /\ Waiting[f] = 0
    BY DEF Init, Waiting, Live
  <2>2. SumOf(charged, Flows) = 0 /\ SumOf(sent, Flows) = 0
    BY <2>1, FlowAssumption, SumOfZeros
  <2>3. SumOf(Waiting, Flows) = 0
    BY <2>1, FlowAssumption, SumOfZeros
  <2> QED BY <2>2, <2>3 DEF Covered
<1>2. IInv /\ TypeOK' /\ Covered /\ [Next]_vars => Covered'
  <2> SUFFICES ASSUME IInv, TypeOK', Covered, [Next]_vars PROVE Covered'
    OBVIOUS
  <2>1. CASE UNCHANGED <<table, bytes, last, charged, sent>>
    <3>1. Waiting' = Waiting
      BY <2>1 DEF Waiting, Live, Uncollected
    <3> QED BY <2>1, <3>1 DEF Covered
  <2>2. CASE \E c \in Contexts : Handle(c)
    BY <2>2, CreateCovers, GiveUpCovers, AddCovers DEF Handle
  <2>3. ASSUME NEW f \in Flows, Visit(f) PROVE Covered'
    <3>1. CASE f \in known
      BY <2>3, <3>1, VisitCovers
    <3>2. CASE f \notin known
      BY <2>1, <2>3, <3>2 DEF Visit, kernelVars
    <3> QED BY <3>1, <3>2
  <2>4. CASE \E c \in Contexts : Lookup(c)
    BY <2>1, <2>4 DEF Lookup, collectorVars
  <2>5. CASE BeginWalk \/ EndWalk \/ \E f \in Flows : PodsChange(f)
    BY <2>1, <2>5 DEF BeginWalk, EndWalk, PodsChange, kernelVars, collectorVars
  <2>6. CASE UNCHANGED vars
    BY <2>1, <2>6 DEF vars, kernelVars, collectorVars
  <2> QED BY <2>2, <2>3, <2>4, <2>5, <2>6 DEF Next
<1>3. IInv => TypeOK
  BY DEF IInv
<1>4. IInv /\ Covered => NothingChargedTwice
  BY CoveredSaysIt DEF IInv
<1>5. QED BY <1>1, <1>2, <1>3, <1>4, Invariance, PTL DEF Spec
=============================================================================
