-------------------------- MODULE LossPolicyProofs --------------------------
(***************************************************************************)
(* Proofs about LossPolicy, for every window size and every tolerance.     *)
(***************************************************************************)
EXTENDS LossPolicy, FiniteSetTheorems, TLAPS

\* Shifting keeps a window inside its positions, frees position 0 and forgets at
\* most one bit: the model of `window <<= 1' followed by the mask.
LEMMA ShiftProperties ==
    ASSUME NEW size \in Nat, NEW window \in SUBSET Positions(size)
    PROVE  /\ Shift(window, size) \subseteq Positions(size)
           /\ 0 \notin Shift(window, size)
           /\ IsFiniteSet(window) /\ Cardinality(window) \in Nat
           /\ IsFiniteSet(Shift(window, size))
           /\ Cardinality(Shift(window, size)) \in Nat
           /\ Cardinality(Shift(window, size)) >= Cardinality(window) - 1
<1> DEFINE Kept    == window \ {size - 1}
           Shifted == Shift(window, size)
           f       == [i \in Kept |-> i + 1]
<1>1. IsFiniteSet(window) /\ Cardinality(window) \in Nat
  <2>1. IsFiniteSet(Positions(size))
    BY FS_Interval DEF Positions
  <2>2. IsFiniteSet(window)
    BY <2>1, FS_Subset
  <2>3. QED
    BY <2>2, FS_CardinalityType
<1>2. /\ IsFiniteSet(Kept)
      /\ Cardinality(Kept) >= Cardinality(window) - 1
  BY <1>1, FS_RemoveElement
<1>3. f \in Bijection(Kept, Shifted)
  <2>1. f \in [Kept -> Shifted]
    BY DEF Shift, Positions
  <2>2. \A i, j \in Kept : f[i] = f[j] => i = j
    BY DEF Positions
  <2>3. \A k \in Shifted : \E i \in Kept : f[i] = k
    <3>1. SUFFICES ASSUME NEW k \in Shifted
                   PROVE  \E i \in Kept : f[i] = k
      OBVIOUS
    <3>2. k - 1 \in Kept /\ f[k - 1] = k
      BY <3>1 DEF Shift, Positions
    <3>3. QED
      BY <3>2
  <2>4. QED
    BY <2>1, <2>2, <2>3 DEF Bijection, Injection, Surjection, IsInjective
<1>4. IsFiniteSet(Shifted) /\ Cardinality(Shifted) = Cardinality(Kept)
  BY <1>2, <1>3, FS_Bijection DEF ExistsBijection
<1>5. Cardinality(Shifted) \in Nat
  BY <1>4, FS_CardinalityType
<1>6. Shifted \subseteq Positions(size) /\ 0 \notin Shifted
  BY DEF Shift, Positions
<1>7. QED
  BY <1>1, <1>2, <1>4, <1>5, <1>6

\* An acknowledged send never leaves fewer successes in the window:
\* update_sliding_window(sock, 1).
LEMMA AcknowledgedUpdate ==
    ASSUME NEW size \in Nat, NEW window \in SUBSET Positions(size),
           NEW updated,
           updated = Shift(window, size) \cup ({0} \cap Positions(size))
    PROVE  /\ updated \subseteq Positions(size)
           /\ Cardinality(updated) \in Nat
           /\ Cardinality(updated) >= Cardinality(window)
<1> DEFINE shifted == Shift(window, size)
<1>1. shifted \subseteq Positions(size) /\ 0 \notin shifted
  BY ShiftProperties
<1>2. /\ IsFiniteSet(shifted)
      /\ Cardinality(shifted) \in Nat
      /\ Cardinality(shifted) >= Cardinality(window) - 1
  BY ShiftProperties
<1>3. Cardinality(window) \in Nat
  BY ShiftProperties
<1> HIDE DEF shifted
<1>4. CASE size # 0
  <2>1. 0 \in Positions(size)
    BY <1>4 DEF Positions
  <2>2. updated = shifted \cup {0}
    BY <2>1 DEF shifted
  <2>3. updated \subseteq Positions(size)
    BY <1>1, <2>1, <2>2
  <2>4. Cardinality(updated) = Cardinality(shifted) + 1
    BY <1>1, <1>2, <2>2, FS_AddElement
  <2>5. /\ Cardinality(updated) \in Nat
        /\ Cardinality(updated) >= Cardinality(window)
    BY <1>2, <1>3, <2>4
  <2>6. QED
    BY <2>3, <2>5
<1>5. CASE size = 0
  <2>1. Positions(size) = {}
    BY <1>5 DEF Positions
  <2>2. window = {} /\ updated = {}
    BY <2>1 DEF Shift
  <2>3. Cardinality(updated) = Cardinality(window)
    BY <2>2
  <2>4. /\ Cardinality(updated) \in Nat
        /\ Cardinality(updated) >= Cardinality(window)
    BY <1>3, <2>3
  <2>5. QED
    BY <2>1, <2>2, <2>4
<1>6. QED
  BY <1>4, <1>5

\* An accepted loss leaves at most one success fewer in the window:
\* update_sliding_window(sock, 0).
LEMMA LossUpdate ==
    ASSUME NEW size \in Nat, NEW window \in SUBSET Positions(size),
           NEW updated, updated = update_sliding_window(window, size, FALSE)
    PROVE  /\ updated \subseteq Positions(size)
           /\ Cardinality(updated) \in Nat
           /\ Cardinality(updated) >= Cardinality(window) - 1
<1>1. updated = Shift(window, size)
  BY DEF update_sliding_window
<1>2. QED
  BY <1>1, ShiftProperties

\* Both sets stay inside the positions of the window (the mask of
\* update_sliding_window), whatever the sends end in.
THEOREM TypeCorrect == Spec => []TypeOK
<1> USE WindowAssumption
<1>1. Init => TypeOK
  BY DEF Init, TypeOK
<1>2. TypeOK /\ [Next]_policyVars => TypeOK'
  BY ShiftProperties
  DEF TypeOK, Next, Acknowledged, AcceptLoss, policyVars, Positions, Shift,
      update_sliding_window
<1>3. QED
  BY <1>1, <1>2, PTL DEF Spec

\* The strengthened invariant that carries the bound on the losses.
THEOREM PolicyInvariant == Spec => []PolicyInv
<1> USE WindowAssumption
<1> DEFINE size == sliding_window_size
<1>1. Init => PolicyInv
  BY DEF Init, PolicyInv, TypeOK, LossesAreCovered
<1>2. PolicyInv /\ [Next]_policyVars => PolicyInv'
  <2> SUFFICES ASSUME PolicyInv, [Next]_policyVars
               PROVE  PolicyInv'
    OBVIOUS
  <2>1. sliding_window \in SUBSET Positions(size)
    BY DEF PolicyInv, TypeOK
  <2>2. /\ lost \in SUBSET Positions(size)
        /\ sliding_window_consecutive_loss \in Tolerances
        /\ sliding_window_consecutive_loss \in Nat
    BY DEF PolicyInv, TypeOK
  <2>3. Cardinality(sliding_window) \in Nat
    BY <2>1, ShiftProperties
  <2>4. /\ Shift(lost, size) \subseteq Positions(size)
        /\ 0 \notin Shift(lost, size)
        /\ 0 \notin Shift(sliding_window, size)
        /\ Shift(lost, size) \cap Shift(sliding_window, size) = {}
    BY <2>1, <2>2 DEF Shift, Positions, PolicyInv
  <2>5. CASE Acknowledged
    <3>0. sliding_window_consecutive_loss' = sliding_window_consecutive_loss
      BY <2>5 DEF Acknowledged
    <3>1. /\ sliding_window' \subseteq Positions(size)
          /\ Cardinality(sliding_window') \in Nat
          /\ Cardinality(sliding_window') >= Cardinality(sliding_window)
      BY <2>1, <2>5, AcknowledgedUpdate
      DEF Acknowledged, update_sliding_window
    <3>2. lost' # {} => lost # {}
      BY <2>5 DEF Acknowledged, Shift
    <3>3. LossesAreCovered'
      BY <2>2, <2>3, <3>0, <3>1, <3>2 DEF PolicyInv, LossesAreCovered
    <3>4. TypeOK'
      BY <2>2, <2>4, <2>5, <3>1 DEF Acknowledged, TypeOK
    <3>5. (sliding_window \cap lost = {})'
      BY <2>4, <2>5 DEF Acknowledged, update_sliding_window
    <3>6. QED
      BY <3>3, <3>4, <3>5 DEF PolicyInv
  <2>6. CASE AcceptLoss
    <3>0. sliding_window_consecutive_loss' = sliding_window_consecutive_loss
      BY <2>6 DEF AcceptLoss
    <3>1. /\ sliding_window' \subseteq Positions(size)
          /\ Cardinality(sliding_window') \in Nat
          /\ Cardinality(sliding_window') >= Cardinality(sliding_window) - 1
      BY <2>1, <2>6, LossUpdate DEF AcceptLoss
    <3>2. Cardinality(sliding_window) > size - sliding_window_consecutive_loss
      BY <2>6 DEF AcceptLoss, verify_acceptable_loss
    <3>3. LossesAreCovered'
      BY <2>2, <2>3, <3>0, <3>1, <3>2 DEF LossesAreCovered
    <3>4. TypeOK'
      BY <2>2, <2>4, <2>6, <3>1 DEF AcceptLoss, TypeOK
    <3>5. (sliding_window \cap lost = {})'
      BY <2>4, <2>6 DEF AcceptLoss, update_sliding_window
    <3>6. QED
      BY <3>3, <3>4, <3>5 DEF PolicyInv
  <2>7. CASE UNCHANGED policyVars
    BY <2>7 DEF policyVars, PolicyInv, TypeOK, LossesAreCovered
  <2>8. QED
    BY <2>5, <2>6, <2>7 DEF Next
<1>3. QED
  BY <1>1, <1>2, PTL DEF Spec

\* The promise of the table in sliding_window.c: the losses accepted among any
\* sliding_window_size consecutive sends never exceed the negotiated tolerance.
\* The lost and the acknowledged positions share the window, and once a loss was
\* accepted the acknowledged ones take all of it but the tolerance.
THEOREM LossesAreBounded == Spec => []LossBound
<1> USE WindowAssumption
<1>1. PolicyInv => LossBound
  <2> SUFFICES ASSUME PolicyInv
               PROVE  LossBound
    OBVIOUS
  <2> DEFINE size == sliding_window_size
             all  == sliding_window \cup lost
  <2>1. /\ IsFiniteSet(sliding_window) /\ Cardinality(sliding_window) \in Nat
        /\ IsFiniteSet(lost) /\ Cardinality(lost) \in Nat
    BY ShiftProperties DEF PolicyInv, TypeOK
  <2>2. IsFiniteSet(Positions(size)) /\ Cardinality(Positions(size)) = size
    BY FS_Interval DEF Positions
  <2>3. Cardinality(all) <= size
    BY <2>2, FS_Subset DEF PolicyInv, TypeOK
  <2>4. Cardinality(all) = Cardinality(sliding_window) + Cardinality(lost)
    BY <2>1, FS_Union, FS_EmptySet DEF PolicyInv
  <2>0. sliding_window_consecutive_loss \in Nat
    BY DEF PolicyInv, TypeOK
  <2>5. CASE lost = {}
    BY <2>0, <2>5, FS_EmptySet DEF LossBound
  <2>6. CASE lost # {}
    BY <2>0, <2>1, <2>3, <2>4, <2>6 DEF PolicyInv, LossesAreCovered, LossBound
  <2>7. QED
    BY <2>5, <2>6
<1>2. QED
  BY <1>1, PolicyInvariant, PTL
=============================================================================
